SPECIFICATION Spec
CONSTANTS
    Fiber = {f1, f2, f3}
    Main = Main
    Func = Func
    None = None
    MaxOps = 10
    MaxDepth = 5
SYMMETRY FiberSymmetry
INVARIANTS OneOwner ResultForAsker DeliveredInOrder PanicNeedsCall
PROPERTY FinishedNeverRuns
\* The program ends, or the thread panics.
CHECK_DEADLOCK FALSE
