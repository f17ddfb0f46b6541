SPECIFICATION Spec
CONSTANTS
    Worker = {w1, w2}
    Request = {r1, r2}
    Kind = {"options", "routed", "unrouted"}
    Nobody = Nobody
    MaxOps = 3
    NetCalls = TRUE
    SlowPaths = TRUE
SYMMETRY ServerSymmetry
INVARIANTS TypeOK GuardDiscipline IncrementsCounted RequestInOnePlace
PROPERTY ImplementsService
\* The process ends, all workers may die, and a net call may block for ever.
CHECK_DEADLOCK FALSE
