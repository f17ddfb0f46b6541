SPECIFICATION FairSpec
CONSTANTS
    Worker = {w1, w2}
    Request = {r1, r2}
    Kind = {"options", "routed"}
    Nobody = Nobody
    MaxOps = 2
    NetCalls = FALSE
    SlowPaths = FALSE
PROPERTIES EveryRequestAnswered TakenIsAnswered ShutdownStopsWorkers
\* The process ends, and all workers may die.
CHECK_DEADLOCK FALSE
