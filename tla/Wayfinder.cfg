SPECIFICATION Spec
CONSTANTS
    Scenarios <- Wayfinder
    MaxIterations = 3
    MaxChunkMsgs = 2
INVARIANTS
    ContextWellFormed
    HistoryKept
    PlanSound
PROPERTIES
    HistoryImmutable
    RunEnds
CHECK_DEADLOCK FALSE
