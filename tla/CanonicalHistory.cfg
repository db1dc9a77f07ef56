SPECIFICATION Spec
CONSTANTS
    Agents = {a1, a2}
    EventKinds = {"text", "tool_use", "system"}
    MaxTurns = 3
    MaxRaced = 1
    MaxEvents = 2
    MaxThreads = 3
    MaxFaults = 1
    MaxPatches = 2
SYMMETRY Symmetry
INVARIANTS
    TotalCovered
    ContextExact
    NothingLost
PROPERTIES
    IsLog
CHECK_DEADLOCK FALSE
