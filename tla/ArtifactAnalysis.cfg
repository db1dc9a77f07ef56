SPECIFICATION Spec
CONSTANTS
    Keys = {"k1", "k2"}
    Contents = {"a", "b", "c"}
    SizeOf <- MCSizeOf
    Scenarios <- MCScenarios
    MaxTurns = 2
    MaxCalls = 2
INVARIANTS
    TierOrder
    NothingMissed
