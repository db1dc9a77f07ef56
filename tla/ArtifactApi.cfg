SPECIFICATION Spec
CONSTANTS
    Keys <- MCKeys
    Aliases <- MCAliases
    Scenarios <- MCScenarios
    Filters <- MCFilters
    MaxTime = 4
INVARIANTS
    HistoryExact
    StorageSound
