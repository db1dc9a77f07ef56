SPECIFICATION Spec
CONSTANTS
    Scenarios <- Orderly
INVARIANTS
    ReportTruthful
    ShutdownOrderly
PROPERTIES
    ProcessEnds
CHECK_DEADLOCK FALSE
