SPECIFICATION FairSpec
CONSTANTS
    Turns = {t1}
    Requests <- Clients
    MaxAttempts = 2
    MaxEvents = 1
INVARIANTS
    EndsExplicit
    BusyAccounted
PROPERTIES
    TurnsEnd
CHECK_DEADLOCK FALSE
