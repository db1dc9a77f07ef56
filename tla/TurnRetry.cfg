SPECIFICATION Spec
CONSTANTS
    Turns = {t1, t2}
    Requests <- Retried
    MaxAttempts = 2
    MaxEvents = 2
SYMMETRY Symmetry
INVARIANTS
    OneTurnAtATime
    RetryExact
    OutcomeOfTurn
CHECK_DEADLOCK FALSE
