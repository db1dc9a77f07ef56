SPECIFICATION Spec
CONSTANTS
    Turns = {t1, t2}
    Requests <- Together
    MaxAttempts = 1
    MaxEvents = 1
SYMMETRY Symmetry
INVARIANTS
    BusyWhileInFlight
CHECK_DEADLOCK FALSE
