SPECIFICATION Spec
CONSTANTS
    Handlers = {h1, h2}
    Status = {"active", "closed"}
    AgentSessions = {"native"}
    MaxHeap = 4
    MaxInode = 3
    MaxCrash = 1
SYMMETRY Symmetry
INVARIANTS
    RecordWhole
    AckedNotLost
    CacheCoherent
CHECK_DEADLOCK FALSE
