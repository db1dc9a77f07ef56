SPECIFICATION Spec
CONSTANTS
    Limit = 8
    Overhead = 2
    Prefix = 2
    FirstChunk = 4
    MinChunk = 2
    Adders = {a1}
    WSClients = {c1}
    MaxEntries = 3
    BroadcastCap = 1
    SendCap = 2
    MaxConns = 3
    Queries <- Asking
    Scenarios <- Deliveries
INVARIANTS
    DeliveredWhole
    UsageExact
    LogFollowed
PROPERTIES
    DeliveryEnds
CHECK_DEADLOCK FALSE
