SPECIFICATION MCSpec
CONSTANTS
    r1 = r1
    r2 = r2
    Readers = {r1, r2}
    StopOnUserInput = {r1}
    ChanCap = 1
    AgentTypes = {"text", "user_input", "tool_use", "tool_result", "result"}
    HeartbeatInterval = 1
    MaxSource = 4
    MaxBeats = 1
    MaxRead = 2
CHECK_DEADLOCK FALSE
INVARIANTS
    DeliveredInOrder
    HeartbeatInsideTool
    StopsAtUserInput
    ClosedSawAll
PROPERTIES
    DoneDrains
