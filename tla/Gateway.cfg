SPECIFICATION Spec
CONSTANTS
    Scenarios <- GatewayScenarios
    MaxRetries = 2
    MaxSessions = 1
    MaxChunks = 5
    MaxRequests = 5
    NoSid = NoSid
    Lifetime = 4
    Threshold = 2
    MaxCerts = 3
INVARIANTS
    AnswerWellFormed
    ConversionFaithful
    SessionsSound
    CertCurrent
PROPERTIES
    RequestEnds
CHECK_DEADLOCK FALSE
