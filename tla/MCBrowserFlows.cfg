CONSTANTS
    Flows = {r1, r2}
    None = None
    NumChans = 1
    IdleTarget = 1
    MaxChannels = 1
    MaxSessions = 2
    MaxTrouble = 1
    WebFlows = {f1}
    HubLimit = 1
    IngressLimit = 1
    BodyFrames = 7
    SoftMark = 2
    ResumeBelow = 1
    HardCap = 4
    InFlight = 1
SPECIFICATION FlowsSpec
INVARIANTS
    BodyKept
PROPERTIES
    FlowsEnd
    TransferEnds
CHECK_DEADLOCK FALSE
