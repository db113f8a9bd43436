CONSTANTS
    Flows = {r1, r2}
    None = None
    NumChans = 2
    IdleTarget = 1
    MaxChannels = 2
    MaxSessions = 2
    MaxTrouble = 1
SPECIFICATION Spec
INVARIANTS
    BodyReachesItsRequest
CHECK_DEADLOCK FALSE
