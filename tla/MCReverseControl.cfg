CONSTANTS
    Ids = {s1, s2}
    None = None
    MaxQueue = 2
    MaxAwaits = 1
    MaxCuts = 1
    MaxTrouble = 2
SPECIFICATION FairSpec
INVARIANTS
    GenerationsInOrder
PROPERTIES
    LateEventsIgnored
    SettlesUnlessCut
