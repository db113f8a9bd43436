CONSTANTS
    NodeIds = {n1}
    MachineKeys = {k1, k2, k3}
    RouteKeys = {h1, h2, h3}
    Tokens = {t1, t2}
    RequestIds = {r1}
    DeleteIds = {d1}
    NoNode = NoNode
    NoKey = NoKey
    NoTok = NoTok
    MaxStale = 1
    TokenTtl = 1
    RotationOverlap = 1
    HubRouteOverlap = 1
    ResultRetention = 3
    AuditRetention = 3
    MaxTime = 1
SPECIFICATION NodeSpec
SYMMETRY Symmetry
INVARIANTS
    StoreSound
    
    SigningKeyDurablyKnown
