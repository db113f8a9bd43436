CONSTANTS
    NodeIds = {n1, n2}
    MachineKeys = {k1, k2, k3}
    RouteKeys = {h1, h2}
    Tokens = {t1, t2}
    RequestIds = {r1}
    DeleteIds = {d1}
    NoNode = NoNode
    TokenTtl = 1
    RotationOverlap = 1
    HubRouteOverlap = 1
    ResultRetention = 1
    AuditRetention = 2
    MaxTime = 2
SPECIFICATION Spec
SYMMETRY Symmetry
INVARIANTS
    TablesSound
    NeverLockedOut
    TombstoneHoldsNoLiveKey
    
    TokenYieldsOneIdentity
PROPERTIES
    RevocationIsTerminal
    SigningKeyContinuity
