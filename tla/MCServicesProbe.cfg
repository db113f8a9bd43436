CONSTANTS
    Requests = {r1, r2}
    NoRequest = NoRequest
    Skew = 1
    Retention = 3
    MaxTime = 6
    Versions = {"v1", "v2"}
    Unset = Unset
    NeverHeard = NeverHeard
    Reports <- MCReports
    Supported = {"v1", "v2"}
    StaleAfter = 1
    LostAfter = 2
    ReportStaleAfter = 2
    ReportKept = 4
    MaxReports = 2
    Targets = {"t1", "t2"}
    NoTarget = NoTarget
    FailureThreshold = 2
    MaxKeys = 2
    RouteNonces = {n1, n2}
    RouteSkew = 1
    RouteRetention = 2
    MaxRouteNow = 5
    Codes = {"c1", "c2"}
    CodeTTL = 1
    Grace = 1
    MaxFailed = 2
    LockFor = 2
    MaxPairingNow = 5
    MaxRecords = 2
    LimiterKeys = {"k1", "k2"}
    WindowLimit = 2
    WindowLength = 2
    LongestWindow = 3
    MaxWindows = 1
    MaxLimiterNow = 5
    Principals = {"p1", "p2"}
    SessionTTL = 3
    SessionIdle = 2
    MaxSessionIds = 2
    MaxSessionNow = 6
    WebFlows = {f1}
    HubLimit = 1
    IngressLimit = 1
    Runners = {w1, w2}
    NoRunner = NoRunner
    MaxCommits = 3
SPECIFICATION ReachSpec
PROPERTIES
    ProbingFlagResets
CHECK_DEADLOCK FALSE
