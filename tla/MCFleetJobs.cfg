CONSTANTS
    Jobs = {j1}
    Nodes = {n1, n2, n3, n4}
    MaxConcurrent = 2
SPECIFICATION FairSpec
INVARIANTS
    AccountingSound
    PoolBusy
    ReportedOnce
PROPERTIES
    KeepsPromise
CHECK_DEADLOCK FALSE
