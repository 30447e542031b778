SPECIFICATION FairSpec
CONSTANTS
    w1 = w1
    w2 = w2
    l1 = l1
    l2 = l2
    Workers <- TwoWorkers
    Requests <- OneRequest
    Locks <- TwoLocks
    NoLock = NoLock
    None = None
    MaxPair = 2
    MaxImports = 1
INVARIANTS
    RefreshTypeOK
    UsedTokenNotPresented
    StoredNotBurned
PROPERTIES
    WorkersFinish
    RetryUsesAnotherPair
