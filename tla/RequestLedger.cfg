SPECIFICATION FairSpec
CONSTANTS
    a1 = a1
    a2 = a2
    Accounts <- TwoAccounts
    NoAccount = NoAccount
    None = None
    RateCard <- Card
    MinCacheable = 2
    LongContext = 4
    MaxInt = 200
    Daemon = daemon
    Migrator = migrator
    Requests <- ThreeRequests
    OldLogs <- ThreeOldLogs
    OldPruned = 1
    MaxRows = 4
    BatchSize = 2
INVARIANTS
    LedgerTypeOK
    CountsPartition
    CostsAddUp
    StoredRangesHold
PROPERTIES
    BackfillEnds
