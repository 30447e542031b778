SPECIFICATION FairSpec
CONSTANTS
    k1 = k1
    k2 = k2
    k3 = k3
    a1 = a1
    a2 = a2
    q1 = q1
    Keys <- TwoKeys
    SessionIds <- NoSessionIds
    Accounts <- OneAccount
    NoKey = NoKey
    NoAccount = NoAccount
    Requests <- NoRequests
    Snapshots <- NoneOrOneLive
    MaxKeys = 2
    MaxGeneration = 2
PROPERTIES
    PendingIsSettled
    GenerationMonotone
