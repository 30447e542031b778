SPECIFICATION SpecWithoutRetries
CONSTANTS
    k1 = k1
    k2 = k2
    k3 = k3
    a1 = a1
    a2 = a2
    q1 = q1
    Keys <- TwoKeys
    SessionIds <- NoSessionIds
    Accounts <- TwoAccounts
    NoKey = NoKey
    NoAccount = NoAccount
    Requests <- OneRequest
    Snapshots <- NoneLive
    MaxKeys = 2
    MaxGeneration = 1
SYMMETRY TwoKeySymmetry
INVARIANTS
    TypeOK
    TreesWellFormed
    AffinityNotAhead
    RerouteTreeUniform
    ObsoleteBindRefused
PROPERTIES
    ImplementsRouteEpochs
