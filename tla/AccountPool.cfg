SPECIFICATION Spec
CONSTANTS
    a1 = a1
    a2 = a2
    c1 = c1
    c2 = c2
    Accounts <- TwoAccounts
    NoAccount = NoAccount
    Clients <- TwoClients
    KindsOf <- AnyKind
    MaxAttempts = 2
    LeavePoints <- SafePoints
    MaxReleases = 1
SYMMETRY AnyAccountAndClient
INVARIANTS
    PoolTypeOK
    InflightExact
PROPERTIES
    OnlyEligibleAcquired
    
    RequestsDescend
