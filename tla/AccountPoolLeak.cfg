SPECIFICATION Spec
CONSTANTS
    a1 = a1
    a2 = a2
    c1 = c1
    c2 = c2
    Accounts <- TwoAccounts
    NoAccount = NoAccount
    Clients <- OneClient
    KindsOf <- AnyKind
    MaxAttempts = 2
    LeavePoints <- AcquiredToo
    MaxReleases = 1
INVARIANTS
    IdlePoolIsFree
