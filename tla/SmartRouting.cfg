SPECIFICATION Spec
CONSTANTS
    a1 = a1
    a2 = a2
    Accounts <- TwoAccounts
    Order <- ByAge
    None = none
    Garbled = garbled
    Telemetry <- FourReports
    Freshness = 1
    Skew = 1
    Unknown = 100
    Penalty = 110
    Cooldowns = {1}
    MaxTime = 2
    MaxWaiting = 1
    MaxInflight = 3
PROPERTIES
    UnknownIsNotUnused
    LoadStaysBounded
    OldClockTakesNoBarredAccount
