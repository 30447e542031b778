SPECIFICATION RerouteSpec
CONSTANTS
    k1 = k1
    k2 = k2
    b1 = b1
    b2 = b2
    Keys <- TwoKeys
    NoKey = NoKey
    MaxToken = 2
    NoToken = 0
    MaxGeneration = 2
    Bridges <- TwoBridges
    KeysOfClient <- TwoClients
    ResponseIds <- NoKeys
    Payloads <- AnyPayload
    MaxUnsent = 1
INVARIANTS
    RerouteTypeOK
    IndexComplete
    NamedBridgesSignalled
PROPERTIES
    SignalsPersist
