SPECIFICATION FairRerouteSpec
CONSTANTS
    k1 = k1
    k2 = k2
    b1 = b1
    b2 = b2
    Keys <- TwoKeys
    NoKey = NoKey
    MaxToken = 3
    NoToken = 0
    MaxGeneration = 2
    Bridges <- OneBridge
    KeysOfClient <- FirstKey
    ResponseIds <- SecondKey
    Payloads <- AnyPayload
    MaxUnsent = 1
PROPERTIES
    TurnsGetThrough
