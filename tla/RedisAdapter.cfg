SPECIFICATION AdapterSpec
CONSTANTS
    Server = {s1, s2}
    Client = {c1, c2}
    Shared = Shared
    NoCall = NoCall
    MaxClientCalls = 1
INVARIANT HashExpires
PROPERTIES ReturnedEverywhere MissIsReal KeysComplete
