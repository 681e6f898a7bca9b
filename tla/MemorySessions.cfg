SPECIFICATION Spec
CONSTANTS
    Client = {c1, c2}
    Token = {t1, t2}
    NoToken = NoToken
    NoClient = NoClient
    IdleTTL = 2
    AbsoluteTTL = 3
    Second = 2
    MaxClock = 7
    Capacity = 1
SYMMETRY Symmetry
INVARIANTS GrantWithinLifetime GrantHonoured CapacityRespected
PROPERTIES ImplementsContract
