SPECIFICATION Spec
CONSTANTS
    Client = {c1, c2}
    Token = {t1, t2}
    NoToken = NoToken
    IdleTTL = 2
    AbsoluteTTL = 2
    Second = 2
    MaxClock = 5
    MaxLost = 1
SYMMETRY Symmetry
INVARIANTS GrantHonoured
PROPERTIES ImplementsContract
