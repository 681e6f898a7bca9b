SPECIFICATION Spec
CONSTANTS
    Plugin = {p}
    InoPlug = {i}
    Shared = {p}
    Context = {r1, r2}
    Config = Config
    NoOne = NoOne
    MaxLoads = 2
    MaxOutside = 2
INVARIANTS Covered DisabledStaysDown OneOwner
PROPERTIES StopReaches
SYMMETRY ContextSymmetry
CHECK_DEADLOCK FALSE
