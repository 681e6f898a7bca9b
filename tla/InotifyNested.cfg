SPECIFICATION Spec
CONSTANTS
    top = top
    nested = nested
    other = other
    Dir = {top, nested, other}
    Below <- MCBelow
    Path = {top, nested}
    Excluded <- MCExcluded
    NoCfg = NoCfg
    Worker = {w1, w2}
    MaxCommands = 2
    MaxEvents = 2
INVARIANT NestedWins
CHECK_DEADLOCK FALSE
