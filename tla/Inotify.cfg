SPECIFICATION FairSpec
CONSTANTS
    top = top
    nested = nested
    other = other
    Dir = {top, nested, other}
    Below <- MCBelow
    Path = {top, nested}
    Excluded <- MCExcluded
    NoCfg = NoCfg
    Worker = {w1, w2}
    MaxCommands = 3
    MaxEvents = 2
INVARIANTS CallsIsolated AtMostOneLate RemovalFindsRecords
PROPERTIES ThreadStops ScanSettles
CHECK_DEADLOCK FALSE
