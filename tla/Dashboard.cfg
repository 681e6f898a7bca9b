SPECIFICATION DashboardFairSpec
CONSTANTS
    Key = {k1, k2, k3}
    NoKey = NoKey
    MaxVersion = 2
    MaxCalls = 2
    MaxQueue = 2
INVARIANTS DetailsCurrent
PROPERTIES SelectionKept BusyEnds
CHECK_DEADLOCK FALSE
