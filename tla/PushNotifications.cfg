SPECIFICATION FairSpec
CONSTANTS
    http = http
    custom = custom
    h1 = h1
    h2 = h2
    h3 = h3
    Name = {n1, n2}
    Caller = {c1}
    Scheme = {http, custom}
    Handler = {h1, h2, h3}
    Handlers <- MCHandlers
    LegacyOnly = {h3}
    NoCaller = NoCaller
    NoName = NoName
    MaxCalls = 2
    MaxChanges = 2
INVARIANTS StrictDelivers OwnVariables
PROPERTIES QueuedAreCalled CallsReturn
CHECK_DEADLOCK FALSE
