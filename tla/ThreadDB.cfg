SPECIFICATION Spec
CONSTANTS
    Thread = {t1, t2, t3}
    Ident = {i1, i2}
    NoThread = NoThread
    MaxConns = 3
    MaxWrites = 1
    Column = {name, tag}
    Char = {"a", "%", "_", "!"}
    MaxLength = 2
    Null = Null
INVARIANTS NoLeak StatementsAsAsked
PROPERTIES LiveKept OwnTransaction SweepComplete
CHECK_DEADLOCK FALSE
