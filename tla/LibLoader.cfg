SPECIFICATION Spec
CONSTANTS
    Thread = {t1, t2}
    File = {a, b}
    NoFile = NoFile
    MaxLoads = 2
INVARIANTS FailedRemoved ExecutesOnce
CHECK_DEADLOCK FALSE
