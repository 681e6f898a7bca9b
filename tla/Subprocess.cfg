SPECIFICATION ChildFairSpec
CONSTANTS
    Reader = {stdout, stderr}
    NoCode = NoCode
INVARIANTS ChildReaped TrueMeansSuccess
PROPERTIES CallReturns
CHECK_DEADLOCK FALSE
