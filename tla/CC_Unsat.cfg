\* As CC_Rounds: a worker reports its sub-problem twice.
SPECIFICATION Spec
CONSTANTS
    x = x
    y = y
    MaxCpus = 2
    MaxNodes = 4
    MaxWorkers = 2
    Var = {x}
    Formula <- HardOnes
    HasTimeout = FALSE
CHECK_DEADLOCK FALSE
INVARIANT NoneLeft
