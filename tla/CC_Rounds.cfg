\* Two sub-problems over one variable, one running at a time, with a time limit: a
\* round that divides, and one that deletes.
SPECIFICATION Spec
CONSTANTS
    x = x
    y = y
    MaxCpus = 2
    MaxNodes = 4
    MaxWorkers = 2
    Var = {x}
    Formula <- HardOnes
    HasTimeout = TRUE
CHECK_DEADLOCK FALSE
INVARIANTS
    TypeOK
    Covered
    JobsAccounted
    AccountedAnswer
