\* Three slaves over two variables, solvers cloned, no time limit.
SPECIFICATION Spec
CONSTANTS
    s1 = s1
    s2 = s2
    s3 = s3
    x = x
    y = y
    Slave = {s1, s2, s3}
    First = s1
    Var = {x, y}
    Formula <- HardOnes
    Clone = TRUE
    Prompt = TRUE
    HasTimeout = FALSE
SYMMETRY Symmetry
CHECK_DEADLOCK FALSE
INVARIANTS
    TypeOK
    AnswerIsRight
    ListsAgree
    FreeSlavesRest
    SolverAtHand
    MasterIsWoken
PROPERTY Implements
