\* Two slaves over two variables, solvers reused, with a time limit, under fairness.
SPECIFICATION FairSpec
CONSTANTS
    s1 = s1
    s2 = s2
    s3 = s3
    x = x
    y = y
    Slave = {s1, s2}
    First = s1
    Var = {x, y}
    Formula <- HardOnes
    Clone = FALSE
    Prompt = TRUE
    HasTimeout = TRUE
CHECK_DEADLOCK FALSE
PROPERTIES
    SearchEnds
