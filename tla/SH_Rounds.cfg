\* Divide and conquer with one sharer, cube and conquer with two, and portfolios with one
\* and two, over three solvers and three clauses of 1, 2 and 2 literals: two literals a
\* round, one clause of two a bucket.
SPECIFICATION FairSpec
CONSTANTS
    a = a
    b = b
    c = c
    one = one
    two = two
    three = three
    None = None
    NumSharers = 2
    Solver = {a, b, c}
    Clause = {one, two, three}
    Size <- Lengths
    LiteralPerRound = 2
    BucketLimit = 3
    Setup <- Setups
CHECK_DEADLOCK FALSE
INVARIANTS
    TypeOK
    SolverRefs
    NoDeletedSolver
    BestSelection
    ReachesTheOthers
PROPERTY GivenUpIsDeleted
