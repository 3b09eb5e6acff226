\* Two solvers, one of whose clauses other ranks also know.
SPECIFICATION Spec
CONSTANTS
    c1 = c1
    c2 = c2
    NumSolvers = 2
    FirstId = 0
    Clause = {c1, c2}
    Remote = {c1}
    Bit = {1, 2}
    Bits <- Overlap
    Object = {o1, o2}
SYMMETRY Symmetry
CHECK_DEADLOCK FALSE
INVARIANTS
    TypeOK
    RefsAreHolders
    SharedReachesAll
    NeverSentBack
PROPERTIES
    NeverGivenTwice
