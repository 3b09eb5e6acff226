\* Two producers, as with a sharer per solver, as long as no address is reused.
SPECIFICATION Spec
CONSTANTS
    Producer = {p1, p2}
    Consumer = {c}
    Clause = {c1, c2, c3}
    Node = {n1, n2, n3, n4}
    Reuse = FALSE
    Null = Null
SYMMETRY Symmetry
INVARIANTS
    SizeAccounts
PROPERTIES
    IsQueue
