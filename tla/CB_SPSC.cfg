\* One producer, one consumer, addresses reused: a solver and its sharer.
SPECIFICATION FairSpec
CONSTANTS
    Producer = {p}
    Consumer = {c}
    Clause = {c1, c2, c3}
    Node = {n1, n2, n3}
    Reuse = TRUE
    Null = Null
INVARIANTS
    TypeOK
    NoReclaimedAccess
    AnnouncedIsDelivered
PROPERTIES
    LinkedIsTaken
