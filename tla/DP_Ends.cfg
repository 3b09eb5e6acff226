\* Two ranks of one solver thread each, no time limit, under fairness.
SPECIFICATION FairSpec
CONSTANTS
    w1 = w1
    w2 = w2
    NumRanks = 2
    Worker = {w1, w2}
    RankOf <- TwoRanks
    Answer = "SAT"
    HasTimeout = FALSE
    NoModel = NoModel
INVARIANTS
    TypeOK
    StopIsLast
    ResultHasModel
PROPERTY
    AnswerEndsAll
