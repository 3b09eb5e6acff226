\* Two ranks of one solver thread each, with a time limit.
SPECIFICATION Spec
CONSTANTS
    w1 = w1
    w2 = w2
    NumRanks = 2
    Worker = {w1, w2}
    RankOf <- TwoRanks
    Answer = "SAT"
    HasTimeout = TRUE
    NoModel = NoModel
INVARIANTS
    AnswerNotLost
