\* Two workers whose solvers keep an interrupt (MiniSat, Lingeling), with -t.
\* A process that has ended takes no step.
SPECIFICATION FairSpec
CONSTANTS
    NumWorkers = 2
    Answer = "SAT"
    ClearsOnSolve = FALSE
    HasTimeout = TRUE
CHECK_DEADLOCK FALSE
INVARIANTS
    TypeOK
    NoLostWakeup
    InterruptReaches
    UnknownIsExcused
PROPERTIES
    AnswerIsPrinted
    PrintedThenEnds
