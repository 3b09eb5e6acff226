--------------------------- MODULE DivideAndConquer ---------------------------
(***************************************************************************)
(* Divide and conquer (-wkr-strat=4): a master interrupts workers that     *)
(* have searched for long, each of which then divides its cube with a      *)
(* slave that is free.  The lists of slaves are protected by               *)
(* mutexListsWorkers; each section under it is one step, as is each under  *)
(* mutexFirstSolution.                                                     *)
(*                                                                         *)
(* The lists are sets: which slave of a list is taken tells no property    *)
(* apart.  A cube is a set of literals.  A solver is sound and complete,   *)
(* and the formula is the set of its models.  The flag of a worker and of  *)
(* its solver are one (LocalPortfolio has both).                           *)
(***************************************************************************)
EXTENDS Integers, FiniteSets

CONSTANTS
    Slave, First,   \* the SequentialWorkers, and slaves[0]
    Var,            \* the variables of the formula
    Formula,        \* the formulas: each the set of its models
    Clone,          \* -copy-mode=2
    Prompt,         \* a released worker is solving after TIME_BEFORE_INTERRUPTING
    HasTimeout      \* -t is given

Assignment == [Var -> BOOLEAN]
Cube == SUBSET (Var \X BOOLEAN)

ASSUME SlaveAssumption   == IsFiniteSet(Slave) /\ First \in Slave
ASSUME FormulaAssumption == Formula \subseteq SUBSET Assignment
ASSUME FlagAssumption    == {Clone, Prompt, HasTimeout} \subseteq BOOLEAN

Results == {"UNKNOWN", "SAT", "UNSAT"}

VARIABLES
    globalEnding, strategyEnding, waitJob,
    finalResult,
    overs, workers,                     \* slaves that are free, that search
    oversSplitting, workersSplitting,   \* ... that a division under way concerns
    nWorkers,
    cubes,
    interrupt,      \* SequentialWorker::interrupt
    solver,         \* the worker has a solver
    pc, wRes,       \* where each worker is, and res of mainWorker
    masterPc, mainPc,
    crashed,        \* join has followed a pointer to nothing
    models,         \* the models of the formula
    claimed         \* the result of the worker that ended the search

flags  == <<globalEnding, strategyEnding, waitJob, finalResult>>
lists  == <<overs, workers, oversSplitting, workersSplitting, nWorkers, cubes>>
slaves == <<interrupt, solver, pc, wRes>>
vars   == <<flags, lists, slaves, masterPc, mainPc, crashed, models, claimed>>

SlavePc == {"top", "test", "wait", "solving", "join", "split", "unsat", "claim", "ending",
            "result", "done"}

TypeOK ==
    /\ {globalEnding, strategyEnding, waitJob, crashed} \subseteq BOOLEAN
    /\ finalResult \in Results /\ claimed \in Results
    /\ overs \subseteq Slave /\ workers \subseteq Slave
    /\ oversSplitting \subseteq Slave /\ workersSplitting \subseteq Slave
    /\ nWorkers \in Nat
    /\ cubes \in [Slave -> Cube]
    /\ interrupt \in [Slave -> BOOLEAN] /\ solver \in [Slave -> BOOLEAN]
    /\ pc \in [Slave -> SlavePc]
    /\ wRes \in [Slave -> Results]
    /\ masterPc \in {"start", "parked", "launch", "test", "lock", "waiting", "done"}
    /\ mainPc \in {"solve", "signal", "poll", "interrupt", "delete", "exited"}
    /\ models \in Formula

Init ==
    /\ globalEnding = FALSE /\ strategyEnding = FALSE /\ waitJob = TRUE
    /\ finalResult = "UNKNOWN"
    /\ overs = {} /\ workers = {} /\ oversSplitting = {} /\ workersSplitting = {}
    /\ nWorkers = 0
    /\ cubes = [w \in Slave |-> {}]
    /\ interrupt = [w \in Slave |-> TRUE]
    /\ solver = [w \in Slave |-> Clone => w = First]
    /\ pc = [w \in Slave |-> "top"] /\ wRes = [w \in Slave |-> "UNKNOWN"]
    /\ masterPc = "start" /\ mainPc = "solve"
    /\ crashed = FALSE
    /\ models \in Formula
    /\ claimed = "UNKNOWN"

-----------------------------------------------------------------------------
Busy == workers \cup workersSplitting

\* The assignments a cube leaves, and the variables it leaves open.
Within(cube) == {a \in Assignment : \A l \in cube : a[l[1]] = l[2]}
Free(cube) == {v \in Var : \A b \in BOOLEAN : <<v, b>> \notin cube}

\* Mutant: those of S are not signalled.
GoAlone(w, next, S) == pc' = [pc EXCEPT ![w] = next]

\* Worker w goes on at next; those of S are released, and wake up if they sleep.
Go(w, next, S) ==
    pc' = [x \in Slave |-> IF x = w THEN next
                           ELSE IF x \in S /\ pc[x] = "wait" THEN "solving" ELSE pc[x]]

Interrupted(S) == [w \in Slave |-> w \in S \/ interrupt[w]]
UnsetInterrupt(S) == [w \in Slave |-> w \notin S /\ interrupt[w]]

\* pthread_cond_signal of mutexCondLists, if the condition holds.
SignalMaster(condition) ==
    masterPc' = IF condition /\ masterPc = "waiting" THEN "lock" ELSE masterPc

-----------------------------------------------------------------------------
\* mainWorker, and SequentialWorker::join

\* What solve has returned is not read any more.
Top(w) ==
    /\ pc[w] = "top"
    /\ Go(w, IF globalEnding THEN "done" ELSE "test", {})
    /\ wRes' = [wRes EXCEPT ![w] = "UNKNOWN"]
    /\ UNCHANGED <<flags, lists, interrupt, solver, masterPc, mainPc, crashed, models,
                   claimed>>

Test(w) ==
    /\ pc[w] = "test"
    /\ Go(w, IF interrupt[w] THEN "wait" ELSE "solving", {})
    /\ UNCHANGED <<flags, lists, interrupt, solver, wRes, masterPc, mainPc, crashed,
                   models, claimed>>

Solved(w) ==
    /\ pc[w] = "solving"
    /\ Go(w, "join", {})
    /\ \E res \in Results :
          /\ wRes' = [wRes EXCEPT ![w] = res]
          /\ \/ res = "UNKNOWN" /\ interrupt[w]
             \/ res = "SAT" /\ models \cap Within(cubes[w]) # {}
             \/ res = "UNSAT" /\ models \cap Within(cubes[w]) = {}
    /\ UNCHANGED <<flags, lists, interrupt, solver, masterPc, mainPc, crashed, models,
                   claimed>>

Join(w) ==
    /\ pc[w] = "join"
    /\ Go(w, CASE globalEnding          -> "top"
               [] ~globalEnding /\ wRes[w] = "UNKNOWN" -> "split"
               [] ~globalEnding /\ wRes[w] = "UNSAT"   -> "unsat"
               [] ~globalEnding /\ wRes[w] = "SAT"     -> "claim", {})
    /\ UNCHANGED <<flags, lists, interrupt, solver, wRes, masterPc, mainPc, crashed,
                   models, claimed>>

-----------------------------------------------------------------------------
\* DivideAndConquer::join

\* Mutants: both halves get the same literal; the division is not announced.
DivideSame(w, o) ==
    \E v \in Var :
        /\ cubes' = [cubes EXCEPT ![w] = @ \cup {<<v, TRUE>>},
                                  ![o] = cubes[w] \cup {<<v, TRUE>>}]
        /\ workers' = workers \cup {w, o}
        /\ nWorkers' = nWorkers + 1
        /\ SignalMaster(overs # {})

DivideSilently(w, o) ==
    \E v \in Var :
        /\ cubes' = [cubes EXCEPT ![w] = @ \cup {<<v, TRUE>>},
                                  ![o] = cubes[w] \cup {<<v, FALSE>>}]
        /\ workers' = workers \cup {w, o}
        /\ nWorkers' = nWorkers + 1
        /\ SignalMaster(FALSE)

\* w, interrupted, divides its cube with slave o, on the variable of getDivisionVariable:
\* one drawn at random may be decided in the cube already.
Divide(w, o) ==
    \E v \in Var :
        /\ cubes' = [cubes EXCEPT ![w] = @ \cup {<<v, TRUE>>},
                                  ![o] = cubes[w] \cup {<<v, FALSE>>}]
        /\ workers' = workers \cup {w, o}
        /\ nWorkers' = nWorkers + 1
        /\ SignalMaster(overs # {})

\* The head of oversSplitting.  If there is none the local pointer over is not
\* initialised, and may still hold the address of any slave ...
Overs == IF oversSplitting = {} THEN Slave ELSE oversSplitting

\* Mutant: only the solver of slave o is used, cloned or not.
SplitUncloned(w) ==
    /\ pc[w] = "split"
    /\ \E o \in Overs :
          /\ oversSplitting' = oversSplitting \ {o}
          /\ workersSplitting' = workersSplitting \ {w}
          /\ Divide(w, o)
          /\ interrupt' = UnsetInterrupt({w, o})
          /\ Go(w, "top", {o})
    /\ UNCHANGED <<flags, overs, solver, wRes, mainPc, crashed, models, claimed>>

Split(w) ==
    /\ pc[w] = "split"
    /\ \E o \in Overs :
          /\ oversSplitting' = oversSplitting \ {o}
          /\ workersSplitting' = workersSplitting \ {w}
          /\ solver' = [solver EXCEPT ![o] = @ \/ Clone]
          /\ Divide(w, o)
          /\ interrupt' = UnsetInterrupt({w, o})
          /\ Go(w, "top", {o})
    /\ UNCHANGED <<flags, overs, wRes, mainPc, crashed, models, claimed>>

\* ... or the pointer leads nowhere.
SplitNothing(w) ==
    /\ pc[w] = "split" /\ oversSplitting = {}
    /\ crashed' = TRUE
    /\ UNCHANGED <<flags, lists, slaves, masterPc, mainPc, models, claimed>>

\* The cube of w is done: w is free, and so is the slave of a division it has
\* become too late for.
Refuted(w) ==
    IF w \in workersSplitting
    THEN \E o \in oversSplitting :
             /\ oversSplitting' = oversSplitting \ {o}
             /\ workersSplitting' = workersSplitting \ {w}
             /\ overs' = overs \cup {w, o}
             /\ UNCHANGED workers
    ELSE /\ workers' = workers \ {w} /\ overs' = overs \cup {w}
         /\ UNCHANGED <<oversSplitting, workersSplitting>>

\* Mutant: w is not told to stop.
UnsatGoesOn(w) ==
    /\ pc[w] = "unsat"
    /\ Refuted(w)
    /\ nWorkers' = nWorkers - 1
    /\ SignalMaster(workers' # {})
    /\ solver' = [solver EXCEPT ![w] = @ /\ (Clone => nWorkers' <= 0)]
    /\ Go(w, IF nWorkers' > 0 THEN "top" ELSE "claim", {})
    /\ UNCHANGED <<flags, cubes, interrupt, wRes, mainPc, crashed, models, claimed>>

Unsat(w) ==
    /\ pc[w] = "unsat"
    /\ Refuted(w)
    /\ nWorkers' = nWorkers - 1
    /\ SignalMaster(workers' # {})
    /\ interrupt' = Interrupted({w})
    /\ solver' = [solver EXCEPT ![w] = @ /\ (Clone => nWorkers' <= 0)]
    /\ Go(w, IF nWorkers' > 0 THEN "top" ELSE "claim", {})
    /\ UNCHANGED <<flags, cubes, wRes, mainPc, crashed, models, claimed>>

\* Under mutexFirstSolution: only the first goes on.
Claim(w) ==
    /\ pc[w] = "claim"
    /\ IF strategyEnding
       THEN Go(w, "top", {}) /\ UNCHANGED <<strategyEnding, interrupt, claimed>>
       ELSE /\ Go(w, "ending", {})
            /\ strategyEnding' = TRUE /\ claimed' = wRes[w]
            /\ interrupt' = Interrupted(Slave)
    /\ UNCHANGED <<globalEnding, waitJob, finalResult, lists, solver, wRes, masterPc,
                   mainPc, crashed, models>>

Ending(w) ==
    /\ pc[w] = "ending"
    /\ Go(w, "result", {})
    /\ globalEnding' = TRUE
    /\ UNCHANGED <<strategyEnding, waitJob, finalResult, lists, interrupt, solver, wRes,
                   masterPc, mainPc, crashed, models, claimed>>

Result(w) ==
    /\ pc[w] = "result"
    /\ Go(w, "top", {})
    /\ finalResult' = wRes[w]
    /\ UNCHANGED <<globalEnding, strategyEnding, waitJob, lists, interrupt, solver, wRes,
                   masterPc, mainPc, crashed, models, claimed>>

Work(w) ==
    \/ Top(w) \/ Test(w) \/ Solved(w) \/ Join(w) \/ Split(w) \/ SplitNothing(w)
    \/ Unsat(w) \/ Claim(w) \/ Ending(w) \/ Result(w)

-----------------------------------------------------------------------------
\* The master

Start ==
    /\ masterPc = "start"
    /\ masterPc' = IF waitJob THEN "parked" ELSE "launch"
    /\ UNCHANGED <<flags, lists, slaves, mainPc, crashed, models, claimed>>

Launch ==
    /\ masterPc = "launch" /\ masterPc' = "test"
    /\ overs' = Slave \ {First} /\ workers' = {First} /\ nWorkers' = nWorkers + 1
    /\ cubes' = [w \in Slave |-> {}]
    /\ interrupt' = UnsetInterrupt({First})
    /\ pc' = [pc EXCEPT ![First] = IF @ = "wait" THEN "solving" ELSE @]
    /\ UNCHANGED <<flags, oversSplitting, workersSplitting, solver, wRes, mainPc, crashed,
                   models, claimed>>

MasterTest ==
    /\ masterPc = "test"
    /\ masterPc' = IF globalEnding \/ strategyEnding THEN "done" ELSE "lock"
    /\ UNCHANGED <<flags, lists, slaves, mainPc, crashed, models, claimed>>

\* Under mutexListsWorkers: wait for work, leave, or sleep.
Rest ==
    /\ masterPc = "lock"
    /\ masterPc' = IF overs = {} \/ workers = {} THEN "waiting"
                   ELSE IF nWorkers = 0 THEN "done" ELSE "test"
    /\ UNCHANGED <<flags, lists, slaves, mainPc, crashed, models, claimed>>

\* Mutant: w is still in workers while it is divided.
TakeKeeps ==
    \E w \in workers, o \in overs :
        /\ masterPc = "lock" /\ masterPc' = "test" /\ nWorkers # 0
        /\ Free(cubes[w]) # {}
        /\ Prompt => pc[w] \notin {"top", "test"}
        /\ overs' = overs \ {o}
        /\ workersSplitting' = workersSplitting \cup {w}
        /\ oversSplitting' = oversSplitting \cup {o}
        /\ interrupt' = Interrupted({w})
        /\ UNCHANGED <<flags, workers, nWorkers, cubes, solver, pc, wRes, mainPc, crashed,
                       models, claimed>>

\* A worker that has searched for TIME_BEFORE_INTERRUPTING is to divide its cube;
\* one that has no variable left does not search for so long.
Take ==
    \E w \in workers, o \in overs :
        /\ masterPc = "lock" /\ masterPc' = "test" /\ nWorkers # 0
        /\ Free(cubes[w]) # {}
        /\ Prompt => pc[w] \notin {"top", "test"}
        /\ overs' = overs \ {o} /\ workers' = workers \ {w}
        /\ workersSplitting' = workersSplitting \cup {w}
        /\ oversSplitting' = oversSplitting \cup {o}
        /\ interrupt' = Interrupted({w})
        /\ UNCHANGED <<flags, nWorkers, cubes, solver, pc, wRes, mainPc, crashed, models,
                       claimed>>

Master == Start \/ Launch \/ MasterTest \/ Rest

-----------------------------------------------------------------------------
\* main: DivideAndConquer::solve, the waiting loop, delete working

Solve ==
    /\ mainPc = "solve" /\ mainPc' = "signal"
    /\ waitJob' = FALSE
    /\ UNCHANGED <<globalEnding, strategyEnding, finalResult, lists, slaves, masterPc,
                   crashed, models, claimed>>

SignalStart ==
    /\ mainPc = "signal" /\ mainPc' = "poll"
    /\ masterPc' = IF masterPc = "parked" THEN "launch" ELSE masterPc
    /\ UNCHANGED <<flags, lists, slaves, crashed, models, claimed>>

Poll ==
    /\ mainPc = "poll" /\ globalEnding
    /\ mainPc' = "delete"
    /\ UNCHANGED <<flags, lists, slaves, masterPc, crashed, models, claimed>>

Timeout ==
    /\ HasTimeout
    /\ mainPc = "poll" /\ ~globalEnding
    /\ mainPc' = "interrupt"
    /\ globalEnding' = TRUE
    /\ UNCHANGED <<strategyEnding, waitJob, finalResult, lists, slaves, masterPc, crashed,
                   models, claimed>>

TimeoutInterrupt ==
    /\ mainPc = "interrupt" /\ mainPc' = "poll"
    /\ interrupt' = Interrupted(Slave)
    /\ UNCHANGED <<flags, lists, solver, pc, wRes, masterPc, crashed, models, claimed>>

\* WorkingStrategy has no virtual destructor: delete working does not run
\* ~DivideAndConquer, which would wait for the master, and the process ends.
DeleteWorking ==
    /\ mainPc = "delete" /\ mainPc' = "exited"
    /\ UNCHANGED <<flags, lists, slaves, masterPc, crashed, models, claimed>>

Main == Solve \/ SignalStart \/ Poll \/ TimeoutInterrupt \/ DeleteWorking

Next ==
    /\ ~crashed /\ mainPc # "exited"
    /\ Main \/ Timeout \/ Master \/ Take \/ \E w \in Slave : Work(w)

Spec == Init /\ [][Next]_vars

\* Every thread that can go on does, and a solver answers in the end; a worker that is
\* divided again and again draws a variable that is open some time.  The master may find
\* its workers too young for ever.
FairSpec ==
    /\ Spec
    /\ WF_vars(Main /\ Next) /\ WF_vars(Master /\ Next)
    /\ \A w \in Slave :
          /\ WF_vars(Work(w) /\ Next)
          /\ SF_vars(Split(w) /\ Next /\ Free(cubes'[w]) # Free(cubes[w]))

-----------------------------------------------------------------------------
\* The answer is that of the formula: UNSAT only when every cube that a division
\* has made has been refuted.  (join of all workers; nWorkers)
AnswerIsRight ==
    /\ finalResult = "SAT" => models # {}
    /\ finalResult = "UNSAT" => models = {}

\* Each slave at work has an open cube.  Until the search ends, dividing them loses
\* none and counts none twice, also where two are equal or one is inconsistent: divide and
\* conquer searches the space.  (Divide, Refuted, nWorkers and the end of join)
OpenCubes == IF masterPc \in {"start", "parked", "launch"} THEN [w \in {First} |-> {}]
             ELSE [w \in Busy |-> cubes[w]]

Search == INSTANCE SearchSpace WITH Searcher <- Slave,
              open <- IF strategyEnding THEN [w \in {} |-> {}] ELSE OpenCubes,
              answer <- claimed
Implements == Search!Spec

Searching == ~strategyEnding /\ masterPc \notin {"start", "parked", "launch"}

\* Every slave is in exactly one of the four lists, each worker that is to divide
\* has a slave to divide with, and nWorkers counts the cubes that are open.
\* (the master and join of several workers, DivideAndConquer.h:81-87)
ListsAgree ==
    Searching =>
        /\ Slave = overs \cup oversSplitting \cup Busy
        /\ overs \cap oversSplitting = {} /\ workers \cap workersSplitting = {}
        /\ (overs \cup oversSplitting) \cap Busy = {}
        /\ Cardinality(workersSplitting) = Cardinality(oversSplitting)
        /\ nWorkers = Cardinality(Busy)

\* A slave that is free does not solve, and no cube waits for a worker that sleeps.
\* (current->setInterrupt in join, the interrupts of the master, solve)
FreeSlavesRest ==
    Searching =>
        /\ \A w \in overs \cup oversSplitting :
              /\ interrupt[w]
              /\ \/ pc[w] \in {"top", "test", "wait", "done"}
                 \/ pc[w] = "claim" /\ Busy = {}
        /\ Prompt /\ ~globalEnding => \A w \in Busy : pc[w] # "wait"

\* A worker that solves has a solver, although slaves that have refuted their cube
\* give theirs up.  (cloneStrategy 2)
SolverAtHand ==
    Searching => \A w \in Slave :
        pc[w] \in {"solving", "join", "split", "unsat"} => solver[w]

\* The master does not sleep while a slave is free and a worker could divide.
\* (the two conditions of pthread_cond_signal in join)
MasterIsWoken ==
    Searching => (masterPc = "waiting" => overs = {} \/ workers = {})

\* The search comes to an end: no cube is left without a worker for ever.
SearchEnds == <>(strategyEnding \/ globalEnding)

\* Not true of the code.  What DivideAndConquer.cpp:245 says: if res is UNKNOWN, this slave has been
\* interrupted to split.  (the interrupts of the first solution)
UnknownIsSplit == \A w \in Slave : pc[w] = "split" => w \in workersSplitting

\* Not true of the code.  What DivideAndConquer.cpp:144 says: if there are no
\* workers any more the problem is solved, and the master leaves.
MasterLeaves == strategyEnding ~> masterPc = "done" \/ crashed
=============================================================================
