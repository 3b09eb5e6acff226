---------------------------- MODULE CubeAndConquer ----------------------------
(***************************************************************************)
(* Cube and conquer (-wkr-strat=2): slaves[0] searches the whole formula   *)
(* while a master, round after round, interrupts the workers of the        *)
(* sub-problems, deletes those whose sub-problem has been refuted, divides *)
(* sub-problems by cloning solvers and launches as many workers as there   *)
(* are cpus.  No mutex protects the vectors and counters that the workers' *)
(* join shares with the master.                                            *)
(*                                                                         *)
(* Workers are numbered in the order they are created, slaves[0] is 0.     *)
(* slaves holds 0 and the members of workers, which it follows.  A         *)
(* sub-problem is the set of its unit literals; a solver is sound and      *)
(* complete, and the formula is the set of its models.  The flag of a      *)
(* worker and of its solver are one (LocalPortfolio has both).             *)
(***************************************************************************)
EXTENDS Integers, Sequences, FiniteSets

CONSTANTS
    MaxCpus,
    MaxNodes,       \* 8 * MaxCpus in the constructor
    MaxWorkers,     \* bound: workers created
    Var,            \* the variables of the formula
    Formula,        \* the formulas: each the set of its models
    HasTimeout      \* -t is given

Worker  == 0 .. MaxWorkers
Literal == Var \X BOOLEAN
Cube    == SUBSET Literal
Assignment == [Var -> BOOLEAN]

ASSUME BoundAssumption   == {MaxCpus, MaxNodes, MaxWorkers} \subseteq Nat \ {0}
ASSUME FormulaAssumption == Formula \subseteq SUBSET Assignment
ASSUME FlagAssumption    == HasTimeout \in BOOLEAN

Results == {"UNKNOWN", "SAT", "UNSAT"}

VARIABLES
    globalEnding, strategyEnding, waitJob, finalResult,
    nJobs, next,        \* sub-problems left, and the index of the next to launch
    over, workers,
    created,            \* workers created, slaves[0] aside
    interrupt,          \* SequentialWorker::interrupt
    cube, toAdd,        \* units of the worker's solver, and its clausesToAdd
    pc, wRes,           \* where each worker is, and res of mainWorker
    masterPc, at,       \* where the master is, and the index its loop has reached
    targets,
    mainPc, output,     \* where main is, and the result it has printed
    crashed,            \* an index out of range, or a second delete
    models,             \* the models of the formula
    reported,           \* who has decremented nJobs
    slips               \* what has gone wrong with nJobs: see Count and Left

flags  == <<globalEnding, strategyEnding, waitJob, finalResult>>
counts == <<nJobs, next, reported, slips>>
lists  == <<over, workers, created>>
solver == <<cube, toAdd>>
slaves == <<interrupt, solver, pc, wRes>>
master == <<masterPc, at, targets>>
main   == <<mainPc, output>>
vars   == <<flags, counts, lists, slaves, master, main, crashed, models>>

WorkerPc == {"top", "wait", "enter", "solving", "join", "count", "left", "next",
             "pick", "advance", "claim", "ending", "result", "done"}
MasterPc == {"start", "parked", "setup", "portfolio", "root", "test", "interrupt", "wait",
             "erase", "delete", "divide", "count", "launch", "rest", "done"}

TypeOK ==
    /\ {globalEnding, strategyEnding, waitJob, crashed} \subseteq BOOLEAN
    /\ finalResult \in Results
    /\ nJobs \in Int /\ next \in Nat
    /\ over \in Seq(Worker) /\ workers \in Seq(Worker) /\ created \in Worker
    /\ interrupt \in [Worker -> BOOLEAN]
    /\ cube \in [Worker -> Cube] /\ toAdd \in [Worker -> Cube]
    /\ pc \in [Worker -> WorkerPc] /\ wRes \in [Worker -> Results]
    /\ masterPc \in MasterPc /\ at \in Nat \ {0}
    /\ targets \in Seq(Worker)
    /\ mainPc \in {"solve", "signal", "poll", "interrupt", "print", "exited"}
    /\ output \in Results \cup {"none"}
    /\ models \in Formula
    /\ reported \subseteq Worker /\ slips \subseteq {"twice", "early"}

\* strategyEnding and next are not initialised.
Init ==
    /\ globalEnding = FALSE /\ strategyEnding \in BOOLEAN /\ waitJob = TRUE
    /\ finalResult = "UNKNOWN"
    /\ nJobs = 0 /\ next \in 0 .. 1 /\ reported = {} /\ slips = {}
    /\ over = <<>> /\ workers = <<>> /\ created = 0
    /\ interrupt = [w \in Worker |-> TRUE]
    /\ cube = [w \in Worker |-> {}] /\ toAdd = [w \in Worker |-> {}]
    /\ pc = [w \in Worker |-> "top"] /\ wRes = [w \in Worker |-> "UNKNOWN"]
    /\ masterPc = "start" /\ at = 1 /\ targets = <<>>
    /\ mainPc = "solve" /\ output = "none"
    /\ crashed = FALSE
    /\ models \in Formula

-----------------------------------------------------------------------------
Members(s) == {s[i] : i \in DOMAIN s}
Slaves == {0} \cup Members(workers)

\* The assignments a worker searches: those its units, loaded or not, leave.
Within(c) == {a \in Assignment : \A l \in c : a[l[1]] = l[2]}
Region(w) == Within(cube[w] \cup toAdd[w])

\* std::remove and erase of w, which occurs once at most.
EraseAt(s, i) == SubSeq(s, 1, i - 1) \o SubSeq(s, i + 1, Len(s))
Without(s, w) ==
    IF w \in Members(s) THEN EraseAt(s, CHOOSE i \in DOMAIN s : s[i] = w) ELSE s

Negation(l) == <<l[1], ~l[2]>>

Go(w, from, to) == pc[w] = from /\ pc' = [pc EXCEPT ![w] = to]
MasterGo(from, to) == masterPc = from /\ masterPc' = to

\* SequentialWorker::solve of worker v: released, and woken up if it sleeps.
Release(v) ==
    /\ interrupt' = [interrupt EXCEPT ![v] = FALSE]
    /\ pc' = [pc EXCEPT ![v] = IF @ = "wait" THEN "enter" ELSE @]

-----------------------------------------------------------------------------
\* mainWorker of a worker that exists, and SequentialWorker::join

\* res is forgotten: solve assigns it before it is read.
Top(w) ==
    /\ Go(w, "top", IF globalEnding THEN "done" ELSE IF interrupt[w] THEN "wait" ELSE "enter")
    /\ wRes' = [wRes EXCEPT ![w] = "UNKNOWN"]
    /\ UNCHANGED <<flags, counts, lists, interrupt, solver, master, main, crashed, models>>

\* waitInterruptLock is taken, and solve loads clausesToAdd.
Enter(w) ==
    /\ Go(w, "enter", "solving")
    /\ cube' = [cube EXCEPT ![w] = @ \cup toAdd[w]]
    /\ toAdd' = [toAdd EXCEPT ![w] = {}]
    /\ UNCHANGED <<flags, counts, lists, interrupt, wRes, master, main, crashed, models>>

\* addClause interrupts the solver too.
Solved(w) ==
    /\ Go(w, "solving", "join")
    /\ \E res \in Results :
          /\ wRes' = [wRes EXCEPT ![w] = res]
          /\ \/ res = "UNKNOWN" /\ (interrupt[w] \/ toAdd[w] # {})
             \/ res = "SAT" /\ models \cap Within(cube[w]) # {}
             \/ res = "UNSAT" /\ models \cap Within(cube[w]) = {}
    /\ UNCHANGED <<flags, counts, lists, interrupt, solver, master, main, crashed, models>>

-----------------------------------------------------------------------------
\* CubeAndConquer::join

Join(w) ==
    /\ Go(w, "join", IF globalEnding \/ wRes[w] = "UNKNOWN" \/ strategyEnding THEN "top"
                     ELSE IF wRes[w] = "UNSAT" /\ w # 0 THEN "count" ELSE "claim")
    /\ UNCHANGED <<flags, counts, lists, interrupt, solver, wRes, master, main, crashed,
                   models>>

\* A worker is not interrupted once its sub-problem is refuted, and so does it again.
Count(w) ==
    /\ Go(w, "count", "left")
    /\ nJobs' = nJobs - 1
    /\ reported' = reported \cup {w}
    /\ slips' = slips \cup {s \in {"twice"} : w \in reported}
    /\ UNCHANGED <<flags, next, lists, interrupt, solver, wRes, master, main, crashed,
                   models>>

\* Mutant: one sub-problem that is left is none.
LeftOne(w) ==
    /\ Go(w, "left", IF nJobs > 1 THEN "next" ELSE "claim")
    /\ over' = IF nJobs > 1 THEN Append(over, w) ELSE over
    /\ UNCHANGED <<flags, counts, workers, created, interrupt, solver, wRes, master, main,
                   crashed, models>>

\* over.push_back: two of them at the same time may lose one of the workers.  None
\* may be left although the master is about to count one that it has made.
Left(w) ==
    /\ Go(w, "left", IF nJobs > 0 THEN "next" ELSE "claim")
    /\ \/ over' = IF nJobs > 0 THEN Append(over, w) ELSE over
       \/ over' = over /\ \E v \in Worker \ {w} : pc[v] = "left"
    /\ slips' = slips \cup {s \in {"early"} : nJobs <= 0 /\ masterPc = "count"}
    /\ UNCHANGED <<flags, nJobs, next, reported, workers, created, interrupt, solver, wRes,
                   master, main, crashed, models>>

NextTest(w) ==
    /\ Go(w, "next", IF next < Len(workers) THEN "pick" ELSE "top")
    /\ UNCHANGED <<flags, counts, lists, interrupt, solver, wRes, master, main, crashed,
                   models>>

\* workers[next] is released, whichever it is now ...
Pick(w) ==
    /\ pc[w] = "pick" /\ next < Len(workers)
    /\ LET v == workers[next + 1] IN
          /\ interrupt' = [interrupt EXCEPT ![v] = FALSE]
          /\ pc' = [pc EXCEPT ![v] = IF @ = "wait" THEN "enter" ELSE @, ![w] = "advance"]
    /\ UNCHANGED <<flags, counts, lists, solver, wRes, master, main, crashed, models>>

\* ... and next++ passes over another, if two have picked the same.
Advance(w) ==
    /\ Go(w, "advance", "top")
    /\ next' = next + 1
    /\ UNCHANGED <<flags, nJobs, reported, slips, lists, interrupt, solver, wRes, master,
                   main, crashed, models>>

PickNothing(w) ==
    /\ pc[w] = "pick" /\ next >= Len(workers)
    /\ crashed' = TRUE
    /\ UNCHANGED <<flags, counts, lists, slaves, master, main, models>>

Claim(w) ==
    /\ Go(w, "claim", "ending")
    /\ strategyEnding' = TRUE
    /\ interrupt' = [v \in Worker |-> v \in Slaves \/ interrupt[v]]
    /\ UNCHANGED <<globalEnding, waitJob, finalResult, counts, lists, solver, wRes, master,
                   main, crashed, models>>

Ending(w) ==
    /\ Go(w, "ending", "result")
    /\ globalEnding' = TRUE
    /\ UNCHANGED <<strategyEnding, waitJob, finalResult, counts, lists, interrupt, solver,
                   wRes, master, main, crashed, models>>

Result(w) ==
    /\ Go(w, "result", "top")
    /\ finalResult' = wRes[w]
    /\ UNCHANGED <<globalEnding, strategyEnding, waitJob, counts, lists, interrupt, solver,
                   wRes, master, main, crashed, models>>

Work(w) ==
    \/ Top(w) \/ Enter(w) \/ Solved(w) \/ Join(w) \/ Count(w) \/ Left(w)
    \/ NextTest(w) \/ Pick(w) \/ PickNothing(w) \/ Advance(w) \/ Claim(w)
    \/ Ending(w) \/ Result(w)

-----------------------------------------------------------------------------
\* The master, from the top of its loop to its first round

MasterStart ==
    /\ MasterGo("start", IF globalEnding THEN "done"
                         ELSE IF waitJob THEN "parked" ELSE "setup")
    /\ UNCHANGED <<flags, counts, lists, slaves, at, targets, main, crashed, models>>

\* A worker with a clone of the solver of w: units c, but not its clausesToAdd.
Create(w, c) ==
    /\ created' = created + 1
    /\ workers' = Append(workers, created + 1)
    /\ cube' = [cube EXCEPT ![created + 1] = cube[w]]
    /\ toAdd' = [v \in Worker |-> IF v = created + 1 THEN c
                                  ELSE IF v = w THEN toAdd[v] \cup {Negation(l) : l \in c}
                                  ELSE toAdd[v]]

\* The worker of the formula itself.
Setup ==
    /\ MasterGo("setup", "portfolio") /\ created < MaxWorkers
    /\ Create(0, {})
    /\ UNCHANGED <<flags, counts, over, interrupt, pc, wRes, at, targets, main, crashed,
                   models>>

LaunchPortfolio ==
    /\ MasterGo("portfolio", "root")
    /\ Release(0)
    /\ UNCHANGED <<flags, counts, lists, solver, wRes, at, targets, main, crashed, models>>

LaunchRoot ==
    /\ MasterGo("root", "test")
    /\ Release(created)
    /\ UNCHANGED <<flags, counts, lists, solver, wRes, at, targets, main, crashed, models>>

\* At most MaxCpus - 1 sub-problems run, and are divided.
Active == IF Len(workers) < MaxCpus - 1 THEN Len(workers)
          ELSE MaxCpus - 1

\* Mutant: the loop over workers starts at the wrong index.
RoundTestBefore ==
    /\ MasterGo("test", IF strategyEnding THEN "rest" ELSE "interrupt")
    /\ at' = 0
    /\ UNCHANGED <<flags, counts, lists, slaves, targets, main, crashed, models>>

\* The tests around the sleep are one.
RoundTest ==
    /\ MasterGo("test", IF strategyEnding THEN "rest" ELSE "interrupt")
    /\ at' = 1
    /\ UNCHANGED <<flags, counts, lists, slaves, targets, main, crashed, models>>

-----------------------------------------------------------------------------
\* A round: interrupt and wait for every worker of workers

Interrupt ==
    /\ at <= Len(workers) /\ MasterGo("interrupt", "wait")
    /\ interrupt' = [interrupt EXCEPT ![workers[at]] = TRUE]
    /\ UNCHANGED <<flags, counts, lists, solver, pc, wRes, at, targets, main, crashed,
                   models>>

Wait ==
    /\ MasterGo("wait", "interrupt")
    /\ pc[workers[at]] # "solving"
    /\ at' = at + 1
    /\ UNCHANGED <<flags, counts, lists, slaves, targets, main, crashed, models>>

Interrupted ==
    /\ at > Len(workers) /\ MasterGo("interrupt", "erase")
    /\ at' = 1
    /\ UNCHANGED <<flags, counts, lists, slaves, targets, main, crashed, models>>

\* The workers of over are deleted: ~SequentialWorker sets globalEnding back and
\* waits for the thread.
Erase ==
    /\ at <= Len(over) /\ MasterGo("erase", "delete")
    /\ workers' = Without(workers, over[at])
    /\ globalEnding' = FALSE
    /\ interrupt' = [interrupt EXCEPT ![over[at]] = TRUE]
    /\ crashed' = (\E i \in 1 .. at - 1 : over[i] = over[at])
    /\ UNCHANGED <<strategyEnding, waitJob, finalResult, counts, over, created, solver, pc,
                   wRes, at, targets, main, models>>

Delete ==
    /\ MasterGo("delete", "erase")
    /\ pc[over[at]] = "done"
    /\ at' = at + 1
    /\ UNCHANGED <<flags, counts, lists, slaves, targets, main, crashed, models>>

Clear ==
    /\ at > Len(over) /\ MasterGo("erase", "divide")
    /\ over' = <<>>
    /\ targets' = SubSeq(workers, 1, Active)
    /\ at' = 1
    /\ UNCHANGED <<flags, counts, workers, created, slaves, main, crashed, models>>

-----------------------------------------------------------------------------
\* A round: divide, and launch

\* Mutant: the clone gets the same literal.
DivideSame ==
    /\ at <= Len(targets) /\ MasterGo("divide", "count") /\ created < MaxWorkers
    /\ \E l \in Literal :
          /\ created' = created + 1
          /\ workers' = Append(workers, created + 1)
          /\ cube' = [cube EXCEPT ![created + 1] = cube[targets[at]]]
          /\ toAdd' = [toAdd EXCEPT ![created + 1] = {l}, ![targets[at]] = @ \cup {l}]
    /\ UNCHANGED <<flags, counts, over, interrupt, pc, wRes, at, targets, main, crashed,
                   models>>

\* Any literal of getDivisionVariable, one the units already decide too.  It is one step:
\* from the clone to push_back its half is in the hands of the master only.
Divide ==
    /\ at <= Len(targets) /\ MasterGo("divide", "count") /\ created < MaxWorkers
    /\ \E l \in Literal : Create(targets[at], {Negation(l)})
    /\ UNCHANGED <<flags, counts, over, interrupt, pc, wRes, at, targets, main, crashed,
                   models>>

\* Mutant: the new sub-problem is not counted.
DivideCountNot ==
    /\ MasterGo("count", "divide")
    /\ at' = at + 1
    /\ UNCHANGED <<flags, counts, lists, slaves, targets, main, crashed, models>>

DivideCount ==
    /\ MasterGo("count", "divide")
    /\ nJobs' = nJobs + 1 /\ at' = at + 1
    /\ UNCHANGED <<flags, next, reported, slips, lists, slaves, targets, main, crashed,
                   models>>

\* The sequences of the members of s, each as often, in any order.
Orders(s) ==
    {[i \in DOMAIN s |-> s[p[i]]] : p \in {q \in [DOMAIN s -> DOMAIN s] :
        \A j \in DOMAIN s : \E i \in DOMAIN s : q[i] = j}}

\* By the number of variables that are left: any order.
Sort ==
    /\ at > Len(targets) /\ MasterGo("divide", "launch")
    /\ IF Len(workers) * 2 > MaxNodes THEN workers' \in Orders(workers)
                                      ELSE UNCHANGED workers
    /\ at' = 1 /\ targets' = <<>>
    /\ UNCHANGED <<flags, counts, over, created, slaves, main, crashed, models>>

Launch ==
    /\ masterPc = "launch" /\ at <= Active
    /\ Release(workers[at])
    /\ at' = at + 1
    /\ UNCHANGED <<flags, counts, lists, solver, wRes, masterPc, targets, main, crashed,
                   models>>

SetNext ==
    /\ at > Active
    /\ MasterGo("launch", "test")
    /\ next' = at - 1 /\ at' = 1
    /\ UNCHANGED <<flags, nJobs, reported, slips, lists, slaves, targets, main, crashed,
                   models>>

Rest ==
    /\ MasterGo("rest", "start")
    /\ waitJob' = TRUE
    /\ UNCHANGED <<globalEnding, strategyEnding, finalResult, counts, lists, slaves, at,
                   targets, main, crashed, models>>

Master ==
    \/ MasterStart \/ Setup \/ LaunchPortfolio \/ LaunchRoot \/ RoundTest
    \/ Interrupt \/ Wait \/ Interrupted \/ Erase \/ Delete \/ Clear \/ Divide \/ DivideCount
    \/ Sort \/ Launch \/ SetNext \/ Rest

-----------------------------------------------------------------------------
\* main: CubeAndConquer::solve, the waiting loop, the printing of the result

Solve ==
    /\ mainPc = "solve" /\ mainPc' = "signal"
    /\ strategyEnding' = FALSE /\ nJobs' = 1 /\ waitJob' = FALSE
    /\ UNCHANGED <<globalEnding, finalResult, next, reported, slips, lists, slaves, master,
                   output, crashed, models>>

SignalStart ==
    /\ mainPc = "signal" /\ mainPc' = "poll"
    /\ masterPc' = IF masterPc = "parked" THEN "setup" ELSE masterPc
    /\ UNCHANGED <<flags, counts, lists, slaves, at, targets, output, crashed, models>>

Poll ==
    /\ mainPc = "poll" /\ globalEnding
    /\ mainPc' = "print"
    /\ UNCHANGED <<flags, counts, lists, slaves, master, output, crashed, models>>

Timeout ==
    /\ HasTimeout
    /\ mainPc = "poll" /\ ~globalEnding
    /\ mainPc' = "interrupt"
    /\ globalEnding' = TRUE
    /\ UNCHANGED <<strategyEnding, waitJob, finalResult, counts, lists, slaves, master,
                   output, crashed, models>>

TimeoutInterrupt ==
    /\ mainPc = "interrupt" /\ mainPc' = "poll"
    /\ interrupt' = [v \in Worker |-> v \in Slaves \/ interrupt[v]]
    /\ UNCHANGED <<flags, counts, lists, solver, pc, wRes, master, output, crashed, models>>

\* The strategy is then freed, but not destroyed: it has no virtual destructor.
PrintResult ==
    /\ mainPc = "print" /\ mainPc' = "exited"
    /\ output' = finalResult
    /\ UNCHANGED <<flags, counts, lists, slaves, master, crashed, models>>

Main == Solve \/ SignalStart \/ Poll \/ TimeoutInterrupt \/ PrintResult

Next ==
    /\ ~crashed /\ mainPc # "exited"
    /\ \/ Main \/ Timeout \/ Master
       \/ \E w \in 0 .. created : Work(w)

Spec == Init /\ [][Next]_vars

-----------------------------------------------------------------------------
\* Every model of the formula is left to a worker that the master still has: neither
\* the divisions nor the deletions of workers, which join reports with no mutex, lose
\* a part of the search space.  (Divide, Erase and join of several workers)
Covered ==
    created > 0 =>
        models \subseteq UNION {Region(w) : w \in Members(workers)}

\* nJobs counts the sub-problems that have not been reported refuted, but for a worker
\* that has reported its own twice and one the master is about to count.
\* (nJobs-- in join of several workers, nJobs++ after each division)
JobsAccounted ==
    ~strategyEnding /\ created > 0 /\ "twice" \notin slips =>
        nJobs = created - Cardinality(reported) - (IF masterPc = "count" THEN 1 ELSE 0)

\* UNSAT is right unless nJobs has been wrong.  (join and the master)
AccountedAnswer ==
    /\ finalResult = "SAT" => models # {}
    /\ finalResult = "UNSAT" /\ slips = {} => models = {}

\* Not true of the code.  What CubeAndConquer.cpp:234 says: nJobs sub-problems are left
\* to resolve, so that UNSAT is the answer when there is none.  (join)
NoneLeft == finalResult = "UNSAT" /\ "early" \notin slips => models = {}
=============================================================================
