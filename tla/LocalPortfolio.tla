---------------------------- MODULE LocalPortfolio ----------------------------
(***************************************************************************)
(* The portfolio of one process (-wkr-strat=1): main, the communicator and *)
(* one thread per SequentialWorker, whose parent is a Portfolio.  Every    *)
(* access to a shared flag is a step of its own.                           *)
(*                                                                         *)
(* interruptLock is only held around one test (mainWorker) and one signal  *)
(* (unsetInterrupt), so each of these sections is one step; pthread waits  *)
(* are assumed not to wake up spuriously.  waitInterruptLock is held by a  *)
(* worker while it solves.  Solvers are sound: solve returns Answer, or    *)
(* UNKNOWN once its solver has been interrupted.                           *)
(***************************************************************************)
EXTENDS Integers

CONSTANTS
    NumWorkers,     \* slaves of the Portfolio
    Answer,         \* what a solver that finishes says of the formula
    ClearsOnSolve,  \* solve() begins with unsetSolverInterrupt (Maple, Glucose)
    HasTimeout      \* -t is given

Worker == 1 .. NumWorkers
Main   == 0
Thread == {Main} \cup Worker

ASSUME NumWorkersAssumption == NumWorkers \in Nat \ {0}
ASSUME AnswerAssumption     == Answer \in {"SAT", "UNSAT"}
ASSUME FlagAssumption       == ClearsOnSolve \in BOOLEAN /\ HasTimeout \in BOOLEAN

Results == {"UNKNOWN", Answer}

VARIABLES
    globalEnding,
    strategyEnding, \* of the Portfolio
    finalResult,
    interrupt,      \* SequentialWorker::interrupt
    stop,           \* the interrupt flag of the worker's solver
    busy,           \* the worker holds its waitInterruptLock
    wRes,           \* res of mainWorker
    pc,             \* where each thread is
    at,             \* the slave a thread's loop over slaves has reached
    comm,           \* "loop" or "done": the communicator
    output,         \* the result main has printed
    expired,        \* history: main has ended the search, at its time limit
    overtaken       \* history: main printed between the two assignments of a worker
                    \* that ends the search and records its result

flags == <<globalEnding, strategyEnding>>
seen  == <<output, expired, overtaken>>
vars  == <<flags, finalResult, interrupt, stop, busy, wRes, pc, at, comm, seen>>

MainPc   == {"solve", "clear", "release", "signal", "poll", "sleep", "interrupt",
             "stop", "print", "delete", "comm", "exited", "crashed"}
WorkerPc == {"top", "test", "wait", "enter", "start", "solving", "join", "call",
             "ask", "claim", "interrupt", "stop", "ending", "result", "done"}

TypeOK ==
    /\ globalEnding \in BOOLEAN /\ strategyEnding \in BOOLEAN
    /\ finalResult \in Results
    /\ interrupt \in [Worker -> BOOLEAN] /\ stop \in [Worker -> BOOLEAN]
    /\ busy \in [Worker -> BOOLEAN]
    /\ wRes \in [Worker -> Results]
    /\ pc \in [Thread -> MainPc \cup WorkerPc]
    /\ pc[Main] \in MainPc /\ \A w \in Worker : pc[w] \in WorkerPc
    /\ at \in [Thread -> Worker]
    /\ comm \in {"loop", "done"}
    /\ output \in Results \cup {"none"}
    /\ expired \in BOOLEAN /\ overtaken \in BOOLEAN

\* The workers run before solve does; strategyEnding is not initialised.
Init ==
    /\ globalEnding = FALSE
    /\ strategyEnding \in BOOLEAN
    /\ finalResult = "UNKNOWN"
    /\ interrupt = [w \in Worker |-> TRUE]
    /\ stop = [w \in Worker |-> FALSE]
    /\ busy = [w \in Worker |-> FALSE]
    /\ wRes = [w \in Worker |-> "UNKNOWN"]
    /\ pc = [t \in Thread |-> IF t = Main THEN "solve" ELSE "top"]
    /\ at = [t \in Thread |-> 1]
    /\ comm = "loop"
    /\ output = "none" /\ expired = FALSE /\ overtaken = FALSE

-----------------------------------------------------------------------------
Go(t, from, to) == pc[t] = from /\ pc' = [pc EXCEPT ![t] = to]

\* Mutant: one slave too many.
EachBeyond(t, from, again, out) ==
    IF at[t] <= NumWorkers
    THEN Go(t, from, again) /\ at' = [at EXCEPT ![t] = @ + 1]
    ELSE Go(t, from, out)   /\ at' = [at EXCEPT ![t] = 1]

\* A step of a loop over the slaves: on with the next one, or out of the loop.
Each(t, from, again, out) ==
    IF at[t] < NumWorkers
    THEN Go(t, from, again) /\ at' = [at EXCEPT ![t] = @ + 1]
    ELSE Go(t, from, out)   /\ at' = [at EXCEPT ![t] = 1]

\* SequentialWorker::setInterrupt of the slave the loop has reached: its two
\* assignments, the second of which ends the iteration.
SetInterrupt(t, to) ==
    /\ Go(t, "interrupt", to)
    /\ interrupt' = [interrupt EXCEPT ![at[t]] = TRUE]
    /\ UNCHANGED <<flags, finalResult, stop, busy, wRes, at, comm, seen>>

SetSolverInterrupt(t, out) ==
    /\ Each(t, "stop", "interrupt", out)
    /\ stop' = [stop EXCEPT ![at[t]] = TRUE]
    /\ UNCHANGED <<flags, finalResult, interrupt, busy, wRes, comm, seen>>

-----------------------------------------------------------------------------
\* mainWorker

Top(w) ==
    /\ Go(w, "top", IF globalEnding THEN "done" ELSE "test")
    /\ UNCHANGED <<flags, finalResult, interrupt, stop, busy, wRes, at, comm, seen>>

\* Under interruptLock: wait on interruptCond if the worker is interrupted.
Test(w) ==
    /\ Go(w, "test", IF interrupt[w] THEN "wait" ELSE "enter")
    /\ UNCHANGED <<flags, finalResult, interrupt, stop, busy, wRes, at, comm, seen>>

Enter(w) ==
    /\ Go(w, "enter", "start")
    /\ busy' = [busy EXCEPT ![w] = TRUE]
    /\ UNCHANGED <<flags, finalResult, interrupt, stop, wRes, at, comm, seen>>

\* Mutant: every solver clears its flag.
StartClears(w) ==
    /\ Go(w, "start", "solving")
    /\ stop' = [stop EXCEPT ![w] = FALSE]
    /\ UNCHANGED <<flags, finalResult, interrupt, busy, wRes, at, comm, seen>>

\* solver->solve begins.
Start(w) ==
    /\ Go(w, "start", "solving")
    /\ stop' = [stop EXCEPT ![w] = @ /\ ~ClearsOnSolve]
    /\ UNCHANGED <<flags, finalResult, interrupt, busy, wRes, at, comm, seen>>

\* solver->solve returns, and waitInterruptLock is released.
Solved(w) ==
    /\ Go(w, "solving", "join")
    /\ \/ wRes' = [wRes EXCEPT ![w] = Answer]
       \/ stop[w] /\ wRes' = [wRes EXCEPT ![w] = "UNKNOWN"]
    /\ busy' = [busy EXCEPT ![w] = FALSE]
    /\ UNCHANGED <<flags, finalResult, interrupt, stop, at, comm, seen>>

-----------------------------------------------------------------------------
\* SequentialWorker::join, and Portfolio::join called by it

\* SequentialWorker::join asks whether the search has ended, and calls the parent.
JoinTest(w) ==
    /\ Go(w, "join", IF globalEnding THEN "top" ELSE "call")
    /\ UNCHANGED <<flags, finalResult, interrupt, stop, busy, wRes, at, comm, seen>>

\* Portfolio::join asks for the result, its own flag and then globalEnding.
JoinCall(w) ==
    /\ Go(w, "call", IF strategyEnding \/ wRes[w] = "UNKNOWN" THEN "top" ELSE "ask")
    /\ UNCHANGED <<flags, finalResult, interrupt, stop, busy, wRes, at, comm, seen>>

JoinAsk(w) ==
    /\ Go(w, "ask", IF globalEnding THEN "top" ELSE "claim")
    /\ UNCHANGED <<flags, finalResult, interrupt, stop, busy, wRes, at, comm, seen>>

\* Mutant: globalEnding is raised before the slaves are interrupted.
JoinClaimEnds(w) ==
    /\ Go(w, "claim", "interrupt")
    /\ strategyEnding' = TRUE /\ globalEnding' = TRUE
    /\ UNCHANGED <<finalResult, interrupt, stop, busy, wRes, at, comm, seen>>

JoinClaim(w) ==
    /\ Go(w, "claim", "interrupt")
    /\ strategyEnding' = TRUE
    /\ UNCHANGED <<globalEnding, finalResult, interrupt, stop, busy, wRes, at, comm,
                   seen>>

JoinInterrupt(w) == SetInterrupt(w, "stop") \/ SetSolverInterrupt(w, "ending")

JoinEnding(w) ==
    /\ Go(w, "ending", "result")
    /\ globalEnding' = TRUE
    /\ UNCHANGED <<strategyEnding, finalResult, interrupt, stop, busy, wRes, at, comm,
                   seen>>

JoinResult(w) ==
    /\ Go(w, "result", "top")
    /\ finalResult' = wRes[w]
    /\ UNCHANGED <<flags, interrupt, stop, busy, wRes, at, comm, seen>>

Work(w) ==
    \/ Top(w) \/ Test(w) \/ Enter(w) \/ Start(w) \/ Solved(w) \/ JoinTest(w)
    \/ JoinCall(w) \/ JoinAsk(w) \/ JoinClaim(w) \/ JoinInterrupt(w) \/ JoinEnding(w) \/ JoinResult(w)

-----------------------------------------------------------------------------
\* main: Portfolio::solve, with SequentialWorker::unsetInterrupt of every slave

\* Mutant: strategyEnding is left as it is.
SolveKeeps ==
    /\ Go(Main, "solve", "clear")
    /\ UNCHANGED <<flags, finalResult, interrupt, stop, busy, wRes, at, comm, seen>>

Solve ==
    /\ Go(Main, "solve", "clear")
    /\ strategyEnding' = FALSE
    /\ UNCHANGED <<globalEnding, finalResult, interrupt, stop, busy, wRes, at, comm,
                   seen>>

Clear ==
    /\ Go(Main, "clear", "release")
    /\ stop' = [stop EXCEPT ![at[Main]] = FALSE]
    /\ UNCHANGED <<flags, finalResult, interrupt, busy, wRes, at, comm, seen>>

Release ==
    /\ Go(Main, "release", "signal")
    /\ interrupt' = [interrupt EXCEPT ![at[Main]] = FALSE]
    /\ UNCHANGED <<flags, finalResult, stop, busy, wRes, at, comm, seen>>

\* Mutant: no signal.
SignalNot ==
    /\ Each(Main, "signal", "clear", "poll")
    /\ UNCHANGED <<flags, finalResult, interrupt, stop, busy, wRes, comm, seen>>

\* pthread_cond_signal under interruptLock: the slave goes on if it waits.
Signal ==
    LET w   == at[Main]
        out == IF w < NumWorkers THEN "clear" ELSE "poll"
    IN  /\ pc[Main] = "signal"
        /\ pc' = [pc EXCEPT ![Main] = out,
                            ![w] = IF pc[w] = "wait" THEN "enter" ELSE @]
        /\ at' = [at EXCEPT ![Main] = IF w < NumWorkers THEN w + 1 ELSE 1]
        /\ UNCHANGED <<flags, finalResult, interrupt, stop, busy, wRes, comm, seen>>

\* The waiting loop.
Poll ==
    /\ Go(Main, "poll", IF globalEnding THEN "print" ELSE "sleep")
    /\ UNCHANGED <<flags, finalResult, interrupt, stop, busy, wRes, at, comm, seen>>

Wake ==
    /\ Go(Main, "sleep", "poll")
    /\ UNCHANGED <<flags, finalResult, interrupt, stop, busy, wRes, at, comm, seen>>

Timeout ==
    /\ HasTimeout
    /\ Go(Main, "sleep", "interrupt")
    /\ globalEnding' = TRUE
    /\ expired' = TRUE
    /\ UNCHANGED <<strategyEnding, finalResult, interrupt, stop, busy, wRes, at, comm,
                   output, overtaken>>

TimeoutInterrupt == SetInterrupt(Main, "stop") \/ SetSolverInterrupt(Main, "poll")

PrintResult ==
    /\ Go(Main, "print", "delete")
    /\ output' = finalResult
    /\ overtaken' = \E w \in Worker : pc[w] = "result"
    /\ UNCHANGED <<flags, finalResult, interrupt, stop, busy, wRes, at, comm, expired>>

-----------------------------------------------------------------------------
\* Mutant: the destructor of the slaves is run, which sets globalEnding back.
DeleteWorkingReopens ==
    /\ Go(Main, "delete", "comm")
    /\ globalEnding' = FALSE
    /\ UNCHANGED <<strategyEnding, finalResult, interrupt, stop, busy, wRes, at, comm,
                   seen>>

\* delete working: WorkingStrategy has no virtual destructor, so neither ~Portfolio
\* nor ~SequentialWorker is run; the Portfolio is freed under the workers.
DeleteWorking ==
    /\ Go(Main, "delete", "comm")
    /\ UNCHANGED <<flags, finalResult, interrupt, stop, busy, wRes, at, comm, seen>>

\* commThread.join(), and the end of main.
JoinComm ==
    /\ comm = "done"
    /\ Go(Main, "comm", "exited")
    /\ UNCHANGED <<flags, finalResult, interrupt, stop, busy, wRes, at, comm, seen>>

MainStep ==
    \/ Solve \/ Clear \/ Release \/ Signal \/ Poll \/ Wake
    \/ TimeoutInterrupt \/ PrintResult \/ DeleteWorking \/ JoinComm

\* A worker that calls Portfolio::join, or is inside it, meets the freed strategy: if its memory has been
\* used again the process dies, else the worker reads what was there.
Deleted == pc[Main] \in {"comm", "exited", "crashed"}

Fault(w) ==
    /\ Deleted /\ pc[w] \in {"call", "claim", "interrupt", "stop", "ending"}
    /\ pc' = [pc EXCEPT ![Main] = "crashed"]
    /\ UNCHANGED <<flags, finalResult, interrupt, stop, busy, wRes, at, comm, seen>>

\* The communicator leaves its loop when it finds globalEnding set.
CommEnds ==
    /\ comm = "loop" /\ globalEnding
    /\ comm' = "done"
    /\ UNCHANGED <<flags, finalResult, interrupt, stop, busy, wRes, pc, at, seen>>

\* The threads end with the process.
Next ==
    /\ pc[Main] \notin {"exited", "crashed"}
    /\ \/ MainStep \/ Timeout \/ CommEnds
       \/ \E w \in Worker : Work(w) \/ Fault(w)

Spec == Init /\ [][Next]_vars

\* The system runs every thread that can go on.  A solver that has been
\* interrupted returns; one that has not may search for ever, and so may the
\* time limit be out of reach.
Running(w) == pc[w] = "solving" => stop[w]

FairSpec ==
    /\ Spec
    /\ WF_vars(MainStep) /\ WF_vars(CommEnds)
    /\ \A w \in Worker : WF_vars(Running(w) /\ Work(w))

-----------------------------------------------------------------------------
\* A worker that sleeps although it has been released is about to be signalled.
\* (unsetInterrupt against the test of interrupt in mainWorker)
NoLostWakeup ==
    \A w \in Worker :
        pc[w] = "wait" /\ ~interrupt[w] => pc[Main] = "signal" /\ at[Main] = w

\* A thread has set interrupt[w] and is about to interrupt its solver.
Interrupting(w) == \E t \in Thread : pc[t] = "stop" /\ at[t] = w

\* SolverInterface.h:93 says of setSolverInterrupt: solving cannot continue until
\* the interrupt is unset.  A worker that is interrupted does not solve with its
\* solver's flag down.  (setInterrupt and unsetInterrupt of two threads, solve)
InterruptReaches ==
    \A w \in Worker :
        pc[w] = "solving" /\ interrupt[w] => stop[w] \/ Interrupting(w)

\* An answer is never swallowed by the tests of join: once a solver has one, main
\* prints it, or it has ended the search itself at its time limit, or it prints
\* before the worker that has ended the search has assigned finalResult.
\* (SequentialWorker::join and Portfolio::join of several workers, the waiting loop)
AnswerIsPrinted ==
    \A w \in Worker :
        pc[w] = "join" /\ wRes[w] = Answer ~> output = Answer \/ expired \/ overtaken

\* Nothing but the time limit and this race makes main print UNKNOWN: whoever else
\* raised globalEnding has a result, and is only that one assignment behind.
\* (Portfolio.cpp:59-65 against the waiting loop and painless.cpp:358-371)
UnknownIsExcused == output = "UNKNOWN" => expired \/ overtaken

\* The process ends once the result is printed, although its workers are not joined.
\* (painless.cpp:373-395: the communicator sees globalEnding and is joined)
PrintedThenEnds == output # "none" ~> pc[Main] \in {"exited", "crashed"}

\* Not true of the code: two workers may pass the test of Portfolio::join and
\* both assign finalResult and finalModel.  (Portfolio.cpp:52-55)
OneWinner == \A v, w \in Worker : pc[v] = "result" /\ pc[w] = "result" => v = w

\* Not true of the code: a worker that has passed the test of SequentialWorker::join
\* when main deletes the strategy uses freed memory.  (painless.cpp:381)
NoneInside == pc[Main] # "crashed"
=============================================================================
