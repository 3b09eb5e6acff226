------------------------- MODULE LocalPortfolioProofs -------------------------
(***************************************************************************)
(* Type correctness of LocalPortfolio, the absence of lost wakeups, and    *)
(* that an interrupt reaches the solver unless solve() clears it, and what *)
(* makes main print UNKNOWN, for every number of workers.                  *)
(***************************************************************************)
EXTENDS LocalPortfolio, TLAPS

\* The slaves Portfolio::solve has not released yet.
Fresh(w) ==
    \/ pc[Main] = "solve"
    \/ pc[Main] \in {"clear", "release"} /\ at[Main] <= w
    \/ pc[Main] = "signal" /\ at[Main] < w

\* Such a slave is interrupted, and its thread parks or leaves.
FreshParks ==
    /\ pc[Main] = "solve" => at[Main] = 1
    /\ \A w \in Worker : Fresh(w) => /\ interrupt[w]
                                     /\ pc[w] \in {"top", "test", "wait", "done"}

\* The interrupt of any other slave has reached its solver, or is about to.
Reached == \A w \in Worker : ~Fresh(w) /\ interrupt[w] => stop[w] \/ Interrupting(w)

IInv == TypeOK /\ FreshParks /\ (~ClearsOnSolve => Reached)

-----------------------------------------------------------------------------
LEMMA WorkerFacts ==
    /\ 1 \in Worker /\ Main \notin Worker /\ Main \in Thread
    /\ \A w \in Worker : w \in Thread /\ w # Main /\ w \in Int
    /\ \A w \in Worker : w < NumWorkers => w + 1 \in Worker
BY NumWorkersAssumption DEF Worker, Main, Thread

LEMMA EachType ==
    ASSUME TypeOK, NEW t \in Thread, NEW from, NEW again, NEW out, Each(t, from, again,
    out)
    PROVE  /\ at' \in [Thread -> Worker]
           /\ pc[t] = from
           /\ \/ pc' = [pc EXCEPT ![t] = again]
              \/ pc' = [pc EXCEPT ![t] = out]
BY WorkerFacts DEF Each, Go, TypeOK

LEMMA InitType == Init => TypeOK
<1> SUFFICES ASSUME Init PROVE TypeOK
  OBVIOUS
<1>1. /\ pc \in [Thread -> MainPc \cup WorkerPc]
      /\ pc[Main] \in MainPc /\ \A w \in Worker : pc[w] \in WorkerPc
  BY WorkerFacts DEF Init, MainPc, WorkerPc
<1>2. at \in [Thread -> Worker]
  BY WorkerFacts DEF Init
<1> QED
  BY <1>1, <1>2 DEF Init, TypeOK, Results

LEMMA StepType == TypeOK /\ [Next]_vars => TypeOK'
<1> SUFFICES ASSUME TypeOK, [Next]_vars PROVE TypeOK'
  OBVIOUS
<1> USE WorkerFacts
<1> DEFINE Flags == /\ globalEnding' \in BOOLEAN /\ strategyEnding' \in BOOLEAN
                    /\ finalResult' \in Results
                    /\ interrupt' \in [Worker -> BOOLEAN] /\ stop' \in [Worker -> BOOLEAN]
                    /\ busy' \in [Worker -> BOOLEAN] /\ wRes' \in [Worker -> Results]
                    /\ comm' \in {"loop", "done"} /\ output' \in Results \cup {"none"}
                    /\ expired' \in BOOLEAN /\ overtaken' \in BOOLEAN
           Moves == /\ at' \in [Thread -> Worker]
                    /\ pc' \in [Thread -> MainPc \cup WorkerPc]
                    /\ pc'[Main] \in MainPc /\ \A w \in Worker : pc'[w] \in WorkerPc
<1>0. Flags /\ Moves => TypeOK'
  BY DEF TypeOK
<1> HIDE DEF Moves
<1>1. ASSUME NEW w \in Worker, Work(w) PROVE Moves
  <2>1. CASE SetSolverInterrupt(w, "ending")
    <3>1. /\ at' \in [Thread -> Worker]
          /\ \/ pc' = [pc EXCEPT ![w] = "interrupt"]
             \/ pc' = [pc EXCEPT ![w] = "ending"]
      BY <2>1, EachType DEF SetSolverInterrupt
    <3>2. /\ pc' \in [Thread -> MainPc \cup WorkerPc]
          /\ pc'[w] \in WorkerPc /\ \A t \in Thread : t # w => pc'[t] = pc[t]
      BY <3>1 DEF TypeOK, WorkerPc
    <3> QED
      BY <3>1, <3>2 DEF Moves, TypeOK
  <2>2. CASE Top(w) \/ Test(w) \/ Enter(w) \/ Start(w) \/ Solved(w) \/ JoinTest(w)
              \/ JoinCall(w) \/ JoinAsk(w)
    BY <2>2 DEF Top, Test, Enter, Start, Solved, JoinTest, JoinCall, JoinAsk, Go,
                Moves, TypeOK,
                MainPc, WorkerPc
  <2>3. CASE JoinClaim(w) \/ SetInterrupt(w, "stop") \/ JoinEnding(w) \/ JoinResult(w)
    BY <2>3 DEF JoinClaim, SetInterrupt, JoinEnding, JoinResult, Go, Moves, TypeOK,
                MainPc, WorkerPc
  <2> QED
    BY <1>1, <2>1, <2>2, <2>3 DEF Work, JoinInterrupt
<1>2. ASSUME NEW w \in Worker, Work(w) PROVE Flags
  <2>1. CASE Top(w) \/ Test(w) \/ Enter(w)
    BY <2>1 DEF Top, Test, Enter, TypeOK, flags, seen
  <2>4. CASE Start(w) \/ Solved(w)
    BY <2>4 DEF Start, Solved, TypeOK, flags, seen, Results
  <2>2. CASE JoinTest(w) \/ JoinCall(w) \/ JoinAsk(w) \/ JoinClaim(w)
    BY <2>2 DEF JoinTest, JoinCall, JoinAsk, JoinClaim, TypeOK, flags, seen
  <2>3. CASE JoinInterrupt(w)
    BY <2>3 DEF JoinInterrupt, SetSolverInterrupt, SetInterrupt, TypeOK, flags, seen
  <2>5. CASE JoinEnding(w)
    BY <2>5 DEF JoinEnding, TypeOK, flags, seen
  <2>6. CASE JoinResult(w)
    BY <2>6 DEF JoinResult, TypeOK, flags, seen
  <2> QED
    BY <1>2, <2>1, <2>2, <2>3, <2>4, <2>5, <2>6 DEF Work
<1>3. ASSUME MainStep \/ Timeout PROVE Moves
  <2>1. CASE SetSolverInterrupt(Main, "poll")
    <3>1. /\ at' \in [Thread -> Worker]
          /\ \/ pc' = [pc EXCEPT ![Main] = "interrupt"]
             \/ pc' = [pc EXCEPT ![Main] = "poll"]
      BY <2>1, EachType DEF SetSolverInterrupt
    <3> QED
      BY <3>1 DEF Moves, TypeOK, MainPc, WorkerPc
  <2>3. CASE Signal
    BY <2>3 DEF Signal, Moves, TypeOK, MainPc, WorkerPc
  <2>4. CASE Solve \/ Clear \/ Release \/ Poll \/ Wake \/ Timeout
    BY <2>4 DEF Solve, Clear, Release, Poll, Wake, Timeout, Go, Moves, TypeOK,
                MainPc, WorkerPc
  <2>5. CASE SetInterrupt(Main, "stop") \/ PrintResult \/ DeleteWorking \/ JoinComm
    BY <2>5 DEF SetInterrupt, PrintResult, DeleteWorking, JoinComm, Go, Moves, TypeOK,
                MainPc, WorkerPc
  <2> QED
    BY <1>3, <2>1, <2>3, <2>4, <2>5 DEF MainStep, TimeoutInterrupt
<1>4. ASSUME MainStep \/ Timeout PROVE Flags
  <2>1. CASE Solve \/ Clear \/ Release \/ Signal \/ Poll \/ Wake \/ Timeout
    BY <2>1 DEF Solve, Clear, Release, Signal, Poll, Wake, Timeout, TypeOK, flags, seen
  <2>2. CASE TimeoutInterrupt \/ PrintResult \/ DeleteWorking \/ JoinComm
    BY <2>2 DEF TimeoutInterrupt, SetInterrupt, SetSolverInterrupt, PrintResult,
                DeleteWorking, JoinComm, TypeOK, flags, seen
  <2> QED
    BY <1>4, <2>1, <2>2 DEF MainStep
<1>5. ASSUME CommEnds \/ UNCHANGED vars PROVE TypeOK'
  BY <1>5 DEF CommEnds, TypeOK, vars, flags, seen
<1>6. ASSUME NEW w \in Worker, Fault(w) PROVE TypeOK'
  BY <1>6 DEF Fault, TypeOK, flags, seen, MainPc, WorkerPc
<1> QED
  BY <1>0, <1>1, <1>2, <1>3, <1>4, <1>5, <1>6 DEF Next

\* Every variable keeps its type.  (all of main, mainWorker and commThread)
THEOREM TypeCorrect == Spec => []TypeOK
BY InitType, StepType, PTL DEF Spec

-----------------------------------------------------------------------------
LEMMA WakeupStep == TypeOK /\ NoLostWakeup /\ [Next]_vars => NoLostWakeup'
<1> SUFFICES ASSUME TypeOK, NoLostWakeup, [Next]_vars,
                    NEW w \in Worker, pc'[w] = "wait", ~interrupt'[w]
             PROVE  pc'[Main] = "signal" /\ at'[Main] = w
  BY DEF NoLostWakeup
<1> USE WorkerFacts DEF TypeOK
<1>1. ASSUME NEW v \in Worker, Work(v) PROVE pc'[Main] = pc[Main] /\ at'[Main] = at[Main]
  BY <1>1 DEF Work, JoinInterrupt, SetSolverInterrupt, Each, Top, Test, Enter, Start,
              Solved, JoinTest, JoinCall, JoinAsk, JoinClaim, SetInterrupt, JoinEnding,
              JoinResult, Go
<1>2. ASSUME NEW v \in Worker, Work(v) PROVE pc[w] = "wait" /\ ~interrupt[w]
  <2>1. CASE Test(v)
    BY <1>2, <2>1 DEF Test, Go
  <2>2. CASE JoinInterrupt(v)
    BY <1>2, <2>2 DEF JoinInterrupt, SetSolverInterrupt, Each, SetInterrupt, Go
  <2>3. CASE Top(v) \/ Enter(v) \/ Start(v) \/ Solved(v)
    BY <1>2, <2>3 DEF Top, Enter, Start, Solved, Go
  <2>4. CASE JoinTest(v) \/ JoinCall(v) \/ JoinAsk(v) \/ JoinClaim(v)
              \/ JoinEnding(v) \/ JoinResult(v)
    BY <1>2, <2>4 DEF JoinTest, JoinCall, JoinAsk, JoinClaim, JoinEnding, JoinResult, Go
  <2> QED
    BY <1>2, <2>1, <2>2, <2>3, <2>4 DEF Work
<1>3. CASE Release
  BY <1>3 DEF Release, Go, NoLostWakeup
<1>4. CASE Signal
  BY <1>4 DEF Signal, NoLostWakeup
<1>5. CASE Solve \/ Clear \/ Poll \/ Wake \/ Timeout \/ PrintResult
  BY <1>5 DEF Solve, Clear, Poll, Wake, Timeout, PrintResult, Go, NoLostWakeup
<1>6. CASE TimeoutInterrupt
  BY <1>6 DEF TimeoutInterrupt, SetInterrupt, SetSolverInterrupt, Each, Go, NoLostWakeup
<1>7. CASE DeleteWorking \/ JoinComm \/ \E v \in Worker : Fault(v)
  BY <1>7 DEF DeleteWorking, JoinComm, Fault, Deleted, Go, NoLostWakeup
<1>8. CASE CommEnds \/ UNCHANGED vars
  BY <1>8 DEF CommEnds, vars, flags, seen, NoLostWakeup
<1> QED
  BY <1>1, <1>2, <1>3, <1>4, <1>5, <1>6, <1>7, <1>8 DEF Next, MainStep, NoLostWakeup

\* No worker sleeps through its release.  (unsetInterrupt, mainWorker)
THEOREM NoWakeupLost == Spec => []NoLostWakeup
<1>1. Init => NoLostWakeup
  BY WorkerFacts DEF Init, NoLostWakeup
<1> QED
  BY <1>1, TypeCorrect, WakeupStep, PTL DEF Spec

-----------------------------------------------------------------------------
\* Only main releases a slave, and it does so in order.
LEMMA FreshStep == IInv /\ [Next]_vars => FreshParks'
<1> SUFFICES ASSUME IInv, [Next]_vars PROVE FreshParks'
  OBVIOUS
<1> USE WorkerFacts DEF IInv, TypeOK, FreshParks, Fresh
<1>1. ASSUME NEW v \in Worker, Work(v) PROVE FreshParks'
  <2>1. CASE Top(v) \/ Test(v) \/ Enter(v) \/ Start(v) \/ Solved(v)
    BY <2>1 DEF Top, Test, Enter, Start, Solved, Go
  <2>2. CASE JoinTest(v) \/ JoinCall(v) \/ JoinAsk(v)
    BY <2>2 DEF JoinTest, JoinCall, JoinAsk, Go
  <2>3. CASE SetInterrupt(v, "stop")
    BY <2>3 DEF SetInterrupt, Go
  <2>4. CASE SetSolverInterrupt(v, "ending")
    BY <2>4 DEF SetSolverInterrupt, Each, Go
  <2>5. CASE JoinClaim(v) \/ JoinEnding(v) \/ JoinResult(v)
    BY <2>5 DEF JoinClaim, JoinEnding, JoinResult, Go
  <2> QED
    BY <1>1, <2>1, <2>2, <2>3, <2>4, <2>5 DEF Work, JoinInterrupt
<1>2. CASE Solve \/ Clear \/ Release
  BY <1>2 DEF Solve, Clear, Release, Go
<1>3. CASE Signal
  <2>1. /\ pc[Main] = "signal" /\ pc'[Main] \in {"clear", "poll"}
        /\ pc'[Main] = "clear" => at'[Main] = at[Main] + 1
        /\ interrupt' = interrupt
    BY <1>3 DEF Signal
  <2>2. \A w \in Worker : w # at[Main] => pc'[w] = pc[w]
    BY <1>3 DEF Signal
  <2>3. \A w \in Worker : Fresh(w)' => Fresh(w) /\ w # at[Main]
    BY <2>1 DEF Worker
  <2> QED
    BY <2>1, <2>2, <2>3
<1>4. CASE Poll \/ Wake \/ Timeout \/ PrintResult
  <2>1. CASE Poll \/ Wake
    BY <2>1 DEF Poll, Wake, Go
  <2>2. CASE Timeout \/ PrintResult
    BY <2>2 DEF Timeout, PrintResult, Go
  <2> QED
    BY <1>4, <2>1, <2>2
<1>5. CASE TimeoutInterrupt
  <2>1. CASE SetInterrupt(Main, "stop")
    BY <2>1 DEF SetInterrupt, Go
  <2>2. CASE SetSolverInterrupt(Main, "poll")
    BY <2>2 DEF SetSolverInterrupt, Each, Go
  <2> QED
    BY <1>5, <2>1, <2>2 DEF TimeoutInterrupt
<1>6. CASE DeleteWorking \/ JoinComm \/ \E v \in Worker : Fault(v)
  BY <1>6 DEF DeleteWorking, JoinComm, Fault, Deleted, Go
<1>7. CASE CommEnds \/ UNCHANGED vars
  BY <1>7 DEF CommEnds, vars, flags, seen
<1> QED
  BY <1>1, <1>2, <1>3, <1>4, <1>5, <1>6, <1>7 DEF Next, MainStep

\* No step takes down the flag of a slave that has been released.
LEMMA ReachedStep == IInv /\ ~ClearsOnSolve /\ [Next]_vars => Reached'
<1> SUFFICES ASSUME IInv, ~ClearsOnSolve, [Next]_vars,
                    NEW w \in Worker, ~Fresh(w)', interrupt'[w]
             PROVE  stop'[w] \/ Interrupting(w)'
  BY DEF Reached
<1> USE WorkerFacts DEF IInv, TypeOK, Reached, Fresh, Interrupting
<1>1. ASSUME NEW v \in Worker, Work(v) PROVE stop'[w] \/ Interrupting(w)'
  <2>1. CASE Top(v) \/ Test(v) \/ Enter(v) \/ Start(v) \/ Solved(v)
    BY <2>1 DEF Top, Test, Enter, Start, Solved, Go
  <2>2. CASE JoinTest(v) \/ JoinCall(v) \/ JoinAsk(v) \/ JoinClaim(v)
              \/ JoinEnding(v) \/ JoinResult(v)
    BY <2>2 DEF JoinTest, JoinCall, JoinAsk, JoinClaim, JoinEnding, JoinResult, Go
  <2>3. CASE SetInterrupt(v, "stop")
    BY <2>3 DEF SetInterrupt, Go
  <2>4. CASE SetSolverInterrupt(v, "ending")
    BY <2>4 DEF SetSolverInterrupt, Each, Go
  <2> QED
    BY <1>1, <2>1, <2>2, <2>3, <2>4 DEF Work, JoinInterrupt
<1>2. CASE Solve
  <2>1. pc'[Main] = "clear" /\ at'[Main] = 1
    BY <1>2 DEF Solve, Go, FreshParks
  <2> QED
    BY <2>1 DEF Worker
<1>3. CASE Clear \/ Release \/ Signal
  <2>1. ~Fresh(w)
    <3>1. CASE Clear
      BY <3>1 DEF Clear, Go
    <3>2. CASE Release
      <4>1. /\ pc[Main] = "release" /\ pc'[Main] = "signal"
            /\ at'[Main] = at[Main] /\ at[Main] \in Int
        BY <3>2 DEF Release, Go
      <4>2. at[Main] # w
        BY <3>2 DEF Release
      <4> QED
        BY <4>1, <4>2
    <3>3. CASE Signal
      <4>1. CASE at[Main] < NumWorkers
        BY <3>3, <4>1, NumWorkersAssumption DEF Signal, Worker
      <4>2. CASE at[Main] = NumWorkers
        BY <3>3, <4>2, NumWorkersAssumption DEF Signal, Worker
      <4> QED
        BY <4>1, <4>2, NumWorkersAssumption DEF Worker
    <3> QED
      BY <1>3, <3>1, <3>2, <3>3
  <2>2. /\ interrupt[w]
        /\ stop'[w] = stop[w]
    <3>1. CASE Clear
      <4>1. at[Main] # w
        BY <2>1, <3>1 DEF Clear, Go
      <4> QED
        BY <3>1, <4>1 DEF Clear
    <3>2. CASE Release \/ Signal
      BY <3>2 DEF Release, Signal
    <3> QED
      BY <1>3, <3>1, <3>2
  <2>3. Interrupting(w) => Interrupting(w)'
    <3>1. \A t \in Thread : pc[t] = "stop" => pc'[t] = "stop" /\ at'[t] = at[t]
      BY <1>3 DEF Clear, Release, Signal, Go
    <3> QED
      BY <3>1
  <2> QED
    BY <2>1, <2>2, <2>3
<1>4. CASE Poll \/ Wake \/ Timeout \/ PrintResult
  <2>1. CASE Poll
    BY <1>4, <2>1 DEF Poll, Go
  <2>2. CASE Wake
    BY <1>4, <2>2 DEF Wake, Go
  <2>3. CASE Timeout
    BY <1>4, <2>3 DEF Timeout, Go
  <2>4. CASE PrintResult
    BY <1>4, <2>4 DEF PrintResult, Go
  <2> QED
    BY <1>4, <2>1, <2>2, <2>3, <2>4
<1>5. CASE SetInterrupt(Main, "stop")
  BY <1>5 DEF SetInterrupt, Go
<1>6. CASE SetSolverInterrupt(Main, "poll")
  BY <1>6 DEF SetSolverInterrupt, Each, Go
<1>7. CASE DeleteWorking \/ JoinComm \/ \E v \in Worker : Fault(v)
  BY <1>7 DEF DeleteWorking, JoinComm, Fault, Deleted, Go
<1>8. CASE CommEnds \/ UNCHANGED vars
  BY <1>8 DEF CommEnds, vars, flags, seen
<1> QED
  BY <1>1, <1>2, <1>3, <1>4, <1>5, <1>6, <1>7, <1>8 DEF Next, MainStep, TimeoutInterrupt

\* The inductive invariant behind InterruptIsKept: a slave that has been released
\* and is interrupted has its solver's flag up, or a thread about to raise it.
THEOREM Invariance == Spec => []IInv
<1>1. Init => IInv
  <2>1. Init => FreshParks
    BY WorkerFacts DEF Init, FreshParks, Fresh
  <2>2. Init => Reached
    BY WorkerFacts DEF Init, Reached, Fresh
  <2> QED
    BY <2>1, <2>2, InitType DEF IInv
<1>2. IInv /\ [Next]_vars => IInv'
  BY StepType, FreshStep, ReachedStep DEF IInv
<1> QED
  BY <1>1, <1>2, PTL DEF Spec

\* An interrupted worker does not solve on with its solver's flag down, unless
\* solve clears it.  (setInterrupt, unsetInterrupt, solve)
THEOREM InterruptIsKept == ~ClearsOnSolve => (Spec => []InterruptReaches)
<1> SUFFICES ASSUME ~ClearsOnSolve PROVE Spec => []InterruptReaches
  OBVIOUS
<1>1. IInv => InterruptReaches
  BY DEF IInv, FreshParks, Reached, InterruptReaches
<1> QED
  BY <1>1, Invariance, PTL

-----------------------------------------------------------------------------
\* Who passes the tests of Portfolio::join has an answer, and who raises
\* globalEnding is main at its time limit or about to record that answer.
Decides ==
    /\ \A w \in Worker :
          pc[w] \in {"ask", "claim", "interrupt", "stop", "ending", "result"} =>
              wRes[w] = Answer
    /\ globalEnding => \/ expired \/ finalResult = Answer
                       \/ \E w \in Worker : pc[w] = "result"
    /\ pc[Main] = "print" => globalEnding
    /\ UnknownIsExcused

LEMMA DecidesStep == TypeOK /\ Decides /\ [Next]_vars => Decides'
<1> SUFFICES ASSUME TypeOK, Decides, [Next]_vars PROVE Decides'
  OBVIOUS
<1> USE WorkerFacts, AnswerAssumption DEF TypeOK, Decides, UnknownIsExcused, Results
<1>1. ASSUME NEW v \in Worker, Work(v) PROVE Decides'
  <2>1. CASE Top(v) \/ Test(v) \/ Enter(v) \/ Start(v) \/ Solved(v)
    BY <2>1 DEF Top, Test, Enter, Start, Solved, Go, flags, seen
  <2>2. CASE JoinTest(v) \/ JoinCall(v) \/ JoinAsk(v) \/ JoinClaim(v)
    BY <2>2 DEF JoinTest, JoinCall, JoinAsk, JoinClaim, Go, flags, seen
  <2>3. CASE JoinEnding(v) \/ JoinResult(v)
    BY <2>3 DEF JoinEnding, JoinResult, Go, flags, seen
  <2>4. CASE JoinInterrupt(v)
    BY <2>4 DEF JoinInterrupt, SetSolverInterrupt, Each, SetInterrupt, Go, flags, seen
  <2> QED
    BY <1>1, <2>1, <2>2, <2>3, <2>4 DEF Work
<1>2. CASE Solve \/ Clear \/ Release \/ Signal
  BY <1>2 DEF Solve, Clear, Release, Signal, Go, flags, seen
<1>3. CASE Poll \/ Wake \/ Timeout \/ TimeoutInterrupt
  BY <1>3 DEF Poll, Wake, Timeout, TimeoutInterrupt, SetInterrupt, SetSolverInterrupt,
              Each, Go, flags, seen
<1>4. CASE PrintResult
  BY <1>4 DEF PrintResult, Go, flags
<1>5. CASE DeleteWorking \/ JoinComm \/ \E v \in Worker : Fault(v)
  BY <1>5 DEF DeleteWorking, JoinComm, Fault, Go, flags, seen
<1>6. CASE CommEnds \/ UNCHANGED vars
  BY <1>6 DEF CommEnds, vars, flags, seen
<1> QED
  BY <1>1, <1>2, <1>3, <1>4, <1>5, <1>6 DEF Next, MainStep

\* Only the time limit and the gap between the two assignments of the worker that
\* ends the search make main print UNKNOWN.  (Portfolio::join, main)
THEOREM UnknownOnlyByRace == Spec => []UnknownIsExcused
<1>1. Init => Decides
  BY WorkerFacts DEF Init, Decides, UnknownIsExcused
<1>2. Decides => UnknownIsExcused
  BY DEF Decides
<1> QED
  BY <1>1, <1>2, DecidesStep, TypeCorrect, PTL DEF Spec
=============================================================================
