------------------------ MODULE DivideAndConquerProofs ------------------------
(***************************************************************************)
(* For every formula and every number of slaves: the lists of slaves stay  *)
(* consistent, the answer is that of the formula, and divide and conquer   *)
(* implements SearchSpace.                                                 *)
(***************************************************************************)
EXTENDS DivideAndConquer, FiniteSetTheorems, TLAPS

Fresh == masterPc \in {"start", "parked", "launch"}

\* Where a slave that has nothing to do may be.
Resting(w) == pc[w] \in {"top", "test", "wait", "done"}

\* Before the master has launched the first worker every slave rests.
FreshRest ==
    Fresh =>
        /\ ~strategyEnding
        /\ overs = {} /\ workers = {} /\ oversSplitting = {} /\ workersSplitting = {}
        /\ nWorkers = 0
        /\ \A w \in Slave : interrupt[w] /\ Resting(w)

\* What each slave may be doing while the search lasts: those that are free rest,
\* unless the last of them is about to declare UNSAT; only a worker that is to
\* divide its cube is interrupted.
Roles ==
    Searching =>
        /\ \A w \in overs \cup oversSplitting :
              /\ interrupt[w]
              /\ Resting(w) \/ (pc[w] = "claim" /\ wRes[w] = "UNSAT" /\ Busy = {})
        /\ \A w \in Busy : pc[w] = "claim" => wRes[w] = "SAT"
        /\ \A w \in workers :
              /\ ~globalEnding => ~interrupt[w] /\ pc[w] # "wait"
              /\ pc[w] # "split"
              /\ pc[w] = "join" /\ wRes[w] = "UNKNOWN" => globalEnding
        /\ \A w \in workersSplitting : Prompt /\ ~globalEnding => ~Resting(w)
        /\ \A w \in Slave : pc[w] \in {"solving", "join", "split", "unsat"} => w \in Busy

\* A worker that reports is right about its cube.
Reports ==
    /\ \A w \in Slave : /\ pc[w] = "claim" => wRes[w] \in {"SAT", "UNSAT"}
                        /\ pc[w] = "unsat" => wRes[w] = "UNSAT"
    /\ Searching =>
          \A w \in Slave :
             /\ pc[w] \in {"join", "claim"} /\ wRes[w] = "SAT"
                   => models \cap Within(cubes[w]) # {}
             /\ pc[w] \in {"join", "unsat"} /\ wRes[w] = "UNSAT"
                   => models \cap Within(cubes[w]) = {}

\* Every model lies within a cube that is open.
Covered == Searching => \A m \in models : \E w \in Busy : m \in Within(cubes[w])

\* Only a slave that is to work has a use for a solver.
Equipped ==
    /\ ~Clone => \A w \in Slave : solver[w]
    /\ solver[First] \/ ~Fresh
    /\ Searching => \A w \in Busy : solver[w]

\* The slaves that may still refute a cube are counted.
Active == {w \in Slave : pc[w] \in {"solving", "join", "split", "unsat"} \/ ~interrupt[w]}
Counted == Cardinality(Active) <= nWorkers

\* The answer is that of the worker that has ended the search.
Ended ==
    /\ ~strategyEnding => claimed = "UNKNOWN" /\ finalResult = "UNKNOWN"
    /\ strategyEnding => \/ claimed = "SAT" /\ models # {}
                         \/ claimed = "UNSAT" /\ models = {}
    /\ finalResult \in {"UNKNOWN", claimed}
    /\ \A w \in Slave : /\ pc[w] \in {"ending", "result"} => strategyEnding /\ wRes[w] = claimed
                        /\ pc[w] = "done" => globalEnding

\* The time limit has passed.
TimeUp == mainPc = "interrupt" => globalEnding

IInv ==
    /\ TypeOK /\ FreshRest /\ ListsAgree /\ Roles /\ Reports /\ Covered
    /\ Equipped /\ Counted /\ Ended /\ MasterIsWoken

-----------------------------------------------------------------------------
\* Cubes.

LEMMA DividedCovers ==
    ASSUME NEW c, NEW v \in Var, NEW m \in Within(c)
    PROVE  m \in Within(c \cup {<<v, TRUE>>}) \/ m \in Within(c \cup {<<v, FALSE>>})
<1>1. m \in Assignment /\ \A l \in c : m[l[1]] = l[2]
  BY DEF Within
<1>2. m[v] \in BOOLEAN
  BY <1>1 DEF Assignment
<1>3. CASE m[v] = TRUE
  <2>1. ASSUME NEW l \in c \cup {<<v, TRUE>>} PROVE m[l[1]] = l[2]
    <3>1. CASE l \in c
      BY <1>1, <3>1
    <3>2. CASE l = <<v, TRUE>>
      BY <1>3, <3>2, Zenon
    <3> QED
      BY <3>1, <3>2
  <2> QED
    BY <1>1, <2>1 DEF Within
<1>4. CASE m[v] = FALSE
  <2>1. ASSUME NEW l \in c \cup {<<v, FALSE>>} PROVE m[l[1]] = l[2]
    <3>1. CASE l \in c
      BY <1>1, <3>1
    <3>2. CASE l = <<v, FALSE>>
      BY <1>4, <3>2, Zenon
    <3> QED
      BY <3>1, <3>2
  <2> QED
    BY <1>1, <2>1 DEF Within
<1> QED
  BY <1>2, <1>3, <1>4

LEMMA DividedType ==
    ASSUME NEW c \in Cube, NEW v \in Var, NEW b \in BOOLEAN
    PROVE  c \cup {<<v, b>>} \in Cube
BY DEF Cube

-----------------------------------------------------------------------------
LEMMA ActiveFinite == IsFiniteSet(Active) /\ Active \subseteq Slave
<1>1. Active \subseteq Slave
  BY DEF Active
<1> QED
  BY <1>1, SlaveAssumption, FS_Subset

LEMMA FewerActive ==
    ASSUME Counted, nWorkers \in Nat, Active' \subseteq Active, nWorkers' = nWorkers
    PROVE  Counted'
<1>1. IsFiniteSet(Active) /\ IsFiniteSet(Active')
  BY ActiveFinite, FS_Subset
<1>2. /\ Cardinality(Active') <= Cardinality(Active)
      /\ Cardinality(Active) \in Nat /\ Cardinality(Active') \in Nat
  BY <1>1, FS_Subset, FS_CardinalityType
<1> QED
  BY <1>2 DEF Counted

\* When as many slaves are to divide as are kept for it, there is one for each.
LEMMA SplittingHasOver ==
    ASSUME TypeOK, Cardinality(workersSplitting) = Cardinality(oversSplitting),
           workersSplitting # {}
    PROVE  oversSplitting # {}
<1>1. IsFiniteSet(workersSplitting) /\ IsFiniteSet(oversSplitting)
  BY SlaveAssumption, FS_Subset DEF TypeOK
<1> QED
  BY <1>1, FS_EmptySet

LEMMA InitInv == Init => IInv
<1> SUFFICES ASSUME Init PROVE IInv
  OBVIOUS
<1>1. TypeOK
  BY DEF Init, TypeOK, SlavePc, Results, Cube
<1>2. Fresh /\ ~Searching
  BY DEF Init, Fresh, Searching
<1>3. FreshRest /\ Equipped /\ Ended /\ MasterIsWoken
  BY <1>2, SlaveAssumption DEF Init, FreshRest, Resting, Equipped, Ended, MasterIsWoken
<1>4. Reports
  BY <1>2 DEF Init, Reports
<1>5. Counted
  <2>1. Active = {}
    BY DEF Init, Active
  <2> QED
    BY <2>1, FS_EmptySet DEF Init, Counted
<1> QED
  BY <1>1, <1>2, <1>3, <1>4, <1>5 DEF IInv, ListsAgree, Roles, Covered

-----------------------------------------------------------------------------
\* Steps that concern neither the lists nor the slaves.

LEMMA QuietInv ==
    ASSUME IInv, TypeOK', MasterIsWoken',
           UNCHANGED <<strategyEnding, finalResult, lists, slaves, models, claimed>>,
           Fresh' <=> Fresh, globalEnding => globalEnding'
    PROVE  IInv'
<1> USE DEF IInv, lists, slaves
<1>1. Searching' <=> Searching
  BY DEF Searching, Fresh
<1>2. Active' = Active /\ Busy' = Busy
  BY DEF Active, Busy
<1>3. FreshRest' /\ ListsAgree'
  BY <1>1, <1>2 DEF FreshRest, Resting, ListsAgree
<1>4. Roles'
  BY <1>1, <1>2 DEF Roles, Resting
<1>5. Reports' /\ Covered'
  BY <1>1, <1>2 DEF Reports, Covered
<1>6. Equipped'
  BY <1>1, <1>2 DEF Equipped
<1>7. Counted' /\ Ended'
  BY <1>2 DEF Counted, Ended
<1> QED
  BY <1>3, <1>4, <1>5, <1>6, <1>7

LEMMA MainInv ==
    ASSUME IInv, Solve \/ SignalStart \/ Poll \/ Timeout \/ DeleteWorking
    PROVE  IInv'
<1> USE DEF IInv, Solve, SignalStart, Poll, Timeout, DeleteWorking
<1>1. UNCHANGED <<strategyEnding, finalResult, lists, slaves, models, claimed>>
  BY DEF flags
<1>2. (Fresh' <=> Fresh) /\ (globalEnding => globalEnding')
  BY DEF Fresh, flags
<1>3. TypeOK'
  BY DEF TypeOK, flags, lists, slaves
<1>4. MasterIsWoken'
  BY <1>1, <1>2 DEF MasterIsWoken, Searching, Fresh, lists
<1> QED
  BY <1>1, <1>2, <1>3, <1>4, QuietInv

LEMMA MasterInv ==
    ASSUME IInv, Start \/ MasterTest \/ Rest
    PROVE  IInv'
<1> USE DEF IInv, Start, MasterTest, Rest
<1>1. UNCHANGED <<strategyEnding, finalResult, lists, slaves, models, claimed, globalEnding>>
  BY DEF flags
<1>2. Fresh' <=> Fresh
  BY DEF Fresh
<1>3. TypeOK'
  BY DEF TypeOK, flags, lists, slaves
<1>4. MasterIsWoken'
  BY <1>1 DEF MasterIsWoken, Searching, lists
<1> QED
  BY <1>1, <1>2, <1>3, <1>4, QuietInv

LEMMA StandsInv ==
    ASSUME IInv, (\E w \in Slave : SplitNothing(w)) \/ UNCHANGED vars
    PROVE  IInv'
<1> USE DEF IInv, SplitNothing, vars
<1>1. UNCHANGED <<strategyEnding, finalResult, lists, slaves, models, claimed,
                  globalEnding, masterPc>>
  BY DEF flags
<1>2. TypeOK'
  BY DEF TypeOK, flags, lists, slaves
<1>3. MasterIsWoken'
  BY <1>1 DEF MasterIsWoken, Searching, lists
<1> QED
  BY <1>1, <1>2, <1>3, QuietInv DEF Fresh

-----------------------------------------------------------------------------
\* Steps of one slave that leave the lists alone.

\* A slave that goes on on its own.
LEMMA GoType ==
    ASSUME TypeOK, NEW w \in Slave, NEW next, Go(w, next, {}),
           next \in {"top", "test", "wait", "solving", "join", "split", "unsat", "claim",
                     "ending", "result", "done"}
    PROVE  /\ pc' = [pc EXCEPT ![w] = next]
           /\ pc' \in [Slave -> SlavePc]
           /\ \A x \in Slave : pc'[x] = IF x = w THEN next ELSE pc[x]
BY DEF Go, TypeOK, SlavePc

\* A slave that says something, with its interrupts as they are.
LEMMA AloneInv ==
    ASSUME IInv, TypeOK', NEW w \in Slave,
           UNCHANGED <<flags, lists, interrupt, solver, masterPc, models, claimed>>,
           \A x \in Slave : x # w => pc'[x] = pc[x] /\ wRes'[x] = wRes[x],
           pc'[w] \notin {"ending", "result"},
           \* it goes where its role allows ...
           Resting(w) => Resting(w)' \/ (pc'[w] = "solving" /\ ~interrupt[w]),
           ~Resting(w) => pc[w] \in {"solving", "join"}
                          /\ (Resting(w)' => globalEnding),
           pc'[w] = "split" => pc[w] = "join" /\ wRes[w] = "UNKNOWN" /\ ~globalEnding,
           pc'[w] = "wait" => pc[w] = "test" /\ interrupt[w],
           pc'[w] = "done" => globalEnding,
           pc'[w] \in {"split", "unsat", "claim"} => wRes' = wRes,
           \* ... and what it says is right
           pc'[w] = "join" /\ wRes'[w] = "UNKNOWN" => interrupt[w] /\ pc[w] = "solving",
           pc'[w] = "claim" => wRes[w] = "SAT" /\ pc[w] = "join",
           pc'[w] = "unsat" => wRes[w] = "UNSAT" /\ pc[w] = "join",
           pc'[w] = "join" /\ wRes'[w] = "SAT" => models \cap Within(cubes[w]) # {},
           pc'[w] = "join" /\ wRes'[w] = "UNSAT" => models \cap Within(cubes[w]) = {}
    PROVE  IInv'
<1> USE DEF IInv, lists, flags
<1>1. (Searching' <=> Searching) /\ (Fresh' <=> Fresh) /\ Busy' = Busy
  BY DEF Searching, Fresh, Busy
<1>2. FreshRest' /\ ListsAgree' /\ Covered' /\ Equipped'
  BY <1>1 DEF FreshRest, Resting, ListsAgree, Covered, Equipped, TypeOK
<1>3. MasterIsWoken'
  BY <1>1 DEF MasterIsWoken
<1>4. Active' \subseteq Active
  BY DEF Active, Resting
<1>5. Counted' /\ Ended'
  BY <1>4, FewerActive DEF Ended, TypeOK
<1>6. Roles'
  <2> SUFFICES ASSUME Searching PROVE Roles'
    BY <1>1 DEF Roles
  <2>1. Slave = overs \cup oversSplitting \cup Busy
    BY DEF ListsAgree
  <2> QED
    BY <1>1, <2>1 DEF Roles, Resting, Busy, TypeOK, ListsAgree
<1>7. Reports'
  BY <1>1 DEF Reports, TypeOK
<1> QED
  BY <1>2, <1>3, <1>5, <1>6, <1>7

LEMMA MoveInv ==
    ASSUME IInv, NEW w \in Slave, Top(w) \/ Test(w) \/ Solved(w) \/ Join(w)
    PROVE  IInv'
<1> USE DEF IInv, SlavePc
<1>1. CASE Top(w)
  <2>1. PICK next \in SlavePc :
           /\ Go(w, next, {})
           /\ next = IF globalEnding THEN "done" ELSE "test"
    BY <1>1 DEF Top
  <2>2. /\ pc' \in [Slave -> SlavePc]
        /\ \A x \in Slave : pc'[x] = IF x = w THEN next ELSE pc[x]
    BY <2>1, GoType
  <2>3. TypeOK'
    BY <1>1, <2>2 DEF Top, TypeOK, Results, flags, lists
  <2> QED
    BY <1>1, <2>1, <2>2, <2>3, AloneInv DEF Top, Resting, TypeOK
<1>2. CASE Test(w)
  <2>1. PICK next \in SlavePc :
           /\ Go(w, next, {})
           /\ next = IF interrupt[w] THEN "wait" ELSE "solving"
    BY <1>2 DEF Test
  <2>2. /\ pc' \in [Slave -> SlavePc]
        /\ \A x \in Slave : pc'[x] = IF x = w THEN next ELSE pc[x]
    BY <2>1, GoType
  <2>3. TypeOK'
    BY <1>2, <2>2 DEF Test, TypeOK, flags, lists
  <2> QED
    BY <1>2, <2>1, <2>2, <2>3, AloneInv DEF Test, Resting, TypeOK
<1>3. CASE Solved(w)
  <2>1. /\ pc' \in [Slave -> SlavePc]
        /\ \A x \in Slave : pc'[x] = IF x = w THEN "join" ELSE pc[x]
    BY <1>3, GoType DEF Solved
  <2>2. PICK res \in Results :
           /\ wRes' = [wRes EXCEPT ![w] = res]
           /\ \/ res = "UNKNOWN" /\ interrupt[w]
              \/ res = "SAT" /\ models \cap Within(cubes[w]) # {}
              \/ res = "UNSAT" /\ models \cap Within(cubes[w]) = {}
    BY <1>3 DEF Solved
  <2>3. /\ wRes' \in [Slave -> Results] /\ wRes'[w] = res
        /\ \A x \in Slave : x # w => wRes'[x] = wRes[x]
    BY <2>2 DEF TypeOK
  <2>4. TypeOK'
    BY <1>3, <2>1, <2>3 DEF Solved, TypeOK, flags, lists
  <2> QED
    BY <1>3, <2>1, <2>2, <2>3, <2>4, AloneInv DEF Solved, Resting
<1>4. CASE Join(w)
  <2>1. PICK next \in SlavePc :
           /\ Go(w, next, {})
           /\ \/ next = "top" /\ globalEnding
              \/ next = "split" /\ ~globalEnding /\ wRes[w] = "UNKNOWN"
              \/ next = "unsat" /\ ~globalEnding /\ wRes[w] = "UNSAT"
              \/ next = "claim" /\ ~globalEnding /\ wRes[w] = "SAT"
    BY <1>4 DEF Join, TypeOK, Results
  <2>2. /\ pc' \in [Slave -> SlavePc]
        /\ \A x \in Slave : pc'[x] = IF x = w THEN next ELSE pc[x]
    BY <2>1, GoType
  <2>3. TypeOK'
    BY <1>4, <2>2 DEF Join, TypeOK, flags, lists
  <2> QED
    BY <1>4, <2>1, <2>2, <2>3, AloneInv DEF Join, Resting
<1> QED
  BY <1>1, <1>2, <1>3, <1>4

\* All slaves are interrupted: at the time limit.
LEMMA TimeoutInterruptInv ==
    ASSUME IInv, TimeUp, TimeoutInterrupt
    PROVE  IInv'
<1> USE DEF IInv, TimeUp, TimeoutInterrupt, flags, lists
<1>1. (Searching' <=> Searching) /\ (Fresh' <=> Fresh) /\ Busy' = Busy
  BY DEF Searching, Fresh, Busy
<1>2. interrupt' = [w \in Slave |-> TRUE]
  BY DEF Interrupted, TypeOK
<1>3. TypeOK'
  BY <1>2 DEF TypeOK
<1>4. FreshRest' /\ ListsAgree' /\ Covered' /\ Equipped' /\ MasterIsWoken'
  BY <1>1, <1>2 DEF FreshRest, Resting, ListsAgree, Covered, Equipped,
                    MasterIsWoken
<1>5. Roles' /\ Reports' /\ Ended'
  BY <1>1, <1>2 DEF Roles, Resting, Reports, Ended, TypeOK
<1>6. Counted'
  <2>1. Active' \subseteq Active
    BY <1>2 DEF Active
  <2> QED
    BY <2>1, FewerActive DEF TypeOK
<1> QED
  BY <1>3, <1>4, <1>5, <1>6

\* The first of the workers that have a solution ends the search; UNSAT is one only
\* when no cube is open, and then the formula has no model.
LEMMA ClaimInv ==
    ASSUME IInv, NEW w \in Slave, Claim(w)
    PROVE  IInv'
<1> USE DEF IInv, Claim, lists
<1>1. ~Fresh /\ (Fresh' <=> Fresh)
  BY DEF Fresh, FreshRest, Resting
<1>2. ~Searching'
  BY <1>1 DEF Searching, flags
<1>3. PICK next \in {"top", "ending"} :
         /\ Go(w, next, {})
         /\ next = IF strategyEnding THEN "top" ELSE "ending"
  BY DEF Claim
<1>4. /\ pc' \in [Slave -> SlavePc]
      /\ \A x \in Slave : pc'[x] = IF x = w THEN next ELSE pc[x]
  BY <1>3, GoType DEF SlavePc
<1>5. interrupt' \in [Slave -> BOOLEAN] /\ \A x \in Slave : interrupt[x] => interrupt'[x]
  BY DEF Interrupted, TypeOK
<1>6. TypeOK'
  <2>1. claimed' \in Results /\ strategyEnding' \in BOOLEAN
    BY DEF TypeOK
  <2> QED
    BY <1>4, <1>5, <2>1, SMTT(30) DEF TypeOK
<1>7. Reports'
  BY <1>2, <1>3, <1>4 DEF Reports, TypeOK
<1>8. Ended'
  <2>1. CASE strategyEnding
    BY <1>3, <1>4, <2>1 DEF Ended
  <2>2. CASE ~strategyEnding
    <3>1. /\ strategyEnding' /\ claimed' = wRes[w] /\ wRes' = wRes
          /\ finalResult' = finalResult /\ models' = models
      BY <2>2
    <3>2. Searching
      BY <1>1, <2>2 DEF Searching, Fresh
    <3>3. wRes[w] = "SAT" => models # {}
      BY <3>2 DEF Reports
    <3>4. ASSUME wRes[w] = "UNSAT" PROVE models = {}
      <4>1. Busy = {}
        BY <3>2, <3>4 DEF Roles, Resting, ListsAgree
      <4> QED
        BY <3>2, <4>1 DEF Covered
    <3>5. wRes[w] \in {"SAT", "UNSAT"}
      BY DEF Reports
    <3> QED
      BY <1>3, <1>4, <2>2, <3>1, <3>3, <3>4, <3>5 DEF Ended
  <2> QED
    BY <2>1, <2>2
<1>9. FreshRest' /\ Equipped' /\ MasterIsWoken'
  BY <1>1, <1>2 DEF FreshRest, Equipped, MasterIsWoken
<1>10. Counted'
  <2>1. Active' \subseteq Active
    BY <1>3, <1>4, <1>5 DEF Active
  <2> QED
    BY <2>1, FewerActive DEF TypeOK
<1> QED
  BY <1>2, <1>6, <1>7, <1>8, <1>9, <1>10 DEF Roles, Covered, ListsAgree

\* The search has ended: only the result is still to be set.
LEMMA EndedInv ==
    ASSUME IInv, NEW w \in Slave, Ending(w) \/ Result(w)
    PROVE  IInv'
<1> USE DEF IInv, Ending, Result, lists
<1>1. strategyEnding /\ wRes[w] = claimed
  BY DEF Ended
<1>2. ~Searching' /\ ~Fresh /\ (Fresh' <=> Fresh)
  BY <1>1 DEF Searching, Fresh, FreshRest
<1>3. PICK next \in {"result", "top"} : Go(w, next, {}) /\ (next = "result" => Ending(w))
  OBVIOUS
<1>4. /\ pc' \in [Slave -> SlavePc]
      /\ \A x \in Slave : pc'[x] = IF x = w THEN next ELSE pc[x]
  BY <1>3, GoType DEF SlavePc
<1>5. TypeOK'
  BY <1>4 DEF TypeOK, flags
<1>6. Reports'
  BY <1>2, <1>3, <1>4 DEF Reports
<1>7. Ended'
  <2>1. globalEnding => globalEnding'
    OBVIOUS
  <2>2. finalResult' \in {finalResult, claimed}
    BY <1>1
  <2> QED
    BY <1>1, <1>3, <1>4, <2>1, <2>2 DEF Ended
<1>8. FreshRest' /\ Equipped' /\ MasterIsWoken'
  BY <1>2 DEF FreshRest, Equipped, MasterIsWoken
<1>9. Counted'
  <2>1. Active' \subseteq Active
    BY <1>3, <1>4 DEF Active
  <2> QED
    BY <2>1, FewerActive DEF TypeOK
<1> QED
  BY <1>2, <1>5, <1>6, <1>7, <1>8, <1>9 DEF Roles, Covered, ListsAgree

-----------------------------------------------------------------------------
\* The master.

LEMMA LaunchInv ==
    ASSUME IInv, Launch
    PROVE  IInv'
<1> USE DEF IInv, Launch, flags
<1>1. /\ Fresh /\ ~Fresh' /\ ~strategyEnding /\ Searching' /\ ~Searching
      /\ overs = {} /\ workers = {} /\ oversSplitting = {} /\ workersSplitting = {}
      /\ nWorkers = 0 /\ \A w \in Slave : interrupt[w] /\ Resting(w)
  BY DEF Fresh, FreshRest, Searching
<1>2. /\ First \in Slave /\ workers' = {First} /\ Busy' = {First}
      /\ overs' = Slave \ {First} /\ oversSplitting' = {} /\ workersSplitting' = {}
      /\ nWorkers' = 1 /\ cubes' = [w \in Slave |-> {}]
  BY <1>1, SlaveAssumption DEF Busy
<1>3. /\ \A w \in Slave : interrupt'[w] <=> w # First
      /\ interrupt' \in [Slave -> BOOLEAN]
  BY <1>1 DEF UnsetInterrupt, TypeOK
<1>4. /\ pc' \in [Slave -> SlavePc]
      /\ \A w \in Slave : w # First => pc'[w] = pc[w]
      /\ pc'[First] \in {"top", "test", "solving", "done"}
  BY <1>1, SlaveAssumption DEF Resting, TypeOK, SlavePc
<1>5. TypeOK'
  <2>1. cubes' \in [Slave -> Cube]
    BY <1>2 DEF Cube
  <2> QED
    BY <1>1, <1>2, <1>3, <1>4, <2>1 DEF TypeOK, FreshRest
<1>6. Cardinality(Busy') = 1 /\ Cardinality({First}) = 1
  <2>1. Cardinality({} \cup {First}) = 1
    BY FS_EmptySet, FS_AddElement
  <2>2. {} \cup {First} = {First}
    OBVIOUS
  <2> QED
    BY <1>2, <2>1, <2>2
<1>7. ListsAgree'
  BY <1>1, <1>2, <1>6, FS_EmptySet DEF ListsAgree
<1>8. Roles'
  BY <1>1, <1>2, <1>3, <1>4 DEF Roles, Resting
<1>9. Reports'
  <2>1. \A w \in Slave : pc'[w] \notin {"join", "claim", "unsat"}
    BY <1>1, <1>4 DEF Resting
  <2> QED
    BY <2>1 DEF Reports
<1>10. Covered'
  <2>1. \A m \in models : m \in Within({})
    BY FormulaAssumption DEF TypeOK, Within
  <2> QED
    BY <1>2, <2>1 DEF Covered
<1>11. Equipped'
  BY <1>1, <1>2, SlaveAssumption DEF Equipped, slaves
<1>12. Counted'
  <2>1. Active' \subseteq {First}
    BY <1>1, <1>3, <1>4 DEF Active, Resting
  <2>2. IsFiniteSet({First})
    BY <1>2, SlaveAssumption, FS_Subset
  <2> QED
    BY <1>2, <1>6, <2>1, <2>2, FS_Subset DEF Counted
<1>13. FreshRest' /\ Ended' /\ MasterIsWoken'
  BY <1>1, <1>2, <1>4 DEF FreshRest, Ended, MasterIsWoken, Resting
<1> QED
  BY <1>5, <1>7, <1>8, <1>9, <1>10, <1>11, <1>12, <1>13

LEMMA TakeInv ==
    ASSUME IInv, Take
    PROVE  IInv'
<1> USE DEF IInv
<1>1. PICK w \in workers, o \in overs :
         /\ masterPc = "lock" /\ masterPc' = "test"
         /\ Free(cubes[w]) # {}
         /\ Prompt => pc[w] \notin {"top", "test"}
         /\ overs' = overs \ {o} /\ workers' = workers \ {w}
         /\ workersSplitting' = workersSplitting \cup {w}
         /\ oversSplitting' = oversSplitting \cup {o}
         /\ interrupt' = Interrupted({w})
  BY DEF Take
<1>2. UNCHANGED <<flags, nWorkers, cubes, solver, pc, wRes, mainPc, models, claimed, crashed>>
  BY DEF Take
<1> USE <1>2 DEF flags
<1>3. /\ (Searching' <=> Searching) /\ ~Fresh /\ ~Fresh' /\ Busy' = Busy
      /\ (~strategyEnding => Searching)
  BY <1>1 DEF Searching, Fresh, Busy
<1>4. w \in Slave /\ o \in Slave
  BY DEF TypeOK
<1>5. /\ interrupt' \in [Slave -> BOOLEAN] /\ interrupt'[w]
      /\ \A x \in Slave : x # w => interrupt'[x] = interrupt[x]
      /\ \A x \in Slave : interrupt[x] => interrupt'[x]
  BY <1>1, <1>4 DEF Interrupted, TypeOK
<1>6. TypeOK'
  BY <1>1, <1>4, <1>5 DEF TypeOK
<1>7. ListsAgree'
  <2> SUFFICES ASSUME Searching PROVE ListsAgree'
    BY <1>3 DEF ListsAgree
  <2>1. w \notin workersSplitting /\ o \notin oversSplitting
    BY DEF ListsAgree
  <2>2. Cardinality(workersSplitting') = Cardinality(oversSplitting')
    <3>1. IsFiniteSet(workersSplitting) /\ IsFiniteSet(oversSplitting)
      BY SlaveAssumption, FS_Subset DEF TypeOK
    <3>2. /\ Cardinality(workersSplitting \cup {w}) = Cardinality(workersSplitting) + 1
          /\ Cardinality(oversSplitting \cup {o}) = Cardinality(oversSplitting) + 1
      BY <2>1, <3>1, FS_AddElement
    <3> QED
      BY <1>1, <3>2 DEF ListsAgree
  <2> QED
    BY <1>1, <1>3, <2>1, <2>2 DEF ListsAgree
<1>8. Roles'
  BY <1>1, <1>3, <1>4, <1>5, SMTT(30)
     DEF Roles, Resting, ListsAgree, Busy, Ended, TypeOK
<1>9. Reports' /\ Covered' /\ Equipped' /\ Ended' /\ FreshRest'
  BY <1>3 DEF Reports, Covered, Equipped, Ended, FreshRest
<1>11. Counted'
  <2>1. Active' \subseteq Active
    BY <1>5 DEF Active
  <2> QED
    BY <2>1, FewerActive DEF TypeOK
<1>12. MasterIsWoken'
  BY <1>1 DEF MasterIsWoken
<1> QED
  BY <1>6, <1>7, <1>8, <1>9, <1>11, <1>12

-----------------------------------------------------------------------------
\* Division.

LEMMA SplitInv ==
    ASSUME IInv, NEW w \in Slave, Split(w)
    PROVE  IInv'
<1> USE DEF IInv
<1>1. PICK o \in Overs :
         /\ oversSplitting' = oversSplitting \ {o}
         /\ workersSplitting' = workersSplitting \ {w}
         /\ solver' = [solver EXCEPT ![o] = @ \/ Clone]
         /\ Divide(w, o)
         /\ interrupt' = UnsetInterrupt({w, o})
         /\ Go(w, "top", {o})
  BY DEF Split
<1>2. PICK v \in Var :
         /\ cubes' = [cubes EXCEPT ![w] = @ \cup {<<v, TRUE>>},
                                   ![o] = cubes[w] \cup {<<v, FALSE>>}]
         /\ workers' = workers \cup {w, o}
         /\ nWorkers' = nWorkers + 1
         /\ SignalMaster(overs # {})
  BY <1>1 DEF Divide
<1>3. UNCHANGED <<flags, overs, wRes, mainPc, crashed, models, claimed>> /\ pc[w] = "split"
  BY DEF Split
<1> USE <1>3 DEF flags
<1>4. o \in Slave /\ v \in Var
  BY DEF Overs, TypeOK
<1>5. /\ ~Fresh /\ ~Fresh' /\ (Searching' <=> Searching)
      /\ Searching <=> ~strategyEnding
  BY <1>2 DEF Fresh, FreshRest, Resting, Searching, SignalMaster
<1>6. /\ interrupt' \in [Slave -> BOOLEAN] /\ ~interrupt'[w] /\ ~interrupt'[o]
      /\ \A x \in Slave : x # w /\ x # o => interrupt'[x] = interrupt[x]
  BY <1>1, <1>4 DEF UnsetInterrupt, TypeOK
<1>7. /\ pc' \in [Slave -> SlavePc] /\ pc'[w] = "top"
      /\ o # w => pc'[o] = IF pc[o] = "wait" THEN "solving" ELSE pc[o]
      /\ \A x \in Slave : x # w /\ x # o => pc'[x] = pc[x]
  BY <1>1, <1>4 DEF Go, TypeOK, SlavePc
<1>8. /\ solver' \in [Slave -> BOOLEAN] /\ solver'[o] = (solver[o] \/ Clone)
      /\ \A x \in Slave : x # o => solver'[x] = solver[x]
  BY <1>1, <1>4, FlagAssumption DEF TypeOK
<1>9. TypeOK'
  <2>1. cubes[w] \cup {<<v, TRUE>>} \in Cube /\ cubes[w] \cup {<<v, FALSE>>} \in Cube
    BY <1>4, DividedType DEF TypeOK
  <2>2. cubes' \in [Slave -> Cube]
    BY <1>2, <1>4, <2>1 DEF TypeOK
  <2>3. masterPc' \in {masterPc, "lock"}
    BY <1>2 DEF SignalMaster
  <2>4. /\ overs' \subseteq Slave /\ workers' \subseteq Slave
        /\ oversSplitting' \subseteq Slave /\ workersSplitting' \subseteq Slave
    BY <1>1, <1>2, <1>4 DEF TypeOK
  <2>5. nWorkers' \in Nat
    BY <1>2 DEF TypeOK
  <2> QED
    BY <1>6, <1>7, <1>8, <2>2, <2>3, <2>4, <2>5 DEF TypeOK
<1>10. Counted'
  <2>1. Active' \subseteq Active \cup {o}
    BY <1>4, <1>6, <1>7 DEF Active
  <2>2. /\ IsFiniteSet(Active) /\ IsFiniteSet(Active \cup {o})
        /\ Cardinality(Active \cup {o}) <= Cardinality(Active) + 1
    <3>1. IsFiniteSet(Active) /\ Cardinality(Active) \in Nat
      BY ActiveFinite, FS_CardinalityType
    <3>2. /\ IsFiniteSet(Active \cup {o})
          /\ \/ Cardinality(Active \cup {o}) = Cardinality(Active)
             \/ Cardinality(Active \cup {o}) = Cardinality(Active) + 1
      BY <3>1, FS_AddElement
    <3> QED
      BY <3>1, <3>2
  <2>3. /\ Cardinality(Active') <= Cardinality(Active \cup {o})
        /\ Cardinality(Active) \in Nat /\ Cardinality(Active') \in Nat
        /\ Cardinality(Active \cup {o}) \in Nat
    BY <2>1, <2>2, FS_Subset, FS_CardinalityType
  <2> QED
    BY <1>2, <2>2, <2>3 DEF Counted, TypeOK
<1>11. Ended' /\ FreshRest'
  BY <1>5, <1>7 DEF Ended, FreshRest
<1>12. MasterIsWoken'
  <2>1. CASE overs = {}
    BY <2>1 DEF MasterIsWoken
  <2>2. CASE overs # {}
    BY <1>2, <2>2 DEF MasterIsWoken, SignalMaster
  <2> QED
    BY <2>1, <2>2
<1>13. CASE strategyEnding
  <2>1. ~Searching'
    BY <1>5, <1>13
  <2>2. Reports'
    BY <1>7, <2>1 DEF Reports
  <2> QED
    BY <1>5, <1>8, <1>9, <1>10, <1>11, <1>12, <2>1, <2>2
       DEF Roles, Covered, ListsAgree, Equipped
<1>14. CASE ~strategyEnding
  <2>1. Searching /\ Searching'
    BY <1>5, <1>14
  <2>2. w \in workersSplitting /\ w \notin workers
    BY <2>1 DEF Roles, Busy, ListsAgree
  <2>3. o \in oversSplitting /\ o \notin Busy /\ o \notin overs /\ o # w
    BY <2>1, <2>2, SplittingHasOver DEF Overs, ListsAgree, Busy
  <2>4. /\ Busy' = Busy \cup {o} /\ workers' = workers \cup {w, o}
        /\ w \in Busy
    BY <1>1, <1>2, <2>2 DEF Busy
  <2>6. /\ cubes'[w] = cubes[w] \cup {<<v, TRUE>>}
        /\ cubes'[o] = cubes[w] \cup {<<v, FALSE>>}
        /\ \A x \in Slave : x # w /\ x # o => cubes'[x] = cubes[x]
    BY <1>2, <1>4, <2>3 DEF TypeOK
  <2>7. ListsAgree'
    <3>1. IsFiniteSet(workersSplitting) /\ IsFiniteSet(oversSplitting) /\ IsFiniteSet(Busy)
      BY SlaveAssumption, FS_Subset DEF TypeOK, Busy
    <3>2. /\ Cardinality(workersSplitting \ {w}) = Cardinality(workersSplitting) - 1
          /\ Cardinality(oversSplitting \ {o}) = Cardinality(oversSplitting) - 1
          /\ Cardinality(Busy \cup {o}) = Cardinality(Busy) + 1
      BY <2>2, <2>3, <3>1, FS_RemoveElement, FS_AddElement
    <3> QED
      <4>1. Slave = overs' \cup oversSplitting' \cup Busy'
        BY <1>1, <1>4, <2>1, <2>3, <2>4 DEF ListsAgree
      <4>2. /\ overs' \cap oversSplitting' = {} /\ workers' \cap workersSplitting' = {}
            /\ (overs' \cup oversSplitting') \cap Busy' = {}
        BY <1>1, <2>1, <2>3, <2>4 DEF ListsAgree, Busy
      <4>3. /\ Cardinality(workersSplitting') = Cardinality(oversSplitting')
            /\ nWorkers' = Cardinality(Busy')
        BY <1>1, <1>2, <2>1, <2>4, <3>2 DEF ListsAgree
      <4> QED
        BY <4>1, <4>2, <4>3 DEF ListsAgree
  <2>8. Roles'
    <3>1. interrupt[o] /\ Resting(o)
      BY <2>1, <2>3, <2>4 DEF Roles
    <3>2. ASSUME NEW x \in overs' \cup oversSplitting'
          PROVE  interrupt'[x] /\ Resting(x)'
      <4>1. x \in overs \cup oversSplitting /\ x # w /\ x # o /\ x \in Slave
        BY <1>1, <2>1, <2>3, <2>4, <3>2 DEF ListsAgree, TypeOK
      <4>2. interrupt[x] /\ Resting(x)
        BY <2>1, <2>4, <4>1 DEF Roles
      <4> QED
        BY <1>6, <1>7, <4>1, <4>2 DEF Resting
    <3>3. ASSUME NEW x \in Busy', pc'[x] = "claim" PROVE wRes'[x] = "SAT"
      BY <1>4, <1>7, <2>1, <2>3, <2>4, <3>1, <3>3 DEF Roles, Resting, Busy, TypeOK
    <3>4. ASSUME NEW x \in workers'
          PROVE  /\ ~globalEnding' => ~interrupt'[x] /\ pc'[x] # "wait"
                 /\ pc'[x] # "split"
                 /\ pc'[x] = "join" /\ wRes'[x] = "UNKNOWN" => globalEnding'
      BY <1>4, <1>6, <1>7, <2>1, <2>3, <2>4, <3>1, <3>4 DEF Roles, Resting, TypeOK
    <3>5. ASSUME NEW x \in workersSplitting', Prompt, ~globalEnding' PROVE ~Resting(x)'
      <4>1. x \in workersSplitting /\ x # w /\ x # o /\ x \in Slave
        BY <1>1, <2>3, <3>5 DEF Busy, TypeOK
      <4> QED
        BY <1>7, <2>1, <3>5, <4>1 DEF Roles, Resting
    <3>6. ASSUME NEW x \in Slave, pc'[x] \in {"solving", "join", "split", "unsat"}
          PROVE  x \in Busy'
      BY <1>7, <2>1, <2>4, <3>6 DEF Roles
    <3> QED
      BY <3>2, <3>3, <3>4, <3>5, <3>6 DEF Roles
  <2>9. Reports'
    <3>1. Resting(o)
      BY <2>1, <2>3, <2>4 DEF Roles
    <3> QED
      BY <1>4, <1>7, <2>1, <2>3, <2>6, <3>1 DEF Reports, Resting
  <2>10. Covered'
    <3> SUFFICES ASSUME NEW m \in models PROVE \E x \in Busy' : m \in Within(cubes'[x])
      BY DEF Covered
    <3>1. PICK x \in Busy : m \in Within(cubes[x])
      BY <2>1 DEF Covered
    <3>2. CASE x = w
      <4>1. m \in Within(cubes'[w]) \/ m \in Within(cubes'[o])
        BY <1>4, <2>6, <3>1, <3>2, DividedCovers
      <4> QED
        BY <2>4, <4>1
    <3>3. CASE x # w
      BY <2>3, <2>4, <2>6, <3>1, <3>3 DEF Busy, TypeOK
    <3> QED
      BY <3>2, <3>3
  <2>12. Equipped'
    <3>1. ASSUME NEW x \in Busy' PROVE solver'[x]
      BY <1>4, <1>8, <2>1, <2>4, <3>1, FlagAssumption DEF Equipped, Busy, TypeOK
    <3>2. ~Clone => \A x \in Slave : solver'[x]
      BY <1>4, <1>8 DEF Equipped
    <3> QED
      BY <1>5, <3>1, <3>2 DEF Equipped
  <2> QED
    BY <1>9, <1>10, <1>11, <1>12, <2>7, <2>8, <2>9, <2>10, <2>12
<1> QED
  BY <1>13, <1>14

-----------------------------------------------------------------------------
\* Refutation.

\* w is free afterwards, and so is the slave of the division it cancels, if any.
LEMMA RefutedFrees ==
    ASSUME IInv, Searching, NEW w \in Busy, Refuted(w)
    PROVE  \E S \in SUBSET oversSplitting :
              /\ overs' = overs \cup {w} \cup S /\ oversSplitting' = oversSplitting \ S
              /\ workers' = workers \ {w} /\ workersSplitting' = workersSplitting \ {w}
              /\ Cardinality(workersSplitting') = Cardinality(oversSplitting')
<1> USE DEF IInv
<1>1. CASE w \in workersSplitting
  <2>1. PICK o \in oversSplitting :
           /\ oversSplitting' = oversSplitting \ {o}
           /\ workersSplitting' = workersSplitting \ {w}
           /\ overs' = overs \cup {w, o}
           /\ workers' = workers
    BY <1>1 DEF Refuted
  <2>2. workers' = workers \ {w}
    BY <1>1, <2>1 DEF ListsAgree
  <2>3. IsFiniteSet(workersSplitting) /\ IsFiniteSet(oversSplitting)
    BY SlaveAssumption, FS_Subset DEF TypeOK
  <2>4. /\ Cardinality(workersSplitting \ {w}) = Cardinality(workersSplitting) - 1
        /\ Cardinality(oversSplitting \ {o}) = Cardinality(oversSplitting) - 1
    BY <1>1, <2>3, FS_RemoveElement
  <2>5. Cardinality(workersSplitting') = Cardinality(oversSplitting')
    BY <2>1, <2>4 DEF ListsAgree
  <2>6. {o} \in SUBSET oversSplitting /\ overs' = overs \cup {w} \cup {o}
    BY <2>1
  <2> QED
    BY <2>1, <2>2, <2>5, <2>6
<1>2. CASE w \notin workersSplitting
  <2>1. /\ overs' = overs \cup {w} \cup {} /\ oversSplitting' = oversSplitting \ {}
        /\ workers' = workers \ {w} /\ workersSplitting' = workersSplitting \ {w}
        /\ workersSplitting' = workersSplitting /\ oversSplitting' = oversSplitting
    BY <1>2 DEF Refuted
  <2> QED
    BY <2>1 DEF ListsAgree
<1> QED
  BY <1>1, <1>2

LEMMA RefutedType ==
    ASSUME TypeOK, NEW w \in Slave, Refuted(w)
    PROVE  /\ overs' \subseteq Slave /\ workers' \subseteq Slave
           /\ oversSplitting' \subseteq Slave /\ workersSplitting' \subseteq Slave
BY DEF Refuted, TypeOK

LEMMA UnsatInv ==
    ASSUME IInv, NEW w \in Slave, Unsat(w)
    PROVE  IInv'
<1> USE DEF IInv
<1>1. /\ pc[w] = "unsat" /\ Refuted(w)
      /\ nWorkers' = nWorkers - 1
      /\ SignalMaster(workers' # {})
      /\ interrupt' = Interrupted({w})
      /\ solver' = [solver EXCEPT ![w] = @ /\ (Clone => nWorkers' <= 0)]
      /\ UNCHANGED <<flags, cubes, wRes, mainPc, crashed, models, claimed>>
  BY DEF Unsat
<1> USE <1>1 DEF flags
<1>2. PICK next \in {"top", "claim"} :
         Go(w, next, {}) /\ next = IF nWorkers' > 0 THEN "top" ELSE "claim"
  BY DEF Unsat
<1>3. /\ pc' \in [Slave -> SlavePc]
      /\ \A x \in Slave : pc'[x] = IF x = w THEN next ELSE pc[x]
  BY <1>2, GoType DEF SlavePc
<1>4. /\ interrupt' \in [Slave -> BOOLEAN] /\ interrupt'[w]
      /\ \A x \in Slave : x # w => interrupt'[x] = interrupt[x]
  BY DEF Interrupted, TypeOK
<1>5. /\ ~Fresh /\ ~Fresh' /\ (Searching' <=> Searching)
      /\ Searching <=> ~strategyEnding
  BY DEF Fresh, FreshRest, Resting, Searching, SignalMaster
<1>6. Counted' /\ nWorkers' \in Nat
  <2>1. Active' \subseteq Active \ {w} /\ w \in Active
    BY <1>2, <1>3, <1>4 DEF Active
  <2>2. /\ IsFiniteSet(Active) /\ IsFiniteSet(Active \ {w})
        /\ Cardinality(Active \ {w}) = Cardinality(Active) - 1
    BY <2>1, ActiveFinite, FS_RemoveElement
  <2>3. /\ Cardinality(Active') <= Cardinality(Active \ {w})
        /\ Cardinality(Active) \in Nat /\ Cardinality(Active') \in Nat
        /\ Cardinality(Active \ {w}) \in Nat
    BY <2>1, <2>2, FS_Subset, FS_CardinalityType
  <2> QED
    BY <2>2, <2>3 DEF Counted, TypeOK
<1>7. solver' \in [Slave -> BOOLEAN] /\ \A x \in Slave : x # w => solver'[x] = solver[x]
  BY FlagAssumption DEF TypeOK
<1>8. TypeOK'
  <2>1. masterPc' \in {masterPc, "lock"}
    BY DEF SignalMaster
  <2> QED
    BY <1>3, <1>4, <1>6, <1>7, <2>1, RefutedType DEF TypeOK
<1>9. Ended' /\ FreshRest'
  BY <1>2, <1>3, <1>5 DEF Ended, FreshRest
<1>10. MasterIsWoken'
  <2>1. CASE workers' = {}
    BY <2>1 DEF MasterIsWoken
  <2>2. CASE workers' # {}
    BY <2>2 DEF MasterIsWoken, SignalMaster
  <2> QED
    BY <2>1, <2>2
<1>11. ~Clone => \A x \in Slave : solver'[x]
  BY FlagAssumption DEF Equipped, TypeOK
<1>12. /\ \A x \in Slave : /\ pc'[x] = "claim" => wRes'[x] \in {"SAT", "UNSAT"}
                           /\ pc'[x] = "unsat" => wRes'[x] = "UNSAT"
  BY <1>2, <1>3 DEF Reports
<1>13. CASE strategyEnding
  <2>1. ~Searching'
    BY <1>5, <1>13
  <2> QED
    BY <1>5, <1>6, <1>8, <1>9, <1>10, <1>11, <1>12, <2>1
       DEF Roles, Covered, ListsAgree, Equipped, Reports
<1>14. CASE ~strategyEnding
  <2>1. Searching /\ Searching'
    BY <1>5, <1>14
  <2>2. w \in Busy /\ wRes[w] = "UNSAT"
    BY <2>1 DEF Roles, Reports
  <2>3. PICK S \in SUBSET oversSplitting :
           /\ overs' = overs \cup {w} \cup S /\ oversSplitting' = oversSplitting \ S
           /\ workers' = workers \ {w} /\ workersSplitting' = workersSplitting \ {w}
           /\ Cardinality(workersSplitting') = Cardinality(oversSplitting')
    BY <2>1, <2>2, RefutedFrees
  <2>4. Busy' = Busy \ {w}
    BY <2>3 DEF Busy
  <2>5. ListsAgree'
    <3>1. nWorkers' = Cardinality(Busy')
      <4>1. IsFiniteSet(Busy)
        BY SlaveAssumption, FS_Subset DEF TypeOK, Busy
      <4> QED
        BY <2>1, <2>2, <2>4, <4>1, FS_RemoveElement DEF ListsAgree
    <3>2. Slave = overs' \cup oversSplitting' \cup Busy'
      BY <2>1, <2>3, <2>4 DEF ListsAgree
    <3>3. /\ overs' \cap oversSplitting' = {} /\ workers' \cap workersSplitting' = {}
          /\ (overs' \cup oversSplitting') \cap Busy' = {}
      BY <2>1, <2>2, <2>3, <2>4 DEF ListsAgree
    <3> QED
      BY <2>3, <3>1, <3>2, <3>3 DEF ListsAgree
  <2>6. next = "claim" => Busy' = {}
    <3>1. IsFiniteSet(Busy') /\ nWorkers' = Cardinality(Busy')
      BY <1>8, <2>1, <2>5, SlaveAssumption, FS_Subset DEF TypeOK, Busy, ListsAgree
    <3> QED
      BY <1>2, <1>6, <3>1, FS_EmptySet
  <2>7. Roles'
    <3>1. ASSUME NEW x \in overs' \cup oversSplitting'
          PROVE  /\ interrupt'[x]
                 /\ Resting(x)' \/ (pc'[x] = "claim" /\ wRes'[x] = "UNSAT" /\ Busy' = {})
      <4>1. CASE x = w
        BY <1>2, <1>3, <1>4, <2>2, <2>6, <4>1 DEF Resting
      <4>2. CASE x # w
        <5>1. x \in overs \cup oversSplitting /\ x \in Slave
          BY <2>3, <3>1, <4>2 DEF TypeOK
        <5>2. interrupt[x] /\ Resting(x)
          BY <2>1, <2>2, <5>1 DEF Roles
        <5> QED
          BY <1>3, <1>4, <4>2, <5>1, <5>2 DEF Resting
      <4> QED
        BY <4>1, <4>2
    <3>2. \A x \in Busy' : x \in Busy /\ x # w /\ x \in Slave
      BY <2>4 DEF Busy, TypeOK
    <3>3. ASSUME NEW x \in Busy', pc'[x] = "claim" PROVE wRes'[x] = "SAT"
      BY <1>3, <2>1, <3>2, <3>3 DEF Roles
    <3>4. ASSUME NEW x \in workers'
          PROVE  /\ ~globalEnding' => ~interrupt'[x] /\ pc'[x] # "wait"
                 /\ pc'[x] # "split"
                 /\ pc'[x] = "join" /\ wRes'[x] = "UNKNOWN" => globalEnding'
      <4>1. x \in workers /\ x # w /\ x \in Slave
        BY <2>3, <3>4 DEF TypeOK
      <4> QED
        BY <1>3, <1>4, <2>1, <4>1 DEF Roles
    <3>5. ASSUME NEW x \in workersSplitting', Prompt, ~globalEnding' PROVE ~Resting(x)'
      <4>1. x \in workersSplitting /\ x # w /\ x \in Slave
        BY <2>3, <3>5 DEF TypeOK
      <4> QED
        BY <1>3, <2>1, <3>5, <4>1 DEF Roles, Resting
    <3>6. ASSUME NEW x \in Slave, pc'[x] \in {"solving", "join", "split", "unsat"}
          PROVE  x \in Busy'
      BY <1>2, <1>3, <2>1, <2>4, <3>6 DEF Roles
    <3> QED
      BY <3>1, <3>3, <3>4, <3>5, <3>6 DEF Roles
  <2>8. Reports'
    BY <1>2, <1>3, <1>12, <2>1, <2>2 DEF Reports
  <2>9. Covered'
    <3>1. models \cap Within(cubes[w]) = {}
      BY <2>1, <2>2 DEF Reports
    <3> QED
      BY <2>1, <2>4, <3>1 DEF Covered
  <2>10. Equipped'
    BY <1>5, <1>7, <1>11, <2>1, <2>3, <2>4 DEF Equipped, Busy, TypeOK
  <2> QED
    BY <1>6, <1>8, <1>9, <1>10, <2>5, <2>7, <2>8, <2>9, <2>10
<1> QED
  BY <1>13, <1>14

-----------------------------------------------------------------------------
LEMMA StepInv == IInv /\ TimeUp /\ [Next]_vars => IInv'
<1> SUFFICES ASSUME IInv, TimeUp, [Next]_vars PROVE IInv'
  OBVIOUS
<1>1. CASE Main \/ Timeout
  BY <1>1, MainInv, TimeoutInterruptInv DEF Main
<1>2. CASE Master \/ Take
  BY <1>2, MasterInv, LaunchInv, TakeInv DEF Master
<1>3. ASSUME NEW w \in Slave, Work(w) PROVE IInv'
  BY <1>3, MoveInv, SplitInv, StandsInv, UnsatInv, ClaimInv, EndedInv DEF Work
<1>4. CASE UNCHANGED vars
  BY <1>4, StandsInv
<1> QED
  BY <1>1, <1>2, <1>3, <1>4 DEF Next

\* Only the time limit, once passed, interrupts all slaves from outside.
LEMMA StepTimeUp == TimeUp /\ [Next]_vars => TimeUp'
<1> SUFFICES ASSUME TimeUp, [Next]_vars PROVE TimeUp'
  OBVIOUS
<1> USE DEF TimeUp, flags
<1>1. CASE Main \/ Timeout
  BY <1>1 DEF Main, Timeout, Solve, SignalStart, Poll, TimeoutInterrupt, DeleteWorking
<1>2. CASE Master \/ Take
  BY <1>2 DEF Master, Take, Start, Launch, MasterTest, Rest
<1>3. ASSUME NEW w \in Slave, Work(w) PROVE TimeUp'
  BY <1>3 DEF Work, Top, Test, Solved, Join, Split, SplitNothing, Unsat, Claim, Ending,
              Result
<1>4. CASE UNCHANGED vars
  BY <1>4 DEF vars
<1> QED
  BY <1>1, <1>2, <1>3, <1>4 DEF Next

LEMMA Invariance == Spec => [](IInv /\ TimeUp)
<1>1. Init => IInv /\ TimeUp
  BY InitInv DEF Init, TimeUp
<1>2. IInv /\ TimeUp /\ [Next]_vars => IInv' /\ TimeUp'
  BY StepInv, StepTimeUp
<1> QED
  BY <1>1, <1>2, PTL DEF Spec

\* Every variable keeps its type; in particular no cube is counted down twice, and
\* nWorkers never becomes negative.  (DivideAndConquer::join)
THEOREM TypeCorrect == Spec => []TypeOK
<1>1. IInv => TypeOK
  BY DEF IInv
<1> QED
  BY <1>1, Invariance, PTL

\* Whatever the formula, the result is its answer.  (join of all workers)
THEOREM RightAnswer == Spec => []AnswerIsRight
<1>1. IInv => AnswerIsRight
  BY DEF IInv, Ended, AnswerIsRight
<1> QED
  BY <1>1, Invariance, PTL

\* However many slaves there are, the four lists part them, and each worker that is
\* to divide has a slave to divide with.  (the lists under mutexListsWorkers)
THEOREM ListsAreConsistent == Spec => []ListsAgree
<1>1. IInv => ListsAgree
  BY DEF IInv
<1> QED
  BY <1>1, Invariance, PTL

\* A free slave never solves, and with timely workers no cube sleeps.  (setInterrupt
\* in join, the interrupts of the master)
THEOREM FreeSlavesStayAtRest == Spec => []FreeSlavesRest
<1>1. IInv => FreeSlavesRest
  <2> SUFFICES ASSUME IInv, Searching PROVE FreeSlavesRest
    BY DEF FreeSlavesRest
  <2>1. \A w \in overs \cup oversSplitting :
           interrupt[w] /\ (Resting(w) \/ (pc[w] = "claim" /\ Busy = {}))
    BY DEF IInv, Roles
  <2>2. Prompt /\ ~globalEnding => \A w \in Busy : pc[w] # "wait"
    BY DEF IInv, Roles, Resting, Busy
  <2> QED
    BY <2>1, <2>2 DEF FreeSlavesRest, Resting
<1> QED
  BY <1>1, Invariance, PTL

\* No worker solves without a solver, in either copy mode.  (cloneStrategy)
THEOREM WorkersHaveSolvers == Spec => []SolverAtHand
<1>1. IInv => SolverAtHand
  BY DEF IInv, Roles, Equipped, SolverAtHand
<1> QED
  BY <1>1, Invariance, PTL

\* The master never sleeps while there is a cube to divide and a slave for it.
\* (pthread_cond_signal in join)
THEOREM MasterNotForgotten == Spec => []MasterIsWoken
<1>1. IInv => MasterIsWoken
  BY DEF IInv
<1> QED
  BY <1>1, Invariance, PTL

-----------------------------------------------------------------------------
\* The refinement: what the threads do to the cubes is a search of the space.

Nothing == [w \in {} |-> {}]
Open == IF strategyEnding THEN Nothing ELSE OpenCubes

LEMMA OpenSame ==
    ASSUME strategyEnding' = strategyEnding, Fresh' <=> Fresh, Busy' = Busy,
           \A w \in Busy : cubes'[w] = cubes[w]
    PROVE  Open' = Open
BY DEF Open, OpenCubes, Fresh

LEMMA OpenWhileSearching ==
    /\ Searching => Open = [w \in Busy |-> cubes[w]]
    /\ Searching' => Open' = [w \in Busy' |-> cubes'[w]]
BY DEF Open, OpenCubes, Searching

LEMMA OpenAtEnd ==
    /\ strategyEnding => Open = Nothing
    /\ strategyEnding' => Open' = Nothing
BY DEF Open, Nothing

\* A division, whatever the variable: the slave has had no cube.
LEMMA SplitDivides ==
    ASSUME IInv, IInv', NEW w \in Slave, Split(w)
    PROVE  [Search!Next]_Search!vars
<1> USE DEF IInv
<1>1. UNCHANGED <<models, claimed, strategyEnding>>
  BY DEF Split, flags
<1>2. CASE strategyEnding
  <2>1. Open' = Open
    BY <1>1, <1>2, OpenAtEnd
  <2> QED
    BY <1>1, <2>1 DEF Open, Nothing, Search!vars
<1>3. CASE ~strategyEnding
  <2>1. Searching /\ Searching'
    BY <1>1, <1>3 DEF Split, Divide, SignalMaster, Searching, FreshRest, Fresh, Resting
  <2>2. w \in workersSplitting /\ w \in Busy
    BY <2>1 DEF Split, Roles, Busy
  <2>3. PICK o \in oversSplitting :
           Divide(w, o) /\ workersSplitting' = workersSplitting \ {w}
    BY <2>1, <2>2, SplittingHasOver DEF Split, Overs, ListsAgree
  <2>4. o \in Slave /\ o \notin Busy /\ w \notin workers
    BY <2>1, <2>2, <2>3 DEF ListsAgree, TypeOK
  <2>5. PICK v \in Var :
           /\ cubes' = [cubes EXCEPT ![w] = @ \cup {<<v, TRUE>>},
                                     ![o] = cubes[w] \cup {<<v, FALSE>>}]
           /\ workers' = workers \cup {w, o}
    BY <2>3 DEF Divide
  <2>6. /\ Busy' = Busy \cup {o}
        /\ cubes'[w] = cubes[w] \cup {<<v, TRUE>>}
        /\ cubes'[o] = cubes[w] \cup {<<v, FALSE>>}
        /\ \A x \in Slave : x # w /\ x # o => cubes'[x] = cubes[x]
        /\ \A x \in Busy : x \in Slave
    <3>1. Busy' = Busy \cup {o}
      BY <2>2, <2>3, <2>5 DEF Busy
    <3>2. w \in Slave /\ o \in Slave /\ o # w /\ DOMAIN cubes = Slave
      BY <2>2, <2>4 DEF TypeOK
    <3>3. \A x \in Busy : x \in Slave
      BY DEF Busy, TypeOK
    <3> QED
      BY <2>5, <3>1, <3>2, <3>3
  <2>7. /\ Open = [x \in Busy |-> cubes[x]] /\ Open' = [x \in Busy' |-> cubes'[x]]
        /\ DOMAIN Open = Busy
    BY <2>1, OpenWhileSearching
  <2>8. Open' = [x \in DOMAIN Open \cup {o} |->
                   IF x = w THEN Open[w] \cup {<<v, TRUE>>}
                   ELSE IF x = o THEN Open[w] \cup {<<v, FALSE>>} ELSE Open[x]]
    BY <2>2, <2>4, <2>6, <2>7
  <2>9. w \in DOMAIN Open /\ o \in Slave \ DOMAIN Open
    BY <2>2, <2>4, <2>7
  <2>10. Search!Divide
    BY <1>1, <2>8, <2>9 DEF Search!Divide, Open, Nothing
  <2>11. claimed = "UNKNOWN"
    BY <1>3 DEF Ended
  <2> QED
    BY <2>10, <2>11 DEF Search!Next
<1> QED
  BY <1>2, <1>3

LEMMA UnsatRefutes ==
    ASSUME IInv, IInv', NEW w \in Slave, Unsat(w)
    PROVE  [Search!Next]_Search!vars
<1> USE DEF IInv
<1>1. UNCHANGED <<models, claimed, strategyEnding, cubes>>
  BY DEF Unsat, flags
<1>2. CASE strategyEnding
  <2>1. Open' = Open
    BY <1>1, <1>2, OpenAtEnd
  <2> QED
    BY <1>1, <2>1 DEF Open, Nothing, Search!vars
<1>3. CASE ~strategyEnding
  <2>1. Searching /\ Searching' /\ Refuted(w)
    BY <1>1, <1>3 DEF Unsat, SignalMaster, Searching, FreshRest, Fresh, Resting
  <2>2. w \in Busy /\ models \cap Within(cubes[w]) = {}
    BY <2>1 DEF Unsat, Roles, Reports
  <2>3. Busy' = Busy \ {w}
    BY <2>1, <2>2, RefutedFrees DEF Busy
  <2>4. Open = [x \in Busy |-> cubes[x]] /\ Open' = [x \in Busy' |-> cubes[x]]
    BY <1>1, <2>1, OpenWhileSearching
  <2>5. w \in DOMAIN Open /\ Open' = [x \in DOMAIN Open \ {w} |-> Open[x]]
    BY <2>2, <2>3, <2>4
  <2>6. Search!Within(Open[w]) = Within(cubes[w])
    BY <2>2, <2>4 DEF Search!Within, Within, Assignment
  <2>7. Search!Refute
    BY <1>1, <2>2, <2>5, <2>6 DEF Search!Refute, Open, Nothing
  <2>8. claimed = "UNKNOWN"
    BY <1>3 DEF Ended
  <2> QED
    BY <2>7, <2>8 DEF Search!Next
<1> QED
  BY <1>2, <1>3

LEMMA ClaimAnswers ==
    ASSUME IInv, NEW w \in Slave, Claim(w)
    PROVE  [Search!Next]_Search!vars
<1> USE DEF IInv
<1>1. models' = models /\ pc[w] = "claim"
  BY DEF Claim
<1>2. CASE strategyEnding
  <2>1. UNCHANGED <<claimed, strategyEnding>>
    BY <1>2 DEF Claim
  <2>2. Open' = Open
    BY <1>2, <2>1, OpenAtEnd
  <2> QED
    BY <1>1, <2>1, <2>2 DEF Open, Nothing, Search!vars
<1>3. CASE ~strategyEnding
  <2>1. strategyEnding' /\ claimed' = wRes[w]
    BY <1>3 DEF Claim
  <2>2. Searching
    BY <1>1, <1>3 DEF Searching, FreshRest, Fresh, Resting
  <2>3. Open = [x \in Busy |-> cubes[x]] /\ Open' = Nothing
    BY <2>1, <2>2, OpenWhileSearching, OpenAtEnd
  <2>4. claimed = "UNKNOWN"
    BY <1>3 DEF Ended
  <2>5. CASE wRes[w] = "SAT"
    <3>1. w \in Busy
      BY <1>1, <2>2, <2>5 DEF Roles, Resting, ListsAgree
    <3>2. models \cap Within(cubes[w]) # {}
      BY <1>1, <2>2, <2>5 DEF Reports
    <3>3. w \in DOMAIN Open /\ Search!Within(Open[w]) = Within(cubes[w])
      BY <2>3, <3>1 DEF Search!Within, Within, Assignment
    <3>4. Search!Satisfy
      BY <1>1, <2>1, <2>3, <2>5, <3>2, <3>3 DEF Search!Satisfy, Open, Nothing
    <3> QED
      BY <2>4, <3>4 DEF Search!Next
  <2>6. CASE wRes[w] = "UNSAT"
    <3>1. Busy = {}
      BY <1>1, <2>2, <2>6 DEF Roles, Resting, ListsAgree
    <3>2. DOMAIN Open = {} /\ Open = Nothing
      BY <2>3, <3>1 DEF Nothing
    <3>3. Search!Exhaust
      BY <1>1, <2>1, <2>3, <2>6, <3>2 DEF Search!Exhaust, Open, Nothing
    <3> QED
      BY <2>4, <3>3 DEF Search!Next
  <2> QED
    BY <1>1, <2>5, <2>6 DEF Reports
<1> QED
  BY <1>2, <1>3

\* No other step changes what is left to be searched.
LEMMA OthersStutter ==
    ASSUME IInv, [Next]_vars,
           \A w \in Slave : ~Split(w) /\ ~Unsat(w) /\ ~Claim(w)
    PROVE  UNCHANGED <<models, Open, claimed>>
<1> USE DEF flags, lists
<1>1. CASE Launch
  <2>1. /\ ~strategyEnding /\ ~strategyEnding' /\ Fresh /\ ~Fresh'
        /\ UNCHANGED <<models, claimed>>
    BY <1>1 DEF Launch, IInv, FreshRest, Fresh
  <2>2. Busy' = {First} /\ cubes'[First] = {}
    BY <1>1, <2>1, SlaveAssumption DEF Launch, Busy, IInv, FreshRest
  <2>3. Open = [w \in {First} |-> {}] /\ Open' = [w \in Busy' |-> cubes'[w]]
    BY <2>1 DEF Open, OpenCubes, Fresh
  <2> QED
    BY <2>1, <2>2, <2>3
<1>2. CASE Take
  <2>1. /\ UNCHANGED <<models, claimed, strategyEnding, cubes>>
        /\ masterPc = "lock" /\ masterPc' = "test" /\ Busy' = Busy
    BY <1>2 DEF Take, Busy
  <2> QED
    BY <2>1, OpenSame DEF Fresh
<1>3. CASE Main \/ Timeout \/ Start \/ MasterTest \/ Rest
  <2>1. /\ UNCHANGED <<models, claimed, strategyEnding, cubes>>
        /\ UNCHANGED <<workers, workersSplitting>> /\ (Fresh' <=> Fresh)
    BY <1>3 DEF Main, Timeout, Solve, SignalStart, Poll, TimeoutInterrupt, DeleteWorking, Start,
                MasterTest, Rest, Fresh
  <2> QED
    BY <2>1, OpenSame DEF Busy
<1>4. ASSUME NEW w \in Slave, Work(w) PROVE UNCHANGED <<models, Open, claimed>>
  <2>1. /\ UNCHANGED <<models, claimed, strategyEnding, cubes, masterPc>>
        /\ UNCHANGED <<workers, workersSplitting>>
    BY <1>4 DEF Work, Top, Test, Solved, Join, SplitNothing, Ending, Result
  <2> QED
    BY <2>1, OpenSame DEF Busy, Fresh
<1>5. CASE UNCHANGED vars
  BY <1>5, OpenSame DEF vars, Busy, Fresh
<1> QED
  BY <1>1, <1>2, <1>3, <1>4, <1>5 DEF Next, Master

\* For every formula and every number of slaves, dividing cubes on whatever variable,
\* decided already or not, refuting them, and the end of the search, are steps of
\* SearchSpace: no cube is lost, and none has two searchers.
\* (the master and join of several workers)
THEOREM DivisionSearchesSpace == Spec => Implements
<1>1. Init => Search!Init
  BY DEF Init, Search!Init, OpenCubes
<1>2. IInv /\ IInv' /\ [Next]_vars => [Search!Next]_Search!vars
  <2> SUFFICES ASSUME IInv, IInv', [Next]_vars PROVE [Search!Next]_Search!vars
    OBVIOUS
  <2>1. CASE \E w \in Slave : Split(w) \/ Unsat(w) \/ Claim(w)
    BY <2>1, SplitDivides, UnsatRefutes, ClaimAnswers
  <2>2. CASE \A w \in Slave : ~Split(w) /\ ~Unsat(w) /\ ~Claim(w)
    <3>1. UNCHANGED <<models, Open, claimed>>
      BY <2>2, OthersStutter
    <3> QED
      BY <3>1 DEF Search!vars, Open, Nothing
  <2> QED
    BY <2>1, <2>2
<1> QED
  BY <1>1, <1>2, Invariance, PTL DEF Spec, Implements, Search!Spec
=============================================================================
