---------------------------- MODULE SharerProofs ----------------------------
(***************************************************************************)
(* Sharer, for every number of sharers, solvers and clauses: its types,    *)
(* that nRefs counts the references to a solver, that no sharer uses a     *)
(* solver that is deleted unless a list forgot it before it got it, that a *)
(* clause reaches every solver but the one that learned it, and that no    *)
(* selection of clauses is better than those of a round.                   *)
(***************************************************************************)
EXTENDS Sharer, FiniteSetTheorems, WellFoundedInduction, TLAPS

\* A list that knows nothing of v, and one that has v and is not asked to forget it.
Absent(v, l) == v \notin members[l] \cup toAdd[l] \cup toRemove[l] /\ <<l, v>> \notin overtaken
Kept(v, l)   == Listed(v, l) /\ v \notin toRemove[l]

CanGiveUp(v) == v \notin setup.original \/ setup.givesUp

\* A list is only asked to forget what it has.
Requests == \A l \in List : \A v \in toRemove[l] : Listed(v, l)

\* What the lists of the calls made, and of those to make, know of v.
Cycle(v) ==
    /\ phase[v] = "unborn" => \A l \in List : Absent(v, l)
    /\ phase[v] \in {"unborn", "running"} => at[v] = 1
    /\ phase[v] = "adding" =>
          /\ \A i \in DOMAIN setup.calls : i < at[v] => Kept(v, setup.calls[i])
          /\ \A i \in DOMAIN setup.calls : i >= at[v] => Absent(v, setup.calls[i])
    /\ phase[v] = "running" /\ CanGiveUp(v) =>
          \A i \in DOMAIN setup.calls : Kept(v, setup.calls[i])
    /\ phase[v] = "removing" =>
          \A i \in DOMAIN setup.calls : i >= at[v] => Kept(v, setup.calls[i])

Lifecycle == \A v \in Solver : Cycle(v)

\* A round only serves members.
Rounds ==
    \A s \in Sharer :
        /\ from[s] \subseteq members[<<s, "producer">>]
        /\ to[s] \subseteq members[<<s, "consumer">>]
        /\ pc[s] \in {"dequeue", "give"} => current[s] \in members[<<s, "producer">>]
        /\ pc[s] # "give" => to[s] = {}
        /\ pc[s] \notin {"take", "dequeue", "give"} => from[s] = {}

IInv == TypeOK /\ SolverRefs /\ Requests /\ Lifecycle /\ Rounds /\ NoDeletedSolver

-----------------------------------------------------------------------------
LEMMA ListFacts ==
    /\ \A s \in Sharer, r \in Role : <<s, r>> \in List
    /\ \A l \in List : l[1] \in Sharer /\ l[2] \in Role /\ l = <<l[1], l[2]>>
    /\ Owner \notin List
    /\ \A s \in Sharer : <<s, "producer">> \in List /\ <<s, "consumer">> \in List
BY NumSharersAssumption DEF List, Sharer, Role, Owner

LEMMA FiniteTokens == \A S \in SUBSET (List \cup {Owner}) : IsFiniteSet(S)
<1>1. IsFiniteSet(Sharer)
  BY NumSharersAssumption, FS_Interval DEF Sharer
<1>2. IsFiniteSet(Role)
  <2>1. IsFiniteSet({}) /\ IsFiniteSet({} \cup {"producer"})
    BY FS_EmptySet, FS_AddElement
  <2>2. IsFiniteSet(({} \cup {"producer"}) \cup {"consumer"})
    BY <2>1, FS_AddElement
  <2>3. Role = ({} \cup {"producer"}) \cup {"consumer"}
    BY DEF Role
  <2> QED BY <2>2, <2>3
<1>3. IsFiniteSet(List)
  BY <1>1, <1>2, FS_Product DEF List
<1>4. IsFiniteSet(List \cup {Owner})
  BY <1>3, FS_AddElement
<1> QED BY <1>4, FS_Subset

LEMMA CountAdd ==
    ASSUME NEW S \in SUBSET (List \cup {Owner}), NEW x, x \notin S
    PROVE  Cardinality(S \cup {x}) = Cardinality(S) + 1 /\ Cardinality(S) \in Nat
BY FiniteTokens, FS_AddElement, FS_CardinalityType

LEMMA CountRemove ==
    ASSUME NEW S \in SUBSET (List \cup {Owner}), NEW x \in S
    PROVE  Cardinality(S \ {x}) = Cardinality(S) - 1 /\ Cardinality(S \ {x}) \in Nat
<1>1. S \ {x} \in SUBSET (List \cup {Owner})
  OBVIOUS
<1>2. Cardinality(S \ {x}) \in Nat
  BY <1>1, FiniteTokens, FS_CardinalityType
<1> QED BY <1>2, FiniteTokens, FS_RemoveElement

LEMMA HoldersTokens ==
    \A v \in Solver : Holders(v) \in SUBSET (List \cup {Owner})
BY DEF Holders

\* What a solver's references are once one of them has been added or removed.
LEMMA HoldersPrimed ==
    \A v \in Solver : Holders(v)' \in SUBSET (List \cup {Owner})
BY DEF Holders

LEMMA SetupFacts ==
    ASSUME setup \in Setup
    PROVE  /\ DOMAIN setup.strategy \subseteq Sharer
           /\ setup.original \subseteq Solver
           /\ setup.joined \in [List -> SUBSET setup.original]
           /\ setup.calls \in Seq(List)
           /\ \A i \in DOMAIN setup.calls : setup.calls[i] \in List /\ i \in Nat /\ i >= 1
           /\ 1 \in DOMAIN setup.calls
           /\ \A i, j \in DOMAIN setup.calls : setup.calls[i] = setup.calls[j] => i = j
           /\ setup.givesUp \in BOOLEAN
           /\ setup.givesUp => \A i \in DOMAIN setup.calls :
                                  setup.joined[setup.calls[i]] = setup.original
           /\ setup.clauses \subseteq Clause /\ setup.clones \subseteq Solver
           /\ \A s \in DOMAIN setup.strategy :
                 /\ setup.strategy[s] \in {"simple", "horde"}
                 /\ setup.joined[<<s, "consumer">>] = setup.original
           /\ ~setup.givesUp => \A i \in DOMAIN setup.calls : setup.calls[i][2] = "consumer"
<1>1. PICK u \in Setup : u = setup
  OBVIOUS
<1>2. /\ u.calls \in Seq(List) /\ u.calls # <<>>
  BY SetupAssumption
<1>3. \A i \in DOMAIN u.calls : u.calls[i] \in List /\ i \in Nat /\ i >= 1
  BY <1>2
<1>4. 1 \in DOMAIN u.calls
  BY <1>2
<1> QED BY <1>1, <1>2, <1>3, <1>4, SetupAssumption

LEMMA HeldIsAlive ==
    ASSUME SolverRefs, NEW v \in Solver, Holders(v) # {}
    PROVE  nRefs[v] \in Nat /\ nRefs[v] >= 1
<1>1. PICK h \in Holders(v) : TRUE
  OBVIOUS
<1>2. Holders(v) \in SUBSET (List \cup {Owner})
  BY HoldersTokens
<1>3. Cardinality(Holders(v) \ {h}) = Cardinality(Holders(v)) - 1
      /\ Cardinality(Holders(v) \ {h}) \in Nat
  BY <1>1, <1>2, CountRemove
<1>4. Cardinality(Holders(v)) \in Nat
  BY <1>2, FiniteTokens, FS_CardinalityType
<1>5. nRefs[v] = Cardinality(Holders(v))
  BY DEF SolverRefs
<1> HIDE DEF Holders
<1> QED BY <1>3, <1>4, <1>5

-----------------------------------------------------------------------------
\* Buffers

LEMMA IsASeq ==
    ASSUME NEW n \in Nat, NEW seq \in [1 .. n -> Clause]
    PROVE  seq \in Seq(Clause)
OBVIOUS

LEMMA LeftIs ==
    ASSUME NEW seq \in Seq(Clause), NEW n \in Int
    PROVE  \E d \in Nat : /\ n + 1 <= d /\ Left(seq, n) \in Seq(Clause)
                         /\ DOMAIN Left(seq, n) = {i \in Nat : 1 <= i /\ i + d <= Len(seq)}
                         /\ \A i \in DOMAIN Left(seq, n) : Left(seq, n)[i] = seq[i + d]
<1> DEFINE d == IF n < 0 THEN 1 ELSE n + 1
<1>1. d \in Nat /\ n + 1 <= d /\ d >= 1
  OBVIOUS
<1>2. Left(seq, n) = SubSeq(seq, d + 1, Len(seq))
  BY DEF Left
<1>3. Len(seq) \in Nat
  OBVIOUS
<1> HIDE DEF d
<1>4. /\ SubSeq(seq, d + 1, Len(seq)) \in Seq(Clause)
      /\ DOMAIN SubSeq(seq, d + 1, Len(seq)) = {i \in Nat : 1 <= i /\ i + d <= Len(seq)}
      /\ \A i \in DOMAIN SubSeq(seq, d + 1, Len(seq)) : SubSeq(seq, d + 1, Len(seq))[i] = seq[i + d]
  <2> DEFINE sub == SubSeq(seq, d + 1, Len(seq))
  <2>1. sub = [i \in 1 .. Len(seq) - d |-> seq[i + d]]
    BY <1>1, <1>3
  <2>2. \A i \in 1 .. Len(seq) - d : i + d \in DOMAIN seq /\ seq[i + d] \in Clause
    BY <1>1, <1>3
  <2>3. sub \in Seq(Clause)
    <3>1. CASE Len(seq) - d \in Nat
      <4>1. sub \in [1 .. Len(seq) - d -> Clause]
        BY <2>1, <2>2
      <4> HIDE DEF sub
      <4> QED BY <3>1, <4>1, IsASeq
    <3>2. CASE Len(seq) - d \notin Nat
      <4>1. 1 .. Len(seq) - d = 1 .. 0
        BY <1>1, <1>3, <3>2
      <4>2. sub \in [1 .. 0 -> Clause]
        BY <2>1, <2>2, <4>1
      <4> HIDE DEF sub
      <4> QED BY <4>2, IsASeq
    <3> QED BY <3>1, <3>2
  <2>4. DOMAIN sub = {i \in Nat : 1 <= i /\ i + d <= Len(seq)}
    BY <1>1, <1>3, <2>1
  <2>5. \A i \in DOMAIN sub : sub[i] = seq[i + d]
    BY <2>1
  <2> QED BY <2>3, <2>4, <2>5
<1> QED BY <1>1, <1>2, <1>4

\* What the loop of getClauses takes, leaves and loses: the clause that is lost is not
\* among the first n.
LEMMA BufferFacts ==
    ASSUME NEW seq \in Seq(Clause), NEW n \in Int
    PROVE  /\ Elements(seq) \subseteq Clause /\ First(seq, n) \subseteq Elements(seq)
           /\ Left(seq, n) \in Seq(Clause) /\ Elements(Left(seq, n)) \subseteq Elements(seq)
           /\ Beyond(seq, n) \subseteq Clause
           /\ Elements(seq) \subseteq First(seq, n) \cup Elements(Left(seq, n)) \cup Beyond(seq, n)
           /\ \A m \in Int : Beyond(Left(seq, n), m) \subseteq Beyond(seq, m)
<1>0. DOMAIN seq = 1 .. Len(seq) /\ Len(seq) \in Nat /\ \A i \in DOMAIN seq : seq[i] \in Clause
  OBVIOUS
<1>1. Elements(seq) \subseteq Clause /\ Beyond(seq, n) \subseteq Clause
  BY <1>0 DEF Elements, Beyond
<1>2. First(seq, n) = {seq[i] : i \in {j \in DOMAIN seq : j <= n}}
  <2> DEFINE l == Least(n, Len(seq))
  <2>1. l \in Int /\ l <= Len(seq) /\ \A j \in DOMAIN seq : j <= l <=> j <= n
    BY <1>0 DEF Least
  <2> HIDE DEF l
  <2>2. /\ DOMAIN SubSeq(seq, 1, l) = {j \in DOMAIN seq : j <= l}
        /\ \A j \in DOMAIN SubSeq(seq, 1, l) : SubSeq(seq, 1, l)[j] = seq[j]
    BY <1>0, <2>1
  <2>3. First(seq, n) = Elements(SubSeq(seq, 1, l))
    BY DEF First, l
  <2> QED BY <2>1, <2>2, <2>3 DEF Elements
<1>3. PICK d \in Nat : /\ n + 1 <= d /\ Left(seq, n) \in Seq(Clause)
                       /\ DOMAIN Left(seq, n) = {i \in Nat : 1 <= i /\ i + d <= Len(seq)}
                       /\ \A i \in DOMAIN Left(seq, n) : Left(seq, n)[i] = seq[i + d]
  BY LeftIs
<1>4. \A i \in DOMAIN Left(seq, n) : i + d \in DOMAIN seq /\ i + d >= i
  BY <1>0, <1>3
<1>5. Elements(Left(seq, n)) \subseteq Elements(seq)
  BY <1>3, <1>4 DEF Elements
<1>6. \A m \in Int : Beyond(Left(seq, n), m) \subseteq Beyond(seq, m)
  <2> SUFFICES ASSUME NEW m \in Int, NEW i \in DOMAIN Left(seq, n), i > m
               PROVE  Left(seq, n)[i] \in Beyond(seq, m)
    BY DEF Beyond
  <2>1. i + d \in DOMAIN seq /\ i + d > m /\ Left(seq, n)[i] = seq[i + d]
    BY <1>3, <1>4
  <2> QED BY <2>1 DEF Beyond
<1>7. Elements(seq) = First(seq, n) \cup Beyond(seq, n)
  BY <1>0, <1>2 DEF Elements, Beyond
<1> QED BY <1>1, <1>3, <1>5, <1>6, <1>7

LEMMA AppendFacts ==
    ASSUME NEW seq \in Seq(Clause), NEW k \in Clause
    PROVE  /\ Append(seq, k) \in Seq(Clause) /\ Elements(Append(seq, k)) = Elements(seq) \cup {k}
           /\ \A m \in Int : Beyond(Append(seq, k), m) \subseteq Beyond(seq, m) \cup {k}
<1>1. /\ Append(seq, k) \in Seq(Clause) /\ Len(seq) \in Nat
      /\ DOMAIN seq = 1 .. Len(seq) /\ DOMAIN Append(seq, k) = 1 .. Len(seq) + 1
      /\ \A i \in DOMAIN seq : Append(seq, k)[i] = seq[i]
      /\ Append(seq, k)[Len(seq) + 1] = k
  OBVIOUS
<1>2. \A i \in DOMAIN Append(seq, k) : i \in DOMAIN seq \/ i = Len(seq) + 1
  BY <1>1
<1> QED BY <1>1, <1>2 DEF Elements, Beyond

-----------------------------------------------------------------------------
\* Types

LEMMA TypeInit == Init => TypeOK
<1> SUFFICES ASSUME Init PROVE TypeOK
  OBVIOUS
<1>1. setup.original \subseteq Solver /\ setup.joined \in [List -> SUBSET setup.original]
  BY SetupFacts DEF Init
<1>2. members \in [List -> SUBSET Solver]
  BY <1>1 DEF Init
<1>3. \A v \in Solver : Cardinality({l \in List : v \in members[l]}) \in Nat
  BY FiniteTokens, FS_CardinalityType
<1>4. nRefs \in [Solver -> Nat]
  BY <1>3 DEF Init
<1>5. phase \in [Solver -> Phases] /\ at \in [Solver -> Nat \ {0}]
  BY DEF Init, Phases
<1>6. toAdd \in [List -> SUBSET Solver] /\ toRemove \in [List -> SUBSET Solver]
  BY DEF Init
<1>7. pc \in [Sharer -> SharerPc]
  BY DEF Init, SharerPc
<1>8. /\ from \in [Sharer -> SUBSET Solver] /\ to \in [Sharer -> SUBSET Solver]
      /\ current \in [Sharer -> Solver \cup {None}]
      /\ tmp \in [Sharer -> SUBSET Clause] /\ database \in [Sharer -> SUBSET Clause]
  BY DEF Init
<1>9. /\ exported \in [Solver -> Seq(Clause)] /\ given \in [Solver -> SUBSET Clause]
      /\ issuer \in [Clause -> Solver \cup {None}] /\ refused \subseteq Clause
      /\ uncounted \subseteq Solver /\ late \subseteq Clause /\ counted \in [Sharer -> Int]
      /\ overtaken \subseteq List \X Solver /\ fault \in {"none", "solver", "sharer"}
      /\ setup \in Setup /\ globalEnding \in BOOLEAN
  <2>1. <<>> \in Seq(Clause) /\ 0 \in Int
    OBVIOUS
  <2> QED BY <2>1 DEF Init
<1> QED BY <1>2, <1>4, <1>5, <1>6, <1>7, <1>8, <1>9 DEF TypeOK

LEMMA TypeWork ==
    ASSUME TypeOK, SolverRefs, NEW v \in Solver, Work(v)
    PROVE  TypeOK'
<1> USE DEF TypeOK
<1>0. \A i \in DOMAIN setup.calls : setup.calls[i] \in List
  BY SetupFacts
<1>1. CASE Learn(v)
  <2>1. PICK c \in setup.clauses : /\ issuer' = [issuer EXCEPT ![c] = v]
                                   /\ exported' = [exported EXCEPT ![v] = Append(@, c)]
                                   /\ late' \subseteq late \cup {c}
    BY <1>1 DEF Learn
  <2>2. c \in Clause
    BY SetupFacts
  <2>3. exported' \in [Solver -> Seq(Clause)] /\ issuer' \in [Clause -> Solver \cup {None}]
    BY <2>1, <2>2, AppendFacts
  <2> QED BY <1>1, <2>1, <2>2, <2>3 DEF Learn, solvers, lists, round
<1>11. CASE Learned(v)
  BY <1>11 DEF Learned, solvers, lists, round
<1>2. CASE Clone(v)
  BY <1>2 DEF Clone, Enter, lists, round, clauses, Phases
<1>3. CASE Add(v)
  <2>1. Call(v) \in List
    BY <1>0, <1>3 DEF Add, Calling, Call
  <2>2. toAdd' \in [List -> SUBSET Solver]
    BY <2>1, <1>3 DEF Add
  <2> QED BY <2>2, <1>3 DEF Add, round, clauses
<1>4. CASE Added(v)
  BY <1>4 DEF Added, Enter, lists, round, clauses, Phases
<1>5. CASE GiveUp(v)
  BY <1>5 DEF GiveUp, Enter, lists, round, clauses, Phases
<1>6. CASE Remove(v)
  <2>1. Call(v) \in List
    BY <1>0, <1>6 DEF Remove, Calling, Call
  <2>2. toRemove' \in [List -> SUBSET Solver]
    BY <2>1, <1>6 DEF Remove
  <2> QED BY <2>2, <1>6 DEF Remove, round, clauses
<1>7. CASE CallDeleted(v)
  BY <1>7 DEF CallDeleted, solvers, lists, round, clauses
<1>8. CASE Removed(v)
  BY <1>8 DEF Removed, Enter, lists, round, clauses, Phases
<1>9. CASE Destroy(v)
  BY <1>9 DEF Destroy, Enter, lists, round, clauses, Phases
<1>10. CASE Release(v)
  <2>1. Owner \in Holders(v)
    BY <1>10 DEF Release, Enter, Holders
  <2>2. nRefs[v] >= 1
    BY <2>1, HeldIsAlive
  <2>3. nRefs' \in [Solver -> Nat]
    BY <2>2, <1>10 DEF Release
  <2> QED BY <2>3, <1>10 DEF Release, Enter, lists, round, clauses, Phases
<1> QED BY <1>1, <1>2, <1>3, <1>4, <1>5, <1>6, <1>7, <1>8, <1>9, <1>10, <1>11 DEF Work

LEMMA TypeForget ==
    ASSUME TypeOK, SolverRefs, Requests, NEW l \in List, Forget(l)
    PROVE  /\ nRefs' \in [Solver -> Nat]
           /\ {members', toAdd', toRemove'} \subseteq [List -> SUBSET Solver]
           /\ overtaken' \subseteq List \X Solver
<1>1. \A v \in toRemove[l] : v \in Solver /\ nRefs[v] >= 1
  <2> TAKE v \in toRemove[l]
  <2>1. v \in Solver /\ Listed(v, l)
    BY DEF Requests, TypeOK
  <2>2. l \in Holders(v)
    BY <2>1 DEF Holders
  <2> QED BY <2>1, <2>2, HeldIsAlive
<1>2. nRefs' \in [Solver -> Nat]
  BY <1>1 DEF Forget, TypeOK
<1>3. members' \in [List -> SUBSET Solver]
  BY DEF Forget, TypeOK
<1>4. toRemove' \in [List -> SUBSET Solver] /\ toAdd' \in [List -> SUBSET Solver]
  BY DEF Forget, TypeOK
<1>5. {l} \X (toRemove[l] \cap toAdd[l]) \subseteq List \X Solver
  BY DEF TypeOK
<1>6. overtaken' \subseteq List \X Solver
  BY <1>5 DEF Forget, TypeOK
<1> QED BY <1>2, <1>3, <1>4, <1>6

\* The producer a round is at.
LEMMA CurrentIs ==
    ASSUME TypeOK, Rounds, NEW s \in Sharer, Take(s)
    PROVE  /\ pc[s] = "dequeue" /\ current[s] \in members[<<s, "producer">>]
           /\ current[s] \in Solver
<1>1. pc[s] = "dequeue" /\ <<s, "producer">> \in List
  BY ListFacts DEF Take, Go
<1>2. current[s] \in members[<<s, "producer">>]
  BY <1>1 DEF Rounds
<1>3. members[<<s, "producer">>] \subseteq Solver
  BY <1>1 DEF TypeOK
<1> QED BY <1>1, <1>2, <1>3

LEMMA TypeRound ==
    ASSUME TypeOK, SolverRefs, Requests, Rounds, NEW s \in Sharer, Round(s)
    PROVE  TypeOK'
<1> USE DEF TypeOK
<1>0. <<s, "producer">> \in List /\ <<s, "consumer">> \in List
  BY ListFacts
<1>1. CASE Wake(s)
  <2>1. pc' \in [Sharer -> SharerPc]
    BY <1>1 DEF Wake, Go, SharerPc
  <2>2. members' \in [List -> SUBSET Solver] /\ toAdd' \in [List -> SUBSET Solver]
    <3>1. CASE globalEnding
      BY <1>1, <3>1 DEF Wake
    <3>2. CASE ~globalEnding
      <4>1. /\ members' = [l \in List |-> IF l[1] = s THEN members[l] \cup toAdd[l] ELSE members[l]]
            /\ toAdd' = [l \in List |-> IF l[1] = s THEN {} ELSE toAdd[l]]
        BY <1>1, <3>2 DEF Wake
      <4> QED BY <4>1
    <3> QED BY <3>1, <3>2
  <2>3. from' \in [Sharer -> SUBSET Solver]
    <3>1. members[<<s, "producer">>] \cup toAdd[<<s, "producer">>] \in SUBSET Solver
      BY <1>0
    <3>2. \/ from' = from
          \/ from' = [from EXCEPT ![s] = members[<<s, "producer">>] \cup toAdd[<<s, "producer">>]]
      BY <1>1 DEF Wake
    <3> QED BY <3>1, <3>2
  <2>4. UNCHANGED <<setup, globalEnding, nRefs, phase, at, toRemove, current, to, tmp,
                    database, counted, exported, issuer, uncounted, late, given, refused, overtaken, fault>>
    BY <1>1 DEF Wake, solvers, clauses
  <2> QED BY <2>1, <2>2, <2>3, <2>4
<1>2. ASSUME Take(s) PROVE TypeOK'
  <2> DEFINE list == First(exported[current[s]], counted[s])
  <2>1. pc' \in [Sharer -> SharerPc]
    BY <1>2 DEF Take, Go, SharerPc
  <2>0. /\ current[s] \in Solver /\ exported[current[s]] \in Seq(Clause) /\ counted[s] \in Int
        /\ list \in SUBSET Clause /\ Left(exported[current[s]], counted[s]) \in Seq(Clause)
    <3>1. current[s] \in Solver
      BY <1>2, CurrentIs
    <3> QED BY <3>1, BufferFacts
  <2>2. /\ exported' \in [Solver -> Seq(Clause)]
        /\ to' \in [Sharer -> SUBSET Solver] /\ counted' \in [Sharer -> Int]
    BY <1>0, <1>2, <2>0 DEF Take
  <2>3. /\ tmp' \in [Sharer -> SUBSET Clause] /\ database' \in [Sharer -> SUBSET Clause]
        /\ refused' \subseteq Clause
    <3>1. CASE setup.strategy[s] = "simple"
      BY <3>1, <1>2, <2>0 DEF Take
    <3>2. CASE setup.strategy[s] # "simple"
      <4>1. PICK db \in Filled(database[s], list) : \E set \in Selections(db) :
               /\ tmp' = [tmp EXCEPT ![s] = set]
               /\ database' = [database EXCEPT ![s] = db \ set]
               /\ refused' = refused \cup (list \ db)
        BY <3>2, <1>2 DEF Take
      <4>2. db \in SUBSET Clause
        BY <2>0, <4>1 DEF Filled
      <4>3. PICK set \in Selections(db) :
               /\ tmp' = [tmp EXCEPT ![s] = set]
               /\ database' = [database EXCEPT ![s] = db \ set]
        BY <4>1
      <4>4. set \in SUBSET Clause
        BY <4>2, <4>3 DEF Selections
      <4> QED BY <2>0, <4>1, <4>2, <4>3, <4>4
    <3> QED BY <3>1, <3>2
  <2>4. UNCHANGED <<setup, globalEnding, nRefs, phase, at, members, toAdd, toRemove, from,
                    current, issuer, uncounted, late, given, overtaken, fault>>
    BY <1>2 DEF Take, solvers, lists
  <2> QED BY <2>1, <2>2, <2>3, <2>4
<1>9. ASSUME NEW p \in Solver, Count(s, p) PROVE TypeOK'
  <2> DEFINE size == Len(exported[p]) - (IF p \in uncounted THEN 1 ELSE 0)
  <2>1. pc' \in [Sharer -> SharerPc]
    BY <1>9 DEF Count, Go, SharerPc
  <2>2. size \in Int /\ exported[p] \in Seq(Clause)
    OBVIOUS
  <2>3. /\ current' = [current EXCEPT ![s] = p] /\ counted' = [counted EXCEPT ![s] = size]
        /\ late' = late \cup Beyond(exported[p], size)
    BY <1>9 DEF Count
  <2>4. current' \in [Sharer -> Solver \cup {None}] /\ counted' \in [Sharer -> Int]
    BY <2>2, <2>3
  <2>5. late' \subseteq Clause
    <3> HIDE DEF size
    <3>1. Beyond(exported[p], size) \subseteq Clause
      BY <2>2, BufferFacts
    <3> QED BY <2>3, <3>1
  <2> QED BY <1>9, <2>1, <2>4, <2>5 DEF Count, solvers, lists
<1>3. ASSUME NEW q \in Solver, Give(s, q) PROVE TypeOK'
  <2>1. to' \in [Sharer -> SUBSET Solver] /\ given' \in [Solver -> SUBSET Clause]
    BY <1>3 DEF Give
  <2> QED BY <2>1, <1>3 DEF Give, solvers, lists
<1>4. CASE Given(s)
  <2>1. pc' \in [Sharer -> SharerPc]
    BY <1>4 DEF Given, Go, SharerPc
  <2>2. /\ from' \in [Sharer -> SUBSET Solver] /\ tmp' \in [Sharer -> SUBSET Clause]
        /\ current' \in [Sharer -> Solver \cup {None}]
    BY <1>4 DEF Given
  <2> QED BY <2>1, <2>2, <1>4 DEF Given, solvers, lists, clauses
<1>5. CASE Shared(s)
  BY <1>5 DEF Shared, Go, SharerPc, solvers, lists, round, clauses
<1>6. CASE ForgetProducers(s)
  <2>1. pc' \in [Sharer -> SharerPc]
    BY <1>6 DEF ForgetProducers, Go, SharerPc
  <2> QED BY <2>1, <1>0, <1>6, TypeForget DEF ForgetProducers, round, clauses
<1>7. CASE ForgetConsumers(s)
  <2>1. pc' \in [Sharer -> SharerPc]
    BY <1>7 DEF ForgetConsumers, Go, SharerPc
  <2> QED BY <2>1, <1>0, <1>7, TypeForget DEF ForgetConsumers, round, clauses
<1>8. CASE UseDeleted(s)
  BY <1>8 DEF UseDeleted, solvers, lists, round, clauses
<1> QED BY <1>1, <1>2, <1>3, <1>4, <1>5, <1>6, <1>7, <1>8, <1>9 DEF Round

LEMMA TypeStep ==
    ASSUME TypeOK, SolverRefs, Requests, Rounds, [Next]_vars
    PROVE  TypeOK'
<1>1. CASE End
  BY <1>1 DEF End, TypeOK, solvers, lists, round, clauses
<1>2. ASSUME NEW s \in Sharer, DeleteProducers(s) PROVE TypeOK'
  <2>1. pc' \in [Sharer -> SharerPc]
    BY <1>2 DEF DeleteProducers, Go, SharerPc, TypeOK
  <2> QED BY <2>1, <1>2, ListFacts, TypeForget DEF DeleteProducers, TypeOK, round, clauses
<1>3. ASSUME NEW s \in Sharer, DeleteConsumers(s) PROVE TypeOK'
  <2>1. pc' \in [Sharer -> SharerPc]
    BY <1>3 DEF DeleteConsumers, Go, SharerPc, TypeOK
  <2> QED BY <2>1, <1>3, ListFacts, TypeForget DEF DeleteConsumers, TypeOK, round, clauses
<1>4. CASE UNCHANGED vars
  BY <1>4 DEF vars, TypeOK, solvers, lists, round, clauses
<1> QED BY <1>1, <1>2, <1>3, <1>4, TypeWork, TypeRound DEF Next

-----------------------------------------------------------------------------
\* References

LEMMA RefsInit == Init => SolverRefs /\ Requests /\ Lifecycle
<1> SUFFICES ASSUME Init PROVE SolverRefs /\ Requests /\ Lifecycle
  OBVIOUS
<1>1. /\ setup \in Setup /\ setup.joined \in [List -> SUBSET setup.original]
      /\ setup.original \subseteq Solver
  BY SetupFacts DEF Init
<1>2. SolverRefs
  <2> SUFFICES ASSUME NEW v \in Solver PROVE nRefs[v] = Cardinality(Holders(v))
    BY DEF SolverRefs
  <2>1. CASE v \in setup.original
    <3>1. PICK S : S = {l \in List : v \in members[l]}
      OBVIOUS
    <3>2. S \in SUBSET (List \cup {Owner}) /\ Owner \notin S
      BY <3>1, ListFacts
    <3>3. Holders(v) = S \cup {Owner}
      BY <3>1, <2>1 DEF Init, Holders, Listed
    <3>4. Cardinality(S \cup {Owner}) = Cardinality(S) + 1 /\ Cardinality(S) \in Nat
      BY <3>2, CountAdd
    <3>5. nRefs[v] = 1 + Cardinality(S)
      BY <3>1, <2>1 DEF Init
    <3> QED BY <3>3, <3>4, <3>5
  <2>2. CASE v \notin setup.original
    <3>1. Holders(v) = {}
      BY <2>2, <1>1 DEF Init, Holders, Listed
    <3> QED BY <3>1, <2>2, FS_EmptySet DEF Init
  <2> QED BY <2>1, <2>2
<1>3. Requests
  BY DEF Init, Requests
<1>4. Lifecycle
  <2> SUFFICES ASSUME NEW v \in Solver PROVE Cycle(v)
    BY DEF Lifecycle
  <2>1. phase[v] = "unborn" => \A l \in List : Absent(v, l)
    BY <1>1 DEF Init, Absent
  <2>2. phase[v] = "running" /\ CanGiveUp(v) =>
            \A i \in DOMAIN setup.calls : Kept(v, setup.calls[i])
    <3> SUFFICES ASSUME phase[v] = "running", CanGiveUp(v), NEW i \in DOMAIN setup.calls
                 PROVE  Kept(v, setup.calls[i])
      OBVIOUS
    <3>1. v \in setup.original /\ setup.givesUp
      BY DEF Init, CanGiveUp
    <3>2. setup.calls[i] \in List /\ setup.joined[setup.calls[i]] = setup.original
      BY <3>1, <1>1, SetupFacts
    <3> QED BY <3>1, <3>2 DEF Init, Kept, Listed
  <2> QED BY <2>1, <2>2 DEF Init, Cycle
<1> QED BY <1>2, <1>3, <1>4

\* A step that touches neither v nor what its lists know keeps its part of the invariant.
LEMMA CycleKept ==
    ASSUME NEW v \in Solver, setup \in Setup, Cycle(v), setup' = setup,
           phase'[v] = phase[v], at'[v] = at[v],
           \A l \in List : (Absent(v, l) => Absent(v, l)') /\ (Kept(v, l) => Kept(v, l)')
    PROVE  Cycle(v)'
<1>1. \A i \in DOMAIN setup.calls : setup.calls[i] \in List
  BY SetupFacts
<1> HIDE DEF Absent, Kept
<1>2. CanGiveUp(v)' = CanGiveUp(v)
  BY DEF CanGiveUp
<1> QED BY <1>1, <1>2 DEF Cycle

LEMMA HoldersKept ==
    ASSUME NEW v \in Solver, phase'[v] = phase[v],
           \A l \in List : Listed(v, l)' = Listed(v, l)
    PROVE  Holders(v)' = Holders(v)
BY DEF Holders

LEMMA RefsQuiet ==
    ASSUME TypeOK, SolverRefs, Requests, Lifecycle,
           UNCHANGED <<setup, solvers, lists, overtaken>>
    PROVE  (SolverRefs /\ Requests /\ Lifecycle)'
<1>1. \A v \in Solver : Holders(v)' = Holders(v)
  BY DEF Holders, Listed, solvers, lists
<1>2. SolverRefs'
  BY <1>1 DEF SolverRefs, solvers
<1>3. Requests'
  BY DEF Requests, Listed, lists
<1>4. Lifecycle'
  <2>1. \A v \in Solver : Cycle(v)' = Cycle(v)
    BY DEF Cycle, Absent, Kept, Listed, CanGiveUp, solvers, lists
  <2> QED BY <2>1 DEF Lifecycle
<1> QED BY <1>2, <1>3, <1>4

\* A worker's step with v: the other solvers keep what they had.
LEMMA OthersKept ==
    ASSUME TypeOK, SolverRefs, Lifecycle, NEW v \in Solver, setup' = setup,
           \A w \in Solver \ {v} :
              /\ nRefs'[w] = nRefs[w] /\ phase'[w] = phase[w] /\ at'[w] = at[w]
              /\ \A l \in List : /\ Listed(w, l)' = Listed(w, l)
                                 /\ Absent(w, l)' = Absent(w, l)
                                 /\ Kept(w, l)' = Kept(w, l),
           nRefs'[v] = Cardinality(Holders(v)'), Cycle(v)'
    PROVE  (SolverRefs /\ Lifecycle)'
<1>1. ASSUME NEW w \in Solver PROVE nRefs'[w] = Cardinality(Holders(w)') /\ Cycle(w)'
  <2>1. CASE w = v
    BY <2>1
  <2>2. CASE w # v
    <3>1. Holders(w)' = Holders(w)
      BY <2>2, HoldersKept
    <3>2. nRefs'[w] = Cardinality(Holders(w)')
      BY <3>1, <2>2 DEF SolverRefs
    <3>3. Cycle(w)'
      BY <2>2, CycleKept DEF TypeOK, Lifecycle
    <3> QED BY <3>2, <3>3
  <2> QED BY <2>1, <2>2
<1> QED BY <1>1 DEF SolverRefs, Lifecycle

\* A step that changes only the phase of v, which has an owner before and after.
LEMMA RefsPhase ==
    ASSUME TypeOK, SolverRefs, Requests, Lifecycle, NEW v \in Solver, NEW ph,
           phase' = [phase EXCEPT ![v] = ph],
           phase[v] \notin {"unborn", "over"}, ph \notin {"unborn", "over"},
           UNCHANGED <<setup, nRefs, lists, overtaken>>,
           \A w \in Solver \ {v} : at'[w] = at[w],
           Cycle(v)'
    PROVE  (SolverRefs /\ Requests /\ Lifecycle)'
<1>1. phase'[v] = ph /\ \A w \in Solver \ {v} : phase'[w] = phase[w]
  BY DEF TypeOK
<1>2. \A w \in Solver, l \in List : /\ Listed(w, l)' = Listed(w, l)
                                    /\ Absent(w, l)' = Absent(w, l)
                                    /\ Kept(w, l)' = Kept(w, l)
  BY DEF Listed, Absent, Kept, lists
<1>3. Holders(v)' = Holders(v)
  BY <1>1, <1>2 DEF Holders
<1>4. nRefs'[v] = Cardinality(Holders(v)')
  BY <1>3 DEF SolverRefs
<1>5. (SolverRefs /\ Lifecycle)'
  BY <1>1, <1>2, <1>4, OthersKept
<1>6. Requests'
  BY DEF Requests, Listed, lists
<1> QED BY <1>5, <1>6

LEMMA RefsClone ==
    ASSUME TypeOK, SolverRefs, Requests, Lifecycle, NEW v \in Solver, Clone(v)
    PROVE  (SolverRefs /\ Requests /\ Lifecycle)'
<1>1. /\ phase[v] = "unborn" /\ phase'[v] = "adding" /\ nRefs'[v] = 1 /\ at'[v] = 1
      /\ \A l \in List : Absent(v, l)
      /\ \A w \in Solver \ {v} : nRefs'[w] = nRefs[w] /\ phase'[w] = phase[w] /\ at'[w] = at[w]
  BY DEF Clone, Enter, TypeOK, Lifecycle, Cycle
<1>2. \A w \in Solver, l \in List : /\ Listed(w, l)' = Listed(w, l)
                                    /\ Absent(w, l)' = Absent(w, l)
                                    /\ Kept(w, l)' = Kept(w, l)
  BY DEF Clone, Listed, Absent, Kept, lists
<1>3. Holders(v)' = {} \cup {Owner}
  BY <1>1 DEF Clone, Holders, Listed, Absent, lists
<1>4. nRefs'[v] = Cardinality(Holders(v)')
  BY <1>1, <1>3, CountAdd, FS_EmptySet
<1>5. Cycle(v)'
  <2>1. setup' = setup /\ \A i \in DOMAIN setup.calls : setup.calls[i] \in List /\ i >= 1 /\ i \in Nat
    BY SetupFacts DEF Clone, TypeOK
  <2>2. \A i \in DOMAIN setup.calls : Absent(v, setup.calls[i])'
    BY <1>1, <1>2, <2>1
  <2> HIDE DEF Absent, Kept
  <2> QED BY <1>1, <2>1, <2>2 DEF Cycle
<1>6. (SolverRefs /\ Lifecycle)'
  <2>1. setup' = setup
    BY DEF Clone
  <2> QED BY <1>1, <1>2, <1>4, <1>5, <2>1, OthersKept
<1>7. Requests'
  BY DEF Clone, Requests, Listed, lists
<1> QED BY <1>6, <1>7

LEMMA RefsAdd ==
    ASSUME TypeOK, SolverRefs, Requests, Lifecycle, NEW v \in Solver, Add(v)
    PROVE  (SolverRefs /\ Requests /\ Lifecycle)'
<1>0. PICK l \in List : l = Call(v)
  BY SetupFacts DEF Add, Calling, Call, TypeOK
<1>1. /\ phase[v] = "adding" /\ phase' = phase /\ setup' = setup
      /\ at[v] \in DOMAIN setup.calls /\ at[v] \in Nat /\ setup.calls[at[v]] = l
      /\ at'[v] = at[v] + 1 /\ nRefs'[v] = nRefs[v] + 1
      /\ \A w \in Solver \ {v} : nRefs'[w] = nRefs[w] /\ at'[w] = at[w]
  BY <1>0 DEF Add, Calling, Call, TypeOK
<1>2. /\ toAdd' = [toAdd EXCEPT ![l] = @ \cup {v}] /\ toAdd \in [List -> SUBSET Solver]
      /\ UNCHANGED <<members, toRemove, overtaken>>
  BY <1>0 DEF Add, TypeOK
<1>3. \A w \in Solver, k \in List :
         w # v \/ k # l => /\ Listed(w, k)' = Listed(w, k)
                           /\ Absent(w, k)' = Absent(w, k)
                           /\ Kept(w, k)' = Kept(w, k)
  BY <1>2 DEF Listed, Absent, Kept
<1>4. Absent(v, l)
  BY <1>1 DEF Lifecycle, Cycle
<1>5. Listed(v, l)' /\ Kept(v, l)'
  BY <1>2, <1>4 DEF Listed, Kept, Absent
<1>6. nRefs'[v] = Cardinality(Holders(v)')
  <2>1. Holders(v)' = Holders(v) \cup {l}
    BY <1>1, <1>3, <1>5 DEF Holders
  <2>2. l \notin Holders(v)
    BY <1>4, ListFacts DEF Holders, Listed, Absent
  <2>3. Cardinality(Holders(v) \cup {l}) = Cardinality(Holders(v)) + 1
    BY <2>2, HoldersTokens, CountAdd
  <2> QED BY <1>1, <2>1, <2>3 DEF SolverRefs
<1>7. Cycle(v)'
  <2>1. \A i \in DOMAIN setup.calls :
            setup.calls[i] \in List /\ i \in Nat /\ (setup.calls[i] = l => i = at[v])
    BY <1>1, SetupFacts DEF TypeOK
  <2>2. /\ \A i \in DOMAIN setup.calls : i < at[v] => Kept(v, setup.calls[i])
        /\ \A i \in DOMAIN setup.calls : i >= at[v] => Absent(v, setup.calls[i])
    BY <1>1 DEF Lifecycle, Cycle
  <2>3. \A i \in DOMAIN setup.calls : i < at[v] + 1 => Kept(v, setup.calls[i])'
    BY <1>1, <1>3, <1>5, <2>1, <2>2
  <2>4. \A i \in DOMAIN setup.calls : i >= at[v] + 1 => Absent(v, setup.calls[i])'
    BY <1>1, <1>3, <2>1, <2>2
  <2> HIDE DEF Absent, Kept
  <2> QED BY <1>1, <2>3, <2>4 DEF Cycle
<1>8. (SolverRefs /\ Lifecycle)'
  BY <1>1, <1>3, <1>6, <1>7, OthersKept
<1>9. Requests'
  BY <1>2 DEF Requests, Listed, TypeOK
<1> QED BY <1>8, <1>9

LEMMA RefsRemove ==
    ASSUME TypeOK, SolverRefs, Requests, Lifecycle, NEW v \in Solver, Remove(v)
    PROVE  (SolverRefs /\ Requests /\ Lifecycle)'
<1>0. PICK l \in List : l = Call(v)
  BY SetupFacts DEF Remove, Calling, Call, TypeOK
<1>1. /\ phase[v] = "removing" /\ phase' = phase /\ setup' = setup /\ nRefs' = nRefs
      /\ at[v] \in DOMAIN setup.calls /\ at[v] \in Nat /\ setup.calls[at[v]] = l
      /\ at'[v] = at[v] + 1
      /\ \A w \in Solver \ {v} : at'[w] = at[w]
  BY <1>0 DEF Remove, Calling, Call, TypeOK
<1>2. /\ toRemove' = [toRemove EXCEPT ![l] = @ \cup {v}]
      /\ toRemove \in [List -> SUBSET Solver]
      /\ UNCHANGED <<members, toAdd, overtaken>>
  BY <1>0 DEF Remove, TypeOK
<1>3. \A w \in Solver, k \in List :
         /\ Listed(w, k)' = Listed(w, k)
         /\ w # v \/ k # l => Absent(w, k)' = Absent(w, k) /\ Kept(w, k)' = Kept(w, k)
  BY <1>2 DEF Listed, Absent, Kept
<1>4. Listed(v, l)
  BY <1>1 DEF Lifecycle, Cycle, Kept
<1>5. nRefs'[v] = Cardinality(Holders(v)')
  <2>1. Holders(v)' = Holders(v)
    BY <1>1, <1>3, HoldersKept
  <2> QED BY <1>1, <2>1 DEF SolverRefs
<1>6. Cycle(v)'
  <2>1. \A i \in DOMAIN setup.calls :
            setup.calls[i] \in List /\ i \in Nat /\ (setup.calls[i] = l => i = at[v])
    BY <1>1, SetupFacts DEF TypeOK
  <2>2. \A i \in DOMAIN setup.calls : i >= at[v] => Kept(v, setup.calls[i])
    BY <1>1 DEF Lifecycle, Cycle
  <2>3. \A i \in DOMAIN setup.calls : i >= at[v] + 1 => Kept(v, setup.calls[i])'
    BY <1>1, <1>3, <2>1, <2>2
  <2> HIDE DEF Absent, Kept
  <2> QED BY <1>1, <2>3 DEF Cycle
<1>7. (SolverRefs /\ Lifecycle)'
  BY <1>1, <1>3, <1>5, <1>6, OthersKept
<1>8. Requests'
  <2> SUFFICES ASSUME NEW k \in List, NEW w \in toRemove'[k] PROVE Listed(w, k)'
    BY DEF Requests
  <2>1. w \in toRemove[k] \/ (k = l /\ w = v)
    BY <1>2
  <2>2. w \in Solver /\ Listed(w, k)
    BY <2>1, <1>2, <1>4 DEF Requests
  <2> QED BY <2>2, <1>3
<1> QED BY <1>7, <1>8

LEMMA RefsRelease ==
    ASSUME TypeOK, SolverRefs, Requests, Lifecycle, NEW v \in Solver, Release(v)
    PROVE  (SolverRefs /\ Requests /\ Lifecycle)'
<1>1. /\ phase[v] = "release" /\ phase'[v] = "over" /\ nRefs'[v] = nRefs[v] - 1
      /\ at' = at /\ setup' = setup
      /\ \A w \in Solver \ {v} : nRefs'[w] = nRefs[w] /\ phase'[w] = phase[w]
  BY DEF Release, Enter, TypeOK
<1>2. \A w \in Solver, l \in List : /\ Listed(w, l)' = Listed(w, l)
                                    /\ Absent(w, l)' = Absent(w, l)
                                    /\ Kept(w, l)' = Kept(w, l)
  BY DEF Release, Listed, Absent, Kept, lists
<1>3. nRefs'[v] = Cardinality(Holders(v)')
  <2>1. Owner \in Holders(v)
    BY <1>1 DEF Holders
  <2>2. Holders(v)' = Holders(v) \ {Owner}
    BY <1>1, <1>2, ListFacts DEF Holders
  <2>3. Cardinality(Holders(v) \ {Owner}) = Cardinality(Holders(v)) - 1
    BY <2>1, HoldersTokens, CountRemove
  <2> QED BY <1>1, <2>2, <2>3 DEF SolverRefs
<1>4. Cycle(v)'
  BY <1>1 DEF Cycle
<1>5. (SolverRefs /\ Lifecycle)'
  BY <1>1, <1>2, <1>3, <1>4, OthersKept
<1>6. Requests'
  BY DEF Release, Requests, Listed, lists
<1> QED BY <1>5, <1>6

LEMMA RefsWork ==
    ASSUME TypeOK, SolverRefs, Requests, Lifecycle, NEW v \in Solver, Work(v)
    PROVE  (SolverRefs /\ Requests /\ Lifecycle)'
<1>1. CASE Learn(v) \/ Learned(v) \/ CallDeleted(v)
  BY <1>1, RefsQuiet DEF Learn, Learned, CallDeleted
<1>2. CASE Added(v)
  <2>1. /\ phase[v] = "adding" /\ setup' = setup /\ at'[v] = 1 /\ phase'[v] = "running"
        /\ at[v] \in Nat \ {0} /\ at[v] \notin DOMAIN setup.calls
    BY <1>2 DEF Added, Enter, LastCall, TypeOK
  <2>2. \A i \in DOMAIN setup.calls : i < at[v]
    <3>1. PICK n \in Nat : DOMAIN setup.calls = 1 .. n
      BY SetupFacts DEF TypeOK
    <3> QED BY <2>1, <3>1
  <2>3. \A i \in DOMAIN setup.calls : Kept(v, setup.calls[i])
    BY <2>1, <2>2 DEF Lifecycle, Cycle
  <2>4. \A i \in DOMAIN setup.calls : Kept(v, setup.calls[i])'
    BY <1>2, <2>1, <2>3 DEF Added, Kept, Listed, lists
  <2>5. Cycle(v)'
    BY <2>1, <2>4 DEF Cycle
  <2>6. /\ \A w \in Solver \ {v} : at'[w] = at[w]
        /\ UNCHANGED <<setup, nRefs, lists, overtaken>>
        /\ phase' = [phase EXCEPT ![v] = "running"]
    BY <1>2 DEF Added, Enter, TypeOK
  <2> QED BY <2>1, <2>5, <2>6, RefsPhase
<1>3. CASE GiveUp(v)
  <2>1. /\ phase[v] = "running" /\ phase' = [phase EXCEPT ![v] = "removing"] /\ at' = at
        /\ phase'[v] = "removing" /\ CanGiveUp(v)
        /\ UNCHANGED <<setup, nRefs, lists, overtaken>>
    BY <1>3 DEF GiveUp, Enter, TypeOK, CanGiveUp
  <2>2. \A i \in DOMAIN setup.calls : Kept(v, setup.calls[i])
    BY <2>1 DEF Lifecycle, Cycle
  <2>3. Cycle(v)'
    <3>1. \A i \in DOMAIN setup.calls : Kept(v, setup.calls[i])'
      BY <2>1, <2>2 DEF Kept, Listed, lists
    <3> QED BY <2>1, <3>1 DEF Cycle
  <2> QED BY <2>1, <2>3, RefsPhase
<1>4. CASE Removed(v) \/ Destroy(v)
  <2>1. PICK ph \in {"destroy", "release"} :
            /\ phase[v] \in {"removing", "destroy"} /\ phase' = [phase EXCEPT ![v] = ph]
            /\ phase'[v] = ph
    BY <1>4 DEF Removed, Destroy, Enter, TypeOK
  <2>2. at' = at /\ UNCHANGED <<setup, nRefs, lists, overtaken>>
    BY <1>4 DEF Removed, Destroy
  <2>3. Cycle(v)'
    BY <2>1 DEF Cycle
  <2> QED BY <2>1, <2>2, <2>3, RefsPhase
<1> QED BY <1>1, <1>2, <1>3, <1>4, RefsClone, RefsAdd, RefsRemove, RefsRelease DEF Work

\* A list that forgets what it was asked to.
LEMMA RefsForget ==
    ASSUME TypeOK, SolverRefs, Requests, Lifecycle, NEW l \in List, Forget(l),
           UNCHANGED <<setup, phase, at>>
    PROVE  (SolverRefs /\ Requests /\ Lifecycle)'
<1>1. /\ members' = [members EXCEPT ![l] = @ \ toRemove[l]]
      /\ toRemove' = [toRemove EXCEPT ![l] = {}]
      /\ overtaken' = overtaken \cup {l} \X (toRemove[l] \cap toAdd[l])
      /\ toAdd' = toAdd
      /\ members \in [List -> SUBSET Solver] /\ toRemove \in [List -> SUBSET Solver]
  BY DEF Forget, TypeOK
<1>2. \A w, k : <<k, w>> \in overtaken' <=>
                   <<k, w>> \in overtaken \/ (k = l /\ w \in toRemove[l] \cap toAdd[l])
  BY <1>1
<1>3. ASSUME NEW w \in Solver, NEW k \in List
      PROVE  /\ Listed(w, k)' <=> Listed(w, k) /\ ~(k = l /\ w \in toRemove[l])
             /\ Absent(w, k) => Absent(w, k)'
             /\ Kept(w, k) => Kept(w, k)'
  <2>1. CASE k # l
    BY <2>1, <1>1, <1>2 DEF Listed, Absent, Kept
  <2>2. CASE k = l
    BY <2>2, <1>1, <1>2 DEF Listed, Absent, Kept
  <2> QED BY <2>1, <2>2
<1>4. SolverRefs'
  <2> SUFFICES ASSUME NEW w \in Solver PROVE nRefs'[w] = Cardinality(Holders(w)')
    BY DEF SolverRefs
  <2>1. CASE w \in toRemove[l]
    <3>1. l \in Holders(w)
      BY <2>1 DEF Requests, Holders
    <3>2. Holders(w)' = Holders(w) \ {l}
      BY <2>1, <1>3, ListFacts DEF Holders
    <3>3. Cardinality(Holders(w) \ {l}) = Cardinality(Holders(w)) - 1
      BY <3>1, HoldersTokens, CountRemove
    <3>4. nRefs'[w] = nRefs[w] - 1
      BY <2>1 DEF Forget
    <3> QED BY <3>2, <3>3, <3>4 DEF SolverRefs
  <2>2. CASE w \notin toRemove[l]
    <3>1. Holders(w)' = Holders(w)
      BY <2>2, <1>3 DEF Holders
    <3>2. nRefs'[w] = nRefs[w]
      BY <2>2 DEF Forget
    <3> QED BY <3>1, <3>2 DEF SolverRefs
  <2> QED BY <2>1, <2>2
<1>5. Requests'
  <2> SUFFICES ASSUME NEW k \in List, NEW w \in toRemove'[k] PROVE Listed(w, k)'
    BY DEF Requests
  <2>1. k # l /\ w \in toRemove[k] /\ w \in Solver
    BY <1>1
  <2> QED BY <2>1, <1>3 DEF Requests
<1>6. Lifecycle'
  <2> SUFFICES ASSUME NEW w \in Solver PROVE Cycle(w)'
    BY DEF Lifecycle
  <2>1. \A k \in List : (Absent(w, k) => Absent(w, k)') /\ (Kept(w, k) => Kept(w, k)')
    BY <1>3
  <2> QED BY <2>1, CycleKept DEF Lifecycle, TypeOK
<1> QED BY <1>4, <1>5, <1>6

LEMMA RefsWake ==
    ASSUME TypeOK, SolverRefs, Requests, Lifecycle, NEW s \in Sharer, Wake(s)
    PROVE  (SolverRefs /\ Requests /\ Lifecycle)'
<1>1. /\ \A l \in List : members'[l] \cup toAdd'[l] = members[l] \cup toAdd[l]
      /\ UNCHANGED <<setup, nRefs, phase, at, toRemove, overtaken>>
  BY DEF Wake, solvers, TypeOK
<1>2. \A w \in Solver, l \in List : /\ Listed(w, l)' = Listed(w, l)
                                    /\ Absent(w, l)' = Absent(w, l)
                                    /\ Kept(w, l)' = Kept(w, l)
  BY <1>1 DEF Listed, Absent, Kept
<1>3. SolverRefs'
  BY <1>1, <1>2, HoldersKept DEF SolverRefs
<1>4. Requests'
  BY <1>1, <1>2 DEF Requests, TypeOK
<1>5. Lifecycle'
  <2> SUFFICES ASSUME NEW w \in Solver PROVE Cycle(w)'
    BY DEF Lifecycle
  <2> HIDE DEF Absent, Kept, Listed
  <2> QED BY <1>1, <1>2, CycleKept DEF Lifecycle, TypeOK
<1> QED BY <1>3, <1>4, <1>5

LEMMA RefsStep ==
    ASSUME TypeOK, SolverRefs, Requests, Lifecycle, [Next]_vars
    PROVE  (SolverRefs /\ Requests /\ Lifecycle)'
<1>1. CASE End \/ UNCHANGED vars
  BY <1>1, RefsQuiet DEF End, vars
<1>2. ASSUME NEW s \in Sharer, Round(s) PROVE (SolverRefs /\ Requests /\ Lifecycle)'
  <2>1. CASE Given(s) \/ Shared(s) \/ UseDeleted(s) \/ Take(s)
                   \/ \E v \in Solver : Count(s, v) \/ Give(s, v)
    BY <2>1, RefsQuiet DEF Given, Shared, UseDeleted, Count, Take, Give
  <2>2. CASE ForgetProducers(s) \/ ForgetConsumers(s)
    BY <2>2, ListFacts, RefsForget DEF ForgetProducers, ForgetConsumers
  <2> QED BY <1>2, <2>1, <2>2, RefsWake DEF Round
<1>3. ASSUME NEW s \in Sharer, DeleteProducers(s) \/ DeleteConsumers(s)
      PROVE  (SolverRefs /\ Requests /\ Lifecycle)'
  BY <1>3, ListFacts, RefsForget DEF DeleteProducers, DeleteConsumers
<1> QED BY <1>1, <1>2, <1>3, RefsWork DEF Next

-----------------------------------------------------------------------------
\* Rounds

LEMMA RoundsQuiet ==
    ASSUME Rounds, UNCHANGED <<pc, from, to, current, members>>
    PROVE  Rounds'
BY DEF Rounds

\* A sharer that is not in a round forgets.
LEMMA RoundsForget ==
    ASSUME TypeOK, Rounds, NEW s \in Sharer, NEW r \in Role, Forget(<<s, r>>),
           pc[s] \notin {"take", "dequeue", "give"}, pc'[s] \notin {"take", "dequeue", "give"},
           \A q \in Sharer \ {s} : pc'[q] = pc[q],
           UNCHANGED <<from, to, current>>
    PROVE  Rounds'
<1> SUFFICES ASSUME NEW q \in Sharer
             PROVE  /\ from[q] \subseteq members'[<<q, "producer">>]
                    /\ to[q] \subseteq members'[<<q, "consumer">>]
                    /\ pc'[q] \in {"dequeue", "give"} => current[q] \in members'[<<q, "producer">>]
                    /\ pc'[q] # "give" => to[q] = {}
                    /\ pc'[q] \notin {"take", "dequeue", "give"} => from[q] = {}
  BY DEF Rounds
<1>1. CASE q = s
  BY <1>1 DEF Rounds
<1>2. CASE q # s
  <2>1. \A k \in Role : members'[<<q, k>>] = members[<<q, k>>]
    BY <1>2, ListFacts DEF Forget, TypeOK
  <2> QED BY <1>2, <2>1 DEF Rounds, Role
<1> QED BY <1>1, <1>2

LEMMA RoundsStep ==
    ASSUME TypeOK, Rounds, [Next]_vars
    PROVE  Rounds'
<1>1. CASE End \/ UNCHANGED vars \/ \E v \in Solver : Work(v)
  <2>1. UNCHANGED <<pc, from, to, current, members>>
    BY <1>1 DEF End, vars, Work, Learn, Learned, Clone, Add, Added, GiveUp, Remove, CallDeleted,
       Removed, Destroy, Release, lists, round
  <2> QED BY <2>1, RoundsQuiet
<1>2. ASSUME NEW s \in Sharer, Wake(s) PROVE Rounds'
  <2>1. /\ \A q \in Sharer : q # s => from'[q] = from[q] /\ pc'[q] = pc[q]
        /\ \A l \in List : members[l] \subseteq members'[l]
        /\ pc[s] = "sleep" /\ pc'[s] \in {"take", "done"} /\ to' = to /\ current' = current
    <3>1. /\ pc[s] = "sleep" /\ pc'[s] \in {"take", "done"} /\ to' = to /\ current' = current
          /\ \A q \in Sharer : q # s => pc'[q] = pc[q]
      BY <1>2 DEF Wake, Go, TypeOK
    <3>2. \A q \in Sharer : q # s => from'[q] = from[q]
      BY <1>2 DEF Wake, TypeOK
    <3>3. \A l \in List : members[l] \subseteq members'[l]
      BY <1>2 DEF Wake
    <3> QED BY <3>1, <3>2, <3>3
  <2>2. pc'[s] = "take" => from'[s] = members'[<<s, "producer">>]
    <3> SUFFICES ASSUME pc'[s] = "take" PROVE from'[s] = members'[<<s, "producer">>]
      OBVIOUS
    <3>1. PICK l \in List : l = <<s, "producer">> /\ l[1] = s
      BY ListFacts
    <3>2. ~globalEnding
      BY <1>2 DEF Wake, Go, TypeOK
    <3>3. members'[l] = members[l] \cup toAdd[l]
      BY <3>1, <3>2, <1>2 DEF Wake
    <3>4. from'[s] = members[l] \cup toAdd[l]
      BY <3>1, <3>2, <1>2 DEF Wake, TypeOK
    <3> QED BY <3>1, <3>3, <3>4
  <2>3. pc'[s] = "done" => from'[s] = from[s]
    BY <1>2, ListFacts DEF Wake, Go, TypeOK
  <2> SUFFICES ASSUME NEW q \in Sharer
               PROVE  /\ from'[q] \subseteq members'[<<q, "producer">>]
                      /\ to'[q] \subseteq members'[<<q, "consumer">>]
                      /\ pc'[q] \in {"dequeue", "give"} => current'[q] \in members'[<<q, "producer">>]
                      /\ pc'[q] # "give" => to'[q] = {}
                      /\ pc'[q] \notin {"take", "dequeue", "give"} => from'[q] = {}
    BY DEF Rounds
  <2>4. members[<<q, "producer">>] \subseteq members'[<<q, "producer">>]
        /\ members[<<q, "consumer">>] \subseteq members'[<<q, "consumer">>]
    BY <2>1, ListFacts
  <2> QED BY <2>1, <2>2, <2>3, <2>4 DEF Rounds
<1>3. ASSUME NEW s \in Sharer, NEW p \in Solver, Count(s, p) PROVE Rounds'
  BY <1>3, ListFacts DEF Count, Go, Rounds, TypeOK, lists
<1>9. ASSUME NEW s \in Sharer, Take(s) PROVE Rounds'
  BY <1>9, ListFacts DEF Take, Go, Rounds, TypeOK, lists
<1>4. ASSUME NEW s \in Sharer, NEW q \in Solver, Give(s, q) PROVE Rounds'
  BY <1>4 DEF Give, Rounds, TypeOK, lists
<1>5. ASSUME NEW s \in Sharer, Given(s) PROVE Rounds'
  BY <1>5 DEF Given, Go, Rounds, TypeOK, lists
<1>6. ASSUME NEW s \in Sharer, Shared(s) PROVE Rounds'
  BY <1>6 DEF Shared, Go, Rounds, TypeOK, lists, round
<1>7. ASSUME NEW s \in Sharer,
             ForgetProducers(s) \/ ForgetConsumers(s) \/ DeleteProducers(s) \/ DeleteConsumers(s)
      PROVE  Rounds'
  <2>1. PICK r \in Role : Forget(<<s, r>>)
    BY <1>7 DEF ForgetProducers, ForgetConsumers, DeleteProducers, DeleteConsumers, Role
  <2>2. /\ pc[s] \notin {"take", "dequeue", "give"} /\ pc'[s] \notin {"take", "dequeue", "give"}
        /\ \A q \in Sharer \ {s} : pc'[q] = pc[q]
    BY <1>7 DEF ForgetProducers, ForgetConsumers, DeleteProducers, DeleteConsumers, Go, TypeOK
  <2>3. UNCHANGED <<from, to, current>>
    BY <1>7 DEF ForgetProducers, ForgetConsumers, DeleteProducers, DeleteConsumers, round
  <2> QED BY <2>1, <2>2, <2>3, RoundsForget
<1>8. ASSUME NEW s \in Sharer, UseDeleted(s) PROVE Rounds'
  BY <1>8, RoundsQuiet DEF UseDeleted, lists, round
<1> QED BY <1>1, <1>2, <1>3, <1>4, <1>5, <1>6, <1>7, <1>8, <1>9 DEF Next, Round

\* What a round uses is a member; one that is deleted is not listed, so that its list
\* had forgotten it.
LEMMA DeletedStep ==
    ASSUME TypeOK, SolverRefs, Rounds, NoDeletedSolver, [Next]_vars
    PROVE  NoDeletedSolver'
<1>1. ASSUME NEW v \in Solver, NEW l \in List, v \in members[l], ~Alive(v)
      PROVE  overtaken # {}
  <2>1. Holders(v) = {}
    <3>1. ~(nRefs[v] >= 1)
      BY <1>1 DEF Alive, TypeOK
    <3> QED BY <3>1, HeldIsAlive
  <2>2. ~Listed(v, l)
    BY <2>1 DEF Holders
  <2> QED BY <1>1, <2>2 DEF Listed
<1>2. ASSUME NEW s \in Sharer, UseDeleted(s) PROVE overtaken' # {}
  <2>1. PICK v \in Solver, l \in List : v \in members[l] /\ ~Alive(v)
    <3>1. <<s, "producer">> \in List /\ <<s, "consumer">> \in List
      BY ListFacts
    <3> QED BY <3>1, <1>2 DEF UseDeleted, Rounds, TypeOK
  <2> QED BY <2>1, <1>1, <1>2 DEF UseDeleted
<1>3. overtaken \subseteq overtaken'
  <2>1. ASSUME NEW v \in Solver, Work(v) PROVE overtaken' = overtaken
    BY <2>1 DEF Work, Learn, Learned, Clone, Add, Added, GiveUp, Remove, CallDeleted, Removed, Destroy,
       Release
  <2>2. ASSUME NEW s \in Sharer,
               Wake(s) \/ Given(s) \/ Shared(s) \/ UseDeleted(s)
                   \/ Take(s)
                   \/ \E v \in Solver : Count(s, v) \/ Give(s, v)
        PROVE  overtaken' = overtaken
    BY <2>2 DEF Wake, Count, Take, Give, Given, Shared, UseDeleted
  <2>3. ASSUME NEW s \in Sharer,
               ForgetProducers(s) \/ ForgetConsumers(s) \/ DeleteProducers(s)
                   \/ DeleteConsumers(s)
        PROVE  overtaken \subseteq overtaken'
    BY <2>3 DEF ForgetProducers, ForgetConsumers, DeleteProducers, DeleteConsumers, Forget
  <2>4. CASE End \/ UNCHANGED vars
    BY <2>4 DEF End, vars
  <2> QED BY <2>1, <2>2, <2>3, <2>4 DEF Next, Round
<1>4. fault' = "solver" => fault = "solver" \/ \E s \in Sharer : UseDeleted(s)
  <2>1. ASSUME NEW v \in Solver, Work(v), ~CallDeleted(v) PROVE fault' = fault
    BY <2>1 DEF Work, Learn, Learned, Clone, Add, Added, GiveUp, Remove, Removed, Destroy, Release
  <2>2. ASSUME NEW v \in Solver, CallDeleted(v) PROVE fault' = "sharer"
    BY <2>2 DEF CallDeleted
  <2>3. ASSUME NEW s \in Sharer,
               Wake(s) \/ Given(s) \/ Shared(s) \/ Take(s)
                   \/ \E v \in Solver : Count(s, v) \/ Give(s, v)
        PROVE  fault' = fault
    BY <2>3 DEF Wake, Count, Take, Give, Given, Shared
  <2>4. ASSUME NEW s \in Sharer,
               ForgetProducers(s) \/ ForgetConsumers(s) \/ DeleteProducers(s)
                   \/ DeleteConsumers(s)
        PROVE  fault' = fault
    BY <2>4 DEF ForgetProducers, ForgetConsumers, DeleteProducers, DeleteConsumers
  <2>5. CASE End \/ UNCHANGED vars
    BY <2>5 DEF End, vars
  <2> QED BY <2>1, <2>2, <2>3, <2>4, <2>5 DEF Next, Round
<1> QED BY <1>2, <1>3, <1>4 DEF NoDeletedSolver

LEMMA InitIInv == Init => IInv
<1> SUFFICES ASSUME Init PROVE IInv
  OBVIOUS
<1>1. Rounds
  BY DEF Init, Rounds
<1>2. NoDeletedSolver
  BY DEF Init, NoDeletedSolver
<1> QED BY <1>1, <1>2, TypeInit, RefsInit DEF IInv

LEMMA StepIInv == IInv /\ [Next]_vars => IInv'
BY TypeStep, RefsStep, RoundsStep, DeletedStep DEF IInv

LEMMA Invariance == Spec => []IInv
BY InitIInv, StepIInv, PTL DEF Spec

\* Every variable keeps its type; no solver is released more often than it was
\* announced.  (the whole of Sharer, and release of SolverInterface)
THEOREM TypeCorrect == Spec => []TypeOK
<1>1. IInv => TypeOK
  BY DEF IInv
<1> QED BY <1>1, Invariance, PTL

\* nRefs is the number of those that refer to a solver, but for the lists that forgot it
\* before they got it.  (increase and release around the lists of Sharer)
THEOREM ReferencesAreCounted == Spec => []SolverRefs
<1>1. IInv => SolverRefs
  BY DEF IInv
<1> QED BY <1>1, Invariance, PTL

\* A sharer uses a deleted solver only after a list forgot one before it got it.
\* (removals processed before additions, Sharer::removeConsumer and mainThrSharing)
THEOREM DeletedIsNotUsed == Spec => []NoDeletedSolver
<1>1. IInv => NoDeletedSolver
  BY DEF IInv
<1> QED BY <1>1, Invariance, PTL
-----------------------------------------------------------------------------
\* Who a clause reaches

\* No database is filled by several producers: the condition of ReachesTheOthers.
OneFilled ==
    \A s \in DOMAIN setup.strategy : setup.strategy[s] = "horde" =>
        Cardinality(setup.joined[<<s, "producer">>]) <= 1 /\ ~setup.givesUp

\* Wherever a clause is, it is with what its issuer has made: the producer that is being
\* served, or the one that fills the database.
Owned ==
    /\ \A v \in Solver : \A k \in Elements(exported[v]) : issuer[k] = v
    /\ \A s \in Sharer : pc[s] = "give" => \A k \in tmp[s] : issuer[k] = current[s]
    /\ \A s \in DOMAIN setup.strategy : setup.strategy[s] = "horde" =>
          \A k \in database[s] : issuer[k] \in setup.joined[<<s, "producer">>]
    /\ \A v \in Solver : \A k \in given[v] : issuer[k] \in Solver \ {v}

\* An original is a consumer of every sharer until it is given up, and the producers of a
\* sharer with a database are those it started with.
Joined ==
    /\ \A v \in setup.original : phase[v] \notin {"unborn", "adding"}
    /\ \A v \in setup.original : phase[v] = "running" =>
          /\ \A l \in List : v \notin toRemove[l]
          /\ \A s \in DOMAIN setup.strategy : v \in members[<<s, "consumer">>]
    /\ \A s \in Sharer : pc[s] # "deleted" => s \in DOMAIN setup.strategy
    /\ \A s \in DOMAIN setup.strategy : setup.strategy[s] = "horde" =>
          LET l == <<s, "producer">> IN members[l] \cup toAdd[l] \subseteq setup.joined[l]

\* What a clause still waits for to reach v.
Waits(k, v) ==
    \/ k \in Elements(exported[issuer[k]]) \/ k \in refused
    \/ \E s \in Sharer : k \in database[s] \/ (k \in tmp[s] /\ v \in to[s])

Delivered ==
    \A k \in Clause : issuer[k] # None /\ k \notin late =>
        \A v \in setup.original \ {issuer[k]} :
            phase[v] = "running" => k \in given[v] \/ Waits(k, v)

\* What is in a buffer beyond the number that was counted may be lost.
Late ==
    \A s \in Sharer : pc[s] = "dequeue" =>
        Beyond(exported[current[s]], counted[s]) \subseteq late

Reach == OneFilled => Owned /\ Joined /\ Late /\ Delivered

LEMMA ReachInit == Init => Owned /\ Joined /\ Late /\ Delivered
<1> SUFFICES ASSUME Init PROVE Owned /\ Joined /\ Late /\ Delivered
  OBVIOUS
<1>1. Owned
  <2>1. \A v \in Solver : Elements(exported[v]) = {}
    BY DEF Init, Elements
  <2> QED BY <2>1, SetupFacts DEF Init, Owned
<1>4. Late
  BY DEF Init, Late
<1>2. Joined
  BY SetupFacts, ListFacts DEF Init, Joined
<1>3. Delivered
  BY DEF Init, Delivered
<1> QED
  BY <1>1, <1>2, <1>3, <1>4

\* Who has joined

LEMMA JoinedWork ==
    ASSUME TypeOK, OneFilled, Joined, NEW v \in Solver, Work(v)
    PROVE  Joined'
<1>1. /\ setup' = setup /\ members' = members /\ pc' = pc
      /\ \A w \in Solver : w # v => phase'[w] = phase[w]
      /\ phase[v] # "running" /\ phase'[v] = "running" => phase[v] = "adding"
      /\ phase'[v] \in {"unborn", "adding"} => phase[v] \in {"unborn", "adding"}
  BY DEF Work, Learn, Learned, Clone, Add, Added, GiveUp, Remove, CallDeleted, Removed, Destroy, Release,
         Enter, solvers, lists, TypeOK
<1>2. ASSUME NEW w \in setup.original, phase'[w] = "running"
      PROVE  phase[w] = "running" /\ \A l \in List : w \notin toRemove'[l]
  <2>1. w \in Solver /\ phase[w] \notin {"unborn", "adding"}
    BY SetupFacts DEF Joined, TypeOK
  <2>2. phase[w] = "running"
    BY <1>1, <1>2, <2>1
  <2>3. \A l \in List : w \notin toRemove[l]
    BY <2>2 DEF Joined
  <2>4. CASE toRemove' = toRemove
    BY <2>2, <2>3, <2>4
  <2>5. CASE Remove(v)
    <3>1. w # v
      BY <2>2, <2>5 DEF Remove, Calling
    <3> QED
      BY <2>2, <2>3, <2>5, <3>1 DEF Remove, TypeOK
  <2> QED
    BY <2>4, <2>5 DEF Work, Learn, Learned, Clone, Add, Added, GiveUp, CallDeleted, Removed, Destroy,
       Release, lists
<1>3. ASSUME NEW s \in DOMAIN setup.strategy, setup.strategy[s] = "horde"
      PROVE  toAdd'[<<s, "producer">>] = toAdd[<<s, "producer">>]
  <2>1. <<s, "producer">> \in List
    BY SetupFacts, ListFacts DEF TypeOK
  <2>2. CASE Add(v)
    <3>1. at[v] \in DOMAIN setup.calls /\ Call(v) = setup.calls[at[v]]
      BY <2>2 DEF Add, Calling, Call
    <3>2. Call(v)[2] = "consumer"
      BY <1>3, <3>1, SetupFacts DEF OneFilled, TypeOK
    <3>3. Call(v) # <<s, "producer">>
      BY <3>2
    <3> QED
      BY <2>1, <2>2, <3>3 DEF Add, TypeOK
  <2>3. CASE ~Add(v)
    BY <2>3 DEF Work, Learn, Learned, Clone, Added, GiveUp, Remove, CallDeleted, Removed, Destroy,
       Release, lists
  <2> QED
    BY <2>2, <2>3
<1>4. \A w \in setup.original : phase'[w] \notin {"unborn", "adding"}
  <2> TAKE w \in setup.original
  <2>1. w \in Solver /\ phase[w] \notin {"unborn", "adding"}
    BY SetupFacts DEF Joined, TypeOK
  <2> QED
    BY <1>1, <2>1
<1>5. \A w \in setup.original : phase'[w] = "running" =>
          /\ \A l \in List : w \notin toRemove'[l]
          /\ \A s \in DOMAIN setup.strategy : w \in members'[<<s, "consumer">>]
  BY <1>1, <1>2 DEF Joined
<1>6. \A s \in DOMAIN setup.strategy : setup.strategy[s] = "horde" =>
          members'[<<s, "producer">>] \cup toAdd'[<<s, "producer">>]
              \subseteq setup.joined[<<s, "producer">>]
  BY <1>1, <1>3 DEF Joined
<1>7. \A s \in Sharer : pc'[s] # "deleted" => s \in DOMAIN setup.strategy
  BY <1>1 DEF Joined
<1> QED
  BY <1>1, <1>4, <1>5, <1>6, <1>7 DEF Joined

LEMMA JoinedForget ==
    ASSUME TypeOK, Joined, NEW l \in List, Forget(l), UNCHANGED <<setup, phase>>,
           \A s \in Sharer : pc'[s] # "deleted" => pc[s] # "deleted"
    PROVE  Joined'
<1>1. /\ members' = [members EXCEPT ![l] = @ \ toRemove[l]] /\ toAdd' = toAdd
      /\ toRemove' = [toRemove EXCEPT ![l] = {}]
  BY DEF Forget
<1>2. /\ \A k \in List : /\ members'[k] \subseteq members[k] /\ toRemove'[k] \subseteq toRemove[k]
                         /\ members[k] \subseteq members'[k] \cup toRemove[k]
  BY <1>1 DEF TypeOK
<1>3. \A s \in DOMAIN setup.strategy : <<s, "producer">> \in List /\ <<s, "consumer">> \in List
  BY SetupFacts, ListFacts DEF TypeOK
<1>4. \A w \in setup.original : phase[w] = "running" =>
          /\ \A k \in List : w \notin toRemove'[k]
          /\ \A s \in DOMAIN setup.strategy : w \in members'[<<s, "consumer">>]
  BY <1>2, <1>3 DEF Joined
<1>5. \A s \in DOMAIN setup.strategy : setup.strategy[s] = "horde" =>
          members'[<<s, "producer">>] \cup toAdd'[<<s, "producer">>]
              \subseteq setup.joined[<<s, "producer">>]
  <2> TAKE s \in DOMAIN setup.strategy
  <2> HAVE setup.strategy[s] = "horde"
  <2>1. members[<<s, "producer">>] \cup toAdd[<<s, "producer">>]
            \subseteq setup.joined[<<s, "producer">>]
    BY DEF Joined
  <2> QED
    BY <1>1, <1>2, <1>3, <2>1
<1> QED
  BY <1>4, <1>5 DEF Joined

LEMMA JoinedStep ==
    ASSUME TypeOK, OneFilled, Joined, [Next]_vars
    PROVE  Joined'
<1>1. CASE End \/ UNCHANGED vars
  BY <1>1 DEF End, vars, solvers, lists, Joined
<1>2. ASSUME NEW s \in Sharer, Wake(s) PROVE Joined'
  <2>1. /\ setup' = setup /\ phase' = phase /\ toRemove' = toRemove
        /\ \A r \in Sharer : pc'[r] # "deleted" => pc[r] # "deleted"
    BY <1>2 DEF Wake, Go, solvers, TypeOK
  <2>2. \A l \in List : /\ members[l] \subseteq members'[l]
                        /\ members'[l] \cup toAdd'[l] \subseteq members[l] \cup toAdd[l]
    BY <1>2 DEF Wake
  <2>3. \A r \in DOMAIN setup.strategy : <<r, "producer">> \in List /\ <<r, "consumer">> \in List
    BY SetupFacts, ListFacts DEF TypeOK
  <2>4. \A w \in setup.original : phase[w] = "running" =>
            \A r \in DOMAIN setup.strategy : w \in members'[<<r, "consumer">>]
    BY <2>2, <2>3 DEF Joined
  <2>5. \A r \in DOMAIN setup.strategy : setup.strategy[r] = "horde" =>
            members'[<<r, "producer">>] \cup toAdd'[<<r, "producer">>]
                \subseteq setup.joined[<<r, "producer">>]
    <3> TAKE r \in DOMAIN setup.strategy
    <3> HAVE setup.strategy[r] = "horde"
    <3>1. members[<<r, "producer">>] \cup toAdd[<<r, "producer">>]
              \subseteq setup.joined[<<r, "producer">>]
      BY DEF Joined
    <3> QED
      BY <2>2, <2>3, <3>1
  <2> QED
    BY <2>1, <2>4, <2>5 DEF Joined
<1>3. ASSUME NEW s \in Sharer,
             Given(s) \/ Shared(s) \/ UseDeleted(s) \/ Take(s)
                   \/ \E v \in Solver : Count(s, v) \/ Give(s, v)
      PROVE  Joined'
  <2>1. UNCHANGED <<setup, phase, members, toAdd, toRemove>>
    BY <1>3 DEF Given, Shared, UseDeleted, Count, Take, Give, solvers, lists
  <2>2. \A r \in Sharer : pc'[r] # "deleted" => pc[r] # "deleted"
    BY <1>3 DEF Given, Shared, UseDeleted, Count, Take, Give, Go, TypeOK
  <2> QED
    BY <2>1, <2>2 DEF Joined
<1>4. ASSUME NEW s \in Sharer,
             ForgetProducers(s) \/ ForgetConsumers(s) \/ DeleteProducers(s) \/ DeleteConsumers(s)
      PROVE  Joined'
  <2>1. PICK l \in List : Forget(l)
    BY <1>4, ListFacts DEF ForgetProducers, ForgetConsumers, DeleteProducers, DeleteConsumers
  <2>2. UNCHANGED <<setup, phase>> /\ \A r \in Sharer : pc'[r] # "deleted" => pc[r] # "deleted"
    BY <1>4 DEF ForgetProducers, ForgetConsumers, DeleteProducers, DeleteConsumers, Go, TypeOK
  <2> QED
    BY <2>1, <2>2, JoinedForget
<1> QED
  BY <1>1, <1>2, <1>3, <1>4, JoinedWork DEF Next, Round

\* Whose the clauses are

\* A producer whose clauses go to a database is the one that fills it.
LEMMA SoleProducer ==
    ASSUME TypeOK, OneFilled, Rounds, Joined, NEW s \in Sharer, NEW p, p = current[s], Take(s)
    PROVE  /\ s \in DOMAIN setup.strategy /\ p \in Solver
           /\ setup.strategy[s] # "simple" =>
                 /\ setup.strategy[s] = "horde" /\ p \in setup.joined[<<s, "producer">>]
                 /\ \A q \in setup.joined[<<s, "producer">>] : q = p
<1>1. pc[s] = "dequeue" /\ p \in members[<<s, "producer">>]
  BY CurrentIs
<1>2. s \in DOMAIN setup.strategy /\ p \in Solver
  BY <1>1, CurrentIs DEF Joined
<1>3. SUFFICES ASSUME setup.strategy[s] # "simple"
               PROVE  /\ setup.strategy[s] = "horde" /\ p \in setup.joined[<<s, "producer">>]
                      /\ \A q \in setup.joined[<<s, "producer">>] : q = p
  BY <1>2
<1> DEFINE J == setup.joined[<<s, "producer">>]
<1>4. setup.strategy[s] = "horde"
  BY <1>2, <1>3, SetupFacts DEF TypeOK
<1>5. p \in J
  BY <1>1, <1>2, <1>4 DEF Joined
<1>6. J \subseteq Solver /\ Cardinality(J) <= 1
  BY <1>2, <1>4, ListFacts, SetupFacts DEF OneFilled, TypeOK
<1>7. IsFiniteSet(J)
  BY <1>6, SolverAssumption, FS_Subset
<1> HIDE DEF J
<1>8. ASSUME NEW q \in J, q # p PROVE FALSE
  <2>1. /\ IsFiniteSet(J \ {p}) /\ Cardinality(J \ {p}) = Cardinality(J) - 1
    BY <1>5, <1>7, FS_RemoveElement
  <2>2. /\ IsFiniteSet((J \ {p}) \ {q})
        /\ Cardinality((J \ {p}) \ {q}) = Cardinality(J \ {p}) - 1
    BY <1>8, <2>1, FS_RemoveElement
  <2>3. Cardinality((J \ {p}) \ {q}) \in Nat /\ Cardinality(J) \in Nat
    BY <1>7, <2>2, FS_CardinalityType
  <2> QED
    BY <1>6, <2>1, <2>2, <2>3
<1> QED
  BY <1>4, <1>5, <1>8 DEF J

\* What a round takes for its consumers, and what it leaves in a database.
LEMMA TakenFrom ==
    ASSUME TypeOK, NEW s \in Sharer, NEW p, p = current[s], NEW list,
           list = First(exported[p], counted[s]), Take(s)
    PROVE  /\ tmp'[s] \subseteq database[s] \cup list
           /\ database'[s] \subseteq database[s] \cup list
           /\ database[s] \cup list \subseteq tmp'[s] \cup database'[s] \cup refused'
           /\ refused \subseteq refused'
           /\ setup.strategy[s] = "simple" => tmp'[s] = list
           /\ \A r \in Sharer \ {s} : tmp'[r] = tmp[r] /\ database'[r] = database[r]
<1>1. CASE setup.strategy[s] = "simple"
  BY <1>1 DEF Take, TypeOK
<1>2. CASE setup.strategy[s] # "simple"
  <2>1. PICK db \in Filled(database[s], list) : \E set \in Selections(db) :
           /\ tmp' = [tmp EXCEPT ![s] = set]
           /\ database' = [database EXCEPT ![s] = db \ set]
           /\ refused' = refused \cup (list \ db)
    BY <1>2 DEF Take
  <2>2. PICK set \in Selections(db) : /\ tmp' = [tmp EXCEPT ![s] = set]
                                      /\ database' = [database EXCEPT ![s] = db \ set]
                                      /\ refused' = refused \cup (list \ db)
    BY <2>1
  <2>3. db \subseteq database[s] \cup list /\ database[s] \subseteq db
    BY <2>1 DEF Filled
  <2>4. set \subseteq db
    BY <2>2 DEF Selections
  <2>5. tmp'[s] = set /\ database'[s] = db \ set
    BY <2>2 DEF TypeOK
  <2>6. \A r \in Sharer \ {s} : tmp'[r] = tmp[r] /\ database'[r] = database[r]
    BY <2>2 DEF TypeOK
  <2> QED
    BY <1>2, <2>2, <2>3, <2>4, <2>5, <2>6
<1> QED
  BY <1>1, <1>2

LEMMA OwnedQuiet ==
    ASSUME Owned, UNCHANGED <<setup, exported, issuer, tmp, current, database, given>>,
           \A s \in Sharer : pc'[s] = "give" => pc[s] = "give"
    PROVE  Owned'
BY DEF Owned

LEMMA OwnedLearn ==
    ASSUME TypeOK, Rounds, Owned, NEW v \in Solver, Learn(v)
    PROVE  Owned'
<1>1. PICK k \in setup.clauses : /\ issuer[k] = None
                                 /\ issuer' = [issuer EXCEPT ![k] = v]
                                 /\ exported' = [exported EXCEPT ![v] = Append(@, k)]
  BY DEF Learn
<1>2. UNCHANGED <<setup, pc, tmp, current, database, given>>
  BY DEF Learn, round
<1>3. k \in Clause /\ issuer'[k] = v /\ \A m \in Clause : m # k => issuer'[m] = issuer[m]
  BY <1>1, SetupFacts DEF TypeOK
<1>4. None \notin Solver
  BY SolverAssumption
<1>5. \A w \in Solver : \A m \in Elements(exported'[w]) : issuer'[m] = w
  <2> SUFFICES ASSUME NEW w \in Solver, NEW m \in Elements(exported'[w]) PROVE issuer'[m] = w
    OBVIOUS
  <2>1. Elements(exported'[v]) = Elements(exported[v]) \cup {k}
    BY <1>1, <1>3, AppendFacts DEF TypeOK
  <2>2. m \in Elements(exported[w]) \/ (m = k /\ w = v)
    BY <1>1, <2>1 DEF TypeOK
  <2>3. CASE m \in Elements(exported[w])
    <3>1. issuer[m] = w /\ m \in Clause
      BY <2>3, BufferFacts DEF Owned, TypeOK
    <3> QED BY <1>1, <1>3, <1>4, <3>1
  <2> QED BY <1>3, <2>2, <2>3
<1>6. \A w \in Solver : \A m \in given[w] : issuer'[m] \in Solver \ {w}
  BY <1>1, <1>3, <1>4 DEF Owned, TypeOK
<1>7. \A s \in Sharer : pc[s] = "give" => \A m \in tmp[s] : issuer'[m] = current[s]
  <2> SUFFICES ASSUME NEW s \in Sharer, pc[s] = "give", NEW m \in tmp[s]
               PROVE  issuer'[m] = current[s]
    OBVIOUS
  <2>1. issuer[m] = current[s] /\ m \in Clause
    BY DEF Owned, TypeOK
  <2>2. current[s] \in Solver
    BY ListFacts DEF Rounds, TypeOK
  <2> QED
    BY <1>1, <1>3, <1>4, <2>1, <2>2
<1>8. \A s \in DOMAIN setup.strategy : setup.strategy[s] = "horde" =>
          \A m \in database[s] : issuer'[m] \in setup.joined[<<s, "producer">>]
  <2> SUFFICES ASSUME NEW s \in DOMAIN setup.strategy, setup.strategy[s] = "horde",
                      NEW m \in database[s]
               PROVE  issuer'[m] \in setup.joined[<<s, "producer">>]
    OBVIOUS
  <2>1. s \in Sharer /\ setup.joined[<<s, "producer">>] \subseteq Solver
    BY SetupFacts, ListFacts DEF TypeOK
  <2>2. issuer[m] \in setup.joined[<<s, "producer">>] /\ m \in Clause
    BY <2>1 DEF Owned, TypeOK
  <2> QED
    BY <1>1, <1>3, <1>4, <2>1, <2>2
<1> QED
  BY <1>2, <1>5, <1>6, <1>7, <1>8 DEF Owned

LEMMA OwnedTake ==
    ASSUME TypeOK, OneFilled, Rounds, Joined, Owned, NEW s \in Sharer, Take(s)
    PROVE  Owned'
<1> DEFINE p    == current[s]
           list == First(exported[p], counted[s])
<1>1. /\ UNCHANGED <<setup, issuer, given, current>> /\ pc' = [pc EXCEPT ![s] = "give"]
      /\ exported' = [exported EXCEPT ![p] = Left(@, counted[s])]
  BY DEF Take, Go
<1>2. /\ s \in DOMAIN setup.strategy /\ p \in Solver
      /\ setup.strategy[s] # "simple" =>
            /\ setup.strategy[s] = "horde" /\ p \in setup.joined[<<s, "producer">>]
            /\ \A q \in setup.joined[<<s, "producer">>] : q = p
  BY SoleProducer
<1>3. /\ tmp'[s] \subseteq database[s] \cup list
      /\ database'[s] \subseteq database[s] \cup list
      /\ setup.strategy[s] = "simple" => tmp'[s] = list
      /\ \A r \in Sharer \ {s} : tmp'[r] = tmp[r] /\ database'[r] = database[r]
  BY TakenFrom
<1>9. /\ list \subseteq Elements(exported[p])
      /\ Elements(Left(exported[p], counted[s])) \subseteq Elements(exported[p])
  BY <1>2, BufferFacts DEF TypeOK
<1> HIDE DEF p, list
<1>4. \A k \in list : issuer[k] = p
  BY <1>2, <1>9 DEF Owned
<1>5. setup.strategy[s] # "simple" => \A k \in database[s] : issuer[k] = p
  BY <1>2 DEF Owned
<1>6. \A v \in Solver : \A k \in Elements(exported'[v]) : issuer[k] = v
  <2> SUFFICES ASSUME NEW v \in Solver, NEW k \in Elements(exported'[v]) PROVE issuer[k] = v
    OBVIOUS
  <2>1. k \in Elements(exported[v])
    BY <1>1, <1>9 DEF TypeOK
  <2> QED BY <2>1 DEF Owned
<1>7. \A r \in Sharer : pc'[r] = "give" => \A k \in tmp'[r] : issuer[k] = current'[r]
  <2> SUFFICES ASSUME NEW r \in Sharer, pc'[r] = "give", NEW k \in tmp'[r]
               PROVE  issuer[k] = current'[r]
    OBVIOUS
  <2>1. CASE r = s
    <3>1. issuer[k] = p
      BY <1>3, <1>4, <1>5, <2>1
    <3> QED
      BY <1>1, <2>1, <3>1 DEF p
  <2>2. CASE r # s
    BY <1>1, <1>3, <2>2 DEF Owned, TypeOK
  <2> QED
    BY <2>1, <2>2
<1>8. \A r \in DOMAIN setup.strategy : setup.strategy[r] = "horde" =>
          \A k \in database'[r] : issuer[k] \in setup.joined[<<r, "producer">>]
  <2> SUFFICES ASSUME NEW r \in DOMAIN setup.strategy, setup.strategy[r] = "horde",
                      NEW k \in database'[r]
               PROVE  issuer[k] \in setup.joined[<<r, "producer">>]
    OBVIOUS
  <2>1. r \in Sharer
    BY SetupFacts DEF TypeOK
  <2>2. CASE r = s
    BY <1>2, <1>3, <1>4, <1>5, <2>2
  <2>3. CASE r # s
    BY <1>3, <2>1, <2>3 DEF Owned
  <2> QED
    BY <2>2, <2>3
<1> QED
  BY <1>1, <1>6, <1>7, <1>8 DEF Owned

LEMMA OwnedGive ==
    ASSUME TypeOK, Rounds, Owned, NEW s \in Sharer, NEW q \in Solver, Give(s, q)
    PROVE  Owned'
<1>1. /\ UNCHANGED <<setup, exported, issuer, tmp, current, database, pc>> /\ pc[s] = "give"
      /\ given' = IF q = current[s] THEN given ELSE [given EXCEPT ![q] = @ \cup tmp[s]]
  BY DEF Give
<1>2. current[s] \in Solver /\ \A k \in tmp[s] : issuer[k] = current[s]
  <2>1. current[s] \in members[<<s, "producer">>] /\ members[<<s, "producer">>] \subseteq Solver
    BY <1>1, ListFacts DEF Rounds, TypeOK
  <2> QED
    BY <1>1, <2>1 DEF Owned
<1>3. \A v \in Solver : \A k \in given'[v] : issuer[k] \in Solver \ {v}
  BY <1>1, <1>2 DEF Owned, TypeOK
<1> QED
  BY <1>1, <1>3 DEF Owned

LEMMA OwnedStep ==
    ASSUME TypeOK, OneFilled, Rounds, Joined, Owned, [Next]_vars
    PROVE  Owned'
<1>1. CASE End \/ UNCHANGED vars
  BY <1>1, OwnedQuiet DEF End, vars, round, clauses
<1>2. ASSUME NEW v \in Solver, Work(v) PROVE Owned'
  <2>1. CASE ~Learn(v)
    BY <1>2, <2>1, OwnedQuiet DEF Work, Learned, Clone, Add, Added, GiveUp, Remove, CallDeleted, Removed,
       Destroy, Release, round, clauses
  <2> QED
    BY <2>1, OwnedLearn
<1>3. ASSUME NEW s \in Sharer, Given(s) PROVE Owned'
  <2>1. UNCHANGED <<setup, exported, issuer, database, given>>
    BY <1>3 DEF Given, clauses
  <2>2. \A r \in Sharer : pc'[r] = "give" => /\ pc[r] = "give" /\ tmp'[r] = tmp[r]
                                             /\ current'[r] = current[r]
    BY <1>3 DEF Given, Go, TypeOK
  <2> QED
    BY <2>1, <2>2 DEF Owned
<1>4. ASSUME NEW s \in Sharer, Wake(s) \/ Shared(s) \/ UseDeleted(s) PROVE Owned'
  <2>1. UNCHANGED <<setup, exported, issuer, tmp, current, database, given>>
    BY <1>4 DEF Wake, Shared, UseDeleted, round, clauses
  <2>2. \A r \in Sharer : pc'[r] = "give" => pc[r] = "give"
    BY <1>4 DEF Wake, Shared, UseDeleted, Go, TypeOK
  <2> QED
    BY <2>1, <2>2, OwnedQuiet
<1>5. ASSUME NEW s \in Sharer,
             ForgetProducers(s) \/ ForgetConsumers(s) \/ DeleteProducers(s) \/ DeleteConsumers(s)
      PROVE  Owned'
  <2>1. UNCHANGED <<setup, exported, issuer, tmp, current, database, given>>
    BY <1>5 DEF ForgetProducers, ForgetConsumers, DeleteProducers, DeleteConsumers, round,
                clauses
  <2>2. \A r \in Sharer : pc'[r] = "give" => pc[r] = "give"
    BY <1>5 DEF ForgetProducers, ForgetConsumers, DeleteProducers, DeleteConsumers, Go, TypeOK
  <2> QED
    BY <2>1, <2>2, OwnedQuiet
<1>6. ASSUME NEW s \in Sharer, NEW v \in Solver, Count(s, v) PROVE Owned'
  <2>1. UNCHANGED <<setup, exported, issuer, tmp, database, given>>
    BY <1>6 DEF Count
  <2>2. \A r \in Sharer : pc'[r] = "give" => pc[r] = "give" /\ current'[r] = current[r]
    BY <1>6 DEF Count, Go, TypeOK
  <2> QED
    BY <2>1, <2>2 DEF Owned
<1> QED
  BY <1>1, <1>2, <1>3, <1>4, <1>5, <1>6, OwnedTake, OwnedGive DEF Next, Round

-----------------------------------------------------------------------------
\* What reaches whom

\* For each clause and solver: what it waited for, and what it waits for now.
LEMMA DeliveredIf ==
    ASSUME TypeOK, Delivered, UNCHANGED <<setup, issuer>>, late \subseteq late',
           \A v \in setup.original : phase'[v] = "running" => phase[v] = "running",
           \A k \in Clause : \A v \in setup.original \ {issuer[k]} :
               phase[v] = "running" /\ issuer[k] # None /\ k \notin late
                   /\ (k \in given[v] \/ Waits(k, v))
                   => k \in given'[v] \/ Waits(k, v)'
    PROVE  Delivered'
BY DEF Delivered

LEMMA OriginalsRun ==
    ASSUME TypeOK, Joined, [Next]_vars, NEW v \in setup.original, phase'[v] = "running"
    PROVE  phase[v] = "running"
<1>1. v \in Solver /\ phase[v] \notin {"unborn", "adding"}
  BY SetupFacts DEF Joined, TypeOK
<1>2. ASSUME NEW w \in Solver, Work(w) PROVE phase[v] = "running"
  BY <1>1, <1>2 DEF Work, Learn, Learned, Clone, Add, Added, GiveUp, Remove, CallDeleted, Removed,
     Destroy, Release, Enter, solvers, TypeOK
<1>3. ASSUME NEW s \in Sharer, Round(s) \/ DeleteProducers(s) \/ DeleteConsumers(s)
      PROVE  phase' = phase
  BY <1>3 DEF Round, Wake, Count, Take, Give, Given, Shared, UseDeleted, ForgetProducers,
     ForgetConsumers, DeleteProducers, DeleteConsumers, solvers
<1>4. CASE End \/ UNCHANGED vars
  BY <1>4 DEF End, vars, solvers
<1> QED
  BY <1>2, <1>3, <1>4 DEF Next

LEMMA DeliveredLearn ==
    ASSUME TypeOK, Joined, Delivered, NEW w \in Solver, Learn(w)
    PROVE  Delivered'
<1>1. PICK l \in setup.clauses : /\ issuer[l] = None
                                 /\ issuer' = [issuer EXCEPT ![l] = w]
                                 /\ exported' = [exported EXCEPT ![w] = Append(@, l)]
                                 /\ late \subseteq late'
  BY DEF Learn
<1>2. UNCHANGED <<setup, phase, refused, database, tmp, to, given>>
  BY DEF Learn, solvers, round
<1>3. l \in Clause /\ issuer'[l] = w /\ \A k \in Clause : k # l => issuer'[k] = issuer[k]
  BY <1>1, SetupFacts DEF TypeOK
<1>8. Elements(exported'[w]) = Elements(exported[w]) \cup {l}
  BY <1>1, <1>3, AppendFacts DEF TypeOK
<1>4. \A v \in Solver : Elements(exported[v]) \subseteq Elements(exported'[v])
  BY <1>1, <1>8 DEF TypeOK
<1>5. l \in Elements(exported'[w])
  BY <1>8
<1> SUFFICES ASSUME NEW k \in Clause, issuer'[k] # None, k \notin late',
                    NEW v \in setup.original \ {issuer'[k]}, phase[v] = "running"
             PROVE  k \in given[v] \/ Waits(k, v)'
  BY <1>2 DEF Delivered
<1>6. CASE k = l
  BY <1>3, <1>5, <1>6 DEF Waits
<1>7. CASE k # l
  <2>1. issuer'[k] = issuer[k] /\ issuer[k] \in Solver
    BY <1>3, <1>7 DEF TypeOK
  <2>2. k \in given[v] \/ Waits(k, v)
    BY <1>1, <2>1, SolverAssumption DEF Delivered
  <2> QED
    BY <1>2, <1>4, <2>1, <2>2 DEF Waits
<1> QED
  BY <1>6, <1>7

LEMMA DeliveredTake ==
    ASSUME TypeOK, OneFilled, Rounds, Joined, Late, Delivered, NEW s \in Sharer, Take(s)
    PROVE  Delivered'
<1> DEFINE p    == current[s]
           list == First(exported[p], counted[s])
<1>1. /\ UNCHANGED <<setup, phase, issuer, given, late>> /\ pc[s] = "dequeue"
      /\ exported' = [exported EXCEPT ![p] = Left(@, counted[s])]
      /\ to' = [to EXCEPT ![s] = members[<<s, "consumer">>]]
  BY DEF Take, Go, solvers
<1>2. s \in DOMAIN setup.strategy /\ p \in Solver
  BY SoleProducer
<1>3. /\ database[s] \cup list \subseteq tmp'[s] \cup database'[s] \cup refused'
      /\ refused \subseteq refused'
      /\ \A r \in Sharer \ {s} : tmp'[r] = tmp[r] /\ database'[r] = database[r]
  BY TakenFrom
<1>4. /\ to[s] = {} /\ to'[s] = members[<<s, "consumer">>]
      /\ \A r \in Sharer \ {s} : to'[r] = to[r]
      /\ \A v \in Solver \ {p} : exported'[v] = exported[v]
  BY <1>1 DEF Rounds, TypeOK
<1>6. Elements(exported[p]) \subseteq list \cup Elements(exported'[p]) \cup late
  <2>1. exported[p] \in Seq(Clause) /\ counted[s] \in Int
    BY <1>2 DEF TypeOK
  <2>2. Beyond(exported[p], counted[s]) \subseteq late
    BY <1>1 DEF Late
  <2>3. exported'[p] = Left(exported[p], counted[s])
    BY <1>1, <1>2 DEF TypeOK
  <2> HIDE DEF p
  <2> QED
    BY <2>1, <2>2, <2>3, BufferFacts
<1> HIDE DEF p, list
<1>5. ASSUME NEW k \in Clause, NEW v \in setup.original \ {issuer[k]},
             phase[v] = "running", issuer[k] # None, k \notin late,
             k \in given[v] \/ Waits(k, v)
      PROVE  k \in given'[v] \/ Waits(k, v)'
  <2>1. v \in to'[s]
    BY <1>2, <1>4, <1>5 DEF Joined
  <2>2. ASSUME k \in database[s] \cup list PROVE Waits(k, v)'
    BY <1>3, <2>1, <2>2 DEF Waits
  <2>3. CASE k \in given[v] \/ k \in refused
    BY <1>1, <1>3, <2>3 DEF Waits
  <2>4. CASE k \in Elements(exported[issuer[k]])
    <3>1. issuer[k] \in Solver
      BY <1>5 DEF TypeOK
    <3>2. CASE issuer[k] = p
      <4>1. k \in list \/ k \in Elements(exported'[p])
        BY <1>5, <1>6, <2>4, <3>2
      <4>2. k \in Elements(exported'[p]) => Waits(k, v)'
        BY <1>1, <3>2 DEF Waits
      <4> QED
        BY <2>2, <4>1, <4>2
    <3>3. CASE issuer[k] # p
      BY <1>1, <1>4, <2>4, <3>1, <3>3 DEF Waits
    <3> QED
      BY <3>2, <3>3
  <2>5. CASE \E r \in Sharer : k \in database[r] \/ (k \in tmp[r] /\ v \in to[r])
    <3>1. PICK r \in Sharer : k \in database[r] \/ (k \in tmp[r] /\ v \in to[r])
      BY <2>5
    <3>2. CASE r = s
      BY <1>4, <2>2, <3>1, <3>2
    <3>3. CASE r # s
      BY <1>3, <1>4, <3>1, <3>3 DEF Waits
    <3> QED
      BY <3>2, <3>3
  <2> QED
    BY <1>5, <2>3, <2>4, <2>5 DEF Waits
<1> QED
  BY <1>1, <1>5, DeliveredIf

LEMMA LateStep ==
    ASSUME TypeOK, Rounds, Late, [Next]_vars
    PROVE  Late'
<1>1. ASSUME UNCHANGED <<exported, current, counted, late>>,
             \A s \in Sharer : pc'[s] = "dequeue" => pc[s] = "dequeue"
      PROVE  Late'
  BY <1>1 DEF Late
<1>2. CASE End \/ UNCHANGED vars
  BY <1>1, <1>2 DEF End, vars, round, clauses
<1>3. ASSUME NEW v \in Solver, Work(v), ~Learn(v) PROVE Late'
  BY <1>1, <1>3 DEF Work, Learned, Clone, Add, Added, GiveUp, Remove, CallDeleted, Removed,
     Destroy, Release, round, clauses
<1>4. ASSUME NEW v \in Solver, Learn(v) PROVE Late'
  <2>1. PICK l \in setup.clauses :
           /\ exported' = [exported EXCEPT ![v] = Append(@, l)]
           /\ late' = IF \E s \in Sharer : pc[s] = "dequeue" /\ current[s] = v
                      THEN late \cup {l} ELSE late
    BY <1>4 DEF Learn
  <2>2. UNCHANGED <<pc, current, counted>> /\ l \in Clause
    BY <1>4, SetupFacts DEF Learn, round, TypeOK
  <2> SUFFICES ASSUME NEW s \in Sharer, pc[s] = "dequeue"
               PROVE  Beyond(exported'[current[s]], counted[s]) \subseteq late'
    BY <2>2 DEF Late
  <2>3. Beyond(exported[current[s]], counted[s]) \subseteq late /\ late \subseteq late'
    BY <2>1 DEF Late
  <2>4. current[s] \in Solver /\ counted[s] \in Int
    BY ListFacts DEF Rounds, TypeOK
  <2>5. CASE current[s] = v
    <3>1. exported'[v] = Append(exported[v], l) /\ exported[v] \in Seq(Clause)
      BY <2>1 DEF TypeOK
    <3>2. late' = late \cup {l}
      BY <2>1, <2>5
    <3> QED BY <2>2, <2>3, <2>4, <2>5, <3>1, <3>2, AppendFacts
  <2>6. CASE current[s] # v
    <3>1. exported'[current[s]] = exported[current[s]]
      BY <2>1, <2>4, <2>6 DEF TypeOK
    <3> QED BY <2>3, <3>1
  <2> QED BY <2>5, <2>6
<1>5. ASSUME NEW s \in Sharer, NEW p \in Solver, Count(s, p) PROVE Late'
  <2>1. PICK size \in Int : /\ counted' = [counted EXCEPT ![s] = size]
                            /\ late' = late \cup Beyond(exported[p], size)
    <3>1. Len(exported[p]) - (IF p \in uncounted THEN 1 ELSE 0) \in Int
      BY DEF TypeOK
    <3> QED BY <1>5, <3>1 DEF Count
  <2>2. /\ exported' = exported /\ current' = [current EXCEPT ![s] = p]
        /\ pc' = [pc EXCEPT ![s] = "dequeue"]
    BY <1>5 DEF Count, Go
  <2> SUFFICES ASSUME NEW r \in Sharer, pc'[r] = "dequeue"
               PROVE  Beyond(exported[current'[r]], counted'[r]) \subseteq late'
    BY <2>2 DEF Late
  <2>3. CASE r = s
    <3>1. current'[r] = p /\ counted'[r] = size
      BY <2>1, <2>2, <2>3 DEF TypeOK
    <3> QED BY <2>1, <3>1
  <2>4. CASE r # s
    <3>1. current'[r] = current[r] /\ counted'[r] = counted[r] /\ pc[r] = "dequeue"
      BY <2>1, <2>2, <2>4 DEF TypeOK
    <3> QED BY <2>1, <3>1 DEF Late
  <2> QED BY <2>3, <2>4
<1>6. ASSUME NEW s \in Sharer, Take(s) PROVE Late'
  <2>1. /\ UNCHANGED <<current, late>> /\ pc' = [pc EXCEPT ![s] = "give"]
        /\ exported' = [exported EXCEPT ![current[s]] = Left(@, counted[s])]
        /\ counted' = [counted EXCEPT ![s] = 0]
    BY <1>6 DEF Take, Go
  <2> SUFFICES ASSUME NEW r \in Sharer, pc'[r] = "dequeue"
               PROVE  Beyond(exported'[current[r]], counted'[r]) \subseteq late
    BY <2>1 DEF Late
  <2>2. r # s /\ pc[r] = "dequeue" /\ counted'[r] = counted[r] /\ counted[r] \in Int
        /\ counted[s] \in Int
    BY <2>1 DEF TypeOK
  <2>3. current[r] \in Solver
    BY <2>2, ListFacts DEF Rounds, TypeOK
  <2>4. exported[current[r]] \in Seq(Clause)
    BY <2>3 DEF TypeOK
  <2>5. \/ exported'[current[r]] = exported[current[r]]
        \/ exported'[current[r]] = Left(exported[current[r]], counted[s])
    BY <2>1, <2>3 DEF TypeOK
  <2>6. Beyond(exported'[current[r]], counted[r]) \subseteq Beyond(exported[current[r]], counted[r])
    BY <2>2, <2>4, <2>5, BufferFacts
  <2> QED BY <2>2, <2>6 DEF Late
<1>7. ASSUME NEW s \in Sharer, NEW q \in Solver, Give(s, q) PROVE Late'
  BY <1>1, <1>7 DEF Give
<1>8. ASSUME NEW s \in Sharer, Given(s) PROVE Late'
  <2>1. UNCHANGED <<exported, counted, late>>
    BY <1>8 DEF Given, clauses
  <2>2. \A r \in Sharer : pc'[r] = "dequeue" => pc[r] = "dequeue" /\ current'[r] = current[r]
    BY <1>8 DEF Given, Go, TypeOK
  <2> QED BY <2>1, <2>2 DEF Late
<1>9. ASSUME NEW s \in Sharer, Wake(s) \/ Shared(s) \/ UseDeleted(s) PROVE Late'
  <2>1. UNCHANGED <<exported, current, counted, late>>
    BY <1>9 DEF Wake, Shared, UseDeleted, round, clauses
  <2>2. \A r \in Sharer : pc'[r] = "dequeue" => pc[r] = "dequeue"
    BY <1>9 DEF Wake, Shared, UseDeleted, Go, TypeOK
  <2> QED BY <1>1, <2>1, <2>2
<1>10. ASSUME NEW s \in Sharer,
              ForgetProducers(s) \/ ForgetConsumers(s) \/ DeleteProducers(s)
                  \/ DeleteConsumers(s)
       PROVE  Late'
  <2>1. UNCHANGED <<exported, current, counted, late>>
    BY <1>10 DEF ForgetProducers, ForgetConsumers, DeleteProducers, DeleteConsumers, round,
                 clauses
  <2>2. \A r \in Sharer : pc'[r] = "dequeue" => pc[r] = "dequeue"
    BY <1>10 DEF ForgetProducers, ForgetConsumers, DeleteProducers, DeleteConsumers, Go, TypeOK
  <2> QED BY <1>1, <2>1, <2>2
<1> QED
  BY <1>2, <1>3, <1>4, <1>5, <1>6, <1>7, <1>8, <1>9, <1>10 DEF Next, Round

LEMMA DeliveredGive ==
    ASSUME TypeOK, Owned, Delivered, NEW s \in Sharer, NEW q \in Solver, Give(s, q)
    PROVE  Delivered'
<1>1. /\ UNCHANGED <<setup, phase, exported, issuer, late, tmp, current, database, refused>>
      /\ pc[s] = "give" /\ to' = [to EXCEPT ![s] = @ \ {q}]
      /\ given' = IF q = current[s] THEN given ELSE [given EXCEPT ![q] = @ \cup tmp[s]]
  BY DEF Give, solvers
<1>2. /\ to'[s] = to[s] \ {q} /\ \A r \in Sharer \ {s} : to'[r] = to[r]
      /\ \A v \in Solver : given[v] \subseteq given'[v]
      /\ q # current[s] => tmp[s] \subseteq given'[q]
  BY <1>1 DEF TypeOK
<1>3. ASSUME NEW k \in Clause, NEW v \in setup.original \ {issuer[k]},
             k \in given[v] \/ Waits(k, v)
      PROVE  k \in given'[v] \/ Waits(k, v)'
  <2>1. v \in Solver
    BY SetupFacts DEF TypeOK
  <2>2. CASE k \in tmp[s] /\ v = q
    <3>1. issuer[k] = current[s]
      BY <1>1, <2>2 DEF Owned
    <3> QED
      BY <1>2, <2>2, <3>1
  <2>3. CASE ~(k \in tmp[s] /\ v = q)
    <3>1. \A r \in Sharer : k \in tmp[r] /\ v \in to[r] => v \in to'[r]
      BY <1>2, <2>3
    <3> QED
      BY <1>1, <1>2, <1>3, <2>1, <3>1 DEF Waits
  <2> QED
    BY <2>2, <2>3
<1> QED
  BY <1>1, <1>3, DeliveredIf

LEMMA DeliveredStep ==
    ASSUME TypeOK, OneFilled, Rounds, Joined, Owned, Late, Delivered, [Next]_vars
    PROVE  Delivered'
<1>1. \A v \in setup.original : phase'[v] = "running" => phase[v] = "running"
  BY OriginalsRun
<1>2. ASSUME UNCHANGED <<setup, exported, issuer, given, refused, database, tmp, to>>,
             late \subseteq late'
      PROVE  Delivered'
  <2>1. \A k, v : Waits(k, v)' <=> Waits(k, v)
    BY <1>2 DEF Waits
  <2> QED
    BY <1>1, <1>2, <2>1, DeliveredIf
<1>3. CASE End \/ UNCHANGED vars
  BY <1>2, <1>3 DEF End, vars, round, clauses
<1>4. ASSUME NEW v \in Solver, Work(v), ~Learn(v) PROVE Delivered'
  BY <1>2, <1>4 DEF Work, Learned, Clone, Add, Added, GiveUp, Remove, CallDeleted, Removed, Destroy,
     Release, round, clauses
<1>5. ASSUME NEW s \in Sharer, Given(s) PROVE Delivered'
  <2>1. /\ UNCHANGED <<setup, exported, issuer, late, given, refused, database, to>>
        /\ to[s] = {}
        /\ \A r \in Sharer \ {s} : tmp'[r] = tmp[r]
    BY <1>5 DEF Given, clauses, TypeOK
  <2>2. \A k \in Clause : \A v \in setup.original : Waits(k, v) => Waits(k, v)'
    BY <2>1 DEF Waits
  <2> QED
    BY <1>1, <2>1, <2>2, DeliveredIf
<1>6. ASSUME NEW s \in Sharer, Wake(s) \/ Shared(s) \/ UseDeleted(s) PROVE Delivered'
  BY <1>2, <1>6 DEF Wake, Shared, UseDeleted, round, clauses
<1>7. ASSUME NEW s \in Sharer,
             ForgetProducers(s) \/ ForgetConsumers(s) \/ DeleteProducers(s) \/ DeleteConsumers(s)
      PROVE  Delivered'
  BY <1>2, <1>7 DEF ForgetProducers, ForgetConsumers, DeleteProducers, DeleteConsumers, round,
                    clauses
<1>8. ASSUME NEW s \in Sharer, NEW v \in Solver, Count(s, v) PROVE Delivered'
  BY <1>2, <1>8 DEF Count
<1> QED
  BY <1>3, <1>4, <1>5, <1>6, <1>7, <1>8, DeliveredLearn, DeliveredTake, DeliveredGive DEF Next, Round

LEMMA SetupStays ==
    ASSUME [Next]_vars
    PROVE  setup' = setup
<1>1. ASSUME NEW v \in Solver, Work(v) PROVE setup' = setup
  BY <1>1 DEF Work, Learn, Learned, Clone, Add, Added, GiveUp, Remove, CallDeleted, Removed, Destroy,
     Release
<1>2. ASSUME NEW s \in Sharer, Round(s) PROVE setup' = setup
  BY <1>2 DEF Round, Wake, Count, Take, Give, Given, Shared, UseDeleted, ForgetProducers,
     ForgetConsumers
<1>3. ASSUME NEW s \in Sharer, DeleteProducers(s) \/ DeleteConsumers(s) PROVE setup' = setup
  BY <1>3 DEF DeleteProducers, DeleteConsumers
<1>4. CASE End \/ UNCHANGED vars
  BY <1>4 DEF End, vars
<1> QED
  BY <1>1, <1>2, <1>3, <1>4 DEF Next

\* Whatever the sharers and solvers, a clause that was counted by the first sharer that
\* found it in its buffer reaches every original solver that runs but the one that learned
\* it, once no sharer has it any more and no bucket refused it, and no solver is given its
\* own, if no database is filled by several producers: the loop of getClauses can lose
\* only what it has not counted.  (doSharing of SimpleSharing and HordeSatSharing, against
\* the lists of Sharer and ClauseBuffer::getClauses)
THEOREM ClausesReach == Spec => []ReachesTheOthers
<1>1. Init => IInv /\ Reach
  BY InitIInv, ReachInit DEF Reach
<1>2. IInv /\ Reach /\ [Next]_vars => IInv' /\ Reach'
  <2> SUFFICES ASSUME IInv, Reach, [Next]_vars, OneFilled'
               PROVE  (Owned /\ Joined /\ Late /\ Delivered)'
    BY StepIInv DEF Reach
  <2>1. setup' = setup
    BY SetupStays
  <2>2. OneFilled
    BY <2>1 DEF OneFilled
  <2> QED
    BY <2>2, StepIInv, JoinedStep, OwnedStep, LateStep, DeliveredStep DEF Reach, IInv
<1>3. IInv /\ Reach => ReachesTheOthers
  <2> SUFFICES ASSUME IInv, Owned, Delivered, NEW v \in Solver
               PROVE  /\ \A k \in given[v] : issuer[k] # v
                      /\ v \in setup.original /\ phase[v] = "running" =>
                            \A k \in Done : issuer[k] # v => k \in given[v]
    BY DEF ReachesTheOthers, Reach, OneFilled
  <2>1. \A k \in given[v] : issuer[k] # v
    BY DEF Owned
  <2>2. ASSUME v \in setup.original, phase[v] = "running", NEW k \in Done, issuer[k] # v
        PROVE  k \in given[v]
    <3>1. /\ k \in Clause /\ issuer[k] # None /\ k \notin Elements(exported[issuer[k]])
          /\ k \notin late /\ k \notin refused
          /\ \A s \in Sharer : k \notin tmp[s] \cup database[s]
      BY <2>2 DEF Done
    <3>2. ~Waits(k, v)
      BY <3>1 DEF Waits
    <3> QED
      BY <2>2, <3>1, <3>2 DEF Delivered
  <2> QED
    BY <2>1, <2>2
<1> QED
  BY <1>1, <1>2, <1>3, PTL DEF Spec
-----------------------------------------------------------------------------
\* What a round selects

\* A set of numbers that is not empty has a smallest one.
LEMMA Smallest ==
    ASSUME NEW B \in SUBSET Nat, B # {}
    PROVE  \E m \in B : \A n \in B : ~(n < m)
<1>1. PICK m \in B : \A n \in B : <<n, m>> \notin OpToRel(<, Nat)
  BY NatLessThanWellFounded, WFMin
<1>2. \A n \in B : ~(n < m)
  BY <1>1 DEF OpToRel
<1> QED
  BY <1>2

LEMMA UpToN ==
    ASSUME NEW n \in Nat
    PROVE  IsFiniteSet(1 .. n) /\ Cardinality(1 .. n) = n
BY FS_Interval

\* The literals of a set of clauses, each with its place in its clause.
Places(set) == UNION {{k} \X (1 .. Size[k]) : k \in set}

LEMMA PlacesIs ==
    ASSUME NEW set, NEW p
    PROVE  p \in Places(set) <=> \E k \in set : p \in {k} \X (1 .. Size[k])
BY DEF Places

LEMMA PlacesFinite ==
    ASSUME NEW set \in SUBSET Clause
    PROVE  /\ IsFiniteSet(set) /\ Cardinality(set) \in Nat
           /\ IsFiniteSet(Places(set))
           /\ Literals(set) = Cardinality(Places(set)) /\ Literals(set) \in Nat
<1>1. IsFiniteSet(set) /\ Cardinality(set) \in Nat
  BY ClauseAssumption, FS_Subset, FS_CardinalityType
<1>2. IsFiniteSet(Places(set))
  <2> DEFINE F == [k \in set |-> {k} \X (1 .. Size[k])]
             I == {{k} \X (1 .. Size[k]) : k \in set}
  <2>1. F \in Surjection(set, I)
    BY DEF Surjection
  <2>2. IsFiniteSet(I)
    <3> HIDE DEF F, I
    <3> QED
      BY <1>1, <2>1, FS_Surjection
  <2>3. ASSUME NEW X \in I PROVE IsFiniteSet(X)
    <3>1. PICK k \in set : X = {k} \X (1 .. Size[k])
      OBVIOUS
    <3>2. IsFiniteSet({k}) /\ Size[k] \in Nat
      BY ClauseAssumption, FS_Singleton
    <3>3. IsFiniteSet(1 .. Size[k])
      BY <3>2, UpToN
    <3> QED
      BY <3>1, <3>2, <3>3, FS_Product
  <2>4. IsFiniteSet(UNION I)
    <3> HIDE DEF I
    <3> QED
      BY <2>2, <2>3, FS_UNION
  <2> QED
    BY <2>4 DEF Places
<1>3. Literals(set) = Cardinality(Places(set))
  BY DEF Literals, Places
<1> QED
  BY <1>1, <1>2, <1>3, FS_CardinalityType

LEMMA LiteralsUnion ==
    ASSUME NEW A \in SUBSET Clause, NEW B \in SUBSET Clause, A \cap B = {}
    PROVE  /\ Literals(A \cup B) = Literals(A) + Literals(B)
           /\ Cardinality(A \cup B) = Cardinality(A) + Cardinality(B)
<1>1. A \cup B \in SUBSET Clause
  OBVIOUS
<1>2. Places(A \cup B) = Places(A) \cup Places(B)
  BY DEF Places
<1>3. Places(A) \cap Places(B) = {}
  BY DEF Places
<1>4. /\ IsFiniteSet(Places(A)) /\ IsFiniteSet(Places(B)) /\ IsFiniteSet(A) /\ IsFiniteSet(B)
      /\ Literals(A) = Cardinality(Places(A)) /\ Literals(A) \in Nat
      /\ Literals(B) = Cardinality(Places(B)) /\ Literals(B) \in Nat
      /\ Literals(A \cup B) = Cardinality(Places(A \cup B))
      /\ Cardinality(A) \in Nat /\ Cardinality(B) \in Nat
  BY <1>1, PlacesFinite
<1>5. /\ Cardinality(Places(A) \cup Places(B))
             = Cardinality(Places(A)) + Cardinality(Places(B)) - 0
      /\ Cardinality(A \cup B) = Cardinality(A) + Cardinality(B) - 0
  <2>1. Cardinality(Places(A) \cup Places(B)) = Cardinality(Places(A))
           + Cardinality(Places(B)) - Cardinality(Places(A) \cap Places(B))
    BY <1>4, FS_Union
  <2>2. Cardinality(A \cup B) = Cardinality(A) + Cardinality(B) - Cardinality(A \cap B)
    BY <1>4, FS_Union
  <2> QED
    BY <1>3, <2>1, <2>2, FS_EmptySet
<1>6. /\ Literals(A \cup B) = Literals(A) + Literals(B) - 0
      /\ Literals(A) \in Nat /\ Literals(B) \in Nat
      /\ Cardinality(A) \in Nat /\ Cardinality(B) \in Nat
  BY <1>2, <1>4, <1>5
<1> HIDE DEF Literals
<1> QED
  BY <1>5, <1>6

\* Clauses of at most, or at least, n literals.
LEMMA LiteralsBounds ==
    ASSUME NEW set \in SUBSET Clause, NEW n \in Nat
    PROVE  /\ (\A k \in set : Size[k] <= n) => Literals(set) <= n * Cardinality(set)
           /\ (\A k \in set : Size[k] >= n) => Literals(set) >= n * Cardinality(set)
<1>1. IsFiniteSet(1 .. n) /\ Cardinality(1 .. n) = n
  BY UpToN
<1>2. /\ IsFiniteSet(set) /\ IsFiniteSet(Places(set)) /\ Cardinality(set) \in Nat
      /\ Literals(set) = Cardinality(Places(set)) /\ Literals(set) \in Nat
  BY PlacesFinite
<1>3. /\ IsFiniteSet(set \X (1 .. n))
      /\ Cardinality(set \X (1 .. n)) = n * Cardinality(set)
  <2>1. /\ IsFiniteSet(set \X (1 .. n))
        /\ Cardinality(set \X (1 .. n)) = Cardinality(set) * Cardinality(1 .. n)
    BY <1>1, <1>2, FS_Product
  <2>2. Cardinality(set) * n = n * Cardinality(set)
    BY <1>2
  <2> QED
    BY <1>1, <2>1, <2>2
<1>4. ASSUME \A k \in set : Size[k] <= n PROVE Literals(set) <= n * Cardinality(set)
  <2>1. Places(set) \subseteq set \X (1 .. n)
    <3> SUFFICES ASSUME NEW p \in Places(set) PROVE p \in set \X (1 .. n)
      OBVIOUS
    <3>1. PICK k \in set : p \in {k} \X (1 .. Size[k])
      BY PlacesIs
    <3>2. Size[k] \in Nat /\ Size[k] <= n
      BY <1>4, ClauseAssumption
    <3> QED
      BY <3>1, <3>2
  <2> QED
    BY <1>2, <1>3, <2>1, FS_Subset
<1>5. ASSUME \A k \in set : Size[k] >= n PROVE Literals(set) >= n * Cardinality(set)
  <2>1. set \X (1 .. n) \subseteq Places(set)
    <3> SUFFICES ASSUME NEW k \in set, NEW i \in 1 .. n PROVE <<k, i>> \in Places(set)
      OBVIOUS
    <3>1. Size[k] \in Nat /\ Size[k] >= n
      BY <1>5, ClauseAssumption
    <3> QED
      BY <3>1, PlacesIs
  <2>2. Cardinality(set \X (1 .. n)) <= Cardinality(Places(set))
    BY <1>2, <2>1, FS_Subset
  <2>3. n * Cardinality(set) \in Nat
    BY <1>2
  <2> QED
    BY <1>2, <1>3, <2>2, <2>3
<1> QED
  BY <1>4, <1>5

LEMMA Division ==
    ASSUME NEW i \in Nat, NEW n \in Nat \ {0}
    PROVE  i \div n \in Nat /\ n * (i \div n) <= i /\ i < n * (i \div n) + n
OBVIOUS

\* There is a longest clause: all the places there are, are finitely many.
LEMMA MaxSizeIs ==
    ASSUME Clause # {}
    PROVE  /\ MaxSize \in Nat \ {0} /\ MaxSize \in Sizes
           /\ \A k \in Clause : Size[k] \in 1 .. MaxSize
<1> DEFINE B == {n \in Nat : \A k \in Clause : Size[k] <= n}
<1>1. \A k \in Clause : Size[k] \in Nat \ {0} /\ Size[k] \in Sizes
  BY ClauseAssumption DEF Sizes
<1>2. \A n \in Sizes : n \in Nat \ {0} /\ \E k \in Clause : n = Size[k]
  BY <1>1 DEF Sizes
<1>3. B # {}
  <2> DEFINE Whole == Places(Clause)
  <2>1. IsFiniteSet(Whole) /\ Cardinality(Whole) \in Nat
    BY PlacesFinite, FS_CardinalityType
  <2>2. ASSUME NEW k \in Clause PROVE Size[k] <= Cardinality(Whole)
    <3>1. Size[k] \in Nat
      BY <1>1
    <3>2. {k} \X (1 .. Size[k]) \subseteq Whole
      <4>1. ASSUME NEW p \in {k} \X (1 .. Size[k]) PROVE p \in Places(Clause)
        BY PlacesIs
      <4> QED
        BY <4>1
    <3>3. /\ IsFiniteSet({k}) /\ Cardinality({k}) = 1
          /\ IsFiniteSet(1 .. Size[k]) /\ Cardinality(1 .. Size[k]) = Size[k]
      <4>1. IsFiniteSet(1 .. Size[k]) /\ Cardinality(1 .. Size[k]) = Size[k]
        BY <3>1, UpToN
      <4> QED
        BY <4>1, FS_Singleton
    <3>4. /\ IsFiniteSet({k} \X (1 .. Size[k]))
          /\ Cardinality({k} \X (1 .. Size[k])) = 1 * Size[k]
      <4>1. /\ IsFiniteSet({k} \X (1 .. Size[k]))
            /\ Cardinality({k} \X (1 .. Size[k]))
                   = Cardinality({k}) * Cardinality(1 .. Size[k])
        BY <3>3, FS_Product
      <4> QED
        BY <3>3, <4>1
    <3> HIDE DEF Whole
    <3>5. Cardinality({k} \X (1 .. Size[k])) <= Cardinality(Whole)
      BY <2>1, <3>2, FS_Subset
    <3> QED
      BY <3>1, <3>4, <3>5
  <2> HIDE DEF Whole
  <2> QED
    BY <2>1, <2>2
<1>4. PICK m \in B : \A n \in B : ~(n < m)
  <2>1. B \in SUBSET Nat
    OBVIOUS
  <2> HIDE DEF B
  <2> QED
    BY <1>3, <2>1, Smallest
<1>5. \A k \in Clause : Size[k] <= m
  BY <1>4
<1>6. \E k \in Clause : Size[k] = m
  <2> SUFFICES ASSUME \A k \in Clause : Size[k] # m PROVE FALSE
    OBVIOUS
  <2>1. \A k \in Clause : Size[k] <= m - 1
    BY <1>1, <1>4, <1>5
  <2>2. m - 1 \in B
    <3>1. PICK k \in Clause : TRUE
      OBVIOUS
    <3>2. m - 1 \in Nat
      BY <1>1, <1>4, <2>1, <3>1
    <3> QED
      BY <2>1, <3>2
  <2> QED
    BY <1>4, <2>2
<1>7. m \in Sizes /\ \A n \in Sizes : n <= m
  BY <1>1, <1>2, <1>5, <1>6
<1>8. MaxSize \in Sizes /\ \A n \in Sizes : n <= MaxSize
  BY <1>7 DEF MaxSize
<1> QED
  BY <1>1, <1>2, <1>8

-----------------------------------------------------------------------------
\* What giveSelection has used after the bucket of size n, if it had used u before.
Uses(db, n, u) == u + n * Least(Cardinality(Bucket(db, n)), (LiteralPerRound - u) \div n)

\* The recursion of Used defines a function on 0 .. m, for every m.
LEMMA UsedUpTo ==
    ASSUME NEW db, NEW m \in Nat
    PROVE  \E f : f = [n \in 0 .. m |-> IF n = 0 THEN 0 ELSE Uses(db, n, f[n - 1])]
<1> DEFINE G(f, k) == [n \in 0 .. k |-> IF n = 0 THEN 0 ELSE Uses(db, n, f[n - 1])]
           B == {k \in Nat : ~ \E f : f = G(f, k)}
<1>1. ASSUME B # {} PROVE FALSE
  <2>1. PICK k \in B : \A n \in B : ~(n < k)
    <3>1. B \in SUBSET Nat
      OBVIOUS
    <3> HIDE DEF B
    <3> QED
      BY <1>1, <3>1, Smallest
  <2>2. k \in Nat /\ ~ \E f : f = G(f, k)
    BY <2>1
  <2>3. CASE k = 0
    <3> DEFINE z == [n \in 0 .. 0 |-> 0]
    <3>1. z = G(z, 0)
      OBVIOUS
    <3> QED
      BY <2>2, <2>3, <3>1
  <2>4. CASE k # 0
    <3>1. k - 1 \in Nat /\ k - 1 < k
      BY <2>2, <2>4
    <3>2. PICK f : f = G(f, k - 1)
      BY <2>1, <3>1
    <3> DEFINE g == [n \in 0 .. k |-> IF n = k THEN Uses(db, k, f[k - 1]) ELSE f[n]]
    <3>3. ASSUME NEW n \in 0 .. k
          PROVE  g[n] = IF n = 0 THEN 0 ELSE Uses(db, n, g[n - 1])
      <4>1. CASE n = 0
        <5>1. g[n] = f[0] /\ 0 \in 0 .. k - 1
          BY <2>2, <2>4, <4>1
        <5>2. f[0] = 0
          BY <3>2, <5>1
        <5> QED
          BY <4>1, <5>1, <5>2
      <4>2. CASE n # 0 /\ n = k
        <5>1. g[n] = Uses(db, k, f[k - 1])
          BY <4>2
        <5>2. k - 1 \in 0 .. k /\ k - 1 # k
          BY <3>1, <2>2
        <5>3. g[k - 1] = f[k - 1]
          BY <5>2
        <5> HIDE DEF g
        <5> QED
          BY <4>2, <5>1, <5>3
      <4>3. CASE n # 0 /\ n # k
        <5>1. n \in 0 .. k - 1 /\ n - 1 \in 0 .. k /\ n - 1 # k /\ n - 1 \in 0 .. k - 1
          BY <2>2, <4>3
        <5>2. g[n] = f[n] /\ g[n - 1] = f[n - 1]
          BY <4>3, <5>1
        <5>3. f[n] = Uses(db, n, f[n - 1])
          BY <3>2, <4>3, <5>1
        <5> HIDE DEF g
        <5> QED
          BY <4>3, <5>2, <5>3
      <4> QED
        BY <4>1, <4>2, <4>3
    <3>4. g = G(g, k)
      <4>1. DOMAIN g = 0 .. k /\ g = [n \in 0 .. k |-> g[n]]
        OBVIOUS
      <4> HIDE DEF g
      <4> QED
        BY <3>3, <4>1
    <3> HIDE DEF G, g
    <3> QED
      BY <2>2, <3>4
  <2> QED
    BY <2>3, <2>4
<1> QED
  BY <1>1

LEMMA UsedIs ==
    ASSUME NEW db, MaxSize \in Nat
    PROVE  /\ Used(db)[0] = 0
           /\ \A n \in 1 .. MaxSize : Used(db)[n] = Uses(db, n, Used(db)[n - 1])
<1> DEFINE G(f) == [n \in 0 .. MaxSize |->
                       IF n = 0 THEN 0
                       ELSE f[n - 1] + n * Least(Cardinality(Bucket(db, n)),
                                                 (LiteralPerRound - f[n - 1]) \div n)]
<1>1. \E f : f = G(f)
  BY UsedUpTo DEF Uses
<1>2. Used(db) = CHOOSE f : f = G(f)
  BY DEF Used
<1>3. Used(db) = G(Used(db))
  <2> HIDE DEF G
  <2> QED
    BY <1>1, <1>2
<1> DEFINE u == Used(db)
<1>4. u = G(u)
  BY <1>3
<1> HIDE DEF u
<1>5. u[0] = 0 /\ \A n \in 1 .. MaxSize : u[n] = Uses(db, n, u[n - 1])
  BY <1>4 DEF Uses
<1> QED
  BY <1>5 DEF u

-----------------------------------------------------------------------------
\* A selection is best.

\* The literals of the clauses of set of at most n literals.
UpTo(set, n) == {k \in set : Size[k] <= n}

LEMMA LeastIs ==
    ASSUME NEW i \in Nat, NEW j \in Nat
    PROVE  /\ Least(i, j) \in Nat /\ Least(i, j) <= i /\ Least(i, j) <= j
           /\ Least(i, j) \in {i, j}
BY DEF Least

\* What the bucket of size n adds.
LEMMA UsesIs ==
    ASSUME NEW db \in SUBSET Clause, NEW n \in Nat \ {0}, NEW u \in Nat,
           u <= LiteralPerRound
    PROVE  /\ Uses(db, n, u) \in Nat /\ u <= Uses(db, n, u)
           /\ Uses(db, n, u) <= LiteralPerRound
           /\ Bucket(db, n) = {} => Uses(db, n, u) = u
           /\ \/ Uses(db, n, u) = u + n * Cardinality(Bucket(db, n))
              \/ LiteralPerRound - Uses(db, n, u) < n
<1> DEFINE b == Cardinality(Bucket(db, n))
           q == (LiteralPerRound - u) \div n
           k == Least(b, q)
<1>1. b \in Nat
  <2>1. Bucket(db, n) \in SUBSET Clause
    BY DEF Bucket
  <2> QED
    BY <2>1, PlacesFinite
<1>2. LiteralPerRound \in Nat /\ LiteralPerRound - u \in Nat
  BY LimitAssumption
<1>3. /\ q \in Nat /\ n * q <= LiteralPerRound - u
      /\ LiteralPerRound - u < n * q + n
  BY <1>2, Division
<1>4. k \in Nat /\ k <= q /\ k <= b /\ k \in {b, q}
  <2> HIDE DEF b, q
  <2> QED
    BY <1>1, <1>3, LeastIs
<1>5. Uses(db, n, u) = u + n * k
  BY DEF Uses
<1>6. Bucket(db, n) = {} => b = 0
  BY FS_EmptySet
<1> HIDE DEF b, q, k
<1>7. n * k \in Nat /\ n * k <= n * q
  BY <1>3, <1>4
<1>8. k = 0 => n * k = 0
  OBVIOUS
<1>9. k = b => Uses(db, n, u) = u + n * b
  BY <1>5
<1>10. k = q => LiteralPerRound - Uses(db, n, u) < n
  <2>1. n * q \in Nat
    BY <1>3
  <2> QED
    BY <1>2, <1>3, <1>5, <2>1
<1>11. Bucket(db, n) = {} => k = 0
  BY <1>1, <1>4, <1>6
<1>12. /\ Uses(db, n, u) \in Nat /\ u <= Uses(db, n, u)
       /\ Uses(db, n, u) <= LiteralPerRound
       /\ Bucket(db, n) = {} => Uses(db, n, u) = u
  BY <1>2, <1>3, <1>5, <1>7, <1>8, <1>11
<1> QED
  BY <1>4, <1>9, <1>10, <1>12 DEF b

\* What giveSelection has used never exceeds what a round may have.
LEMMA UsedBounded ==
    ASSUME MaxSize \in Nat, NEW db \in SUBSET Clause, NEW n \in 0 .. MaxSize
    PROVE  Used(db)[n] \in Nat /\ Used(db)[n] <= LiteralPerRound
<1> DEFINE u == Used(db)
           B == {k \in 0 .. MaxSize : ~(u[k] \in Nat /\ u[k] <= LiteralPerRound)}
<1>1. u[0] = 0 /\ \A k \in 1 .. MaxSize : u[k] = Uses(db, k, u[k - 1])
  BY UsedIs
<1> HIDE DEF u
<1>2. ASSUME B # {} PROVE FALSE
  <2>1. PICK k \in B : \A i \in B : ~(i < k)
    <3>1. B \in SUBSET Nat
      OBVIOUS
    <3> HIDE DEF B
    <3> QED
      BY <1>2, <3>1, Smallest
  <2>2. k # 0
    BY <1>1, <2>1, LimitAssumption
  <2>3. k \in 1 .. MaxSize /\ k \in Nat \ {0} /\ k - 1 \in 0 .. MaxSize /\ k - 1 < k
    BY <2>1, <2>2
  <2>4. u[k - 1] \in Nat /\ u[k - 1] <= LiteralPerRound
    BY <2>1, <2>3
  <2>5. u[k] \in Nat /\ u[k] <= LiteralPerRound
    BY <1>1, <2>3, <2>4, UsesIs
  <2> QED
    BY <2>1, <2>5
<1> QED
  BY <1>2 DEF u

\* used[n] counts the literals of the selected clauses of sizes 1 to n.
LEMMA UsedIsLiterals ==
    ASSUME Clause # {}, NEW db \in SUBSET Clause, NEW set \in Selections(db),
           NEW n \in 0 .. MaxSize
    PROVE  Used(db)[n] = Literals(UpTo(set, n))
<1> DEFINE u == Used(db)
           Good(k) == u[k] = Literals(UpTo(set, k))
           B == {k \in 0 .. MaxSize : ~Good(k)}
<1>1. /\ MaxSize \in Nat \ {0} /\ \A k \in Clause : Size[k] \in 1 .. MaxSize
      /\ u[0] = 0 /\ \A k \in 1 .. MaxSize : u[k] = Uses(db, k, u[k - 1])
  BY MaxSizeIs, UsedIs
<1>2. /\ set \in SUBSET Clause /\ set \subseteq db
      /\ \A k \in Sizes : k * Cardinality(Bucket(set, k)) = u[k] - u[k - 1]
      /\ \A k \in 0 .. MaxSize : u[k] \in Nat /\ u[k] <= LiteralPerRound
  BY <1>1, UsedBounded DEF Selections
<1> HIDE DEF u
<1>3. ASSUME NEW k \in 0 .. MaxSize
      PROVE  /\ UpTo(set, k) \in SUBSET Clause /\ Bucket(set, k) \in SUBSET Clause
             /\ Bucket(db, k) \in SUBSET Clause
  BY <1>2 DEF UpTo, Bucket
<1>4. Good(0)
  <2>1. UpTo(set, 0) = {}
    BY <1>1, <1>2 DEF UpTo
  <2>2. Literals({}) = 0
    <3>1. Places({}) = {}
      BY DEF Places
    <3> QED
      BY <3>1, PlacesFinite, FS_EmptySet
  <2> QED
    BY <1>1, <2>1, <2>2
<1>5. ASSUME NEW k \in 1 .. MaxSize, Good(k - 1) PROVE Good(k)
  <2>1. k \in Nat \ {0} /\ k - 1 \in 0 .. MaxSize /\ k \in 0 .. MaxSize
    BY <1>1
  <2>2. /\ u[k - 1] = Literals(UpTo(set, k - 1)) /\ u[k - 1] \in Nat
        /\ u[k - 1] <= LiteralPerRound
    BY <1>2, <1>5, <2>1
  <2>3. u[k] = Uses(db, k, u[k - 1])
    BY <1>1
  <2>4. u[k] \in Nat /\ (Bucket(db, k) = {} => u[k] = u[k - 1])
    BY <2>1, <2>2, <2>3, UsesIs
  <2>5. /\ UpTo(set, k) = UpTo(set, k - 1) \cup Bucket(set, k)
        /\ UpTo(set, k - 1) \cap Bucket(set, k) = {}
    <3>1. \A x \in set : Size[x] \in Nat
      BY <1>2, ClauseAssumption
    <3> QED
      BY <2>1, <3>1 DEF UpTo, Bucket
  <2>6. Literals(UpTo(set, k)) = Literals(UpTo(set, k - 1)) + Literals(Bucket(set, k))
    BY <1>3, <2>1, <2>5, LiteralsUnion
  <2>7. Literals(Bucket(set, k)) = k * Cardinality(Bucket(set, k))
    <3>1. \A x \in Bucket(set, k) : Size[x] <= k /\ Size[x] >= k
      BY <2>1 DEF Bucket
    <3>2. /\ Literals(Bucket(set, k)) \in Nat /\ Cardinality(Bucket(set, k)) \in Nat
      BY <1>3, <2>1, PlacesFinite
    <3>3. k * Cardinality(Bucket(set, k)) \in Nat
      BY <2>1, <3>2
    <3>4. /\ Literals(Bucket(set, k)) <= k * Cardinality(Bucket(set, k))
          /\ Literals(Bucket(set, k)) >= k * Cardinality(Bucket(set, k))
      BY <1>3, <2>1, <3>1, LiteralsBounds
    <3> QED
      BY <3>2, <3>3, <3>4
  <2>8. k * Cardinality(Bucket(set, k)) = u[k] - u[k - 1]
    <3>1. CASE k \in Sizes
      BY <1>2, <3>1
    <3>2. CASE k \notin Sizes
      <4>1. Bucket(set, k) = {} /\ Bucket(db, k) = {}
        BY <1>2, <3>2 DEF Bucket, Sizes
      <4>2. Cardinality(Bucket(set, k)) = 0
        BY <4>1, FS_EmptySet
      <4> QED
        BY <2>1, <2>2, <2>4, <4>1, <4>2
    <3> QED
      BY <3>1, <3>2
  <2> QED
    BY <2>2, <2>4, <2>6, <2>7, <2>8
<1> HIDE DEF Good
<1>6. ASSUME B # {} PROVE FALSE
  <2>1. PICK k \in B : \A i \in B : ~(i < k)
    <3>1. B \in SUBSET Nat
      OBVIOUS
    <3> HIDE DEF B
    <3> QED
      BY <1>6, <3>1, Smallest
  <2>2. k \in 1 .. MaxSize
    BY <1>1, <1>4, <2>1
  <2>3. k - 1 \in 0 .. MaxSize /\ k - 1 < k
    BY <1>1, <2>2
  <2> QED
    BY <1>5, <2>1, <2>2, <2>3
<1> QED
  BY <1>6 DEF Good, u

LEMMA Times ==
    ASSUME NEW n \in Nat \ {0}, NEW i \in Nat, NEW j \in Nat
    PROVE  /\ n * i < n * j + n => i <= j
           /\ n * i = n * j => i = j
           /\ n * i \in Nat
OBVIOUS

\* The shortest clause that is left over has not the place: what is free after its bucket is
\* less than its length.
LEMMA LeftOver ==
    ASSUME Clause # {}, NEW db \in SUBSET Clause, NEW set \in Selections(db),
           NEW k \in db \ set
    PROVE  LiteralPerRound - Literals(UpTo(set, Size[k])) < Size[k]
<1> DEFINE m == Size[k]
           u == Used(db)
<1>1. /\ MaxSize \in Nat \ {0} /\ m \in 1 .. MaxSize /\ m \in Sizes
      /\ u[m] = Uses(db, m, u[m - 1])
      /\ set \subseteq db /\ m * Cardinality(Bucket(set, m)) = u[m] - u[m - 1]
  BY MaxSizeIs, UsedIs DEF Selections, Sizes
<1>2. /\ u[m] = Literals(UpTo(set, m)) /\ u[m] \in Nat
      /\ u[m - 1] \in Nat /\ u[m - 1] <= LiteralPerRound
  <2>1. m \in 0 .. MaxSize /\ m - 1 \in 0 .. MaxSize
    BY <1>1
  <2> QED
    BY <1>1, <2>1, UsedBounded, UsedIsLiterals
<1> HIDE DEF u
<1>3. m \in Nat \ {0}
  BY <1>1
<1>4. /\ Bucket(set, m) \subseteq Bucket(db, m) /\ Bucket(set, m) # Bucket(db, m)
      /\ Bucket(db, m) \in SUBSET Clause /\ Bucket(set, m) \in SUBSET Clause
  BY <1>1 DEF Bucket
<1> HIDE DEF m
<1>5. /\ IsFiniteSet(Bucket(db, m))
      /\ Cardinality(Bucket(db, m)) \in Nat /\ Cardinality(Bucket(set, m)) \in Nat
  BY <1>4, PlacesFinite
<1>6. Cardinality(Bucket(set, m)) # Cardinality(Bucket(db, m))
  BY <1>4, <1>5, FS_Subset
<1>7. m * Cardinality(Bucket(set, m)) # m * Cardinality(Bucket(db, m))
  BY <1>3, <1>5, <1>6, Times
<1>8. u[m] # u[m - 1] + m * Cardinality(Bucket(db, m))
  <2>1. m * Cardinality(Bucket(db, m)) \in Nat
    BY <1>3, <1>5, Times
  <2> QED
    BY <1>1, <1>2, <1>7, <2>1
<1>9. LiteralPerRound - u[m] < m
  BY <1>1, <1>2, <1>3, <1>8, UsesIs
<1> QED
  BY <1>2, <1>9 DEF m

\* To take another set of clauses of db instead is to take longer clauses for shorter ones.
LEMMA SelectionIsBest ==
    ASSUME NEW db \in SUBSET Clause, NEW set \in Selections(db)
    PROVE  /\ Literals(set) <= LiteralPerRound
           /\ \A other \in SUBSET db :
                 Literals(other) <= LiteralPerRound => Cardinality(other) <= Cardinality(set)
<1>1. set \subseteq db /\ set \in SUBSET Clause
  BY DEF Selections
<1>2. CASE Clause = {}
  <2>1. /\ set = {} /\ \A other \in SUBSET db : other = set
    BY <1>1, <1>2
  <2>2. Places({}) = {}
    BY DEF Places
  <2>3. Literals(set) = 0
    BY <1>1, <2>1, <2>2, PlacesFinite, FS_EmptySet
  <2>4. Cardinality(set) \in Nat
    BY <1>1, PlacesFinite
  <2> QED
    BY <2>1, <2>3, <2>4, LimitAssumption
<1>3. CASE Clause # {}
  <2>1. MaxSize \in Nat \ {0} /\ \A k \in Clause : Size[k] \in 1 .. MaxSize
    BY <1>3, MaxSizeIs
  <2>2. Literals(set) <= LiteralPerRound
    <3>1. UpTo(set, MaxSize) = set /\ MaxSize \in 0 .. MaxSize
      BY <1>1, <2>1 DEF UpTo
    <3>2. Used(db)[MaxSize] = Literals(set) /\ Used(db)[MaxSize] <= LiteralPerRound
      BY <1>3, <2>1, <3>1, UsedBounded, UsedIsLiterals
    <3> QED
      BY <3>2
  <2>3. ASSUME NEW other \in SUBSET db, Literals(other) <= LiteralPerRound
        PROVE  Cardinality(other) <= Cardinality(set)
    <3>1. /\ IsFiniteSet(set) /\ Cardinality(set) \in Nat
          /\ other \in SUBSET Clause
      BY <1>1, PlacesFinite
    <3>2. CASE other \subseteq set
      BY <3>1, <3>2, FS_Subset
    <3>3. CASE ~(other \subseteq set)
      <4> DEFINE D == {n \in Nat : \E k \in db \ set : Size[k] = n}
      <4>1. PICK m \in D : \A n \in D : ~(n < m)
        <5>1. D \in SUBSET Nat
          OBVIOUS
        <5>2. D # {}
          BY <2>1, <3>3
        <5> HIDE DEF D
        <5> QED
          BY <5>1, <5>2, Smallest
      <4>2. PICK k \in db \ set : Size[k] = m
        BY <4>1
      <4>3. m \in Nat \ {0}
        BY <2>1, <4>1, <4>2
      <4>4. \A x \in db : x \notin set => Size[x] \in Nat /\ ~(Size[x] < m)
        BY <2>1, <4>1
      <4> DEFINE low == UpTo(set, m)
                 both == other \cap low
                 more == other \ low
                 less == low \ other
      <4>5. LiteralPerRound - Literals(low) < m
        BY <1>3, <4>2, LeftOver
      <4>6. /\ low \subseteq set /\ \A x \in low : Size[x] <= m
            /\ \A x \in more : Size[x] >= m
        <5>1. \A x \in db : Size[x] \in Nat
          BY <2>1
        <5>2. ASSUME NEW x \in more PROVE Size[x] >= m
          <6>1. x \in db /\ ~(x \in set /\ Size[x] <= m)
            BY DEF UpTo
          <6> QED
            BY <4>3, <4>4, <5>1, <6>1
        <5> QED
          BY <5>2 DEF UpTo
      <4> HIDE DEF low
      <4>7. /\ both \in SUBSET Clause /\ more \in SUBSET Clause /\ less \in SUBSET Clause
            /\ low \in SUBSET Clause
            /\ other = both \cup more /\ both \cap more = {}
            /\ low = both \cup less /\ both \cap less = {}
        BY <1>1, <3>1, <4>6
      <4>8. /\ \A x \in more : Size[x] >= m
            /\ \A x \in less : Size[x] <= m
        BY <4>6
      <4> HIDE DEF both, more, less
      <4>9. /\ Literals(other) = Literals(both) + Literals(more)
            /\ Cardinality(other) = Cardinality(both) + Cardinality(more)
            /\ Literals(low) = Literals(both) + Literals(less)
            /\ Cardinality(low) = Cardinality(both) + Cardinality(less)
        BY <4>7, LiteralsUnion
      <4>10. /\ Literals(more) >= m * Cardinality(more)
             /\ Literals(less) <= m * Cardinality(less)
        BY <4>3, <4>7, <4>8, LiteralsBounds
      <4>11. /\ Literals(both) \in Nat /\ Literals(more) \in Nat /\ Literals(less) \in Nat
             /\ Cardinality(both) \in Nat /\ Cardinality(more) \in Nat
             /\ Cardinality(less) \in Nat
        BY <4>7, PlacesFinite
      <4>12. m * Cardinality(more) \in Nat /\ m * Cardinality(less) \in Nat
        BY <4>3, <4>11, Times
      <4>13. m * Cardinality(more) < m * Cardinality(less) + m
        BY <2>3, <4>3, <4>5, <4>9, <4>10, <4>11, <4>12, LimitAssumption
      <4>14. Cardinality(more) <= Cardinality(less)
        BY <4>3, <4>11, <4>13, Times
      <4>15. Cardinality(low) <= Cardinality(set)
        BY <3>1, <4>6, FS_Subset
      <4> QED
        BY <3>1, <4>9, <4>11, <4>14, <4>15
    <3> QED
      BY <3>2, <3>3
  <2> QED
    BY <2>2, <2>3
<1> QED
  BY <1>2, <1>3

-----------------------------------------------------------------------------
\* A sharer that gives holds a selection of what it had.
Selected ==
    \A s \in DOMAIN setup.strategy : setup.strategy[s] = "horde" /\ pc[s] = "give" =>
        tmp[s] \in Selections(tmp[s] \cup database[s])

\* A step after which the sharers that give hold what they held.
LEMMA SelectedKept ==
    ASSUME Selected, setup' = setup,
           \A s \in DOMAIN setup.strategy : pc'[s] = "give" =>
               pc[s] = "give" /\ tmp'[s] = tmp[s] /\ database'[s] = database[s]
    PROVE  Selected'
BY DEF Selected

LEMMA SelectedTake ==
    ASSUME TypeOK, Selected, NEW s \in Sharer, Take(s)
    PROVE  Selected'
<1>1. setup' = setup /\ DOMAIN setup.strategy \subseteq Sharer
  BY SetupAssumption DEF Take, TypeOK
<1> SUFFICES ASSUME NEW r \in DOMAIN setup.strategy, setup.strategy[r] = "horde",
                    pc'[r] = "give"
             PROVE  tmp'[r] \in Selections(tmp'[r] \cup database'[r])
  BY <1>1 DEF Selected
<1>2. CASE r # s
  <2>1. pc'[r] = pc[r] /\ tmp'[r] = tmp[r] /\ database'[r] = database[r]
    BY <1>1, <1>2 DEF Take, Go, TypeOK
  <2> QED
    BY <2>1 DEF Selected
<1>3. CASE r = s
  <2>1. PICK db \in Filled(database[s], First(exported[current[s]], counted[s])) :
            \E set \in Selections(db) :
            /\ tmp' = [tmp EXCEPT ![s] = set]
            /\ database' = [database EXCEPT ![s] = db \ set]
    BY <1>3 DEF Take
  <2>2. PICK set \in Selections(db) : /\ tmp' = [tmp EXCEPT ![s] = set]
                                      /\ database' = [database EXCEPT ![s] = db \ set]
    BY <2>1
  <2>3. tmp'[s] = set /\ database'[s] = db \ set
    BY <2>2 DEF TypeOK
  <2>4. set \subseteq db
    BY DEF Selections
  <2>5. set \cup (db \ set) = db
    BY <2>4
  <2> QED
    BY <1>3, <2>3, <2>5
<1> QED
  BY <1>2, <1>3

LEMMA SelectedStep ==
    ASSUME TypeOK, Selected, [Next]_vars
    PROVE  Selected'
<1>1. DOMAIN setup.strategy \subseteq Sharer
  BY SetupAssumption DEF TypeOK
<1>2. CASE End \/ UNCHANGED vars \/ \E v \in Solver : Work(v)
  <2>1. UNCHANGED <<setup, pc, tmp, database>>
    BY <1>2 DEF End, vars, Work, Learn, Learned, Clone, Add, Added, GiveUp, Remove, CallDeleted,
       Removed, Destroy, Release, lists, round
  <2> QED
    BY <2>1, SelectedKept
<1>3. ASSUME NEW s \in Sharer, Take(s) PROVE Selected'
  BY <1>3, SelectedTake
<1>4. ASSUME NEW s \in Sharer, \/ \E q \in Solver : Give(s, q)
                               \/ UseDeleted(s)
      PROVE  Selected'
  <2>1. UNCHANGED <<setup, pc, tmp, database>>
    BY <1>4 DEF Give, UseDeleted, lists, round
  <2> QED
    BY <2>1, SelectedKept
<1>5. ASSUME NEW s \in Sharer, Given(s) PROVE Selected'
  <2>1. /\ setup' = setup /\ database' = database /\ pc'[s] = "take"
        /\ \A r \in Sharer : r # s => pc'[r] = pc[r] /\ tmp'[r] = tmp[r]
    BY <1>5 DEF Given, Go, TypeOK
  <2> QED
    BY <1>1, <2>1, SelectedKept
<1>6. ASSUME NEW s \in Sharer,
             \/ Wake(s) \/ Shared(s) \/ ForgetProducers(s) \/ ForgetConsumers(s)
             \/ DeleteProducers(s) \/ DeleteConsumers(s)
      PROVE  Selected'
  <2>1. UNCHANGED <<setup, tmp, database>>
    BY <1>6 DEF Wake, Shared, ForgetProducers, ForgetConsumers, DeleteProducers,
       DeleteConsumers, round
  <2>2. pc'[s] # "give" /\ \A r \in Sharer : r # s => pc'[r] = pc[r]
    BY <1>6 DEF Wake, Shared, ForgetProducers, ForgetConsumers, DeleteProducers,
       DeleteConsumers, Go, TypeOK
  <2> QED
    BY <1>1, <2>1, <2>2, SelectedKept
<1>7. ASSUME NEW s \in Sharer, NEW p \in Solver, Count(s, p) PROVE Selected'
  <2>1. /\ UNCHANGED <<setup, tmp, database>> /\ pc'[s] = "dequeue"
        /\ \A r \in Sharer : r # s => pc'[r] = pc[r]
    BY <1>7 DEF Count, Go, TypeOK
  <2> QED
    BY <1>1, <2>1, SelectedKept
<1> QED
  BY <1>2, <1>3, <1>4, <1>5, <1>6, <1>7 DEF Next, Round

\* What giveSelection gives out of a database is never more than the literals of a round,
\* and no other choice that keeps to them has more clauses.
THEOREM SelectionsAreBest == Spec => []BestSelection
<1>1. Init => Selected
  BY SetupAssumption DEF Init, Selected
<1>2. TypeOK /\ Selected /\ [Next]_vars => Selected'
  BY SelectedStep
<1>3. TypeOK /\ Selected => BestSelection
  <2> SUFFICES ASSUME TypeOK, Selected, NEW s \in DOMAIN setup.strategy,
                      setup.strategy[s] = "horde", pc[s] = "give"
               PROVE  /\ Literals(tmp[s]) <= LiteralPerRound
                      /\ \A set \in SUBSET (tmp[s] \cup database[s]) :
                            Literals(set) <= LiteralPerRound =>
                                Cardinality(set) <= Cardinality(tmp[s])
    BY DEF BestSelection
  <2>1. s \in Sharer
    BY SetupAssumption DEF TypeOK
  <2>2. tmp[s] \cup database[s] \in SUBSET Clause
    BY <2>1 DEF TypeOK
  <2>3. tmp[s] \in Selections(tmp[s] \cup database[s])
    BY DEF Selected
  <2> QED
    BY <2>2, <2>3, SelectionIsBest
<1> QED
  BY <1>1, <1>2, <1>3, TypeCorrect, PTL DEF Spec

-----------------------------------------------------------------------------
\* There is always a selection to make.

LEMMA SubsetOfSize ==
    ASSUME NEW S, IsFiniteSet(S), NEW n \in 0 .. Cardinality(S)
    PROVE  \E T \in SUBSET S : IsFiniteSet(T) /\ Cardinality(T) = n
<1>1. Cardinality(S) \in Nat /\ ExistsBijection(1 .. Cardinality(S), S)
  BY FS_CardinalityType
<1>2. PICK f \in Bijection(1 .. Cardinality(S), S) : TRUE
  BY <1>1 DEF ExistsBijection
<1> DEFINE T == {f[i] : i \in 1 .. n}
           g == [i \in 1 .. n |-> f[i]]
<1>3. 1 .. n \subseteq 1 .. Cardinality(S)
  BY <1>1
<1>4. T \in SUBSET S
  BY <1>2, <1>3 DEF Bijection, Injection, Surjection
<1>5. g \in Bijection(1 .. n, T)
  <2>1. g \in [1 .. n -> T] /\ \A t \in T : \E i \in 1 .. n : g[i] = t
    OBVIOUS
  <2>2. f \in Injection(1 .. Cardinality(S), S)
    BY <1>2 DEF Bijection
  <2>3. \A i, j \in 1 .. Cardinality(S) : f[i] = f[j] => i = j
    BY <2>2 DEF Injection, IsInjective
  <2>4. ASSUME NEW i \in 1 .. n, NEW j \in 1 .. n, g[i] = g[j] PROVE i = j
    <3>1. f[i] = f[j]
      BY <2>4
    <3> QED
      BY <1>3, <2>3, <3>1
  <2> HIDE DEF T, g
  <2>5. g \in Injection(1 .. n, T) /\ g \in Surjection(1 .. n, T)
    BY <2>1, <2>4 DEF Injection, Surjection, IsInjective
  <2> QED
    BY <2>5 DEF Bijection
<1>6. IsFiniteSet(1 .. n) /\ Cardinality(1 .. n) = n
  BY UpToN
<1> HIDE DEF T, g
<1>7. ExistsBijection(1 .. n, T)
  BY <1>5 DEF ExistsBijection
<1>8. IsFiniteSet(T) /\ Cardinality(T) = n
  BY <1>6, <1>7, FS_Bijection
<1> QED
  BY <1>4, <1>8

LEMMA SubsetBetween ==
    ASSUME NEW S, IsFiniteSet(S), NEW A \in SUBSET S, NEW n \in Nat,
           Cardinality(A) <= n, n <= Cardinality(S)
    PROVE  \E T \in SUBSET S : A \subseteq T /\ Cardinality(T) = n
<1>1. /\ IsFiniteSet(A) /\ Cardinality(A) \in Nat /\ Cardinality(S) \in Nat
      /\ IsFiniteSet(S \ A) /\ Cardinality(S \ A) = Cardinality(S) - Cardinality(A)
  <2>1. IsFiniteSet(A) /\ Cardinality(A) \in Nat /\ Cardinality(S) \in Nat
    BY FS_Subset, FS_CardinalityType
  <2>2. IsFiniteSet(S \ A) /\ Cardinality(S \ A) = Cardinality(S) - Cardinality(S \cap A)
    BY FS_Difference
  <2>3. S \cap A = A
    OBVIOUS
  <2> QED
    BY <2>1, <2>2, <2>3
<1>2. PICK R \in SUBSET (S \ A) : IsFiniteSet(R) /\ Cardinality(R) = n - Cardinality(A)
  <2>1. n - Cardinality(A) \in 0 .. Cardinality(S \ A)
    BY <1>1
  <2> QED
    BY <1>1, <2>1, SubsetOfSize
<1>3. Cardinality(A \cup R) = Cardinality(A) + Cardinality(R) - Cardinality(A \cap R)
  BY <1>1, <1>2, FS_Union
<1>4. A \cap R = {} /\ A \cup R \in SUBSET S
  BY <1>2
<1>5. Cardinality(A \cup R) = n
  <2>1. Cardinality(A \cap R) = 0
    BY <1>4, FS_EmptySet
  <2> QED
    BY <1>1, <1>2, <1>3, <2>1
<1> QED
  BY <1>4, <1>5

\* A set of clauses is made bucket by bucket.
LEMMA FromBuckets ==
    ASSUME NEW all \in SUBSET Clause, NEW F,
           \A n \in Sizes : F[n] \subseteq Bucket(all, n)
    PROVE  \E set \in SUBSET all : \A n \in Sizes : Bucket(set, n) = F[n]
<1> DEFINE set == {k \in all : k \in F[Size[k]]}
<1>1. \A k \in all : Size[k] \in Sizes
  BY DEF Sizes
<1>2. \A n \in Sizes : Bucket(set, n) = F[n]
  BY <1>1 DEF Bucket
<1> QED
  BY <1>2

LEMMA SelectionExists ==
    ASSUME NEW db \in SUBSET Clause
    PROVE  Selections(db) # {}
<1>1. CASE Clause = {}
  <2>1. Sizes = {}
    BY <1>1 DEF Sizes
  <2> QED
    BY <2>1 DEF Selections
<1>2. CASE Clause # {}
  <2> DEFINE u == Used(db)
             take(n) == Least(Cardinality(Bucket(db, n)), (LiteralPerRound - u[n - 1]) \div n)
  <2>1. /\ MaxSize \in Nat \ {0} /\ \A k \in Clause : Size[k] \in 1 .. MaxSize
        /\ \A n \in 1 .. MaxSize : u[n] = Uses(db, n, u[n - 1])
    BY <1>2, MaxSizeIs, UsedIs
  <2>2. Sizes \subseteq 1 .. MaxSize
    BY <2>1 DEF Sizes
  <2>3. ASSUME NEW n \in Sizes
        PROVE  \E T \in SUBSET Bucket(db, n) : n * Cardinality(T) = u[n] - u[n - 1]
    <3>1. n \in 1 .. MaxSize /\ n \in Nat \ {0} /\ n - 1 \in 0 .. MaxSize
      BY <2>1, <2>2
    <3>2. u[n - 1] \in Nat /\ u[n - 1] <= LiteralPerRound /\ u[n] = u[n - 1] + n * take(n)
      BY <2>1, <3>1, UsedBounded DEF Uses
    <3>3. (LiteralPerRound - u[n - 1]) \div n \in Nat
      BY <3>1, <3>2, LimitAssumption, Division
    <3>4. IsFiniteSet(Bucket(db, n)) /\ Cardinality(Bucket(db, n)) \in Nat
      BY PlacesFinite DEF Bucket
    <3>5. take(n) \in Nat /\ take(n) <= Cardinality(Bucket(db, n))
      BY <3>3, <3>4, LeastIs
    <3> HIDE DEF u, take
    <3>6. PICK T \in SUBSET Bucket(db, n) : Cardinality(T) = take(n)
      BY <3>4, <3>5, SubsetOfSize
    <3>7. n * take(n) \in Nat
      BY <3>1, <3>5, Times
    <3> QED
      BY <3>2, <3>6, <3>7
  <2> DEFINE F == [n \in Sizes |-> CHOOSE T \in SUBSET Bucket(db, n) :
                                       n * Cardinality(T) = u[n] - u[n - 1]]
  <2>4. ASSUME NEW n \in Sizes
        PROVE  F[n] \subseteq Bucket(db, n) /\ n * Cardinality(F[n]) = u[n] - u[n - 1]
    <3> HIDE DEF u
    <3> QED
      BY <2>3
  <2> HIDE DEF F
  <2>5. PICK set \in SUBSET db : \A n \in Sizes : Bucket(set, n) = F[n]
    BY <2>4, FromBuckets
  <2> QED
    BY <2>4, <2>5 DEF Selections
<1> QED
  BY <1>1, <1>2

\* A database keeps to the limit of its buckets.
Fits(db) == \A n \in Sizes : Cardinality(Bucket(db, n)) <= (BucketLimit - 1) \div n

LEMMA SizesType ==
    ASSUME NEW n \in Sizes
    PROVE  n \in Nat \ {0} /\ (BucketLimit - 1) \div n \in Nat
<1>1. n \in Nat \ {0}
  BY ClauseAssumption DEF Sizes
<1>2. BucketLimit - 1 \in Nat
  BY LimitAssumption
<1> QED
  BY <1>1, <1>2, Division

LEMMA BucketFinite ==
    ASSUME NEW db \in SUBSET Clause, NEW n
    PROVE  IsFiniteSet(Bucket(db, n)) /\ Cardinality(Bucket(db, n)) \in Nat
BY PlacesFinite DEF Bucket

LEMMA FilledExists ==
    ASSUME NEW db \in SUBSET Clause, NEW new \in SUBSET Clause, Fits(db)
    PROVE  Filled(db, new) # {}
<1> DEFINE all == db \cup new
           size(n) == Least(Cardinality(Bucket(all, n)), (BucketLimit - 1) \div n)
<1>1. ASSUME NEW n \in Sizes
      PROVE  \E T \in SUBSET Bucket(all, n) : Bucket(db, n) \subseteq T
                                                /\ Cardinality(T) = size(n)
  <2>1. /\ IsFiniteSet(Bucket(all, n)) /\ Cardinality(Bucket(all, n)) \in Nat
        /\ Cardinality(Bucket(db, n)) \in Nat /\ (BucketLimit - 1) \div n \in Nat
    BY SizesType, BucketFinite
  <2>2. Bucket(db, n) \in SUBSET Bucket(all, n)
    BY DEF Bucket
  <2>3. /\ Cardinality(Bucket(db, n)) <= Cardinality(Bucket(all, n))
        /\ Cardinality(Bucket(db, n)) <= (BucketLimit - 1) \div n
    BY <2>1, <2>2, FS_Subset DEF Fits
  <2>4. /\ size(n) \in Nat /\ size(n) <= Cardinality(Bucket(all, n))
        /\ Cardinality(Bucket(db, n)) <= size(n)
    BY <2>1, <2>3, LeastIs
  <2> HIDE DEF size, all
  <2> QED
    BY <2>1, <2>2, <2>4, SubsetBetween
<1> DEFINE F == [n \in Sizes |-> CHOOSE T \in SUBSET Bucket(all, n) :
                                     Bucket(db, n) \subseteq T /\ Cardinality(T) = size(n)]
<1>2. ASSUME NEW n \in Sizes
      PROVE  /\ F[n] \subseteq Bucket(all, n) /\ Bucket(db, n) \subseteq F[n]
             /\ Cardinality(F[n]) = size(n)
  <2> HIDE DEF size, all
  <2> QED
    BY <1>1
<1> HIDE DEF F
<1>3. PICK set \in SUBSET all : \A n \in Sizes : Bucket(set, n) = F[n]
  BY <1>2, FromBuckets
<1>4. db \subseteq set
  <2> SUFFICES ASSUME NEW k \in db PROVE k \in set
    OBVIOUS
  <2>1. Size[k] \in Sizes /\ k \in Bucket(db, Size[k])
    BY DEF Sizes, Bucket
  <2>2. k \in Bucket(set, Size[k])
    BY <1>2, <1>3, <2>1
  <2> QED
    BY <2>2 DEF Bucket
<1> QED
  BY <1>2, <1>3, <1>4 DEF Filled

LEMMA FilledFits ==
    ASSUME NEW db \in SUBSET Clause, NEW new \in SUBSET Clause, NEW set \in Filled(db, new),
           NEW part \in SUBSET set
    PROVE  Fits(part)
<1> SUFFICES ASSUME NEW n \in Sizes
             PROVE  Cardinality(Bucket(part, n)) <= (BucketLimit - 1) \div n
  BY DEF Fits
<1>1. set \in SUBSET Clause /\ part \in SUBSET Clause
  BY DEF Filled
<1>2. /\ IsFiniteSet(Bucket(set, n)) /\ Cardinality(Bucket(set, n)) \in Nat
      /\ Cardinality(Bucket(part, n)) \in Nat /\ Cardinality(Bucket(db \cup new, n)) \in Nat
      /\ (BucketLimit - 1) \div n \in Nat
  BY <1>1, SizesType, BucketFinite
<1>3. Bucket(part, n) \in SUBSET Bucket(set, n)
  BY DEF Bucket
<1>4. Cardinality(Bucket(part, n)) <= Cardinality(Bucket(set, n))
  BY <1>2, <1>3, FS_Subset
<1>5. Cardinality(Bucket(set, n)) <= (BucketLimit - 1) \div n
  BY <1>2, LeastIs DEF Filled
<1> QED
  BY <1>2, <1>4, <1>5

\* No bucket of a database exceeds its limit, whatever the rounds have added and taken.
Fitted == \A s \in Sharer : Fits(database[s])

LEMMA FittedStep ==
    ASSUME TypeOK, Rounds, Fitted, [Next]_vars
    PROVE  Fitted'
<1>1. CASE UNCHANGED database
  BY <1>1 DEF Fitted
<1>2. ASSUME NEW s \in Sharer, Take(s), database' # database
      PROVE  Fitted'
  <2> DEFINE list == First(exported[current[s]], counted[s])
  <2>1. PICK db \in Filled(database[s], list) : \E set \in Selections(db) :
            database' = [database EXCEPT ![s] = db \ set]
    BY <1>2 DEF Take
  <2>2. PICK set \in Selections(db) : database' = [database EXCEPT ![s] = db \ set]
    BY <2>1
  <2>3. database[s] \in SUBSET Clause /\ list \in SUBSET Clause
    <3>1. current[s] \in Solver
      BY <1>2, CurrentIs
    <3>2. exported[current[s]] \in Seq(Clause) /\ counted[s] \in Int /\ database[s] \in SUBSET Clause
      BY <3>1 DEF TypeOK
    <3> QED BY <3>2, BufferFacts
  <2>4. Fits(db \ set)
    BY <2>3, FilledFits
  <2>5. /\ database'[s] = db \ set
        /\ \A r \in Sharer : r # s => database'[r] = database[r]
    BY <2>2 DEF TypeOK
  <2> SUFFICES ASSUME NEW r \in Sharer PROVE Fits(database'[r])
    BY DEF Fitted
  <2> QED
    BY <2>4, <2>5 DEF Fitted
<1>3. ASSUME database' # database
      PROVE  \E s \in Sharer : Take(s)
  <2>1. ASSUME End \/ UNCHANGED vars \/ \E v \in Solver : Work(v) PROVE FALSE
    BY <1>3, <2>1 DEF End, vars, Work, Learn, Learned, Clone, Add, Added, GiveUp, Remove,
       CallDeleted, Removed, Destroy, Release, round
  <2>2. ASSUME NEW s \in Sharer,
               \/ Wake(s) \/ Given(s) \/ Shared(s) \/ UseDeleted(s)
               \/ \E v \in Solver : Count(s, v) \/ Give(s, v)
        PROVE  FALSE
    BY <1>3, <2>2 DEF Wake, Count, Give, Given, Shared, UseDeleted, round
  <2>3. ASSUME NEW s \in Sharer,
               ForgetProducers(s) \/ ForgetConsumers(s) \/ DeleteProducers(s)
                   \/ DeleteConsumers(s)
        PROVE  FALSE
    BY <1>3, <2>3 DEF ForgetProducers, ForgetConsumers, DeleteProducers, DeleteConsumers, round
  <2> QED
    BY <2>1, <2>2, <2>3 DEF Next, Round
<1> QED
  BY <1>1, <1>2, <1>3

\* A round with a database never finds it impossible to go on: what addClause and
\* giveSelection may make of it is never nothing, and no bucket is ever over its limit.
THEOREM RoundsCanSelect ==
    Spec => [](\A s \in Sharer, p \in Solver :
                  /\ Fits(database[s])
                  /\ \E db \in Filled(database[s], First(exported[p], counted[s])) : Selections(db) # {})
<1> DEFINE Serves(s, p) == /\ Fits(database[s])
                           /\ \E db \in Filled(database[s], First(exported[p], counted[s])) : Selections(db) # {}
<1>1. Init => Fitted
  <2> SUFFICES ASSUME Init, NEW s \in Sharer, NEW n \in Sizes
               PROVE  Cardinality(Bucket(database[s], n)) <= (BucketLimit - 1) \div n
    BY DEF Fitted, Fits
  <2>1. Bucket(database[s], n) = {}
    BY DEF Init, Bucket
  <2> QED
    BY <2>1, FS_EmptySet, SizesType
<1>2. IInv /\ Fitted /\ [Next]_vars => Fitted'
  BY FittedStep DEF IInv
<1>3. IInv /\ Fitted => \A s \in Sharer, p \in Solver : Serves(s, p)
  <2> SUFFICES ASSUME TypeOK, Fitted, NEW s \in Sharer, NEW p \in Solver
               PROVE  Serves(s, p)
    BY DEF IInv
  <2>1. /\ database[s] \in SUBSET Clause /\ First(exported[p], counted[s]) \in SUBSET Clause
        /\ Fits(database[s])
    <3>1. /\ exported[p] \in Seq(Clause) /\ counted[s] \in Int
          /\ database[s] \in SUBSET Clause /\ Fits(database[s])
      BY DEF TypeOK, Fitted
    <3> QED BY <3>1, BufferFacts
  <2>2. PICK db \in Filled(database[s], First(exported[p], counted[s])) : TRUE
    BY <2>1, FilledExists
  <2>3. db \in SUBSET Clause
    BY <2>1 DEF Filled
  <2>4. Selections(db) # {}
    BY <2>3, SelectionExists
  <2> QED
    BY <2>1, <2>2, <2>4
<1> QED
  BY <1>1, <1>2, <1>3, Invariance, PTL DEF Spec
=============================================================================
