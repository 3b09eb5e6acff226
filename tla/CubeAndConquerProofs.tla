------------------------- MODULE CubeAndConquerProofs -------------------------
(***************************************************************************)
(* For every formula and every number of cpus and workers: the workers     *)
(* cover the models of the formula, nJobs counts the sub-problems, and the *)
(* answer is right as long as nJobs is.                                    *)
(***************************************************************************)
EXTENDS CubeAndConquer, SequenceTheorems, FiniteSetTheorems, TLAPS

\* The lists hold workers that exist, and one that does not has done nothing.
Existing ==
    /\ Members(workers) \subseteq 1 .. created
    /\ Members(over) \subseteq 1 .. created
    /\ Members(targets) \subseteq 1 .. created
    /\ reported \subseteq 1 .. created
    /\ \A w \in Worker : w > created => pc[w] = "top"
    /\ \A w \in Worker : pc[w] \in {"count", "left"} => w # 0

\* slaves[0] searches the whole formula.
Root == cube[0] = {} /\ toAdd[0] = {}

\* The workers whose sub-problem has been refuted.
Refuted(w) ==
    \/ w \in Members(over) \/ w \in reported
    \/ pc[w] \in {"count", "left"}
    \/ pc[w] = "join" /\ wRes[w] = "UNSAT"

Sound == \A w \in Worker : Refuted(w) => models \cap Region(w) = {}

\* The master rests before main calls solve, and only comes back to rest at the end.
Phases ==
    /\ mainPc = "solve" => waitJob /\ created = 0 /\ masterPc \in {"start", "parked", "done"}
    /\ created > 0 /\ ~strategyEnding => masterPc \notin {"start", "parked", "setup", "rest"}
    /\ masterPc = "count" => created > 0

\* solve has set nJobs before there is a worker.
FirstJob == created = 0 /\ mainPc # "solve" => nJobs = 1

-----------------------------------------------------------------------------
\* Sequences and their members.

LEMMA MembersOf ==
    ASSUME NEW S, NEW s \in Seq(S)
    PROVE  /\ Members(s) \subseteq S
           /\ \A i \in 1 .. Len(s) : s[i] \in Members(s)
BY DEF Members

LEMMA MembersAppend ==
    ASSUME NEW S, NEW s \in Seq(S), NEW e \in S
    PROVE  Append(s, e) \in Seq(S) /\ Members(Append(s, e)) = Members(s) \cup {e}
<1>1. /\ Append(s, e) \in Seq(S) /\ DOMAIN s = 1 .. Len(s) /\ Len(s) \in Nat
      /\ DOMAIN Append(s, e) = 1 .. Len(s) + 1
      /\ \A i \in 1 .. Len(s) + 1 : Append(s, e)[i] = IF i <= Len(s) THEN s[i] ELSE e
  OBVIOUS
<1>2. ASSUME NEW x \in Members(s) PROVE x \in Members(Append(s, e))
  BY <1>1 DEF Members
<1>3. e \in Members(Append(s, e))
  <2>1. Append(s, e)[Len(s) + 1] = e /\ Len(s) + 1 \in DOMAIN Append(s, e)
    BY <1>1
  <2> QED
    BY <2>1 DEF Members
<1>4. ASSUME NEW x \in Members(Append(s, e)) PROVE x \in Members(s) \cup {e}
  BY <1>1 DEF Members
<1> QED
  BY <1>1, <1>2, <1>3, <1>4

LEMMA MembersSubSeq ==
    ASSUME NEW S, NEW s \in Seq(S), NEW m \in Nat \ {0}, NEW n \in 0 .. Len(s)
    PROVE  SubSeq(s, m, n) \in Seq(S) /\ Members(SubSeq(s, m, n)) \subseteq Members(s)
<1>1. \A i \in m .. n : s[i] \in S
  OBVIOUS
<1>2. /\ SubSeq(s, m, n) \in Seq(S)
      /\ Len(SubSeq(s, m, n)) = IF m <= n THEN n - m + 1 ELSE 0
      /\ \A i \in 1 .. n - m + 1 : SubSeq(s, m, n)[i] = s[m + i - 1]
  BY <1>1, SubSeqProperties
<1>3. ASSUME NEW i \in DOMAIN SubSeq(s, m, n) PROVE SubSeq(s, m, n)[i] \in Members(s)
  <2>1. i \in 1 .. n - m + 1 /\ m + i - 1 \in DOMAIN s
    BY <1>2
  <2> QED
    BY <1>2, <2>1 DEF Members
<1> QED
  BY <1>2, <1>3 DEF Members

\* The sequence s without its i-th element.
LEMMA Removed ==
    ASSUME NEW S, NEW s \in Seq(S), NEW i \in 1 .. Len(s)
    PROVE  /\ EraseAt(s, i) \in Seq(S) /\ DOMAIN EraseAt(s, i) = 1 .. Len(s) - 1
           /\ \A j \in 1 .. Len(s) - 1 :
                 EraseAt(s, i)[j] = IF j < i THEN s[j] ELSE s[j + 1]
<1> DEFINE t == EraseAt(s, i)
           a == SubSeq(s, 1, i - 1)
           b == SubSeq(s, i + 1, Len(s))
<1>1. Len(s) \in Nat /\ i \in Nat
  OBVIOUS
<1>2. /\ a \in Seq(S) /\ Len(a) = i - 1
      /\ \A j \in 1 .. i - 1 : a[j] = s[j]
  <2>1. \A j \in 1 .. i - 1 : s[j] \in S
    OBVIOUS
  <2> QED
    BY <2>1, SubSeqProperties
<1>3. /\ b \in Seq(S) /\ Len(b) = Len(s) - i
      /\ \A j \in 1 .. Len(s) - i : b[j] = s[i + j]
  <2>1. \A j \in i + 1 .. Len(s) : s[j] \in S
    OBVIOUS
  <2>2. /\ b \in Seq(S)
        /\ Len(b) = IF i + 1 <= Len(s) THEN Len(s) - (i + 1) + 1 ELSE 0
        /\ \A j \in 1 .. Len(s) - (i + 1) + 1 : b[j] = s[(i + 1) + j - 1]
    BY <2>1, SubSeqProperties
  <2>3. ASSUME NEW j \in 1 .. Len(s) - i PROVE b[j] = s[i + j]
    <3>1. j \in 1 .. Len(s) - (i + 1) + 1 /\ (i + 1) + j - 1 = i + j
      BY <1>1
    <3> QED
      BY <2>2, <3>1
  <2> QED
    BY <2>2, <2>3
<1>4. t = a \o b
  BY DEF EraseAt
<1> HIDE DEF a, b, t
<1>5. /\ t \in Seq(S) /\ Len(t) = Len(a) + Len(b)
      /\ \A j \in 1 .. Len(a) + Len(b) : t[j] = IF j <= Len(a) THEN a[j] ELSE b[j - Len(a)]
  <2>1. a \in Seq(S) /\ b \in Seq(S)
    BY <1>2, <1>3
  <2>2. /\ a \o b \in Seq(S) /\ Len(a \o b) = Len(a) + Len(b)
        /\ \A j \in 1 .. Len(a) + Len(b) :
              (a \o b)[j] = IF j <= Len(a) THEN a[j] ELSE b[j - Len(a)]
    BY <2>1, ConcatProperties, Zenon
  <2> QED
    BY <1>4, <2>2, Zenon
<1>6. Len(t) = Len(s) - 1 /\ DOMAIN t = 1 .. Len(s) - 1
  <2>1. DOMAIN t = 1 .. Len(t)
    BY <1>5, LenProperties
  <2>2. Len(a) = i - 1 /\ Len(b) = Len(s) - i /\ Len(t) = Len(a) + Len(b)
    BY <1>2, <1>3, <1>5
  <2>3. \A n, k \in Int : (k - 1) + (n - k) = n - 1
    OBVIOUS
  <2>4. Len(t) = (i - 1) + (Len(s) - i)
    BY <2>2, Zenon
  <2>5. Len(t) = Len(s) - 1
    BY <1>1, <2>3, <2>4
  <2> QED
    BY <2>1, <2>5, Zenon
<1>7. ASSUME NEW j \in 1 .. Len(s) - 1 PROVE t[j] = IF j < i THEN s[j] ELSE s[j + 1]
  <2>1. j \in 1 .. Len(a) + Len(b) /\ j \in Nat
    BY <1>1, <1>2, <1>3
  <2>2. CASE j < i
    <3>1. j <= Len(a) /\ j \in 1 .. i - 1
      BY <1>1, <1>2, <2>1, <2>2
    <3>2. t[j] = a[j]
      BY <1>5, <2>1, <3>1
    <3> QED
      BY <1>2, <2>2, <3>1, <3>2
  <2>3. CASE ~(j < i)
    <3>1. /\ ~(j <= Len(a)) /\ j - Len(a) \in 1 .. Len(s) - i
          /\ i + (j - Len(a)) = j + 1
      BY <1>1, <1>2, <2>1, <2>3
    <3>2. t[j] = b[j - Len(a)]
      BY <1>5, <2>1, <3>1
    <3>3. b[j - Len(a)] = s[j + 1]
      BY <1>3, <3>1
    <3> QED
      BY <2>3, <3>2, <3>3
  <2> QED
    BY <2>2, <2>3
<1> QED
  BY <1>5, <1>6, <1>7 DEF t

\* Without takes away no other member.
LEMMA MembersWithout ==
    ASSUME NEW S, NEW s \in Seq(S), NEW w \in S
    PROVE  /\ Without(s, w) \in Seq(S)
           /\ Members(Without(s, w)) \subseteq Members(s)
           /\ Members(s) \ {w} \subseteq Members(Without(s, w))
<1>1. CASE w \notin Members(s)
  BY <1>1 DEF Without
<1>2. CASE w \in Members(s)
  <2> DEFINE i == CHOOSE j \in DOMAIN s : s[j] = w
             t == Without(s, w)
  <2>1. i \in 1 .. Len(s) /\ s[i] = w /\ Len(s) \in Nat
    BY <1>2 DEF Members
  <2>2. t = EraseAt(s, i)
    BY <1>2 DEF Without
  <2> HIDE DEF i, t
  <2>3. /\ t \in Seq(S) /\ DOMAIN t = 1 .. Len(s) - 1
        /\ \A j \in 1 .. Len(s) - 1 : t[j] = IF j < i THEN s[j] ELSE s[j + 1]
    BY <2>1, <2>2, Removed
  <2>4. ASSUME NEW j \in DOMAIN t PROVE t[j] \in Members(s)
    <3>1. j \in 1 .. Len(s) - 1
      BY <2>3
    <3>2. j \in 1 .. Len(s) /\ j + 1 \in 1 .. Len(s)
      BY <2>1, <3>1
    <3>3. t[j] = s[j] \/ t[j] = s[j + 1]
      BY <2>3, <3>1
    <3> QED
      BY <3>2, <3>3, MembersOf
  <2>5. ASSUME NEW j \in DOMAIN s, s[j] # w PROVE s[j] \in Members(t)
    <3>1. j \in 1 .. Len(s) /\ j # i
      BY <2>1, <2>5
    <3>2. CASE j < i
      <4>1. j \in DOMAIN t /\ t[j] = s[j]
        BY <2>1, <2>3, <3>1, <3>2
      <4> QED
        BY <4>1 DEF Members
    <3>3. CASE j > i
      <4>1. j - 1 \in 1 .. Len(s) - 1 /\ ~(j - 1 < i) /\ (j - 1) + 1 = j
        BY <2>1, <3>1, <3>3
      <4>2. j - 1 \in DOMAIN t /\ t[j - 1] = s[j]
        BY <2>3, <4>1
      <4> QED
        BY <4>2 DEF Members
    <3> QED
      BY <2>1, <3>1, <3>2, <3>3
  <2>6. Members(t) \subseteq Members(s)
    BY <2>4 DEF Members
  <2>7. Members(s) \ {w} \subseteq Members(t)
    <3>1. ASSUME NEW x \in Members(s), x # w PROVE x \in Members(t)
      <4>1. PICK j \in DOMAIN s : x = s[j]
        BY DEF Members
      <4> QED
        BY <2>5, <3>1, <4>1
    <3> QED
      BY <3>1
  <2> QED
    BY <2>3, <2>6, <2>7 DEF t
<1> QED
  BY <1>1, <1>2

LEMMA MembersOrders ==
    ASSUME NEW S, NEW s \in Seq(S), NEW t \in Orders(s)
    PROVE  t \in Seq(S) /\ Members(t) = Members(s)
<1>1. PICK p \in [DOMAIN s -> DOMAIN s] :
          /\ t = [i \in DOMAIN s |-> s[p[i]]]
          /\ \A j \in DOMAIN s : \E i \in DOMAIN s : p[i] = j
  BY DEF Orders
<1>2. DOMAIN s = 1 .. Len(s) /\ Len(s) \in Nat /\ \A i \in DOMAIN s : s[i] \in S
  OBVIOUS
<1>3. t \in [1 .. Len(s) -> S]
  BY <1>1, <1>2
<1>4. t \in Seq(S)
  BY <1>2, <1>3, SeqDef
<1>5. Members(t) = Members(s)
  BY <1>1 DEF Members
<1> QED
  BY <1>4, <1>5

LEMMA ActiveType ==
    ASSUME workers \in Seq(Worker)
    PROVE  Active \in 0 .. Len(workers)
BY BoundAssumption DEF Active

-----------------------------------------------------------------------------
\* Sub-problems.

LEMMA WithinShrinks ==
    ASSUME NEW c, NEW d, c \subseteq d
    PROVE  Within(d) \subseteq Within(c)
BY DEF Within

LEMMA NegationType ==
    ASSUME NEW l \in Literal
    PROVE  Negation(l) \in Literal /\ Negation(Negation(l)) = l
<1>1. PICK v \in Var, b \in BOOLEAN : l = <<v, b>>
  BY DEF Literal
<1>2. Negation(l) = <<v, ~b>>
  BY <1>1 DEF Negation
<1>3. Negation(<<v, ~b>>) = <<v, ~ ~b>>
  BY DEF Negation
<1>4. (~ ~b) = b /\ (~b) \in BOOLEAN
  OBVIOUS
<1>5. <<v, ~b>> \in Literal
  BY <1>4 DEF Literal
<1>6. Negation(Negation(l)) = <<v, b>>
  BY <1>2, <1>3, <1>4, Zenon
<1> QED
  BY <1>1, <1>2, <1>5, <1>6

\* An assignment of a sub-problem lies in one of its two halves.
LEMMA Halves ==
    ASSUME NEW c, NEW l \in Literal, NEW m \in Within(c)
    PROVE  m \in Within(c \cup {l}) \/ m \in Within(c \cup {Negation(l)})
<1>1. PICK v \in Var, b \in BOOLEAN : l = <<v, b>>
  BY DEF Literal
<1>2. m \in Assignment /\ (\A k \in c : m[k[1]] = k[2]) /\ m[v] \in BOOLEAN
  BY DEF Within, Assignment
<1>3. Negation(l) = <<v, ~b>> /\ l[1] = v /\ l[2] = b
  BY <1>1 DEF Negation
<1>4. CASE m[v] = b
  BY <1>2, <1>3, <1>4 DEF Within
<1>5. CASE m[v] = ~b
  <2>1. Negation(l)[1] = v /\ Negation(l)[2] = ~b
    BY <1>3
  <2> QED
    BY <1>2, <1>5, <2>1 DEF Within
<1>6. m[v] = b \/ m[v] = ~b
  BY <1>2
<1> QED
  BY <1>4, <1>5, <1>6

-----------------------------------------------------------------------------
\* Types.

LEMMA WorkerType ==
    /\ MaxWorkers \in Nat \ {0} /\ 0 \in Worker
    /\ \A w \in Worker : w \in Nat /\ w <= MaxWorkers
    /\ \A n \in Worker : 0 .. n \subseteq Worker /\ (n < MaxWorkers => n + 1 \in Worker)
BY BoundAssumption DEF Worker

LEMMA TypeInit == Init => TypeOK
<1> SUFFICES ASSUME Init PROVE TypeOK
  OBVIOUS
<1>1. /\ [w \in Worker |-> TRUE] \in [Worker -> BOOLEAN]
      /\ [w \in Worker |-> {}] \in [Worker -> Cube]
      /\ [w \in Worker |-> "top"] \in [Worker -> WorkerPc]
      /\ [w \in Worker |-> "UNKNOWN"] \in [Worker -> Results]
  BY DEF Cube, WorkerPc, Results
<1>2. <<>> \in Seq(Worker)
  OBVIOUS
<1>3. next \in Nat /\ nJobs \in Int /\ at \in Nat \ {0} /\ masterPc \in MasterPc
  BY DEF Init, MasterPc
<1>4. {globalEnding, strategyEnding, waitJob, crashed} \subseteq BOOLEAN
  BY DEF Init
<1> QED
  BY <1>1, <1>2, <1>3, <1>4, WorkerType DEF Init, TypeOK, Results

\* A new worker and its sub-problem.
LEMMA CreateType ==
    ASSUME TypeOK, created < MaxWorkers, NEW w \in Worker, NEW c \in Cube, Create(w, c)
    PROVE  /\ created' \in Worker /\ workers' \in Seq(Worker)
           /\ cube' \in [Worker -> Cube] /\ toAdd' \in [Worker -> Cube]
<1>1. created + 1 \in Worker
  BY WorkerType DEF TypeOK
<1>2. {Negation(l) : l \in c} \in Cube
  BY NegationType DEF Cube
<1>3. cube[w] \in Cube /\ toAdd[w] \in Cube
  BY DEF TypeOK
<1>4. toAdd[w] \cup {Negation(l) : l \in c} \in Cube
  BY <1>2, <1>3 DEF Cube
<1>5. workers' \in Seq(Worker)
  BY <1>1, MembersAppend DEF TypeOK, Create
<1>6. cube' \in [Worker -> Cube]
  BY <1>1, <1>3 DEF TypeOK, Create
<1>7. toAdd' \in [Worker -> Cube]
  BY <1>4 DEF TypeOK, Create
<1> QED
  BY <1>1, <1>5, <1>6, <1>7 DEF Create

LEMMA ReleaseType ==
    ASSUME TypeOK, NEW v \in Worker, Release(v)
    PROVE  interrupt' \in [Worker -> BOOLEAN] /\ pc' \in [Worker -> WorkerPc]
BY DEF TypeOK, Release, WorkerPc

LEMMA WorkTypes ==
    ASSUME TypeOK, NEW w \in Worker, Work(w)
    PROVE  TypeOK'
<1> USE DEF flags, counts, lists, solver, slaves, master, main
<1>1. CASE Top(w)
  <2>1. pc' \in [Worker -> WorkerPc]
    BY <1>1 DEF TypeOK, Top, Go, WorkerPc
  <2>2. wRes' \in [Worker -> Results]
    BY <1>1 DEF TypeOK, Top, Results
  <2> QED
    BY <1>1, <2>1, <2>2 DEF TypeOK, Top
<1>2. CASE Enter(w)
  <2>1. cube[w] \cup toAdd[w] \in Cube /\ {} \in Cube
    BY DEF TypeOK, Cube
  <2> QED
    BY <1>2, <2>1 DEF TypeOK, Enter, Go, WorkerPc
<1>3. CASE Solved(w)
  BY <1>3 DEF TypeOK, Solved, Go, WorkerPc
<1>4. CASE Join(w)
  BY <1>4 DEF TypeOK, Join, Go, WorkerPc
<1>5. CASE Count(w)
  <2>1. slips' \subseteq {"twice", "early"} /\ reported' \subseteq Worker
    BY <1>5 DEF TypeOK, Count
  <2> QED
    BY <1>5, <2>1 DEF TypeOK, Count, Go, WorkerPc
<1>6. CASE Left(w)
  <2>1. slips' \subseteq {"twice", "early"}
    BY <1>6 DEF TypeOK, Left
  <2>2. over' = over \/ over' = Append(over, w)
    BY <1>6 DEF Left
  <2>3. over' \in Seq(Worker)
    <3>1. over \in Seq(Worker) /\ Append(over, w) \in Seq(Worker)
      BY MembersAppend DEF TypeOK
    <3> QED
      BY <2>2, <3>1
  <2> QED
    BY <1>6, <2>1, <2>3 DEF TypeOK, Left, Go, WorkerPc
<1>7. CASE NextTest(w)
  BY <1>7 DEF TypeOK, NextTest, Go, WorkerPc
<1>8. CASE Pick(w)
  <2>1. next + 1 \in 1 .. Len(workers)
    BY <1>8 DEF TypeOK, Pick
  <2>2. workers[next + 1] \in Worker
    BY <2>1, ElementOfSeq DEF TypeOK
  <2> DEFINE v == workers[next + 1]
             released == [pc EXCEPT ![v] = IF @ = "wait" THEN "enter" ELSE @]
  <2>3. pc' = [released EXCEPT ![w] = "advance"]
    BY <1>8 DEF Pick
  <2>4. released \in [Worker -> WorkerPc]
    BY <2>2 DEF TypeOK, WorkerPc
  <2>5. pc' \in [Worker -> WorkerPc]
    BY <2>3, <2>4 DEF WorkerPc
  <2> HIDE DEF released
  <2>6. interrupt' \in [Worker -> BOOLEAN] /\ next' \in Nat
    BY <1>8, <2>2 DEF TypeOK, Pick
  <2> QED
    BY <1>8, <2>5, <2>6 DEF TypeOK, Pick
<1>9. CASE PickNothing(w)
  BY <1>9 DEF TypeOK, PickNothing
<1>13. CASE Advance(w)
  <2>1. next' \in Nat /\ pc' \in [Worker -> WorkerPc]
    BY <1>13 DEF TypeOK, Advance, Go, WorkerPc
  <2> QED
    BY <1>13, <2>1 DEF TypeOK, Advance
<1>10. CASE Claim(w)
  BY <1>10 DEF TypeOK, Claim, Go, WorkerPc
<1>11. CASE Ending(w)
  BY <1>11 DEF TypeOK, Ending, Go, WorkerPc
<1>12. CASE Result(w)
  BY <1>12 DEF TypeOK, Result, Go, WorkerPc
<1> QED
  BY <1>1, <1>2, <1>3, <1>4, <1>5, <1>6, <1>7, <1>8, <1>9, <1>10, <1>11, <1>12, <1>13 DEF Work

LEMMA MasterTypes ==
    ASSUME TypeOK, Master
    PROVE  TypeOK'
<1> USE DEF flags, counts, lists, solver, slaves, master, main
<1>1. CASE MasterStart
  BY <1>1 DEF TypeOK, MasterStart, MasterGo, MasterPc
<1>2. CASE Setup
  <2>1. {} \in Cube
    BY DEF Cube
  <2> QED
    BY <1>2, <2>1, CreateType, WorkerType DEF TypeOK, Setup, MasterGo, MasterPc
<1>3. CASE LaunchPortfolio
  BY <1>3, ReleaseType, WorkerType DEF TypeOK, LaunchPortfolio, MasterGo, MasterPc
<1>4. CASE LaunchRoot
  BY <1>4, ReleaseType DEF TypeOK, LaunchRoot, MasterGo, MasterPc
<1>5. CASE RoundTest
  BY <1>5 DEF TypeOK, RoundTest, MasterGo, MasterPc
<1>6. CASE Interrupt
  BY <1>6 DEF TypeOK, Interrupt, MasterGo, MasterPc
<1>7. CASE Wait
  BY <1>7 DEF TypeOK, Wait, MasterGo, MasterPc
<1>8. CASE Interrupted
  BY <1>8 DEF TypeOK, Interrupted, MasterGo, MasterPc
<1>9. CASE Erase
  <2>1. over[at] \in Worker
    BY <1>9, ElementOfSeq DEF TypeOK, Erase
  <2>2. workers' \in Seq(Worker)
    BY <1>9, <2>1, MembersWithout DEF TypeOK, Erase
  <2> QED
    BY <1>9, <2>2 DEF TypeOK, Erase, MasterGo, MasterPc
<1>10. CASE Delete
  BY <1>10 DEF TypeOK, Delete, MasterGo, MasterPc
<1>11. CASE Clear
  <2>1. targets' \in Seq(Worker) /\ over' \in Seq(Worker)
    BY <1>11, ActiveType, MembersSubSeq DEF TypeOK, Clear
  <2> QED
    BY <1>11, <2>1 DEF TypeOK, Clear, MasterGo, MasterPc
<1>12. CASE Divide
  <2>1. PICK l \in Literal : Create(targets[at], {Negation(l)})
    BY <1>12 DEF Divide
  <2>2. {Negation(l)} \in Cube
    BY NegationType DEF Cube
  <2>3. targets[at] \in Worker
    BY <1>12, ElementOfSeq DEF TypeOK, Divide
  <2> QED
    BY <1>12, <2>1, <2>2, <2>3, CreateType DEF TypeOK, Divide, MasterGo, MasterPc
<1>13. CASE DivideCount
  BY <1>13 DEF TypeOK, DivideCount, MasterGo, MasterPc
<1>14. CASE Sort
  <2>1. workers' \in Seq(Worker)
    BY <1>14, MembersOrders DEF TypeOK, Sort
  <2>2. targets' \in Seq(Worker)
    BY <1>14 DEF Sort
  <2> QED
    BY <1>14, <2>1, <2>2 DEF TypeOK, Sort, MasterGo, MasterPc
<1>15. CASE Launch
  <2>1. at \in 1 .. Len(workers)
    BY <1>15, ActiveType DEF TypeOK, Launch
  <2>2. workers[at] \in Worker
    BY <2>1, ElementOfSeq DEF TypeOK
  <2> QED
    BY <1>15, <2>2, ReleaseType DEF TypeOK, Launch
<1>16. CASE SetNext
  BY <1>16 DEF TypeOK, SetNext, MasterGo, MasterPc
<1>17. CASE Rest
  BY <1>17 DEF TypeOK, Rest, MasterGo, MasterPc
<1> QED
  BY <1>1, <1>2, <1>3, <1>4, <1>5, <1>6, <1>7, <1>8, <1>9, <1>10, <1>11, <1>12, <1>13,
     <1>14, <1>15, <1>16, <1>17 DEF Master

LEMMA MainTypes ==
    ASSUME TypeOK, Main \/ Timeout
    PROVE  TypeOK'
<1> USE DEF flags, counts, lists, solver, slaves, master, main
<1>1. CASE Solve
  <2>1. {globalEnding', strategyEnding', waitJob', crashed'} \subseteq BOOLEAN
    BY <1>1 DEF TypeOK, Solve
  <2> QED
    BY <1>1, <2>1 DEF TypeOK, Solve
<1>2. CASE SignalStart
  BY <1>2 DEF TypeOK, SignalStart, MasterPc
<1>3. CASE Poll
  BY <1>3 DEF TypeOK, Poll
<1>4. CASE TimeoutInterrupt
  BY <1>4 DEF TypeOK, TimeoutInterrupt
<1>5. CASE PrintResult
  BY <1>5 DEF TypeOK, PrintResult
<1>6. CASE Timeout
  BY <1>6 DEF TypeOK, Timeout
<1> QED
  BY <1>1, <1>2, <1>3, <1>4, <1>5, <1>6 DEF Main

LEMMA TypeNext ==
    ASSUME TypeOK, [Next]_vars
    PROVE  TypeOK'
<1>1. ASSUME NEW w \in 0 .. created, Work(w) PROVE TypeOK'
  <2>1. w \in Worker
    BY WorkerType DEF TypeOK
  <2> QED
    BY <1>1, <2>1, WorkTypes
<1>2. CASE UNCHANGED vars
  BY <1>2 DEF TypeOK, vars, flags, counts, lists, solver, slaves, master, main
<1> QED
  BY <1>1, <1>2, MasterTypes, MainTypes DEF Next

\* The types of the state hold in every state, for all values of the constants.
THEOREM TypeCorrect == Spec => []TypeOK
<1>1. Init => TypeOK
  BY TypeInit
<1>2. TypeOK /\ [Next]_vars => TypeOK'
  BY TypeNext
<1> QED
  BY <1>1, <1>2, PTL DEF Spec

-----------------------------------------------------------------------------
\* The workers that exist.

LEMMA ExistingWork ==
    ASSUME TypeOK, Existing, NEW w \in 0 .. created, Work(w)
    PROVE  Existing'
<1> USE DEF flags, counts, lists, solver, slaves, master, main
<1>1. w \in Worker /\ pc \in [Worker -> WorkerPc]
  BY WorkerType DEF TypeOK
<1>2. CASE Top(w)
  <2>1. PICK p \in {"done", "wait", "enter"} : pc' = [pc EXCEPT ![w] = p]
    BY <1>2 DEF Top, Go
  <2>2. w \in Nat /\ created \in Nat /\ w <= created
    BY WorkerType DEF TypeOK
  <2>3. ASSUME NEW v \in Worker
        PROVE  (v > created => pc'[v] = "top") /\ (pc'[v] \in {"count", "left"} => v # 0)
    BY <1>1, <2>1, <2>2, WorkerType DEF Existing
  <2> QED
    BY <1>2, <2>3 DEF Existing, Top
<1>8. CASE Enter(w)
  BY <1>1, <1>8 DEF Existing, Enter, Go
<1>9. CASE Solved(w)
  BY <1>1, <1>9 DEF Existing, Solved, Go
<1>10. CASE NextTest(w)
  BY <1>1, <1>10 DEF Existing, NextTest, Go
<1>7. CASE Join(w)
  BY <1>1, <1>7 DEF Existing, Join, Go
<1>3. CASE Claim(w) \/ Ending(w) \/ Result(w) \/ PickNothing(w) \/ Advance(w)
  BY <1>1, <1>3 DEF Existing, Claim, Ending, Result, PickNothing, Advance, Go
<1>4. CASE Count(w)
  <2>1. w \in 1 .. created
    BY <1>1, <1>4 DEF Existing, Count, Go
  <2> QED
    BY <1>1, <1>4, <2>1 DEF Existing, Count, Go
<1>5. CASE Left(w)
  <2>1. w \in 1 .. created
    BY <1>1, <1>5 DEF Existing, Left, Go
  <2>2. over' = over \/ over' = Append(over, w)
    BY <1>5 DEF Left
  <2>3. Members(Append(over, w)) = Members(over) \cup {w}
    BY <1>1, MembersAppend DEF TypeOK
  <2>4. Members(over') \subseteq 1 .. created
    BY <2>1, <2>2, <2>3 DEF Existing
  <2>5. /\ \A v \in Worker : v > created => pc'[v] = "top"
        /\ \A v \in Worker : pc'[v] \in {"count", "left"} => v # 0
    BY <1>1, <1>5, <2>1 DEF Existing, Left, Go
  <2> QED
    BY <1>5, <2>4, <2>5 DEF Existing, Left
<1>6. CASE Pick(w)
  <2>1. next + 1 \in 1 .. Len(workers)
    BY <1>6 DEF TypeOK, Pick
  <2>2. workers[next + 1] \in Members(workers) /\ workers[next + 1] \in Worker
    BY <2>1, MembersOf DEF TypeOK
  <2>3. ASSUME NEW x \in Worker
        PROVE  /\ x > created => pc'[x] = "top"
               /\ pc'[x] \in {"count", "left"} => x # 0
    <3>1. x > created => x # w /\ x # workers[next + 1]
      BY <2>2, WorkerType DEF Existing, TypeOK
    <3>2. pc'[x] = pc[x] \/ x = w \/ x = workers[next + 1]
      BY <1>1, <1>6, <2>2 DEF Pick
    <3>3. pc'[x] \in {"count", "left"} => pc'[x] = pc[x]
      BY <1>1, <1>6, <2>2 DEF Pick
    <3> QED
      BY <3>1, <3>2, <3>3 DEF Existing
  <2> QED
    BY <1>6, <2>3 DEF Existing, Pick
<1> QED
  BY <1>2, <1>3, <1>4, <1>5, <1>6, <1>7, <1>8, <1>9, <1>10 DEF Work

LEMMA ExistingCreate ==
    ASSUME TypeOK, Existing, created < MaxWorkers, NEW w \in 0 .. created, NEW c,
           Create(w, c), UNCHANGED <<over, targets, reported, pc>>
    PROVE  Existing'
<1>1. created + 1 \in Worker /\ created \in Nat
  BY WorkerType DEF TypeOK
<1>2. Members(workers') = Members(workers) \cup {created + 1}
  BY <1>1, MembersAppend DEF TypeOK, Create
<1>3. created' = created + 1
  BY DEF Create
<1>4. 1 .. created \subseteq 1 .. created'
  BY <1>1, <1>3
<1>5. \A v \in Worker : v > created' => v > created
  BY <1>1, <1>3, WorkerType
<1>6. Members(workers') \subseteq 1 .. created'
  BY <1>1, <1>2, <1>3, <1>4 DEF Existing
<1> QED
  BY <1>4, <1>5, <1>6 DEF Existing

\* The target of a division is a worker.
LEMMA TargetExists ==
    ASSUME TypeOK, Existing, Divide
    PROVE  targets[at] \in 1 .. created /\ targets[at] \in Worker /\ created > 0
<1>1. at \in 1 .. Len(targets)
  BY DEF TypeOK, Divide
<1>2. targets[at] \in Members(targets) /\ targets[at] \in Worker
  BY <1>1, MembersOf DEF TypeOK
<1> QED
  BY <1>2, WorkerType DEF Existing, TypeOK

LEMMA ReleaseExisting ==
    ASSUME TypeOK, Existing, NEW v \in 0 .. created, Release(v),
           UNCHANGED <<over, targets, reported, workers, created>>
    PROVE  Existing'
<1>1. v \in Worker /\ pc \in [Worker -> WorkerPc]
  BY WorkerType DEF TypeOK
<1>2. \A x \in Worker : pc'[x] = pc[x] \/ (x = v /\ pc'[x] = "enter")
  BY <1>1 DEF Release
<1>3. \A x \in Worker : x > created => x # v
  BY WorkerType DEF TypeOK
<1> QED
  BY <1>2, <1>3 DEF Existing

LEMMA ExistingMaster ==
    ASSUME TypeOK, Existing, Master
    PROVE  Existing'
<1> USE DEF flags, counts, lists, solver, slaves, master, main
<1>1. CASE MasterStart \/ RoundTest \/ Interrupt \/ Wait \/ Interrupted
  BY <1>1 DEF Existing, MasterStart, RoundTest, Interrupt, Wait, Interrupted
<1>2. CASE Delete \/ DivideCount \/ SetNext \/ Rest
  BY <1>2 DEF Existing, Delete, DivideCount, SetNext, Rest
<1>3. CASE Setup
  <2>1. 0 \in 0 .. created
    BY WorkerType DEF TypeOK
  <2> QED
    BY <1>3, <2>1, ExistingCreate DEF Setup
<1>4. CASE Divide
  <2>1. PICK l \in Literal : Create(targets[at], {Negation(l)})
    BY <1>4 DEF Divide
  <2>2. targets[at] \in 0 .. created
    BY <1>4, TargetExists, WorkerType DEF TypeOK
  <2> QED
    BY <1>4, <2>1, <2>2, ExistingCreate DEF Divide
<1>5. CASE LaunchPortfolio
  <2>1. 0 \in 0 .. created
    BY WorkerType DEF TypeOK
  <2> QED
    BY <1>5, <2>1, ReleaseExisting DEF LaunchPortfolio
<1>6. CASE LaunchRoot
  <2>1. created \in 0 .. created
    BY WorkerType DEF TypeOK
  <2> QED
    BY <1>6, <2>1, ReleaseExisting DEF LaunchRoot
<1>7. CASE Launch
  <2>1. at \in 1 .. Len(workers)
    BY <1>7, ActiveType DEF TypeOK, Launch
  <2>2. workers[at] \in Members(workers)
    BY <2>1, MembersOf DEF TypeOK
  <2>3. workers[at] \in 0 .. created
    BY <2>2, WorkerType DEF Existing, TypeOK
  <2> QED
    BY <1>7, <2>3, ReleaseExisting DEF Launch
<1>8. CASE Erase
  <2>1. over[at] \in Worker
    BY <1>8, ElementOfSeq DEF TypeOK, Erase
  <2>2. Members(workers') \subseteq Members(workers)
    <3>1. workers \in Seq(Worker) /\ workers' = Without(workers, over[at])
      BY <1>8 DEF TypeOK, Erase
    <3>2. Members(Without(workers, over[at])) \subseteq Members(workers)
      BY <2>1, <3>1, MembersWithout
    <3> QED
      BY <3>1, <3>2
  <2>3. Members(workers)' \subseteq Members(workers)
    BY <2>2 DEF Members
  <2>4. UNCHANGED <<over, targets, reported, created, pc>>
    BY <1>8 DEF Erase
  <2>5. Members(over)' = Members(over) /\ Members(targets)' = Members(targets)
    BY <2>4 DEF Members
  <2> QED
    BY <2>3, <2>4, <2>5 DEF Existing
<1>9. CASE Clear
  <2>1. Members(targets') \subseteq Members(workers) /\ Members(over') = {}
    BY <1>9, ActiveType, MembersSubSeq DEF TypeOK, Clear, Members
  <2> QED
    BY <1>9, <2>1 DEF Existing, Clear
<1>10. CASE Sort
  <2>1. workers' = workers \/ workers' \in Orders(workers)
    BY <1>10 DEF Sort
  <2>2. Members(workers') = Members(workers)
    BY <2>1, MembersOrders DEF TypeOK
  <2>3. Members(targets') = {}
    BY <1>10 DEF Sort, Members
  <2> QED
    BY <1>10, <2>2, <2>3 DEF Existing, Sort
<1> QED
  BY <1>1, <1>2, <1>3, <1>4, <1>5, <1>6, <1>7, <1>8, <1>9, <1>10 DEF Master

LEMMA ExistingNext ==
    ASSUME TypeOK, Existing, [Next]_vars
    PROVE  Existing'
<1>1. CASE Main \/ Timeout \/ UNCHANGED vars
  BY <1>1 DEF Existing, Main, Timeout, Solve, SignalStart, Poll, TimeoutInterrupt, PrintResult,
     vars, flags, counts, lists, slaves, master
<1> QED
  BY <1>1, ExistingWork, ExistingMaster DEF Next

LEMMA ExistingInit == Init => Existing
BY WorkerType DEF Init, Existing, Members

-----------------------------------------------------------------------------
\* Sub-problems shrink, and those that are refuted stay so.

\* The sub-problem of a new worker n, with the units c.
LEMMA RegionCreated ==
    ASSUME TypeOK, created < MaxWorkers, NEW w \in 0 .. created, NEW c, Create(w, c),
           NEW n, n = created + 1
    PROVE  Region(n)' = Within(cube[w] \cup c)
<1>1. n \in Worker /\ w \in Worker
  BY WorkerType DEF TypeOK
<1>2. cube'[n] = cube[w] /\ toAdd'[n] = c
  BY <1>1 DEF TypeOK, Create
<1>3. Region(n)' = Within(cube'[n] \cup toAdd'[n])
  BY DEF Region, Within
<1> QED
  BY <1>2, <1>3

\* What is left of the sub-problem that is divided.
LEMMA RegionTarget ==
    ASSUME TypeOK, created < MaxWorkers, NEW w \in 0 .. created, NEW c, Create(w, c)
    PROVE  Region(w)' = Within(cube[w] \cup (toAdd[w] \cup {Negation(l) : l \in c}))
<1>1. w \in Worker /\ created \in Nat
  BY WorkerType DEF TypeOK
<1>2. w # created + 1
  BY <1>1
<1>3. cube'[w] = cube[w] /\ toAdd'[w] = toAdd[w] \cup {Negation(l) : l \in c}
  BY <1>1, <1>2 DEF TypeOK, Create
<1>4. Region(w)' = Within(cube'[w] \cup toAdd'[w])
  BY DEF Region, Within
<1> QED
  BY <1>3, <1>4

\* What a new worker n leaves of the sub-problems of the others.
LEMMA RegionCreate ==
    ASSUME TypeOK, created < MaxWorkers, NEW w \in 0 .. created, NEW c, Create(w, c),
           NEW v \in Worker, v # created + 1
    PROVE  /\ Region(v)' \subseteq Region(v)
           /\ v # w => Region(v)' = Region(v)
<1>1. w \in Worker
  BY WorkerType DEF TypeOK
<1>2. cube'[v] = cube[v]
  BY <1>1 DEF TypeOK, Create
<1>3. /\ v # w => toAdd'[v] = toAdd[v]
      /\ toAdd[v] \subseteq toAdd'[v]
  BY <1>1 DEF Create
<1>4. Region(v)' = Within(cube'[v] \cup toAdd'[v])
  BY DEF Region, Within
<1>5. cube[v] \cup toAdd[v] \subseteq cube'[v] \cup toAdd'[v]
  BY <1>2, <1>3
<1>6. Region(v)' \subseteq Region(v)
  BY <1>4, <1>5, WithinShrinks DEF Region
<1>7. v # w => Region(v)' = Region(v)
  BY <1>2, <1>3, <1>4 DEF Region
<1> QED
  BY <1>6, <1>7

\* Loading clausesToAdd does not change a sub-problem.
LEMMA RegionEnter ==
    ASSUME TypeOK, NEW w \in Worker, Enter(w), NEW v \in Worker
    PROVE  Region(v)' = Region(v)
<1>1. cube'[v] \cup toAdd'[v] = cube[v] \cup toAdd[v]
  BY DEF TypeOK, Enter
<1>2. Region(v)' = Within(cube'[v] \cup toAdd'[v])
  BY DEF Region, Within
<1> QED
  BY <1>1, <1>2 DEF Region

\* The steps that neither create a worker nor load its clauses.
Still == UNCHANGED <<cube, toAdd, models, created>>

LEMMA RegionStill ==
    ASSUME Still, NEW v
    PROVE  Region(v)' = Region(v)
BY DEF Still, Region, Within

LEMMA WorkStill ==
    ASSUME NEW w, Work(w), ~Enter(w)
    PROVE  Still
BY DEF Work, Top, Solved, Join, Count, Left, NextTest, Pick, PickNothing, Advance, Claim, Ending,
   Result, Still, lists, slaves, solver

LEMMA MasterStill ==
    ASSUME Master, ~Setup, ~Divide
    PROVE  Still
<1> USE DEF lists, slaves, solver, Still
<1>1. CASE MasterStart \/ RoundTest \/ Interrupt \/ Wait \/ Interrupted
  BY <1>1 DEF MasterStart, RoundTest, Interrupt, Wait, Interrupted
<1>2. CASE Delete \/ DivideCount \/ SetNext \/ Rest \/ Erase \/ Clear \/ Sort
  BY <1>2 DEF Delete, DivideCount, SetNext, Rest, Erase, Clear, Sort
<1>3. CASE LaunchPortfolio \/ LaunchRoot \/ Launch
  BY <1>3 DEF LaunchPortfolio, LaunchRoot, Launch
<1> QED
  BY <1>1, <1>2, <1>3 DEF Master

LEMMA MainStill ==
    ASSUME Main \/ Timeout \/ UNCHANGED vars
    PROVE  Still
BY DEF Main, Timeout, Solve, SignalStart, Poll, TimeoutInterrupt, PrintResult, Still, vars, lists,
   slaves, solver

\* A sub-problem of a worker that exists never grows.
LEMMA RegionNext ==
    ASSUME TypeOK, Existing, [Next]_vars, NEW v \in 0 .. created
    PROVE  Region(v)' \subseteq Region(v) /\ models' = models
<1>1. v \in Worker /\ created \in Nat /\ v # created + 1
  <2>1. created \in Worker
    BY DEF TypeOK
  <2>2. created \in Nat /\ v \in Worker
    BY <2>1, WorkerType
  <2> QED
    BY <2>2
<1>2. CASE Still
  BY <1>2, RegionStill DEF Still
<1>3. ASSUME NEW w \in Worker, Enter(w) PROVE Region(v)' = Region(v) /\ models' = models
  BY <1>1, <1>3, RegionEnter DEF Enter
<1>4. CASE Setup
  <2>1. 0 \in 0 .. created
    BY <1>1
  <2> QED
    BY <1>1, <1>4, <2>1, RegionCreate DEF Setup
<1>5. CASE Divide
  <2>1. PICK l \in Literal : Create(targets[at], {Negation(l)})
    BY <1>5 DEF Divide
  <2>2. targets[at] \in 0 .. created
    BY <1>1, <1>5, TargetExists
  <2> QED
    BY <1>1, <1>5, <2>1, <2>2, RegionCreate DEF Divide
<1>6. ASSUME NEW w \in 0 .. created, Work(w)
      PROVE  Region(v)' \subseteq Region(v) /\ models' = models
  <2>1. w \in Worker
    BY WorkerType DEF TypeOK
  <2> QED
    BY <1>2, <1>3, <1>6, <2>1, WorkStill
<1> QED
  BY <1>2, <1>4, <1>5, <1>6, MasterStill, MainStill DEF Next

-----------------------------------------------------------------------------
\* What has been refuted has no model, and no part of the search is lost.

\* A step refutes sub-problems that have no model, of workers that exist.
LEMMA RefutedWork ==
    ASSUME TypeOK, Existing, Sound, NEW w \in 0 .. created, Work(w), NEW v \in Worker,
           Refuted(v)'
    PROVE  Refuted(v) \/ models \cap Region(v) = {}
<1> USE DEF lists, slaves, counts
<1>1. w \in Worker /\ pc \in [Worker -> WorkerPc] /\ wRes \in [Worker -> Results]
  BY WorkerType DEF TypeOK
<1>2. CASE Top(w)
  <2>1. PICK p \in {"done", "wait", "enter"} : pc' = [pc EXCEPT ![w] = p]
    BY <1>2 DEF Top, Go
  <2>2. /\ v # w => wRes'[v] = wRes[v]
        /\ over' = over /\ reported' = reported
    BY <1>1, <1>2 DEF Top
  <2> QED
    BY <1>1, <2>1, <2>2 DEF Refuted, Members
<1>3. CASE Enter(w)
  BY <1>1, <1>3 DEF Enter, Go, Refuted, Members
<1>4. CASE Solved(w)
  <2>1. /\ over' = over /\ reported' = reported
        /\ v # w => pc'[v] = pc[v] /\ wRes'[v] = wRes[v]
        /\ v = w => pc'[v] = "join"
    BY <1>1, <1>4 DEF Solved, Go
  <2>2. v = w /\ wRes'[v] = "UNSAT" => models \cap Within(cube[w]) = {}
    BY <1>1, <1>4 DEF Solved
  <2>3. Region(w) \subseteq Within(cube[w])
    BY WithinShrinks DEF Region
  <2> QED
    BY <2>1, <2>2, <2>3 DEF Refuted, Members
<1>5. CASE Join(w)
  <2>1. /\ over' = over /\ reported' = reported /\ wRes' = wRes
        /\ v # w => pc'[v] = pc[v]
        /\ v = w /\ pc'[v] \in {"count", "left"} => pc[w] = "join" /\ wRes[w] = "UNSAT"
        /\ v = w => pc'[v] # "join"
    BY <1>1, <1>5 DEF Join, Go
  <2> QED
    BY <2>1 DEF Refuted, Members
<1>6. CASE Count(w)
  <2>1. /\ over' = over /\ reported' = reported \cup {w} /\ wRes' = wRes
        /\ v # w => pc'[v] = pc[v]
        /\ pc[w] = "count"
    BY <1>1, <1>6 DEF Count, Go
  <2> QED
    BY <2>1 DEF Refuted, Members
<1>7. CASE Left(w)
  <2>1. /\ over' = over \/ over' = Append(over, w)
        /\ reported' = reported /\ wRes' = wRes
        /\ v # w => pc'[v] = pc[v]
        /\ pc[w] = "left"
    BY <1>1, <1>7 DEF Left, Go
  <2>2. Members(Append(over, w)) = Members(over) \cup {w}
    BY <1>1, MembersAppend DEF TypeOK
  <2>3. Members(over') \subseteq Members(over) \cup {w}
    BY <2>1, <2>2
  <2>4. Members(over)' = Members(over')
    BY DEF Members
  <2> QED
    BY <2>1, <2>3, <2>4 DEF Refuted
<1>8. CASE NextTest(w)
  <2>1. /\ over' = over /\ reported' = reported /\ wRes' = wRes
        /\ v # w => pc'[v] = pc[v]
        /\ v = w => pc'[v] \notin {"count", "left", "join"}
    BY <1>1, <1>8 DEF NextTest, Go
  <2> QED
    BY <2>1 DEF Refuted, Members
<1>9. CASE Pick(w)
  <2>1. next + 1 \in 1 .. Len(workers)
    BY <1>9 DEF TypeOK, Pick
  <2>2. workers[next + 1] \in Worker
    BY <2>1, ElementOfSeq DEF TypeOK
  <2>3. pc'[v] \in {"count", "left", "join"} => pc'[v] = pc[v]
    BY <1>1, <1>9, <2>2 DEF Pick
  <2>4. over' = over /\ reported' = reported /\ wRes' = wRes
    BY <1>9 DEF Pick
  <2> QED
    BY <2>3, <2>4 DEF Refuted, Members
<1>10. CASE Claim(w) \/ Ending(w) \/ Result(w) \/ PickNothing(w) \/ Advance(w)
  <2>1. /\ over' = over /\ reported' = reported /\ wRes' = wRes
        /\ pc'[v] \in {"count", "left", "join"} => pc'[v] = pc[v]
    BY <1>1, <1>10 DEF Claim, Ending, Result, PickNothing, Advance, Go
  <2> QED
    BY <2>1 DEF Refuted, Members
<1> QED
  BY <1>2, <1>3, <1>4, <1>5, <1>6, <1>7, <1>8, <1>9, <1>10 DEF Work

LEMMA RefutedMaster ==
    ASSUME TypeOK, Master, NEW v \in Worker, Refuted(v)'
    PROVE  Refuted(v)
<1> USE DEF lists, slaves, counts
<1>1. CASE MasterStart \/ RoundTest \/ Interrupt \/ Wait \/ Interrupted
  BY <1>1 DEF MasterStart, RoundTest, Interrupt, Wait, Interrupted, Refuted, Members
<1>2. CASE Delete \/ DivideCount \/ SetNext \/ Rest \/ Erase
  BY <1>2 DEF Delete, DivideCount, SetNext, Rest, Erase, Refuted, Members
<1>3. CASE Sort \/ Setup \/ Divide
  BY <1>3 DEF Sort, Setup, Divide, Refuted, Members
<1>4. CASE Clear
  <2>1. Members(over)' = {}
    BY <1>4 DEF Clear, Members
  <2> QED
    BY <1>4, <2>1 DEF Clear, Refuted
<1>5. ASSUME NEW x, Release(x), UNCHANGED <<over, reported, wRes>>
      PROVE  Refuted(v)
  <2>1. pc'[v] \in {"count", "left", "join"} => pc'[v] = pc[v]
    BY <1>5 DEF Release, TypeOK
  <2> QED
    BY <1>5, <2>1 DEF Refuted, Members
<1>6. CASE LaunchPortfolio \/ LaunchRoot \/ Launch
  BY <1>5, <1>6 DEF LaunchPortfolio, LaunchRoot, Launch
<1> QED
  BY <1>1, <1>2, <1>3, <1>4, <1>6 DEF Master

LEMMA RefutedMain ==
    ASSUME Main \/ Timeout \/ UNCHANGED vars, NEW v \in Worker, Refuted(v)'
    PROVE  Refuted(v)
BY DEF Main, Timeout, Solve, SignalStart, Poll, TimeoutInterrupt, PrintResult, Refuted, Members,
   vars, lists, slaves, counts

\* Only workers that exist have been refuted.
LEMMA RefutedExists ==
    ASSUME TypeOK, Existing, NEW v \in Worker, Refuted(v)
    PROVE  v \in 0 .. created
<1>1. v \in Nat /\ created \in Nat
  BY WorkerType DEF TypeOK
<1>2. CASE v \in 1 .. created
  BY <1>1, <1>2
<1>3. CASE pc[v] \in {"count", "left", "join"}
  <2>1. ~(v > created)
    BY <1>3 DEF Existing
  <2> QED
    BY <1>1, <2>1
<1> QED
  BY <1>2, <1>3 DEF Existing, Refuted

LEMMA SoundNext ==
    ASSUME TypeOK, Existing, Sound, [Next]_vars
    PROVE  Sound'
<1> SUFFICES ASSUME NEW v \in Worker, Refuted(v)'
             PROVE  models' \cap Region(v)' = {}
  BY DEF Sound
<1>1. Refuted(v) \/ (models \cap Region(v) = {} /\ \E w \in 0 .. created : Work(w))
  BY RefutedWork, RefutedMaster, RefutedMain DEF Next
<1>2. models \cap Region(v) = {}
  BY <1>1 DEF Sound
<1>3. CASE v \in 0 .. created
  BY <1>2, <1>3, RegionNext
<1>4. CASE v \notin 0 .. created
  <2>1. ~Refuted(v)
    BY <1>4, RefutedExists
  <2>2. PICK w \in 0 .. created : Work(w)
    BY <1>1, <2>1
  <2>3. w \in Worker
    BY WorkerType DEF TypeOK
  <2>4. Region(v)' = Region(v) /\ models' = models
    BY <2>2, <2>3, RegionEnter, WorkStill, RegionStill DEF Enter, Still
  <2> QED
    BY <1>2, <2>4
<1> QED
  BY <1>3, <1>4

LEMMA RootNext ==
    ASSUME TypeOK, Existing, Root, [Next]_vars
    PROVE  Root'
<1>1. created \in Nat /\ 0 \in 0 .. created /\ 0 \in Worker
  <2>1. created \in Worker
    BY DEF TypeOK
  <2> QED
    BY <2>1, WorkerType
<1>2. CASE Still
  BY <1>2 DEF Still, Root
<1>3. ASSUME NEW w, NEW c, Create(w, c), w # 0 \/ c = {} PROVE Root'
  <2>1. cube'[0] = cube[0]
    BY <1>1, <1>3 DEF Create, TypeOK
  <2>2. toAdd'[0] = toAdd[0] \/ (w = 0 /\ toAdd'[0] = toAdd[0] \cup {Negation(l) : l \in c})
    BY <1>1, <1>3 DEF Create
  <2>3. toAdd'[0] = toAdd[0]
    BY <1>3, <2>2
  <2> QED
    BY <2>1, <2>3 DEF Root
<1>4. CASE Setup
  BY <1>3, <1>4 DEF Setup
<1>5. CASE Divide
  <2>1. targets[at] # 0
    BY <1>1, <1>5, TargetExists
  <2> QED
    BY <1>3, <1>5, <2>1 DEF Divide
<1>6. ASSUME NEW w \in 0 .. created, Work(w) PROVE Root'
  <2>1. CASE Enter(w)
    BY <1>1, <2>1 DEF Enter, TypeOK, Root
  <2> QED
    BY <1>2, <1>6, <2>1, WorkStill
<1> QED
  BY <1>2, <1>4, <1>5, <1>6, MasterStill, MainStill DEF Next

\* The workers whose sub-problems the master still has keep each model.
LEMMA CoveredStill ==
    ASSUME Covered, Still, Members(workers) \subseteq Members(workers)'
    PROVE  Covered'
<1> SUFFICES ASSUME created' > 0, NEW m \in models'
             PROVE  \E v \in Members(workers)' : m \in Region(v)'
  BY DEF Covered
<1>1. PICK v \in Members(workers) : m \in Region(v)
  BY DEF Covered, Still
<1> QED
  BY <1>1, RegionStill

LEMMA WorkKeeps ==
    ASSUME NEW w, Work(w)
    PROVE  UNCHANGED workers
BY DEF Work, Top, Enter, Solved, Join, Count, Left, NextTest, Pick, PickNothing, Advance, Claim,
   Ending, Result, lists

LEMMA CoveredWork ==
    ASSUME TypeOK, Existing, Covered, NEW w \in 0 .. created, Work(w)
    PROVE  Covered'
<1>1. Members(workers)' = Members(workers) /\ w \in Worker
  BY WorkKeeps, WorkerType DEF Members, TypeOK
<1>2. CASE Enter(w)
  <2> SUFFICES ASSUME created' > 0, NEW m \in models'
               PROVE  \E v \in Members(workers)' : m \in Region(v)'
    BY DEF Covered
  <2>1. created' = created /\ models' = models
    BY <1>2 DEF Enter, lists
  <2>2. PICK v \in Members(workers) : m \in Region(v)
    BY <2>1 DEF Covered
  <2>3. v \in Worker
    BY MembersOf DEF TypeOK
  <2> QED
    BY <1>1, <1>2, <2>2, <2>3, RegionEnter
<1> QED
  BY <1>1, <1>2, WorkStill, CoveredStill

\* The sub-problem a worker is taken out for has no model left.
LEMMA CoveredErase ==
    ASSUME TypeOK, Sound, Covered, Erase
    PROVE  Covered'
<1> SUFFICES ASSUME created' > 0, NEW m \in models'
             PROVE  \E v \in Members(workers)' : m \in Region(v)'
  BY DEF Covered
<1>1. Still
  BY DEF Erase, Still, solver
<1>2. PICK v \in Members(workers) : m \in Region(v)
  BY <1>1 DEF Covered, Still
<1>3. at \in 1 .. Len(over)
  BY DEF TypeOK, Erase
<1>4. over[at] \in Members(over) /\ over[at] \in Worker
  BY <1>3, MembersOf DEF TypeOK
<1>5. models \cap Region(over[at]) = {}
  BY <1>4 DEF Sound, Refuted
<1>6. v # over[at]
  BY <1>1, <1>2, <1>5 DEF Still
<1>7. Members(workers) \ {over[at]} \subseteq Members(workers)'
  <2>1. Members(workers)' = Members(Without(workers, over[at]))
    BY DEF Erase, Members
  <2> QED
    BY <1>4, <2>1, MembersWithout DEF TypeOK
<1> QED
  BY <1>1, <1>2, <1>6, <1>7, RegionStill

LEMMA CoveredSetup ==
    ASSUME TypeOK, Existing, Root, Setup
    PROVE  Covered'
<1> SUFFICES ASSUME NEW m \in models'
             PROVE  \E v \in Members(workers)' : m \in Region(v)'
  BY DEF Covered
<1>1. created \in Nat /\ 0 \in 0 .. created /\ 0 \in Worker /\ created + 1 \in Worker
  <2>1. created \in Worker /\ created < MaxWorkers
    BY DEF TypeOK, Setup
  <2> QED
    BY <2>1, WorkerType
<1>2. PICK n \in Worker : n # 0 /\ n = created + 1
  BY <1>1
<1>3. Region(n)' = Within(cube[0] \cup {})
  BY <1>1, <1>2, RegionCreated DEF Setup
<1>4. m \in Region(n)'
  <2>1. m \in Assignment
    BY FormulaAssumption DEF Setup, TypeOK
  <2> QED
    BY <1>3, <2>1 DEF Root, Within
<1>5. n \in Members(workers)'
  <2>1. Members(workers)' = Members(Append(workers, n))
    BY <1>2 DEF Setup, Create, Members
  <2> QED
    BY <1>1, <1>2, <2>1, MembersAppend DEF TypeOK
<1> QED
  BY <1>4, <1>5

LEMMA CoveredDivide ==
    ASSUME TypeOK, Existing, Covered, Divide
    PROVE  Covered'
<1> SUFFICES ASSUME NEW m \in models'
             PROVE  \E v \in Members(workers)' : m \in Region(v)'
  BY DEF Covered
<1>1. created \in Nat /\ created + 1 \in Worker /\ created < MaxWorkers
  <2>1. created \in Worker /\ created < MaxWorkers
    BY DEF TypeOK, Divide
  <2> QED
    BY <2>1, WorkerType
<1>2. PICK n \in Worker : n = created + 1
  BY <1>1
<1>3. PICK t \in Worker : t = targets[at] /\ t \in 0 .. created /\ t # n /\ created > 0
  BY <1>1, <1>2, TargetExists
<1>4. PICK l \in Literal : Create(t, {Negation(l)})
  BY <1>3 DEF Divide
<1>5. Members(workers)' = Members(workers) \cup {n}
  <2>1. Members(workers)' = Members(Append(workers, n))
    BY <1>2, <1>4 DEF Create, Members
  <2> QED
    BY <1>2, <2>1, MembersAppend DEF TypeOK
<1>6. PICK v \in Members(workers) : m \in Region(v)
  BY <1>3 DEF Covered, Divide
<1>7. v \in 1 .. created /\ v \in Worker /\ v # n
  <2>1. v \in 1 .. created /\ v \in Worker
    BY MembersOf DEF Existing, TypeOK
  <2> QED
    BY <1>1, <1>2, <2>1
<1>8. CASE v # t
  <2>1. Region(v)' = Region(v)
    BY <1>1, <1>2, <1>3, <1>4, <1>7, <1>8, RegionCreate
  <2> QED
    BY <1>5, <1>6, <2>1
<1>9. CASE v = t
  <2>1. /\ Region(t)' = Within(cube[t] \cup (toAdd[t] \cup {Negation(k) : k \in {Negation(l)}}))
        /\ Region(n)' = Within(cube[t] \cup {Negation(l)})
    BY <1>1, <1>2, <1>3, <1>4, RegionCreated, RegionTarget
  <2>2. {Negation(k) : k \in {Negation(l)}} = {l}
    BY NegationType
  <2>3. \/ m \in Within((cube[t] \cup toAdd[t]) \cup {l})
        \/ m \in Within((cube[t] \cup toAdd[t]) \cup {Negation(l)})
    BY <1>6, <1>9, Halves DEF Region
  <2>4. (cube[t] \cup toAdd[t]) \cup {l} = cube[t] \cup (toAdd[t] \cup {l})
    OBVIOUS
  <2>5. Within((cube[t] \cup toAdd[t]) \cup {Negation(l)}) \subseteq Within(cube[t] \cup {Negation(l)})
    BY WithinShrinks
  <2>6. m \in Region(t)' \/ m \in Region(n)'
    BY <2>1, <2>2, <2>3, <2>4, <2>5
  <2> QED
    BY <1>5, <1>6, <1>9, <2>6
<1> QED
  BY <1>8, <1>9

LEMMA CoveredNext ==
    ASSUME TypeOK, Existing, Root, Sound, Covered, [Next]_vars
    PROVE  Covered'
<1>1. CASE Main \/ Timeout \/ UNCHANGED vars
  <2>1. Members(workers)' = Members(workers)
    BY <1>1 DEF Main, Timeout, Solve, SignalStart, Poll, TimeoutInterrupt, PrintResult, vars, lists,
       Members
  <2> QED
    BY <1>1, <2>1, MainStill, CoveredStill
<1>2. CASE Sort
  <2>1. workers' = workers \/ workers' \in Orders(workers)
    BY <1>2 DEF Sort
  <2>2. Members(workers') = Members(workers)
    BY <2>1, MembersOrders DEF TypeOK
  <2>3. Members(workers)' = Members(workers)
    BY <2>2 DEF Members
  <2> QED
    BY <1>2, <2>3, MasterStill, CoveredStill DEF Sort, Still, slaves, solver
<1>3. CASE Master /\ ~(Sort \/ Setup \/ Divide \/ Erase)
  <2>1. UNCHANGED workers
    BY <1>3 DEF Master, MasterStart, RoundTest, Interrupt, Wait, Interrupted, Delete,
       DivideCount, SetNext, Rest, Clear, LaunchPortfolio, LaunchRoot, Launch, lists
  <2>2. Members(workers)' = Members(workers)
    BY <2>1 DEF Members
  <2> QED
    BY <1>3, <2>2, MasterStill, CoveredStill
<1> QED
  BY <1>1, <1>2, <1>3, CoveredWork, CoveredErase, CoveredSetup, CoveredDivide DEF Next

\* The invariant that Covered needs: a worker is only taken out when its sub-problem has
\* no model, and slaves[0] has none of the units of the others.
CoverInv == TypeOK /\ Existing /\ Root /\ Sound /\ Covered

LEMMA CoverInit == Init => CoverInv
<1> SUFFICES ASSUME Init PROVE CoverInv
  OBVIOUS
<1>1. TypeOK /\ Existing
  BY TypeInit, ExistingInit
<1>2. Root
  BY WorkerType DEF Init, Root
<1>3. Sound
  BY DEF Init, Sound, Refuted, Members
<1>4. Covered
  BY DEF Init, Covered
<1> QED
  BY <1>1, <1>2, <1>3, <1>4 DEF CoverInv

\* Whatever the workers report, however the master's rounds and their join interleave, and
\* for every formula and number of workers, no model of the formula is ever left to nobody.
THEOREM NothingLost == Spec => []Covered
<1>1. Init => CoverInv
  BY CoverInit
<1>2. CoverInv /\ [Next]_vars => CoverInv'
  BY TypeNext, ExistingNext, RootNext, SoundNext, CoveredNext DEF CoverInv
<1>3. CoverInv => Covered
  BY DEF CoverInv
<1> QED
  BY <1>1, <1>2, <1>3, PTL DEF Spec

-----------------------------------------------------------------------------
\* The sub-problems that nJobs counts.

LEMMA PhasesNext ==
    ASSUME TypeOK, Existing, Phases, [Next]_vars
    PROVE  Phases'
<1> USE DEF lists, flags, master
<1>1. created \in Nat
  BY WorkerType DEF TypeOK
<1>2. ASSUME NEW w \in 0 .. created, Work(w) PROVE Phases'
  <2>1. UNCHANGED <<masterPc, mainPc, created, waitJob>>
    BY <1>2 DEF Work, Top, Enter, Solved, Join, Count, Left, NextTest, Pick, PickNothing, Advance,
       Claim, Ending, Result, main
  <2>2. strategyEnding' = strategyEnding \/ strategyEnding' = TRUE
    BY <1>2 DEF Work, Top, Enter, Solved, Join, Count, Left, NextTest, Pick, PickNothing, Advance,
       Claim, Ending, Result
  <2> QED
    BY <2>1, <2>2 DEF Phases
<1>3. ASSUME Master PROVE UNCHANGED <<mainPc, strategyEnding>>
  BY <1>3 DEF Master, MasterStart, Setup, LaunchPortfolio, LaunchRoot, RoundTest, Interrupt,
     Wait, Interrupted, Erase, Delete, Clear, Divide, DivideCount, Sort, Launch, SetNext,
     Rest, main
<1>4. CASE MasterStart
  BY <1>3, <1>4 DEF MasterStart, MasterGo, Phases, Master
<1>5. CASE Setup
  BY <1>1, <1>3, <1>5 DEF Setup, MasterGo, Phases, Master, Create
<1>6. CASE Divide
  <2>1. created' = created + 1 /\ masterPc = "divide" /\ masterPc' = "count"
    BY <1>6 DEF Divide, MasterGo, Create
  <2>2. UNCHANGED <<mainPc, strategyEnding>>
    BY <1>3, <1>6 DEF Master
  <2> QED
    BY <1>1, <2>1, <2>2 DEF Phases
<1>7. CASE RoundTest
  BY <1>3, <1>7 DEF RoundTest, MasterGo, Phases, Master
<1>8. CASE LaunchPortfolio \/ LaunchRoot
  BY <1>3, <1>8 DEF LaunchPortfolio, LaunchRoot, MasterGo, Phases, Master
<1>9. CASE Interrupt \/ Wait \/ Interrupted \/ Erase \/ Delete \/ Clear
  BY <1>3, <1>9 DEF Interrupt, Wait, Interrupted, Erase, Delete, Clear, MasterGo, Phases, Master
<1>10. CASE DivideCount \/ Sort \/ Launch \/ SetNext
  BY <1>3, <1>10 DEF DivideCount, Sort, Launch, SetNext, MasterGo, Phases, Master
<1>11. CASE Rest
  BY <1>3, <1>11 DEF Rest, MasterGo, Phases, Master
<1>12. CASE Solve
  BY <1>12 DEF Solve, Phases
<1>13. CASE SignalStart
  BY <1>13 DEF SignalStart, Phases
<1>14. CASE Poll \/ TimeoutInterrupt \/ PrintResult \/ Timeout
  BY <1>14 DEF Poll, TimeoutInterrupt, PrintResult, Timeout, Phases
<1>15. CASE UNCHANGED vars
  BY <1>15 DEF vars, main, Phases
<1> QED
  BY <1>2, <1>4, <1>5, <1>6, <1>7, <1>8, <1>9, <1>10, <1>11, <1>12, <1>13, <1>14, <1>15
     DEF Next, Main, Master

LEMMA FirstJobNext ==
    ASSUME TypeOK, Existing, Phases, FirstJob, [Next]_vars
    PROVE  FirstJob'
<1> USE DEF lists, counts
<1>1. created \in Nat
  BY WorkerType DEF TypeOK
<1>2. ASSUME NEW w \in 0 .. created, Work(w) PROVE FirstJob'
  <2>1. UNCHANGED <<mainPc, created>>
    BY <1>2 DEF Work, Top, Enter, Solved, Join, Count, Left, NextTest, Pick, PickNothing, Advance,
       Claim, Ending, Result, main
  <2>2. CASE Count(w)
    <3>1. w \in 1 .. created
      BY <1>1, <2>2, WorkerType DEF Existing, Count, Go, TypeOK
    <3> QED
      BY <1>1, <2>1, <3>1 DEF FirstJob
  <2>3. ~Count(w) => nJobs' = nJobs
    BY <1>2 DEF Work, Top, Enter, Solved, Join, Left, NextTest, Pick, PickNothing, Advance,
       Claim, Ending, Result
  <2> QED
    BY <2>1, <2>2, <2>3 DEF FirstJob
<1>3. CASE Setup \/ Divide
  <2>1. created' > 0
    BY <1>1, <1>3 DEF Setup, Divide, Create
  <2> QED
    BY <2>1 DEF FirstJob
<1>4. CASE DivideCount
  <2>1. created' > 0
    BY <1>4 DEF DivideCount, MasterGo, Phases
  <2> QED
    BY <2>1 DEF FirstJob
<1>5. CASE Master /\ ~(Setup \/ Divide \/ DivideCount)
  <2>1. UNCHANGED <<mainPc, created, nJobs>>
    BY <1>5 DEF Master, MasterStart, LaunchPortfolio, LaunchRoot, RoundTest, Interrupt,
     Wait, Interrupted, Erase, Delete, Clear, Sort, Launch, SetNext, Rest, main
  <2> QED
    BY <2>1 DEF FirstJob
<1>6. CASE Solve
  BY <1>6 DEF Solve, FirstJob
<1>7. CASE SignalStart \/ Poll \/ TimeoutInterrupt \/ PrintResult \/ Timeout
  BY <1>7 DEF SignalStart, Poll, TimeoutInterrupt, PrintResult, Timeout, FirstJob
<1>8. CASE UNCHANGED vars
  BY <1>8 DEF vars, main, FirstJob
<1> QED
  BY <1>2, <1>3, <1>4, <1>5, <1>6, <1>7, <1>8 DEF Next, Main


LEMMA ReportedCount ==
    ASSUME TypeOK, Existing, NEW w \in Worker, w \notin reported
    PROVE  /\ Cardinality(reported) \in Nat
           /\ Cardinality(reported \cup {w}) = Cardinality(reported) + 1
<1>1. IsFiniteSet(1 .. created)
  BY FS_Interval, WorkerType DEF TypeOK
<1>2. IsFiniteSet(reported)
  BY <1>1, FS_Subset DEF Existing
<1> QED
  BY <1>2, FS_CardinalityType, FS_AddElement

\* A step that leaves what nJobs is compared with, and marks no worker twice.
LEMMA JobsStill ==
    ASSUME JobsAccounted, UNCHANGED <<nJobs, created, reported>>,
           strategyEnding' = strategyEnding \/ strategyEnding' = TRUE,
           "twice" \in slips => "twice" \in slips',
           (masterPc = "count") = (masterPc' = "count")
    PROVE  JobsAccounted'
<1>1. Cardinality(reported)' = Cardinality(reported)
  BY DEF Cardinality
<1> QED
  BY <1>1 DEF JobsAccounted

LEMMA JobsWork ==
    ASSUME TypeOK, Existing, JobsAccounted, NEW w \in 0 .. created, Work(w)
    PROVE  JobsAccounted'
<1> USE DEF lists, counts, flags, master
<1>1. w \in Worker
  BY WorkerType DEF TypeOK
<1>2. UNCHANGED <<created, masterPc>>
  BY DEF Work, Top, Enter, Solved, Join, Count, Left, NextTest, Pick, PickNothing, Advance,
     Claim, Ending, Result
<1>3. CASE Count(w)
  <2> SUFFICES ASSUME ~strategyEnding', created' > 0, "twice" \notin slips'
               PROVE  nJobs' = created' - Cardinality(reported')
                               - (IF masterPc' = "count" THEN 1 ELSE 0)
    BY DEF JobsAccounted
  <2>1. /\ ~strategyEnding /\ created > 0
        /\ "twice" \notin slips /\ w \notin reported
    BY <1>2, <1>3 DEF Count
  <2>2. nJobs = created - Cardinality(reported) - (IF masterPc = "count" THEN 1 ELSE 0)
    BY <2>1 DEF JobsAccounted
  <2>3. /\ Cardinality(reported) \in Nat
        /\ Cardinality(reported \cup {w}) = Cardinality(reported) + 1
    BY <1>1, <2>1, ReportedCount
  <2>4. nJobs' = nJobs - 1 /\ reported' = reported \cup {w}
    BY <1>3 DEF Count
  <2>5. created \in Nat /\ nJobs \in Int
    BY WorkerType DEF TypeOK
  <2>6. Cardinality(reported') = Cardinality(reported) + 1
    BY <2>3, <2>4
  <2> QED
    BY <1>2, <2>2, <2>3, <2>4, <2>5, <2>6
<1>4. CASE ~Count(w)
  <2>1. UNCHANGED <<nJobs, reported>>
    BY <1>4 DEF Work, Top, Enter, Solved, Join, Left, NextTest, Pick, PickNothing, Advance, Claim,
       Ending, Result
  <2>2. "twice" \in slips => "twice" \in slips'
    BY <1>4 DEF Work, Top, Enter, Solved, Join, Left, NextTest, Pick, PickNothing, Advance, Claim,
       Ending, Result
  <2>3. strategyEnding' = strategyEnding \/ strategyEnding' = TRUE
    BY DEF Work, Top, Enter, Solved, Join, Count, Left, NextTest, Pick, PickNothing, Advance, Claim,
       Ending, Result
  <2> QED
    BY <1>2, <2>1, <2>2, <2>3, JobsStill
<1> QED
  BY <1>3, <1>4

LEMMA JobsMaster ==
    ASSUME TypeOK, Existing, Phases, FirstJob, JobsAccounted, Master
    PROVE  JobsAccounted'
<1> USE DEF lists, counts, flags
<1>1. created \in Nat /\ nJobs \in Int /\ Cardinality(reported) \in Nat
  <2>1. IsFiniteSet(1 .. created) /\ created \in Nat
    BY FS_Interval, WorkerType DEF TypeOK
  <2>2. IsFiniteSet(reported)
    BY <2>1, FS_Subset DEF Existing
  <2> QED
    BY <2>1, <2>2, FS_CardinalityType DEF TypeOK
<1>2. CASE Setup
  <2> SUFFICES ASSUME ~strategyEnding'
               PROVE  nJobs' = created' - Cardinality(reported')
                               - (IF masterPc' = "count" THEN 1 ELSE 0)
    BY DEF JobsAccounted
  <2>1. ~strategyEnding /\ masterPc = "setup"
    BY <1>2 DEF Setup, MasterGo
  <2>2. created = 0 /\ mainPc # "solve"
    BY <1>1, <2>1 DEF Phases
  <2>3. nJobs = 1 /\ reported = {}
    BY <2>2 DEF FirstJob, Existing
  <2>4. nJobs' = 1 /\ created' = 1 /\ reported' = {} /\ masterPc' # "count"
    BY <1>2, <2>2, <2>3 DEF Setup, Create, MasterGo
  <2> QED
    BY <2>4, FS_EmptySet
<1>3. CASE Divide
  <2> SUFFICES ASSUME ~strategyEnding', "twice" \notin slips'
               PROVE  nJobs' = created' - Cardinality(reported')
                               - (IF masterPc' = "count" THEN 1 ELSE 0)
    BY DEF JobsAccounted
  <2>1. /\ ~strategyEnding /\ "twice" \notin slips /\ created > 0
        /\ masterPc = "divide" /\ masterPc' = "count" /\ created' = created + 1
        /\ nJobs' = nJobs /\ reported' = reported
    BY <1>3, TargetExists DEF Divide, MasterGo, Create
  <2>2. nJobs = created - Cardinality(reported)
    BY <1>1, <2>1 DEF JobsAccounted
  <2>3. Cardinality(reported') = Cardinality(reported)
    BY <2>1
  <2> QED
    BY <1>1, <2>1, <2>2, <2>3
<1>4. CASE DivideCount
  <2> SUFFICES ASSUME ~strategyEnding', "twice" \notin slips'
               PROVE  nJobs' = created' - Cardinality(reported')
                               - (IF masterPc' = "count" THEN 1 ELSE 0)
    BY DEF JobsAccounted
  <2>1. /\ ~strategyEnding /\ "twice" \notin slips
        /\ masterPc = "count" /\ masterPc' = "divide" /\ created' = created
        /\ nJobs' = nJobs + 1 /\ reported' = reported
    BY <1>4 DEF DivideCount, MasterGo
  <2>2. created > 0
    BY <2>1 DEF Phases
  <2>3. nJobs = created - Cardinality(reported) - 1
    BY <1>1, <2>1, <2>2 DEF JobsAccounted
  <2>4. Cardinality(reported') = Cardinality(reported)
    BY <2>1
  <2> QED
    BY <1>1, <2>1, <2>3, <2>4
<1>5. CASE ~(Setup \/ Divide \/ DivideCount)
  <2>1. UNCHANGED <<nJobs, reported, created, slips, strategyEnding>>
    BY <1>5 DEF Master, MasterStart, LaunchPortfolio, LaunchRoot, RoundTest, Interrupt,
       Wait, Interrupted, Erase, Delete, Clear, Sort, Launch, SetNext, Rest
  <2>2. (masterPc = "count") = (masterPc' = "count")
    BY <1>5 DEF Master, MasterStart, LaunchPortfolio, LaunchRoot, RoundTest, Interrupt,
       Wait, Interrupted, Erase, Delete, Clear, Sort, Launch, SetNext, Rest, MasterGo
  <2> QED
    BY <2>1, <2>2, JobsStill
<1> QED
  BY <1>2, <1>3, <1>4, <1>5

LEMMA JobsNext ==
    ASSUME TypeOK, Existing, Phases, FirstJob, JobsAccounted, [Next]_vars
    PROVE  JobsAccounted'
<1> USE DEF lists, counts, flags, master
<1>1. CASE Solve
  <2>1. created = 0 /\ created' = created
    BY <1>1 DEF Solve, Phases
  <2>2. ~(created' > 0)
    BY <2>1
  <2> QED
    BY <2>2 DEF JobsAccounted
<1>2. CASE SignalStart \/ Poll \/ TimeoutInterrupt \/ PrintResult \/ Timeout \/ UNCHANGED vars
  <2>1. /\ UNCHANGED <<nJobs, reported, created, slips, strategyEnding>>
        /\ (masterPc = "count") = (masterPc' = "count")
    BY <1>2 DEF SignalStart, Poll, TimeoutInterrupt, PrintResult, Timeout, vars
  <2> QED
    BY <2>1, JobsStill
<1> QED
  BY <1>1, <1>2, JobsWork, JobsMaster DEF Next, Main

\* The invariant that JobsAccounted needs: solve sets nJobs before the master makes a worker,
\* and the master does not come back to its start before the end.
JobsInv == TypeOK /\ Existing /\ Phases /\ FirstJob /\ JobsAccounted

\* Whatever their number and order, the decrements of the workers and the increments of the
\* master leave in nJobs the number of the sub-problems that have not been reported.
THEOREM JobsAreAccounted == Spec => []JobsAccounted
<1>1. Init => JobsInv
  BY TypeInit, ExistingInit DEF Init, JobsInv, Phases, FirstJob, JobsAccounted
<1>2. JobsInv /\ [Next]_vars => JobsInv'
  BY TypeNext, ExistingNext, PhasesNext, FirstJobNext, JobsNext DEF JobsInv
<1>3. JobsInv => JobsAccounted
  BY DEF JobsInv
<1> QED
  BY <1>1, <1>2, <1>3, PTL DEF Spec

-----------------------------------------------------------------------------
\* The answer.  A worker that main launches late makes the master, at rest, set up the
\* formula once more: of the workers made, the first k are those that nJobs counts.

Parts(k) == models \subseteq UNION {Region(w) : w \in 1 .. k}

Jobs(k) ==
    nJobs >= k - Cardinality(reported \cap 1 .. k) - (IF masterPc = "count" THEN 1 ELSE 0)

\* Those that the last set up makes never report.
Uncounted(k) ==
    /\ k # created => /\ strategyEnding
                      /\ masterPc \in {"start", "parked", "setup", "portfolio", "root", "test",
                                       "rest", "done"}
    /\ \A w \in Worker : w > k => pc[w] \notin {"count", "left"}

Accounts ==
    created > 0 /\ "twice" \notin slips =>
        \E k \in 1 .. created : Parts(k) /\ Jobs(k) /\ Uncounted(k)

\* What a worker is about to answer.
Answers ==
    /\ \A w \in Worker : wRes[w] = "SAT" => models # {}
    /\ \A w \in Worker : pc[w] \in {"claim", "ending", "result"} /\ wRes[w] = "UNSAT"
                         /\ slips = {} => models = {}
    /\ AccountedAnswer

LEMMA PartsNext ==
    ASSUME NEW k, Parts(k), models' = models, \A v \in 1 .. k : Region(v)' = Region(v)
    PROVE  Parts(k)'
<1> SUFFICES ASSUME NEW m \in models' PROVE \E v \in 1 .. k : m \in Region(v)'
  BY DEF Parts
<1> QED
  BY DEF Parts

LEMMA ReportedFinite ==
    ASSUME NEW k \in Nat
    PROVE  /\ IsFiniteSet(reported \cap 1 .. k) /\ Cardinality(reported \cap 1 .. k) \in Nat
           /\ IsFiniteSet(1 .. k) /\ Cardinality(1 .. k) = k
<1>1. IsFiniteSet(1 .. k) /\ Cardinality(1 .. k) = k
  BY FS_Interval
<1>2. IsFiniteSet(reported \cap 1 .. k)
  BY <1>1, FS_Subset
<1> QED
  BY <1>1, <1>2, FS_CardinalityType

\* None is left when each of the k sub-problems has been reported.
LEMMA NoneLeftRefuted ==
    ASSUME TypeOK, Sound, NEW k \in 1 .. created, Parts(k), Jobs(k), masterPc # "count",
           nJobs <= 0
    PROVE  models = {}
<1>1. k \in Nat /\ \A v \in 1 .. k : v \in Worker
  <2>1. created \in Worker /\ 0 .. created \subseteq Worker /\ created \in Nat
    BY WorkerType DEF TypeOK
  <2> QED
    BY <2>1
<1>2. PICK c \in Nat : c = Cardinality(reported \cap 1 .. k)
  BY <1>1, ReportedFinite
<1>3. c >= k
  <2>1. nJobs >= k - c - 0 /\ nJobs \in Int
    BY <1>2 DEF Jobs, TypeOK
  <2> QED
    BY <1>1, <1>2, <2>1
<1>4. reported \cap 1 .. k = 1 .. k
  <2>1. /\ reported \cap 1 .. k \subseteq 1 .. k
        /\ Cardinality(reported \cap 1 .. k) <= Cardinality(1 .. k)
        /\ Cardinality(reported \cap 1 .. k) = Cardinality(1 .. k)
               => reported \cap 1 .. k = 1 .. k
    BY <1>1, ReportedFinite, FS_Subset
  <2>2. c <= k /\ (c = k => reported \cap 1 .. k = 1 .. k)
    BY <1>1, <1>2, <2>1, ReportedFinite
  <2> QED
    BY <1>1, <1>2, <1>3, <2>2
<1>5. ASSUME NEW m \in models PROVE FALSE
  <2>1. PICK v \in 1 .. k : m \in Region(v)
    BY DEF Parts
  <2>2. v \in Worker /\ v \in reported
    BY <1>1, <1>4
  <2> QED
    BY <2>1, <2>2 DEF Sound, Refuted
<1> QED
  BY <1>5

LEMMA AccountsWork ==
    ASSUME TypeOK, Existing, Accounts, NEW w \in 0 .. created, Work(w)
    PROVE  Accounts'
<1> USE DEF lists, counts, flags, master, slaves
<1>1. w \in Worker /\ w \in Nat /\ created \in Nat /\ created \in Worker
  BY WorkerType DEF TypeOK
<1>2. UNCHANGED <<created, masterPc, models>> /\ (strategyEnding => strategyEnding')
  BY DEF Work, Top, Enter, Solved, Join, Count, Left, NextTest, Pick, PickNothing, Advance,
     Claim, Ending, Result
<1> SUFFICES ASSUME created > 0, "twice" \notin slips'
             PROVE  \E k \in 1 .. created : Parts(k)' /\ Jobs(k)' /\ Uncounted(k)'
  BY <1>2 DEF Accounts
<1>3. "twice" \notin slips
  BY DEF Work, Top, Enter, Solved, Join, Count, Left, NextTest, Pick, PickNothing, Advance,
     Claim, Ending, Result
<1>4. PICK k \in 1 .. created : Parts(k) /\ Jobs(k) /\ Uncounted(k)
  BY <1>3 DEF Accounts
<1>5. k \in Nat /\ \A v \in 1 .. k : v \in Worker
  <2>1. 0 .. created \subseteq Worker
    BY <1>1, WorkerType
  <2> QED
    BY <1>1, <2>1
<1>6. Parts(k)'
  <2>1. \A v \in 1 .. k : Region(v)' = Region(v)
    BY <1>1, <1>5, RegionEnter, RegionStill, WorkStill
  <2> QED
    BY <1>2, <1>4, <2>1, PartsNext
<1>7. Jobs(k)'
  <2>1. CASE Count(w)
    <3>1. nJobs' = nJobs - 1 /\ reported' = reported \cup {w} /\ w \notin reported
      BY <2>1 DEF Count
    <3>2. w \in 1 .. k
      <4>1. pc[w] = "count"
        BY <2>1 DEF Count, Go
      <4>2. w # 0 /\ ~(w > k)
        BY <1>1, <1>4, <4>1 DEF Existing, Uncounted
      <4> QED
        BY <1>1, <1>5, <4>2
    <3>3. reported' \cap 1 .. k = (reported \cap 1 .. k) \cup {w} /\ w \notin reported \cap 1 .. k
      BY <3>1, <3>2
    <3>4. Cardinality(reported' \cap 1 .. k) = Cardinality(reported \cap 1 .. k) + 1
      BY <1>5, <3>3, ReportedFinite, FS_AddElement
    <3>5. PICK c \in Nat : c = Cardinality(reported \cap 1 .. k)
      BY <1>5, ReportedFinite
    <3>6. nJobs \in Int /\ nJobs >= k - c - (IF masterPc = "count" THEN 1 ELSE 0)
      BY <1>4, <3>5 DEF Jobs, TypeOK
    <3>7. nJobs - 1 >= k - (c + 1) - (IF masterPc = "count" THEN 1 ELSE 0)
      BY <1>5, <3>5, <3>6
    <3> QED
      BY <1>2, <3>1, <3>4, <3>5, <3>7 DEF Jobs
  <2>2. CASE ~Count(w)
    <3>1. UNCHANGED <<nJobs, reported>>
      BY <2>2 DEF Work, Top, Enter, Solved, Join, Left, NextTest, Pick, PickNothing, Advance, Claim,
         Ending, Result
    <3> QED
      BY <1>2, <1>4, <3>1 DEF Jobs
  <2> QED
    BY <2>1, <2>2
<1>8. Uncounted(k)'
  <2> SUFFICES ASSUME NEW v \in Worker, v > k, pc'[v] \in {"count", "left"} PROVE FALSE
    BY <1>2, <1>4 DEF Uncounted
  <2>1. pc[v] \notin {"count", "left"}
    BY <1>4 DEF Uncounted
  <2>2. v = w /\ Join(w) /\ ~strategyEnding
    <3>1. CASE Pick(w)
      <4>1. next + 1 \in 1 .. Len(workers)
        BY <3>1 DEF TypeOK, Pick
      <4>2. workers[next + 1] \in Worker
        BY <4>1, ElementOfSeq DEF TypeOK
      <4> QED
        BY <1>1, <2>1, <3>1, <4>2 DEF Pick, TypeOK
    <3>2. CASE Top(w) \/ Enter(w) \/ Solved(w) \/ Join(w) \/ NextTest(w)
      BY <1>1, <2>1, <3>2 DEF Top, Enter, Solved, Join, NextTest, Go, TypeOK
    <3>3. CASE Count(w) \/ Left(w)
      BY <1>1, <2>1, <3>3 DEF Count, Left, Go, TypeOK
    <3>4. CASE PickNothing(w) \/ Advance(w) \/ Claim(w) \/ Ending(w) \/ Result(w)
      BY <1>1, <2>1, <3>4 DEF PickNothing, Advance, Claim, Ending, Result, Go, TypeOK
    <3> QED
      BY <3>1, <3>2, <3>3, <3>4 DEF Work
  <2>3. k # created
    BY <1>1, <1>5, <2>2
  <2> QED
    BY <1>4, <2>2, <2>3 DEF Uncounted
<1> QED
  BY <1>6, <1>7, <1>8

LEMMA AccountsMaster ==
    ASSUME TypeOK, Existing, Root, Phases, FirstJob, Accounts, Master
    PROVE  Accounts'
<1> USE DEF lists, counts, flags
<1>1. created \in Nat /\ created \in Worker /\ nJobs \in Int
  BY WorkerType DEF TypeOK
<1>2. UNCHANGED <<strategyEnding, reported, slips, models>>
  BY DEF Master, MasterStart, Setup, LaunchPortfolio, LaunchRoot, RoundTest, Interrupt, Wait,
     Interrupted, Erase, Delete, Clear, Divide, DivideCount, Sort, Launch, SetNext, Rest
<1> SUFFICES ASSUME created' > 0, "twice" \notin slips
             PROVE  \E k \in 1 .. created' : Parts(k)' /\ Jobs(k)' /\ Uncounted(k)'
  BY <1>2 DEF Accounts
<1>3. CASE Setup /\ created = 0
  <2>1. /\ masterPc' = "portfolio" /\ created' = 1 /\ nJobs' = nJobs /\ pc' = pc
        /\ nJobs = 1 /\ reported = {}
    BY <1>3 DEF Setup, Create, MasterGo, Phases, FirstJob, Existing
  <2>2. Uncounted(1)'
    <3>1. \A v \in Worker : v > 1 => pc[v] = "top"
      BY <1>3, WorkerType DEF Existing
    <3> QED
      BY <2>1, <3>1 DEF Uncounted
  <2>3. Jobs(1)'
    <3>1. reported' \cap 1 .. 1 = {}
      BY <1>2, <2>1
    <3>2. Cardinality(reported' \cap 1 .. 1) = 0
      BY <3>1, FS_EmptySet
    <3> QED
      BY <2>1, <3>2 DEF Jobs
  <2>4. Parts(1)'
    <3>1. PICK n \in Nat : n = created + 1 /\ n \in 1 .. 1 /\ 0 \in 0 .. created
      BY <1>1, <1>3
    <3>2. Region(n)' = Within(cube[0] \cup {})
      BY <1>3, <3>1, RegionCreated DEF Setup
    <3>3. Within({}) = Assignment /\ models \subseteq Assignment
      BY FormulaAssumption DEF Within, TypeOK
    <3>4. models' \subseteq Region(n)'
      BY <1>2, <3>2, <3>3 DEF Root
    <3> QED
      BY <3>1, <3>4 DEF Parts
  <2> QED
    BY <2>1, <2>2, <2>3, <2>4
<1>4. CASE Setup /\ created # 0
  <2>1. PICK k \in 1 .. created : Parts(k) /\ Jobs(k) /\ Uncounted(k)
    BY <1>1, <1>4 DEF Accounts
  <2>2. /\ masterPc = "setup" /\ masterPc' = "portfolio" /\ created' = created + 1
        /\ nJobs' = nJobs /\ pc' = pc /\ Create(0, {}) /\ created < MaxWorkers
    BY <1>4 DEF Setup, Create, MasterGo
  <2>3. strategyEnding
    BY <1>1, <1>4, <2>2 DEF Phases, TypeOK
  <2>4. Parts(k)'
    <3>1. ASSUME NEW v \in 1 .. k PROVE Region(v)' = Region(v)
      <4>1. v \in Worker /\ v # created + 1 /\ v # 0 /\ 0 \in 0 .. created
        <5>1. v \in 0 .. created /\ 0 .. created \subseteq Worker
          BY <1>1, WorkerType
        <5> QED
          BY <1>1, <5>1
      <4> QED
        BY <2>2, <4>1, RegionCreate
    <3> QED
      BY <1>2, <2>1, <3>1, PartsNext
  <2>5. Jobs(k)' /\ Uncounted(k)'
    BY <1>2, <2>1, <2>2, <2>3 DEF Jobs, Uncounted
  <2>6. k \in 1 .. created'
    BY <1>1, <2>2
  <2> QED
    BY <2>4, <2>5, <2>6
<1>5. CASE Divide
  <2>1. /\ masterPc = "divide" /\ masterPc' = "count" /\ created' = created + 1
        /\ nJobs' = nJobs /\ pc' = pc /\ created < MaxWorkers
    BY <1>5 DEF Divide, Create, MasterGo
  <2>2. created > 0 /\ targets[at] \in 1 .. created /\ targets[at] \in 0 .. created
    BY <1>1, <1>5, TargetExists
  <2>3. PICK k \in 1 .. created : Parts(k) /\ Jobs(k) /\ Uncounted(k)
    BY <2>2 DEF Accounts
  <2>4. k = created
    BY <2>1, <2>3 DEF Uncounted
  <2>5. PICK n \in Nat : n = created + 1 /\ n \in 1 .. created' /\ n \in Worker
    BY <1>1, <2>1, WorkerType
  <2>6. Uncounted(n)'
    BY <1>1, <2>1, <2>3, <2>4, <2>5, WorkerType DEF Uncounted
  <2>7. Jobs(n)'
    <3>1. reported \cap 1 .. n = reported \cap 1 .. k
      BY <1>1, <2>4, <2>5 DEF Existing
    <3>2. PICK c \in Nat : c = Cardinality(reported \cap 1 .. k)
      BY <1>1, <2>4, ReportedFinite
    <3>3. nJobs >= k - c - 0
      BY <2>1, <2>3, <3>2 DEF Jobs
    <3>4. nJobs >= n - c - 1
      BY <1>1, <2>4, <2>5, <3>2, <3>3
    <3>5. Cardinality(reported' \cap 1 .. n) = c
      BY <1>2, <3>1, <3>2
    <3> QED
      BY <2>1, <3>4, <3>5 DEF Jobs
  <2>8. Parts(n)'
    <3>1. PICK t \in Worker : t = targets[at] /\ t \in 1 .. created /\ t \in 0 .. created
      BY <1>1, <2>2, WorkerType
    <3>2. PICK l \in Literal : Create(t, {Negation(l)})
      BY <1>5, <3>1 DEF Divide
    <3>3. /\ Region(t)' = Within(cube[t] \cup (toAdd[t] \cup {Negation(j) : j \in {Negation(l)}}))
          /\ Region(n)' = Within(cube[t] \cup {Negation(l)})
      BY <2>1, <2>5, <3>1, <3>2, RegionCreated, RegionTarget
    <3>4. {Negation(j) : j \in {Negation(l)}} = {l}
      BY NegationType
    <3> SUFFICES ASSUME NEW m \in models' PROVE \E v \in 1 .. n : m \in Region(v)'
      BY DEF Parts
    <3>5. PICK v \in 1 .. k : m \in Region(v)
      BY <1>2, <2>3 DEF Parts
    <3>6. v \in 1 .. n /\ t \in 1 .. n /\ n \in 1 .. n /\ v # n /\ v \in Worker
      <4>1. v \in 0 .. created /\ 0 .. created \subseteq Worker
        BY <1>1, <2>4, WorkerType
      <4> QED
        BY <1>1, <2>4, <2>5, <3>1, <4>1
    <3>7. CASE v # t
      <4>1. Region(v)' = Region(v)
        BY <2>1, <2>5, <3>1, <3>2, <3>6, <3>7, RegionCreate
      <4> QED
        BY <3>5, <3>6, <4>1
    <3>8. CASE v = t
      <4>1. \/ m \in Within((cube[t] \cup toAdd[t]) \cup {l})
            \/ m \in Within((cube[t] \cup toAdd[t]) \cup {Negation(l)})
        BY <3>5, <3>8, Halves DEF Region
      <4>2. (cube[t] \cup toAdd[t]) \cup {l} = cube[t] \cup (toAdd[t] \cup {l})
        OBVIOUS
      <4>3. Within((cube[t] \cup toAdd[t]) \cup {Negation(l)})
                \subseteq Within(cube[t] \cup {Negation(l)})
        BY WithinShrinks
      <4>4. m \in Region(t)' \/ m \in Region(n)'
        BY <3>3, <3>4, <4>1, <4>2, <4>3
      <4> QED
        BY <3>6, <4>4
    <3> QED
      BY <3>7, <3>8
  <2> QED
    BY <2>5, <2>6, <2>7, <2>8
<1>6. CASE ~Setup /\ ~Divide
  <2>1. created' = created /\ Still
    BY <1>6, MasterStill DEF Still
  <2>2. PICK k \in 1 .. created : Parts(k) /\ Jobs(k) /\ Uncounted(k)
    BY <2>1 DEF Accounts
  <2>3. Parts(k)'
    BY <1>2, <2>1, <2>2, RegionStill, PartsNext
  <2>4. \A v \in Worker : pc[v] \notin {"count", "left"} => pc'[v] \notin {"count", "left"}
    <3>1. CASE LaunchPortfolio \/ LaunchRoot \/ Launch
      BY <3>1 DEF LaunchPortfolio, LaunchRoot, Launch, Release, TypeOK
    <3>2. CASE ~(LaunchPortfolio \/ LaunchRoot \/ Launch)
      BY <1>6, <3>2 DEF Master, MasterStart, RoundTest, Interrupt, Wait, Interrupted, Erase,
         Delete, Clear, DivideCount, Sort, SetNext, Rest, slaves
    <3> QED
      BY <3>1, <3>2
  <2>5. k # created => masterPc' \in {"start", "parked", "setup", "portfolio", "root", "test",
                                      "rest", "done"}
    <3> SUFFICES ASSUME k # created
                 PROVE  masterPc' \in {"start", "parked", "setup", "portfolio", "root", "test",
                                       "rest", "done"}
      OBVIOUS
    <3>1. strategyEnding /\ masterPc \in {"start", "parked", "setup", "portfolio", "root",
                                          "test", "rest", "done"}
      BY <2>2 DEF Uncounted
    <3> QED
      BY <1>6, <3>1 DEF Master, MasterStart, LaunchPortfolio, LaunchRoot, RoundTest, Interrupt,
         Wait, Interrupted, Erase, Delete, Clear, DivideCount, Sort, Launch, SetNext, Rest,
         MasterGo
  <2>6. Uncounted(k)'
    BY <1>2, <2>1, <2>2, <2>4, <2>5 DEF Uncounted
  <2>7. Jobs(k)'
    <3>1. CASE DivideCount
      <4>1. masterPc = "count" /\ masterPc' = "divide" /\ nJobs' = nJobs + 1
        BY <3>1 DEF DivideCount, MasterGo
      <4>2. PICK c \in Nat : c = Cardinality(reported \cap 1 .. k)
        <5>1. k \in Nat
          BY <1>1, <2>1
        <5> QED
          BY <5>1, ReportedFinite
      <4>3. nJobs >= k - c - 1
        BY <2>2, <4>1, <4>2 DEF Jobs
      <4>4. nJobs + 1 >= k - c - 0
        BY <1>1, <4>2, <4>3
      <4> QED
        BY <1>2, <4>1, <4>2, <4>4 DEF Jobs
    <3>2. CASE ~DivideCount
      <4>1. nJobs' = nJobs
        BY <1>6, <3>2 DEF Master, MasterStart, LaunchPortfolio, LaunchRoot, RoundTest,
           Interrupt, Wait, Interrupted, Erase, Delete, Clear, Sort, Launch, SetNext, Rest
      <4>2. (masterPc = "count") = (masterPc' = "count")
        BY <1>6, <3>2 DEF Master, MasterStart, LaunchPortfolio, LaunchRoot, RoundTest,
           Interrupt, Wait, Interrupted, Erase, Delete, Clear, Sort, Launch, SetNext, Rest,
           MasterGo
      <4> QED
        BY <1>2, <2>2, <4>1, <4>2 DEF Jobs
    <3> QED
      BY <3>1, <3>2
  <2> QED
    BY <2>1, <2>2, <2>3, <2>6, <2>7
<1> QED
  BY <1>1, <1>3, <1>4, <1>5, <1>6

LEMMA AccountsNext ==
    ASSUME TypeOK, Existing, Root, Phases, FirstJob, Accounts, [Next]_vars
    PROVE  Accounts'
<1> USE DEF lists, counts, flags, master, slaves
<1>1. CASE Solve
  <2>1. ~(created' > 0)
    BY <1>1 DEF Solve, Phases
  <2> QED
    BY <2>1 DEF Accounts
<1>2. CASE SignalStart \/ Poll \/ TimeoutInterrupt \/ PrintResult \/ Timeout \/ UNCHANGED vars
  <2>1. /\ UNCHANGED <<nJobs, reported, created, slips, strategyEnding, pc>>
        /\ masterPc' = masterPc \/ (masterPc = "parked" /\ masterPc' = "setup")
    BY <1>2 DEF SignalStart, Poll, TimeoutInterrupt, PrintResult, Timeout, vars
  <2>2. Still
    BY <1>2, MainStill DEF Main
  <2> SUFFICES ASSUME created > 0, "twice" \notin slips
               PROVE  \E k \in 1 .. created : Parts(k)' /\ Jobs(k)' /\ Uncounted(k)'
    BY <2>1 DEF Accounts
  <2>3. PICK k \in 1 .. created : Parts(k) /\ Jobs(k) /\ Uncounted(k)
    BY DEF Accounts
  <2>4. Parts(k)'
    BY <2>2, <2>3, RegionStill, PartsNext DEF Still
  <2>5. Uncounted(k)'
    BY <2>1, <2>3 DEF Uncounted
  <2>6. Jobs(k)'
    <3>1. (masterPc' = "count") = (masterPc = "count")
      BY <2>1
    <3> QED
      BY <2>1, <2>3, <3>1 DEF Jobs
  <2> QED
    BY <2>3, <2>4, <2>5, <2>6
<1> QED
  BY <1>1, <1>2, AccountsWork, AccountsMaster DEF Next, Main

\* A worker that is about to answer UNSAT is slaves[0], or has found nJobs at none.
LEMMA AnswersWork ==
    ASSUME TypeOK, Existing, Root, Sound, Accounts, Answers, NEW w \in 0 .. created, Work(w)
    PROVE  Answers'
<1> USE DEF lists, counts, flags, master, slaves
<1>1. w \in Worker /\ created \in Nat
  BY WorkerType DEF TypeOK
<1>2. models' = models /\ (slips' = {} => slips = {})
  BY DEF Work, Top, Enter, Solved, Join, Count, Left, NextTest, Pick, PickNothing, Advance,
     Claim, Ending, Result
<1>3. CASE Top(w)
  BY <1>1, <1>2, <1>3 DEF Top, Go, TypeOK, Answers, AccountedAnswer
<1>4. CASE Solved(w)
  <2>1. ASSUME wRes'[w] = "SAT" PROVE models # {}
    BY <1>1, <1>4, <2>1 DEF Solved, TypeOK
  <2>2. \A v \in Worker : v # w => wRes'[v] = wRes[v] /\ pc'[v] = pc[v]
    BY <1>4 DEF Solved, Go, TypeOK
  <2>3. pc'[w] = "join" /\ finalResult' = finalResult
    BY <1>1, <1>4 DEF Solved, Go, TypeOK
  <2> QED
    BY <1>2, <2>1, <2>2, <2>3 DEF Answers, AccountedAnswer
<1>5. ASSUME pc'[w] = "claim", wRes[w] = "UNSAT", slips' = {}, Join(w) \/ Left(w)
      PROVE  models = {}
  <2>1. CASE Join(w)
    <3>1. w = 0 /\ pc[0] = "join" /\ wRes[0] = "UNSAT"
      BY <1>1, <1>5, <2>1 DEF Join, Go, TypeOK
    <3>2. models \cap Region(0) = {}
      BY <1>1, <3>1 DEF Sound, Refuted
    <3>3. Region(0) = Assignment /\ models \subseteq Assignment
      BY FormulaAssumption DEF Region, Within, Root, TypeOK
    <3> QED
      BY <3>2, <3>3
  <2>2. CASE Left(w)
    <3>1. pc[w] = "left" /\ ~(nJobs > 0) /\ slips' = {}
      BY <1>1, <1>5, <2>2 DEF Left, Go, TypeOK
    <3>2. nJobs <= 0 /\ masterPc # "count" /\ "twice" \notin slips
      <4>1. nJobs <= 0
        BY <3>1 DEF TypeOK
      <4> QED
        BY <1>2, <1>5, <2>2, <4>1 DEF Left
    <3>3. created > 0
      <4>1. w # 0
        BY <1>1, <3>1 DEF Existing
      <4> QED
        BY <1>1, <4>1
    <3>4. PICK k \in 1 .. created : Parts(k) /\ Jobs(k) /\ Uncounted(k)
      BY <3>2, <3>3 DEF Accounts
    <3> QED
      BY <3>2, <3>4, NoneLeftRefuted
  <2> QED
    BY <1>5, <2>1, <2>2
<1>6. CASE Join(w) \/ Left(w)
  <2>1. UNCHANGED <<wRes, finalResult>>
    BY <1>6 DEF Join, Left
  <2>2. \A v \in Worker : v # w => pc'[v] = pc[v]
    BY <1>6 DEF Join, Left, Go, TypeOK
  <2>3. pc'[w] \notin {"ending", "result"}
    BY <1>1, <1>6 DEF Join, Left, Go, TypeOK
  <2> QED
    BY <1>2, <1>5, <1>6, <2>1, <2>2, <2>3 DEF Answers, AccountedAnswer
<1>7. CASE Enter(w) \/ Count(w) \/ NextTest(w) \/ Pick(w) \/ PickNothing(w) \/ Advance(w)
  <2>1. UNCHANGED <<wRes, finalResult>>
    BY <1>7 DEF Enter, Count, NextTest, Pick, PickNothing, Advance
  <2>2. \A v \in Worker : pc'[v] \in {"claim", "ending", "result"} => pc'[v] = pc[v]
    <3>1. CASE Pick(w)
      <4>1. next + 1 \in 1 .. Len(workers)
        BY <3>1 DEF TypeOK, Pick
      <4>2. workers[next + 1] \in Worker
        BY <4>1, ElementOfSeq DEF TypeOK
      <4> QED
        BY <1>1, <3>1, <4>2 DEF Pick, TypeOK
    <3>2. CASE ~Pick(w)
      BY <1>1, <1>7, <3>2 DEF Enter, Count, NextTest, PickNothing, Advance, Go, TypeOK
    <3> QED
      BY <3>1, <3>2
  <2> QED
    BY <1>2, <2>1, <2>2 DEF Answers, AccountedAnswer
<1>8. CASE Claim(w) \/ Ending(w)
  <2>1. UNCHANGED <<wRes, finalResult>>
    BY <1>8 DEF Claim, Ending
  <2>2. \A v \in Worker : pc'[v] \in {"claim", "ending", "result"}
                              => pc[v] \in {"claim", "ending", "result"}
    BY <1>1, <1>8 DEF Claim, Ending, Go, TypeOK
  <2> QED
    BY <1>2, <2>1, <2>2 DEF Answers, AccountedAnswer
<1>9. CASE Result(w)
  <2>1. pc[w] = "result" /\ finalResult' = wRes[w] /\ wRes' = wRes
    BY <1>9 DEF Result, Go
  <2>2. \A v \in Worker : pc'[v] \in {"claim", "ending", "result"} => pc'[v] = pc[v]
    BY <1>1, <1>9 DEF Result, Go, TypeOK
  <2> QED
    BY <1>1, <1>2, <2>1, <2>2 DEF Answers, AccountedAnswer
<1> QED
  BY <1>3, <1>4, <1>6, <1>7, <1>8, <1>9 DEF Work

LEMMA AnswersNext ==
    ASSUME TypeOK, Existing, Root, Sound, Accounts, Answers, [Next]_vars
    PROVE  Answers'
<1> USE DEF lists, counts, flags, master, slaves
<1>1. ASSUME UNCHANGED <<wRes, finalResult, models, slips>>,
             \A v \in Worker : pc'[v] \in {"claim", "ending", "result"} => pc'[v] = pc[v]
      PROVE  Answers'
  BY <1>1 DEF Answers, AccountedAnswer
<1>2. CASE Main \/ Timeout \/ UNCHANGED vars
  <2>1. UNCHANGED <<wRes, finalResult, models, slips, pc>>
    BY <1>2 DEF Main, Timeout, Solve, SignalStart, Poll, TimeoutInterrupt, PrintResult, vars
  <2> QED
    BY <1>1, <2>1
<1>3. CASE Master
  <2>1. UNCHANGED <<wRes, finalResult, models, slips>>
    BY <1>3 DEF Master, MasterStart, Setup, LaunchPortfolio, LaunchRoot, RoundTest, Interrupt,
       Wait, Interrupted, Erase, Delete, Clear, Divide, DivideCount, Sort, Launch, SetNext, Rest
  <2>2. CASE LaunchPortfolio \/ LaunchRoot \/ Launch
    <3>1. \A v \in Worker : pc'[v] \in {"claim", "ending", "result"} => pc'[v] = pc[v]
      BY <2>2 DEF LaunchPortfolio, LaunchRoot, Launch, Release, TypeOK
    <3> QED
      BY <1>1, <2>1, <3>1
  <2>3. CASE ~(LaunchPortfolio \/ LaunchRoot \/ Launch)
    <3>1. pc' = pc
      BY <1>3, <2>3 DEF Master, MasterStart, Setup, RoundTest, Interrupt, Wait, Interrupted,
         Erase, Delete, Clear, Divide, DivideCount, Sort, SetNext, Rest
    <3> QED
      BY <1>1, <2>1, <3>1
  <2> QED
    BY <2>2, <2>3
<1> QED
  BY <1>2, <1>3, AnswersWork DEF Next

\* The invariant that AccountedAnswer needs: that of the search and that of nJobs, held
\* together by the workers that nJobs counts.
AnswerInv == TypeOK /\ Existing /\ Root /\ Sound /\ Phases /\ FirstJob /\ Accounts /\ Answers

\* However the rounds of the master and the join of the workers interleave, SAT is only answered
\* for a formula with a model, and UNSAT for one with none as long as nobody reports twice and
\* nobody finds nJobs at none while the master is about to count a sub-problem it has made.
THEOREM AnswersAreRight == Spec => []AccountedAnswer
<1>1. Init => AnswerInv
  BY CoverInit DEF CoverInv, Init, AnswerInv, Phases, FirstJob, Accounts, Answers,
     AccountedAnswer
<1>2. AnswerInv /\ [Next]_vars => AnswerInv'
  BY TypeNext, ExistingNext, RootNext, SoundNext, PhasesNext, FirstJobNext,
     AccountsNext, AnswersNext DEF AnswerInv
<1>3. AnswerInv => AccountedAnswer
  BY DEF AnswerInv, Answers
<1> QED
  BY <1>1, <1>2, <1>3, PTL DEF Spec
=============================================================================
