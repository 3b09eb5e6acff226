----------------------- MODULE ClauseBufferRefinement -----------------------
(***************************************************************************)
(* Between one producer and one consumer ClauseBuffer is a first-in        *)
(* first-out queue and its size accounts for what is in it, whatever       *)
(* addresses new returns.                                                  *)
(***************************************************************************)
EXTENDS ClauseBufferProofs, SequenceTheorems, FiniteSetTheorems, WellFoundedInduction, TLAPS

\* What the threads need to know of the types.
Types ==
    /\ allocated \subseteq Node
    /\ next \in [Node -> Address]
    /\ clause \in [Node -> Clause \cup {Null}]
    /\ pc \in [Thread -> {"idle", "tail", "next", "check", "link", "help", "swing", "count", "head",
                          "read", "take", "delete", "uncount", "deliver", "return"}]
    /\ lHead \in [Thread -> Address] /\ lTail \in [Thread -> Address]
    /\ lNext \in [Thread -> Address] /\ lNode \in [Thread -> Address]
    /\ lClause \in [Thread -> Clause \cup {Null}]
    /\ size \in Int
    /\ fresh \subseteq Clause

\* s is a list in memory: no node comes twice, each leads to the next and the last to none,
\* and those after the first hold clauses.
Path(s) ==
    /\ s \in Seq(Node) /\ Len(s) >= 1
    /\ \A i, j \in 1 .. Len(s) : s[i] = s[j] => i = j
    /\ \A i \in 1 .. Len(s) - 1 : next[s[i]] = s[i + 1]
    /\ next[s[Len(s)]] = Null
    /\ \A i \in 2 .. Len(s) : clause[s[i]] \in Clause

-----------------------------------------------------------------------------

\* The clauses of the nodes after the i-th of the list s.
Rest(s, i) == [j \in 1 .. Len(s) - i |-> clause[s[i + j]]]

LEMMA RestType ==
    ASSUME NEW s, Path(s), NEW i \in 1 .. Len(s)
    PROVE  /\ Rest(s, i) \in Seq(Clause) /\ Len(Rest(s, i)) = Len(s) - i
           /\ \A j \in 1 .. Len(s) - i : Rest(s, i)[j] = clause[s[i + j]]
<1>1. Len(s) \in Nat /\ i \in Nat
  BY DEF Path
<1>2. \A j \in 1 .. Len(s) - i : clause[s[i + j]] \in Clause
  <2> TAKE j \in 1 .. Len(s) - i
  <2>1. i + j \in 2 .. Len(s)
    BY <1>1
  <2> QED
    BY <2>1 DEF Path
<1>3. Rest(s, i) \in [1 .. Len(s) - i -> Clause] /\ Len(s) - i \in Nat
  BY <1>1, <1>2 DEF Rest
<1>4. Rest(s, i) \in Seq(Clause)
  BY <1>3, SeqDef
<1> QED
  BY <1>3, <1>4 DEF Rest

LEMMA RestNext ==
    ASSUME NEW s, Path(s), NEW i \in 1 .. Len(s) - 1
    PROVE  Rest(s, i) = <<clause[s[i + 1]]>> \o Rest(s, i + 1)
<1> DEFINE a == <<clause[s[i + 1]]>>
           b == Rest(s, i + 1)
           r == Rest(s, i)
<1>1. Len(s) \in Nat /\ i \in Nat /\ i \in 1 .. Len(s) /\ i + 1 \in 1 .. Len(s) /\ i + 1 \in 2 .. Len(s)
  BY DEF Path
<1>2. a \in Seq(Clause) /\ Len(a) = 1 /\ a[1] = clause[s[i + 1]]
  BY <1>1 DEF Path
<1>3. /\ b \in Seq(Clause) /\ Len(b) = Len(s) - (i + 1)
      /\ \A j \in 1 .. Len(s) - (i + 1) : b[j] = clause[s[(i + 1) + j]]
  BY <1>1, RestType
<1>4. /\ r \in Seq(Clause) /\ Len(r) = Len(s) - i
      /\ \A j \in 1 .. Len(s) - i : r[j] = clause[s[i + j]]
  BY <1>1, RestType
<1> HIDE DEF a, b, r
<1>5. /\ a \o b \in Seq(Clause) /\ Len(a \o b) = Len(a) + Len(b)
      /\ \A j \in 1 .. Len(a) + Len(b) : (a \o b)[j] = IF j <= Len(a) THEN a[j] ELSE b[j - Len(a)]
  BY <1>2, <1>3, ConcatProperties
<1>6. Len(a) + Len(b) = Len(r)
  BY <1>1, <1>2, <1>3, <1>4
<1>7. ASSUME NEW j \in 1 .. Len(r) PROVE r[j] = (a \o b)[j]
  <2>1. j \in Nat /\ j \in 1 .. Len(s) - i /\ r[j] = clause[s[i + j]]
    BY <1>1, <1>4
  <2>2. CASE j = 1
    BY <1>2, <1>5, <1>6, <2>1, <2>2
  <2>3. CASE j # 1
    <3>1. /\ j - 1 \in 1 .. Len(s) - (i + 1) /\ (i + 1) + (j - 1) = i + j
          /\ ~(j <= Len(a)) /\ j - Len(a) = j - 1
      BY <1>1, <1>2, <2>1, <2>3
    <3>2. b[j - 1] = clause[s[i + j]]
      BY <1>3, <3>1
    <3> QED
      BY <1>5, <1>6, <2>1, <3>1, <3>2
  <2> QED
    BY <2>2, <2>3
<1>8. r = a \o b
  BY <1>4, <1>5, <1>6, <1>7, SeqEqual
<1> QED
  BY <1>8 DEF a, b, r

\* A set of numbers that is not empty has a least one.
LEMMA Least ==
    ASSUME NEW B \in SUBSET Nat, B # {}
    PROVE  \E m \in B : \A n \in B : ~(n < m)
<1>1. PICK m \in B : \A n \in B : <<n, m>> \notin OpToRel(<, Nat)
  BY NatLessThanWellFounded, WFMin
<1>2. \A n \in B : ~(n < m)
  BY <1>1 DEF OpToRel
<1> QED
  BY <1>2

\* What comes after n, if f says what comes after its successor.
Follow(f, n) == IF next[n] \notin allocated THEN <<>> ELSE <<clause[next[n]]>> \o f[next[n]]

\* f says what comes after the nodes of a rank below k.
Describes(f, rank, k) ==
    /\ f = [n \in Node |-> f[n]]
    /\ \A n \in Node : rank[n] < k => f[n] = Follow(f, n)

\* A pointer to a node in use leads down, so that none of them are in a cycle.
Descends(rank, m) ==
    /\ m \in Nat /\ rank \in [Node -> 0 .. m]
    /\ \A n \in Node : next[n] \in allocated => rank[next[n]] < rank[n]

\* There is a function that After defines: were there none below some rank, then there
\* would be a least such rank, and the one below it can be extended.
LEMMA AfterExists ==
    ASSUME allocated \subseteq Node, NEW rank, NEW m, Descends(rank, m)
    PROVE  \E f : Describes(f, rank, m + 1)
<1> DEFINE B == {k \in Nat : ~ \E f : Describes(f, rank, k)}
<1>1. m \in Nat /\ \A n \in Node : rank[n] \in Nat /\ rank[n] <= m
  BY DEF Descends
<1>2. 0 \notin B
  <2>1. \A n \in Node : ~(rank[n] < 0)
    BY <1>1
  <2>2. Describes([n \in Node |-> <<>>], rank, 0)
    BY <2>1 DEF Describes
  <2> QED
    BY <2>2
<1>3. ASSUME B # {} PROVE FALSE
  <2>1. PICK k \in B : \A j \in B : ~(j < k)
    <3>1. B \in SUBSET Nat
      OBVIOUS
    <3> HIDE DEF B
    <3> QED
      BY <1>3, <3>1, Least
  <2>2. k \in Nat /\ k # 0 /\ k - 1 \in Nat /\ k - 1 \notin B
    BY <1>2, <2>1
  <2>3. PICK f : Describes(f, rank, k - 1)
    BY <2>2
  <2> DEFINE g == [n \in Node |-> IF rank[n] < k - 1 THEN f[n] ELSE Follow(f, n)]
  <2>4. ASSUME NEW n \in Node, rank[n] < k PROVE g[n] = Follow(g, n)
    <3>1. g[n] = Follow(f, n)
      BY <2>3 DEF Describes
    <3>2. CASE next[n] \in allocated
      <4>1. next[n] \in Node /\ rank[next[n]] < rank[n]
        BY <3>2 DEF Descends
      <4>2. rank[next[n]] < k - 1
        BY <1>1, <2>2, <2>4, <4>1
      <4>3. g[next[n]] = f[next[n]]
        BY <4>1, <4>2
      <4> QED
        BY <3>1, <4>3 DEF Follow
    <3>3. CASE next[n] \notin allocated
      BY <3>1, <3>3 DEF Follow
    <3> QED
      BY <3>2, <3>3
  <2>5. g = [n \in Node |-> g[n]]
    OBVIOUS
  <2> HIDE DEF g
  <2>6. Describes(g, rank, k)
    BY <2>4, <2>5 DEF Describes
  <2> QED
    BY <2>1, <2>6
<1>4. m + 1 \in Nat /\ m + 1 \notin B
  BY <1>1, <1>3
<1> QED
  BY <1>4

\* The recursive definition of After is that of a function.
LEMMA AfterIs ==
    ASSUME allocated \subseteq Node, NEW rank, NEW m, Descends(rank, m)
    PROVE  \A n \in Node : After[n] = Follow(After, n)
<1> DEFINE G(f) == [n \in Node |-> IF next[n] \notin allocated THEN <<>>
                                   ELSE <<clause[next[n]]>> \o f[next[n]]]
<1>1. PICK f : Describes(f, rank, m + 1)
  BY AfterExists
<1>2. ASSUME NEW n \in Node PROVE f[n] = Follow(f, n)
  <2>1. rank[n] < m + 1
    BY DEF Descends
  <2> QED
    BY <1>1, <2>1 DEF Describes
<1>3. f = G(f)
  <2>1. f = [n \in Node |-> f[n]]
    BY <1>1 DEF Describes
  <2> QED
    BY <1>2, <2>1 DEF Follow
<1>4. After = CHOOSE g : g = G(g)
  BY DEF After
<1>5. After = G(After)
  BY <1>3, <1>4
<1> QED
  BY <1>5 DEF Follow

\* What follows the i-th node of a list in use: were it not so, then not for a last i either.
LEMMA AfterPath ==
    ASSUME allocated \subseteq Node, NEW rank, NEW m, Descends(rank, m),
           NEW s, Path(s), NEW h \in 1 .. Len(s), \A i \in h .. Len(s) : s[i] \in allocated
    PROVE  After[s[h]] = Rest(s, h)
<1> DEFINE B == {k \in 0 .. Len(s) - h : After[s[Len(s) - k]] # Rest(s, Len(s) - k)}
<1>1. Len(s) \in Nat /\ h \in Nat /\ h <= Len(s) /\ \A j \in 1 .. Len(s) : s[j] \in Node
  BY DEF Path
<1>2. ASSUME B # {} PROVE FALSE
  <2>1. PICK k \in B : \A j \in B : ~(j < k)
    <3>1. B \in SUBSET Nat
      OBVIOUS
    <3> HIDE DEF B
    <3> QED
      BY <1>2, <3>1, Least
  <2>2. PICK j \in h .. Len(s) : j = Len(s) - k
    BY <1>1
  <2>3. After[s[j]] # Rest(s, j)
    BY <2>2
  <2>4. CASE j = Len(s)
    <3>1. j \in 1 .. Len(s) /\ s[j] \in Node /\ next[s[j]] = Null /\ Null \notin allocated
      BY <1>1, <2>2, <2>4, DistinctAssumption DEF Path
    <3>2. After[s[j]] = <<>>
      BY <3>1, AfterIs DEF Follow
    <3>3. Rest(s, j) = <<>>
      BY <1>1, <2>4 DEF Rest
    <3> QED
      BY <2>3, <3>2, <3>3
  <2>5. CASE j # Len(s)
    <3>1. j \in 1 .. Len(s) - 1 /\ j + 1 \in h .. Len(s) /\ j \in 1 .. Len(s)
      BY <1>1, <2>5
    <3>2. k - 1 \in 0 .. Len(s) - h /\ k - 1 < k /\ j + 1 = Len(s) - (k - 1)
      BY <1>1, <2>2, <2>5
    <3>3. After[s[j + 1]] = Rest(s, j + 1)
      BY <2>1, <3>2
    <3>4. next[s[j]] = s[j + 1] /\ next[s[j]] \in allocated /\ s[j] \in Node
      BY <1>1, <3>1 DEF Path
    <3>5. After[s[j]] = <<clause[s[j + 1]]>> \o After[s[j + 1]]
      BY <3>4, AfterIs DEF Follow
    <3>6. Rest(s, j) = <<clause[s[j + 1]]>> \o Rest(s, j + 1)
      BY <3>1, RestNext
    <3> QED
      BY <2>3, <3>3, <3>5, <3>6
  <2> QED
    BY <2>4, <2>5
<1>3. Len(s) - h \in 0 .. Len(s) - h /\ Len(s) - (Len(s) - h) = h
  BY <1>1
<1> QED
  BY <1>2, <1>3

\* Two sequences of clauses, entry by entry.
LEMMA AppendIs ==
    ASSUME NEW a \in Seq(Clause), NEW b \in Seq(Clause), NEW x \in Clause,
           Len(b) = Len(a) + 1, b[Len(a) + 1] = x, \A i \in 1 .. Len(a) : b[i] = a[i]
    PROVE  b = Append(a, x)
<1> DEFINE w == Append(a, x)
<1>1. /\ w \in Seq(Clause) /\ Len(w) = Len(a) + 1 /\ w[Len(a) + 1] = x
      /\ \A i \in 1 .. Len(a) : w[i] = a[i]
  BY AppendProperties
<1>2. Len(a) \in Nat
  OBVIOUS
<1> HIDE DEF w
<1>3. ASSUME NEW i \in 1 .. Len(w) PROVE w[i] = b[i]
  <2>1. i = Len(a) + 1 \/ i \in 1 .. Len(a)
    BY <1>1, <1>2
  <2> QED
    BY <1>1, <2>1
<1>4. w = b
  BY <1>1, <1>3, SeqEqual
<1> QED
  BY <1>4 DEF w

LEMMA TailIs ==
    ASSUME NEW a \in Seq(Clause), NEW b \in Seq(Clause), Len(a) >= 1, Len(b) = Len(a) - 1,
           \A i \in 1 .. Len(b) : b[i] = a[i + 1]
    PROVE  a # <<>> /\ Head(a) = a[1] /\ b = Tail(a)
<1> DEFINE w == Tail(a)
<1>1. a # <<>> /\ Head(a) = a[1]
  OBVIOUS
<1>2. /\ w \in Seq(Clause) /\ Len(w) = Len(a) - 1
      /\ \A i \in 1 .. Len(a) - 1 : w[i] = a[i + 1]
  BY <1>1, HeadTailProperties
<1> HIDE DEF w
<1>3. w = b
  BY <1>2, SeqEqual
<1> QED
  BY <1>1, <1>3 DEF w

-----------------------------------------------------------------------------
\* The threads, and the steps that change the queue.

LEMMA ThreadKinds ==
    /\ \A p \in Producer : p \in Thread /\ p \notin Consumer
    /\ \A c \in Consumer : c \in Thread /\ c \notin Producer
    /\ Null \notin Node /\ Null \notin Clause
BY DistinctAssumption DEF Thread

LEMMA SameContents ==
    ASSUME UNCHANGED <<allocated, next, clause, head>>
    PROVE  Contents' = Contents
BY DEF Contents, After

Links(p) == AddLink(p) /\ next[lTail[p]] = Null
Takes(c) == GetTake(c) /\ head = lHead[c]

-----------------------------------------------------------------------------
\* What size lags behind: clauses linked and not counted, and dequeued and not uncounted.

Lags == IsFiniteSet(Producer) /\ IsFiniteSet(Consumer)

LEMMA Finite ==
    ASSUME Lags
    PROVE  /\ IsFiniteSet(Uncounted) /\ IsFiniteSet(Overcounted)
           /\ Cardinality(Uncounted) \in Nat /\ Cardinality(Overcounted) \in Nat
<1>1. Uncounted \subseteq Producer /\ Overcounted \subseteq Consumer
  BY DEF Uncounted, Overcounted
<1>2. IsFiniteSet(Uncounted) /\ IsFiniteSet(Overcounted)
  BY <1>1, FS_Subset DEF Lags
<1> QED
  BY <1>2, FS_CardinalityType

\* What the step of a thread does to the two sets.
LEMMA ProducerMoves ==
    ASSUME Types, NEW p \in Producer, NEW x, pc' = [pc EXCEPT ![p] = x]
    PROVE  /\ Overcounted' = Overcounted
           /\ x \in {"swing", "count"} => Uncounted' = Uncounted \cup {p}
           /\ x \notin {"swing", "count"} => Uncounted' = Uncounted \ {p}
           /\ (p \in Uncounted <=> x \in {"swing", "count"}) => Uncounted' = Uncounted
<1>1. p \in Thread /\ pc'[p] = x /\ \A q \in Thread \ {p} : pc'[q] = pc[q]
  BY ThreadKinds DEF Types
<1>2. ASSUME NEW q \in Producer, q # p PROVE q \in Uncounted' <=> q \in Uncounted
  BY <1>1, <1>2, ThreadKinds DEF Uncounted
<1>3. p \in Uncounted' <=> x \in {"swing", "count"}
  BY <1>1 DEF Uncounted
<1>4. \A c \in Consumer : pc'[c] = pc[c]
  BY <1>1, ThreadKinds
<1>5. Overcounted' = Overcounted
  BY <1>4 DEF Overcounted
<1>6. Uncounted \subseteq Producer /\ Uncounted' \subseteq Producer
  BY DEF Uncounted
<1> QED
  BY <1>2, <1>3, <1>5, <1>6

LEMMA ConsumerMoves ==
    ASSUME Types, NEW c \in Consumer, NEW x, pc' = [pc EXCEPT ![c] = x]
    PROVE  /\ Uncounted' = Uncounted
           /\ x \in {"delete", "uncount"} => Overcounted' = Overcounted \cup {c}
           /\ x \notin {"delete", "uncount"} => Overcounted' = Overcounted \ {c}
           /\ (c \in Overcounted <=> x \in {"delete", "uncount"}) => Overcounted' = Overcounted
<1>1. c \in Thread /\ pc'[c] = x /\ \A q \in Thread \ {c} : pc'[q] = pc[q]
  BY ThreadKinds DEF Types
<1>2. ASSUME NEW q \in Consumer, q # c PROVE q \in Overcounted' <=> q \in Overcounted
  BY <1>1, <1>2, ThreadKinds DEF Overcounted
<1>3. c \in Overcounted' <=> x \in {"delete", "uncount"}
  BY <1>1 DEF Overcounted
<1>4. \A p \in Producer : pc'[p] = pc[p]
  BY <1>1, ThreadKinds
<1>5. Uncounted' = Uncounted
  BY <1>4 DEF Uncounted
<1>6. Overcounted \subseteq Consumer /\ Overcounted' \subseteq Consumer
  BY DEF Overcounted
<1> QED
  BY <1>2, <1>3, <1>5, <1>6

LEMMA ContentsLength ==
    ASSUME Contents \in Seq(Clause), Queue!Enqueue
    PROVE  Len(Contents') = Len(Contents) + 1
<1>1. PICK x \in fresh \cup Unlinked : Contents' = Append(Contents, x)
  BY DEF Queue!Enqueue
<1>2. Contents \in Seq(Clause \cup {x})
  OBVIOUS
<1> QED
  BY <1>1, <1>2, AppendProperties

LEMMA TakenLength ==
    ASSUME Contents \in Seq(Clause), Queue!Dequeue
    PROVE  Len(Contents') = Len(Contents) - 1
<1>1. Contents # <<>> /\ Contents' = Tail(Contents)
  BY DEF Queue!Dequeue
<1> QED
  BY <1>1, HeadTailProperties

LEMMA AddSize ==
    ASSUME Lags, Types, Contents \in Seq(Clause), SizeAccounts, NEW p \in Producer, Add(p),
           Links(p) => Queue!Enqueue, ~Links(p) => Contents' = Contents
    PROVE  SizeAccounts'
<1> DEFINE u == Cardinality(Uncounted)
           o == Cardinality(Overcounted)
           l == Len(Contents)
<1>1. /\ u \in Nat /\ o \in Nat /\ l \in Nat /\ size \in Int /\ size = l - u + o
      /\ IsFiniteSet(Uncounted)
  BY Finite, LenProperties DEF SizeAccounts, Types
<1>2. Types
  OBVIOUS
<1>3. CASE Links(p)
  <2>1. pc[p] = "link" /\ pc' = [pc EXCEPT ![p] = "swing"] /\ size' = size
    BY <1>3 DEF Links, AddLink, Step
  <2>2. Uncounted' = Uncounted \cup {p} /\ Overcounted' = Overcounted
    BY <1>2, <2>1, ProducerMoves
  <2>3. p \notin Uncounted
    BY <2>1 DEF Uncounted
  <2>4. Cardinality(Uncounted') = u + 1
    BY <1>1, <2>2, <2>3, FS_AddElement
  <2>5. Len(Contents') = l + 1
    BY <1>3, ContentsLength
  <2> QED
    BY <1>1, <2>1, <2>2, <2>4, <2>5 DEF SizeAccounts
<1>4. CASE AddCount(p)
  <2>1. pc[p] = "count" /\ pc' = [pc EXCEPT ![p] = "idle"] /\ size' = size + 1 /\ ~Links(p)
    BY <1>4 DEF Links, AddLink, AddCount, Step
  <2>2. Uncounted' = Uncounted \ {p} /\ Overcounted' = Overcounted
    <3>1. "idle" \notin {"swing", "count"}
      OBVIOUS
    <3> QED
      BY <1>2, <2>1, <3>1, ProducerMoves
  <2>3. p \in Uncounted
    BY <2>1 DEF Uncounted
  <2>4. Cardinality(Uncounted') = u - 1
    BY <1>1, <2>2, <2>3, FS_RemoveElement
  <2>5. Contents' = Contents
    BY <2>1
  <2> QED
    BY <1>1, <2>1, <2>2, <2>4, <2>5 DEF SizeAccounts
<1>5. CASE ~Links(p) /\ ~AddCount(p)
  <2>1. PICK x : /\ pc' = [pc EXCEPT ![p] = x] /\ size' = size
                 /\ p \in Uncounted <=> x \in {"swing", "count"}
    <3>1. CASE New(p) \/ AddReadTail(p) \/ AddReadNext(p) \/ AddCheck(p)
      BY <3>1 DEF New, AddReadTail, AddReadNext, AddCheck, Step, Uncounted
    <3>2. CASE AddHelp(p) \/ AddSwing(p)
      BY <3>2 DEF AddHelp, AddSwing, Step, Uncounted
    <3>3. CASE AddLink(p)
      <4>1. /\ pc[p] = "link" /\ pc' = [pc EXCEPT ![p] = "tail"] /\ size' = size
            /\ p \notin Uncounted
        BY <1>5, <3>3 DEF Links, AddLink, Step, Uncounted
      <4> WITNESS "tail"
      <4> QED
        BY <4>1
    <3> QED
      BY <1>5, <3>1, <3>2, <3>3 DEF Add
  <2>2. Uncounted' = Uncounted /\ Overcounted' = Overcounted
    BY <1>2, <2>1, ProducerMoves
  <2>3. Contents' = Contents
    BY <1>5
  <2> QED
    BY <1>1, <2>1, <2>2, <2>3 DEF SizeAccounts
<1> QED
  BY <1>3, <1>4, <1>5

LEMMA GetSize ==
    ASSUME Lags, Types, Contents \in Seq(Clause), SizeAccounts, NEW c \in Consumer, Get(c),
           Takes(c) => Queue!Dequeue, ~Takes(c) => Contents' = Contents
    PROVE  SizeAccounts'
<1> DEFINE u == Cardinality(Uncounted)
           o == Cardinality(Overcounted)
           l == Len(Contents)
<1>1. /\ u \in Nat /\ o \in Nat /\ l \in Nat /\ size \in Int /\ size = l - u + o
      /\ IsFiniteSet(Overcounted)
  BY Finite, LenProperties DEF SizeAccounts, Types
<1>2. Types
  OBVIOUS
<1>3. CASE Takes(c)
  <2>1. pc[c] = "take" /\ pc' = [pc EXCEPT ![c] = "delete"] /\ size' = size
    BY <1>3 DEF Takes, GetTake, Step
  <2>2. Overcounted' = Overcounted \cup {c} /\ Uncounted' = Uncounted
    BY <1>2, <2>1, ConsumerMoves
  <2>3. c \notin Overcounted
    BY <2>1 DEF Overcounted
  <2>4. Cardinality(Overcounted') = o + 1
    BY <1>1, <2>2, <2>3, FS_AddElement
  <2>5. Len(Contents') = l - 1
    BY <1>3, TakenLength
  <2> QED
    BY <1>1, <2>1, <2>2, <2>4, <2>5 DEF SizeAccounts
<1>4. CASE GetUncount(c)
  <2>1. pc[c] = "uncount" /\ pc' = [pc EXCEPT ![c] = "deliver"] /\ size' = size - 1 /\ ~Takes(c)
    BY <1>4 DEF Takes, GetTake, GetUncount, Step
  <2>2. Overcounted' = Overcounted \ {c} /\ Uncounted' = Uncounted
    <3>1. "deliver" \notin {"delete", "uncount"}
      OBVIOUS
    <3> QED
      BY <1>2, <2>1, <3>1, ConsumerMoves
  <2>3. c \in Overcounted
    BY <2>1 DEF Overcounted
  <2>4. Cardinality(Overcounted') = o - 1
    BY <1>1, <2>2, <2>3, FS_RemoveElement
  <2>5. Contents' = Contents
    BY <2>1
  <2> QED
    BY <1>1, <2>1, <2>2, <2>4, <2>5 DEF SizeAccounts
<1>5. CASE ~Takes(c) /\ ~GetUncount(c)
  <2>1. PICK x : /\ pc' = [pc EXCEPT ![c] = x] /\ size' = size
                 /\ c \in Overcounted <=> x \in {"delete", "uncount"}
    <3>1. CASE Size(c) \/ GetReadHead(c) \/ GetReadTail(c) \/ GetReadNext(c)
      BY <3>1 DEF Size, GetReadHead, GetReadTail, GetReadNext, Step, Overcounted
    <3>2. CASE GetCheck(c) \/ GetHelp(c) \/ GetRead(c) \/ GetDelete(c)
      BY <3>2 DEF GetCheck, GetHelp, GetRead, GetDelete, Step, Overcounted
    <3>3. CASE Deliver(c) \/ Return(c)
      BY <3>3 DEF Deliver, Return, Step, Overcounted
    <3>4. CASE GetTake(c)
      <4>1. /\ pc[c] = "take" /\ pc' = [pc EXCEPT ![c] = "head"] /\ size' = size
            /\ c \notin Overcounted
        BY <1>5, <3>4 DEF Takes, GetTake, Step, Overcounted
      <4> WITNESS "head"
      <4> QED
        BY <4>1
    <3> QED
      BY <1>5, <3>1, <3>2, <3>3, <3>4 DEF Get
  <2>2. Uncounted' = Uncounted /\ Overcounted' = Overcounted
    BY <1>2, <2>1, ConsumerMoves
  <2>3. Contents' = Contents
    BY <1>5
  <2> QED
    BY <1>1, <2>1, <2>2, <2>3 DEF SizeAccounts
<1> QED
  BY <1>3, <1>4, <1>5

-----------------------------------------------------------------------------

\* s is the nodes in the buffer, the dummy first.  With the one that is being added and
\* the one that is being deleted they are all the nodes in use.
Line(s) ==
    /\ Path(s) /\ head = s[1]
    /\ \A n \in Node : n \in allocated <=> \/ \E i \in 1 .. Len(s) : s[i] = n
                                           \/ Adding /\ n = lNode[P]
                                           \/ Deleting /\ n = lHead[C]
    /\ Adding => \A i \in 1 .. Len(s) : s[i] # lNode[P]
    /\ Deleting => \A i \in 1 .. Len(s) : s[i] # lHead[C]

LineReadOff ==
    \A s \in Seq(Node) : Shape /\ Line(s) =>
        /\ Contents \in Seq(Clause) /\ Len(Contents) = Len(s) - 1
        /\ \A j \in 1 .. Len(s) - 1 : Contents[j] = clause[s[1 + j]]

\* The node being added has no successor, the one being deleted leads to the first of the
\* line, and a free address may lead anywhere.
LEMMA LineDescends ==
    ASSUME OneEach, Shape, NEW s, Line(s)
    PROVE  \E rank, m : Descends(rank, m)
<1> DEFINE rank == [n \in Node |->
                       IF \E i \in 1 .. Len(s) : s[i] = n
                       THEN Len(s) - CHOOSE i \in 1 .. Len(s) : s[i] = n
                       ELSE IF Adding /\ n = lNode[P] THEN 0
                       ELSE IF Deleting /\ n = lHead[C] THEN Len(s) ELSE Len(s) + 1]
<1>1. /\ Len(s) \in Nat /\ Len(s) >= 1 /\ \A i \in 1 .. Len(s) : s[i] \in Node
      /\ Null \notin allocated /\ allocated \subseteq Node
  BY DistinctAssumption DEF Line, Path, Shape, TypeOK
<1>2. ASSUME NEW i \in 1 .. Len(s) PROVE rank[s[i]] = Len(s) - i
  <2>1. (CHOOSE j \in 1 .. Len(s) : s[j] = s[i]) = i
    BY DEF Line, Path
  <2> QED
    BY <1>1, <2>1
<1>3. ASSUME NEW n \in Node, \A i \in 1 .. Len(s) : s[i] # n
      PROVE  rank[n] = IF Adding /\ n = lNode[P] THEN 0
                       ELSE IF Deleting /\ n = lHead[C] THEN Len(s) ELSE Len(s) + 1
  BY <1>3
<1>4. rank = [n \in Node |-> rank[n]]
  OBVIOUS
<1> HIDE DEF rank
<1>5. ASSUME NEW n \in Node PROVE rank[n] \in 0 .. Len(s) + 1
  <2>1. CASE \E i \in 1 .. Len(s) : s[i] = n
    BY <1>1, <1>2, <2>1
  <2>2. CASE \A i \in 1 .. Len(s) : s[i] # n
    BY <1>1, <1>3, <2>2
  <2> QED
    BY <2>1, <2>2
<1>6. ASSUME NEW n \in Node, next[n] \in allocated PROVE rank[next[n]] < rank[n]
  <2>1. CASE \E i \in 1 .. Len(s) : s[i] = n
    <3>1. PICK i \in 1 .. Len(s) : s[i] = n
      BY <2>1
    <3>2. i # Len(s)
      <4>1. next[s[Len(s)]] = Null /\ next[n] # Null
        BY <1>1, <1>6 DEF Line, Path
      <4> QED
        BY <3>1, <4>1
    <3>3. i \in 1 .. Len(s) - 1 /\ i + 1 \in 1 .. Len(s)
      BY <1>1, <3>2
    <3>4. next[n] = s[i + 1]
      BY <3>1, <3>3 DEF Line, Path
    <3> QED
      BY <1>1, <1>2, <3>1, <3>3, <3>4
  <2>2. CASE (\A i \in 1 .. Len(s) : s[i] # n) /\ Adding /\ n = lNode[P]
    BY <1>1, <1>6, <2>2 DEF Shape, ProducerAt
  <2>3. CASE (\A i \in 1 .. Len(s) : s[i] # n) /\ ~(Adding /\ n = lNode[P])
             /\ Deleting /\ n = lHead[C]
    <3>1. next[n] = s[1] /\ 1 \in 1 .. Len(s)
      BY <1>1, <2>3 DEF Shape, ConsumerAt, Line
    <3>2. rank[next[n]] = Len(s) - 1 /\ rank[n] = Len(s)
      BY <1>2, <1>3, <2>3, <3>1
    <3> QED
      BY <1>1, <3>2
  <2>4. CASE /\ \A i \in 1 .. Len(s) : s[i] # n
             /\ ~(Adding /\ n = lNode[P]) /\ ~(Deleting /\ n = lHead[C])
    <3>1. rank[n] = Len(s) + 1
      BY <1>3, <2>4
    <3>2. next[n] \in Node
      BY <1>1, <1>6
    <3>3. CASE \E i \in 1 .. Len(s) : s[i] = next[n]
      <4>1. PICK j \in 1 .. Len(s) : s[j] = next[n]
        BY <3>3
      <4>2. rank[next[n]] = Len(s) - j
        BY <1>2, <4>1
      <4> QED
        BY <1>1, <3>1, <4>2
    <3>4. CASE \A i \in 1 .. Len(s) : s[i] # next[n]
      <4>1. \/ Adding /\ next[n] = lNode[P]
            \/ Deleting /\ next[n] = lHead[C]
        BY <1>6, <3>2, <3>4, Zenon DEF Line
      <4>2. rank[next[n]] \in {0, Len(s)}
        BY <1>3, <3>2, <3>4, <4>1
      <4> QED
        BY <1>1, <3>1, <4>2
    <3> QED
      BY <3>3, <3>4
  <2> QED
    BY <2>1, <2>2, <2>3, <2>4
<1>7. rank \in [Node -> 0 .. Len(s) + 1] /\ Len(s) + 1 \in Nat
  BY <1>1, <1>4, <1>5
<1> QED
  BY <1>6, <1>7 DEF Descends

LEMMA LineContents == ASSUME OneEach PROVE LineReadOff
<1> SUFFICES ASSUME NEW s \in Seq(Node), Shape, Line(s)
             PROVE  /\ Contents \in Seq(Clause) /\ Len(Contents) = Len(s) - 1
                    /\ \A j \in 1 .. Len(s) - 1 : Contents[j] = clause[s[1 + j]]
  BY DEF LineReadOff
<1>1. /\ 1 \in 1 .. Len(s) /\ head = s[1] /\ allocated \subseteq Node /\ Path(s)
      /\ \A i \in 1 .. Len(s) : s[i] \in Node /\ s[i] \in allocated
  BY DEF Line, Path, Shape, TypeOK
<1>2. PICK rank, m : Descends(rank, m)
  BY LineDescends
<1>3. Contents = Rest(s, 1)
  BY <1>1, <1>2, AfterPath DEF Contents
<1> QED
  BY <1>1, <1>3, RestType

LEMMA LineContentsNext == ASSUME OneEach PROVE LineReadOff'
<1>1. LineReadOff
  BY LineContents
<1> QED
  BY <1>1, PTL

LEMMA LineSame ==
    ASSUME OneEach, Shape, Shape', NEW s \in Seq(Node), Line(s), Line(s)',
           \A i \in 1 .. Len(s) : clause'[s[i]] = clause[s[i]]
    PROVE  Contents' = Contents
<1>1. /\ Contents \in Seq(Clause) /\ Len(Contents) = Len(s) - 1
      /\ \A j \in 1 .. Len(s) - 1 : Contents[j] = clause[s[1 + j]]
  BY LineContents DEF LineReadOff
<1>2. /\ Contents' \in Seq(Clause) /\ Len(Contents') = Len(s) - 1
      /\ \A j \in 1 .. Len(s) - 1 : Contents'[j] = clause'[s[1 + j]]
  BY LineContentsNext DEF LineReadOff
<1>3. ASSUME NEW j \in 1 .. Len(Contents) PROVE Contents[j] = Contents'[j]
  <2>1. j \in 1 .. Len(s) - 1 /\ 1 + j \in 1 .. Len(s)
    BY <1>1
  <2> QED
    BY <1>1, <1>2, <2>1
<1> QED
  BY <1>1, <1>2, <1>3, SeqEqual

\* The clause in hand is the only one that is neither fresh nor linked.
LEMMA OneUnlinked ==
    ASSUME OneEach
    PROVE  Unlinked = IF Adding THEN {clause[lNode[P]]} ELSE {}
<1>1. Unlinking = IF Adding THEN {P} ELSE {}
  BY DEF OneEach, Unlinking, Adding
<1> QED
  BY <1>1 DEF Unlinked, InHand

LEMMA OneUnlinkedNext ==
    ASSUME OneEach
    PROVE  Unlinked' = IF Adding' THEN {clause'[lNode'[P]]} ELSE {}
<1>1. Unlinking' = IF Adding' THEN {P} ELSE {}
  BY DEF OneEach, Unlinking, Adding
<1> QED
  BY <1>1 DEF Unlinked, InHand

\* A step that leaves the memory and head alone.
LEMMA LineQuiet ==
    ASSUME OneEach, NEW s \in Seq(Node), Line(s),
           UNCHANGED <<allocated, next, clause, head, fresh, taken>>,
           Adding' = Adding, Adding => lNode'[P] = lNode[P],
           Deleting' = Deleting, Deleting => lHead'[C] = lHead[C]
    PROVE  Line(s)' /\ UNCHANGED <<Contents, fresh \cup Unlinked, taken>>
<1>1. Line(s)'
  BY DEF Line, Path
<1>2. Contents' = Contents
  BY SameContents
<1>3. Unlinked' = Unlinked
  BY OneUnlinked, OneUnlinkedNext
<1> QED
  BY <1>1, <1>2, <1>3

\* The node that new returns is not in use, so not in the line.
LEMMA LineNew ==
    ASSUME OneEach, Shape, Shape', NEW s \in Seq(Node), Line(s), New(P)
    PROVE  Line(s)' /\ UNCHANGED <<Contents, fresh \cup Unlinked, taken>>
<1> USE Threads
<1>1. PICK n \in Free, c \in fresh :
          /\ pc[P] = "idle" /\ pc' = [pc EXCEPT ![P] = "tail"]
          /\ allocated' = allocated \cup {n}
          /\ next' = [next EXCEPT ![n] = Null]
          /\ clause' = [clause EXCEPT ![n] = c]
          /\ lNode' = [lNode EXCEPT ![P] = n]
          /\ fresh' = fresh \ {c}
          /\ UNCHANGED <<head, lHead, taken>>
  BY DEF New, Step, ends
<1>2. /\ n \in Node /\ n \notin allocated /\ c \in fresh
      /\ ~Adding /\ Adding' /\ Deleting' = Deleting /\ lNode'[P] = n
  BY <1>1 DEF Free, Shape, TypeOK, Adding, Deleting
<1>3. /\ \A m \in Node : m # n => next'[m] = next[m] /\ clause'[m] = clause[m]
      /\ next'[n] = Null /\ clause'[n] = c
  BY <1>1, <1>2 DEF Shape, TypeOK
<1>4. /\ Len(s) \in Nat /\ Len(s) >= 1
      /\ \A i \in 1 .. Len(s) : s[i] \in Node /\ s[i] \in allocated /\ s[i] # n
  BY <1>2 DEF Line, Path
<1>5. Path(s)'
  <2>1. \A i \in 1 .. Len(s) - 1 : next'[s[i]] = s[i + 1]
    BY <1>3, <1>4 DEF Line, Path
  <2>2. next'[s[Len(s)]] = Null
    BY <1>3, <1>4 DEF Line, Path
  <2>3. \A i \in 2 .. Len(s) : clause'[s[i]] \in Clause
    BY <1>3, <1>4 DEF Line, Path
  <2> QED
    BY <2>1, <2>2, <2>3 DEF Line, Path
<1>6. Line(s)'
  BY <1>1, <1>2, <1>4, <1>5 DEF Line
<1>7. Contents' = Contents
  BY <1>3, <1>4, <1>6, LineSame
<1>8. Unlinked = {} /\ Unlinked' = {c}
  BY <1>2, <1>3, OneUnlinked, OneUnlinkedNext
<1> QED
  BY <1>1, <1>6, <1>7, <1>8

\* The last node of the line is the one tail points to, and gets a successor.
LEMMA LineLink ==
    ASSUME OneEach, IInv, Shape', NEW s \in Seq(Node), Line(s), AddLink(P)
    PROVE  Links(P) /\ Queue!Enqueue /\ \E z \in Seq(Node) : Line(z)'
<1> USE Threads
<1> DEFINE n == lNode[P]
           x == clause[n]
<1>0. Shape
  BY DEF IInv
<1>1. /\ pc[P] = "link" /\ lTail[P] = tail /\ next[tail] = Null /\ tail \in allocated
      /\ tail # n /\ (Deleting => tail # lHead[C])
      /\ n \in Node /\ next[n] = Null /\ n \in allocated /\ x \in Clause \ fresh
      /\ Adding /\ (Deleting => n # lHead[C])
  <2>1. pc[P] = "link" /\ Adding
    BY DEF AddLink, Step, Adding
  <2>2. lTail[P] = tail /\ next[tail] = Null /\ tail \in allocated /\ tail # n
    BY <1>0, <2>1 DEF Shape, ProducerAt, List
  <2>3. /\ n \in Node /\ next[n] = Null /\ n \in allocated /\ x \in Clause /\ n # head
    BY <1>0, <2>1 DEF Shape, TypeOK, ProducerAt
  <2>4. Deleting => tail # lHead[C] /\ next[lHead[C]] = head /\ head \in Node
    BY <1>0 DEF Shape, ConsumerAt, TypeOK
  <2>5. x \notin fresh
    BY <2>1 DEF IInv, Clauses
  <2> QED
    BY <2>1, <2>2, <2>3, <2>4, <2>5
<1>2. /\ next' = [next EXCEPT ![tail] = n] /\ pc' = [pc EXCEPT ![P] = "swing"]
      /\ UNCHANGED <<allocated, clause, head, lNode, lHead, fresh, taken>>
  BY <1>1 DEF AddLink, Step, ends, locals, history
<1>3. ~Adding' /\ Deleting' = Deleting
  BY <1>0, <1>2 DEF Shape, TypeOK, Adding, Deleting
<1>4. /\ Len(s) \in Nat /\ Len(s) >= 1 /\ head = s[1]
      /\ \A i \in 1 .. Len(s) : s[i] \in Node /\ s[i] \in allocated /\ s[i] # n
  BY <1>1 DEF Line, Path
<1>5. tail = s[Len(s)]
  <2>1. PICK i \in 1 .. Len(s) : s[i] = tail
    BY <1>0, <1>1 DEF Line, Shape, TypeOK
  <2>2. ASSUME i # Len(s) PROVE FALSE
    <3>1. i \in 1 .. Len(s) - 1 /\ i + 1 \in 1 .. Len(s)
      BY <1>4, <2>2
    <3>2. next[s[i]] = s[i + 1]
      BY <3>1 DEF Line, Path
    <3> QED
      BY <1>1, <1>4, <2>1, <3>1, <3>2
  <2> QED
    BY <2>1, <2>2
<1>6. PICK z \in Seq(Node) : /\ Len(z) = Len(s) + 1 /\ z[Len(s) + 1] = n
                            /\ \A i \in 1 .. Len(s) : z[i] = s[i]
  <2>1. /\ Append(s, n) \in Seq(Node) /\ Len(Append(s, n)) = Len(s) + 1
        /\ Append(s, n)[Len(s) + 1] = n /\ \A i \in 1 .. Len(s) : Append(s, n)[i] = s[i]
    BY <1>1, AppendProperties
  <2> QED
    BY <2>1
<1> HIDE DEF x, n
<1>7. /\ \A m \in Node : m # tail => next'[m] = next[m]
      /\ next'[tail] = n
  BY <1>0, <1>2 DEF Shape, TypeOK
<1>8. Path(z)'
  <2>1. \A i, j \in 1 .. Len(z) : z[i] = z[j] => i = j
    <3> SUFFICES ASSUME NEW i \in 1 .. Len(z), NEW j \in 1 .. Len(z), z[i] = z[j]
                 PROVE  i = j
      OBVIOUS
    <3>1. /\ i = Len(s) + 1 \/ i \in 1 .. Len(s)
          /\ j = Len(s) + 1 \/ j \in 1 .. Len(s)
      BY <1>4, <1>6
    <3>2. i \in 1 .. Len(s) /\ j \in 1 .. Len(s) => i = j
      BY <1>6 DEF Line, Path
    <3> QED
      BY <1>4, <1>6, <3>1, <3>2
  <2>2. ASSUME NEW i \in 1 .. Len(z) - 1 PROVE next'[z[i]] = z[i + 1]
    <3>1. i \in 1 .. Len(s)
      BY <1>4, <1>6
    <3>2. CASE i = Len(s)
      BY <1>5, <1>6, <1>7, <3>1, <3>2
    <3>3. CASE i # Len(s)
      <4>1. i \in 1 .. Len(s) - 1 /\ i + 1 \in 1 .. Len(s) /\ Len(s) \in 1 .. Len(s)
        BY <1>4, <3>1, <3>3
      <4>2. next[s[i]] = s[i + 1] /\ s[i] # s[Len(s)]
        BY <3>3, <4>1 DEF Line, Path
      <4> QED
        BY <1>4, <1>5, <1>6, <1>7, <4>1, <4>2
    <3> QED
      BY <3>2, <3>3
  <2>3. next'[z[Len(z)]] = Null
    BY <1>1, <1>6, <1>7
  <2>4. ASSUME NEW i \in 2 .. Len(z) PROVE clause'[z[i]] \in Clause
    <3>1. i = Len(s) + 1 \/ i \in 2 .. Len(s)
      BY <1>4, <1>6
    <3>2. i \in 2 .. Len(s) => i \in 1 .. Len(s) /\ clause[s[i]] \in Clause
      BY DEF Line, Path
    <3> QED
      BY <1>1, <1>2, <1>6, <3>1, <3>2 DEF x
  <2>5. Len(z) >= 1
    BY <1>4, <1>6
  <2> QED
    BY <1>6, <2>1, <2>2, <2>3, <2>4, <2>5 DEF Path
<1>9. Line(z)'
  <2>1. \A m : (\E i \in 1 .. Len(z) : z[i] = m) <=> m = n \/ \E i \in 1 .. Len(s) : s[i] = m
    <3>1. Len(s) + 1 \in 1 .. Len(z) /\ \A i \in 1 .. Len(s) : i \in 1 .. Len(z)
      BY <1>4, <1>6
    <3>2. \A i \in 1 .. Len(z) : i = Len(s) + 1 \/ i \in 1 .. Len(s)
      BY <1>4, <1>6
    <3> QED
      BY <1>6, <3>1, <3>2
  <2>2. head' = z[1]
    BY <1>2, <1>4, <1>6
  <2>3. \A m \in Node : m \in allocated' <=> \/ \E i \in 1 .. Len(z) : z[i] = m
                                             \/ Adding' /\ m = lNode'[P]
                                             \/ Deleting' /\ m = lHead'[C]
    BY <1>1, <1>2, <1>3, <2>1, Zenon DEF Line, n
  <2>4. Deleting' => \A i \in 1 .. Len(z) : z[i] # lHead'[C]
    BY <1>1, <1>2, <1>3, <2>1, Zenon DEF Line
  <2> QED
    BY <1>3, <1>8, <2>2, <2>3, <2>4, Zenon DEF Line
<1>10. /\ Contents \in Seq(Clause) /\ Len(Contents) = Len(s) - 1
       /\ \A j \in 1 .. Len(s) - 1 : Contents[j] = clause[s[1 + j]]
  BY <1>0, LineContents DEF LineReadOff
<1>11. /\ Contents' \in Seq(Clause) /\ Len(Contents') = Len(z) - 1
       /\ \A j \in 1 .. Len(z) - 1 : Contents'[j] = clause'[z[1 + j]]
  BY <1>6, <1>9, LineContentsNext DEF LineReadOff
<1>12. Contents' = Append(Contents, x)
  <2>1. Len(Contents') = Len(Contents) + 1 /\ Len(Contents) + 1 = Len(s)
    BY <1>4, <1>6, <1>10, <1>11
  <2>2. Contents'[Len(Contents) + 1] = x
    <3>1. Len(s) \in 1 .. Len(z) - 1 /\ 1 + Len(s) = Len(s) + 1
      BY <1>4, <1>6
    <3>2. Contents'[Len(s)] = clause'[z[1 + Len(s)]]
      BY <1>11, <3>1
    <3> QED
      BY <1>2, <1>6, <2>1, <3>1, <3>2 DEF x
  <2>3. ASSUME NEW i \in 1 .. Len(Contents) PROVE Contents'[i] = Contents[i]
    <3>1. i \in 1 .. Len(s) - 1 /\ i \in 1 .. Len(z) - 1 /\ 1 + i \in 1 .. Len(s)
      BY <1>4, <1>6, <1>10
    <3> QED
      BY <1>2, <1>6, <1>10, <1>11, <3>1
  <2> QED
    BY <1>1, <1>10, <1>11, <2>1, <2>2, <2>3, AppendIs
<1>13. Unlinked = {x} /\ Unlinked' = {}
  BY <1>1, <1>3, OneUnlinked, OneUnlinkedNext DEF x, n
<1>14. /\ x \in fresh \cup Unlinked
       /\ (fresh \cup Unlinked)' = (fresh \cup Unlinked) \ {x} /\ taken' = taken
  BY <1>1, <1>2, <1>13
<1>15. Queue!Enqueue
  BY <1>12, <1>14 DEF Queue!Enqueue
<1>16. Links(P)
  BY <1>1 DEF Links
<1> QED
  BY <1>6, <1>9, <1>15, <1>16

\* The first node of the line leaves it, and is deleted next.
LEMMA LineTake ==
    ASSUME OneEach, IInv, Shape', NEW s \in Seq(Node), Line(s), GetTake(C)
    PROVE  Takes(C) /\ Queue!Dequeue /\ \E z \in Seq(Node) : Line(z)'
<1> USE Threads
<1>0. Shape
  BY DEF IInv
<1>1. /\ pc[C] = "take" /\ lHead[C] = head /\ lNext[C] = next[head] /\ next[head] # Null
      /\ lClause[C] = clause[next[head]] /\ ~Deleting /\ (Adding => lNode[P] # head)
  BY <1>0 DEF GetTake, Step, Shape, ProducerAt, ConsumerAt, Deleting
<1>2. /\ head' = next[head] /\ pc' = [pc EXCEPT ![C] = "delete"]
      /\ taken' = Append(taken, clause[next[head]])
      /\ UNCHANGED <<allocated, next, clause, lNode, lHead, fresh>>
  BY <1>1 DEF GetTake, CasHead, Step, memory, locals
<1>3. Adding' = Adding /\ Deleting' /\ lHead'[C] = head
  BY <1>0, <1>1, <1>2 DEF Shape, TypeOK, Adding, Deleting
<1>4. /\ Len(s) \in Nat /\ head = s[1]
      /\ \A i \in 1 .. Len(s) : s[i] \in Node
  BY DEF Line, Path
<1>5. Len(s) >= 2 /\ next[head] = s[2]
  <2>1. Len(s) # 1 /\ Len(s) >= 1
    BY <1>1, <1>4 DEF Line, Path
  <2>2. Len(s) >= 2 /\ 1 \in 1 .. Len(s) - 1 /\ 1 + 1 = 2
    <3>1. \A k \in Nat : k # 1 /\ k >= 1 => k >= 2 /\ 1 \in 1 .. k - 1 /\ 1 + 1 = 2
      OBVIOUS
    <3> QED
      BY <1>4, <2>1, <3>1
  <2>3. next[s[1]] = s[1 + 1]
    BY <2>2 DEF Line, Path
  <2> QED
    BY <1>4, <2>2, <2>3
<1>6. PICK z \in Seq(Node) : Len(z) = Len(s) - 1 /\ \A i \in 1 .. Len(s) - 1 : z[i] = s[i + 1]
  <2>1. s # <<>>
    BY <1>4, <1>5
  <2>2. /\ Tail(s) \in Seq(Node) /\ Len(Tail(s)) = Len(s) - 1
        /\ \A i \in 1 .. Len(s) - 1 : Tail(s)[i] = s[i + 1]
    BY <2>1, <1>4, HeadTailProperties
  <2> QED
    BY <2>2
<1>7. \A i \in 1 .. Len(z) : i \in 1 .. Len(s) /\ i + 1 \in 2 .. Len(s) /\ z[i] = s[i + 1]
  BY <1>4, <1>6
<1>8. Path(z)'
  <2>1. \A i, j \in 1 .. Len(z) : z[i] = z[j] => i = j
    <3> SUFFICES ASSUME NEW i \in 1 .. Len(z), NEW j \in 1 .. Len(z), z[i] = z[j]
                 PROVE  i = j
      OBVIOUS
    <3>1. i + 1 \in 1 .. Len(s) /\ j + 1 \in 1 .. Len(s) /\ s[i + 1] = s[j + 1]
      BY <1>4, <1>7
    <3>2. i + 1 = j + 1
      BY <3>1 DEF Line, Path
    <3> QED
      BY <3>2
  <2>2. ASSUME NEW i \in 1 .. Len(z) - 1 PROVE next'[z[i]] = z[i + 1]
    <3>1. /\ i \in 1 .. Len(z) /\ i + 1 \in 1 .. Len(z) /\ i + 1 \in 1 .. Len(s) - 1
      BY <1>4, <1>6
    <3>2. next[s[i + 1]] = s[(i + 1) + 1]
      BY <3>1 DEF Line, Path
    <3> QED
      BY <1>2, <1>7, <3>1, <3>2
  <2>3. next'[z[Len(z)]] = Null
    <3>1. Len(z) \in 1 .. Len(z) /\ Len(z) + 1 = Len(s)
      BY <1>4, <1>5, <1>6
    <3> QED
      BY <1>2, <1>7, <3>1 DEF Line, Path
  <2>4. ASSUME NEW i \in 2 .. Len(z) PROVE clause'[z[i]] \in Clause
    <3>1. i \in 1 .. Len(z)
      OBVIOUS
    <3> QED
      BY <1>2, <1>7, <3>1 DEF Line, Path
  <2>5. Len(z) >= 1
    BY <1>4, <1>5, <1>6
  <2> QED
    BY <1>6, <2>1, <2>2, <2>3, <2>4, <2>5 DEF Path
<1>9. Line(z)'
  <2>1. \A m : (\E i \in 1 .. Len(s) : s[i] = m) <=> m = head \/ \E i \in 1 .. Len(z) : z[i] = m
    <3>1. 1 \in 1 .. Len(s)
      BY <1>4, <1>5
    <3>2. ASSUME NEW i \in 1 .. Len(s) PROVE s[i] = head \/ \E j \in 1 .. Len(z) : z[j] = s[i]
      <4>1. i = 1 \/ (i - 1 \in 1 .. Len(z) /\ (i - 1) + 1 = i)
        BY <1>4, <1>6
      <4>2. i - 1 \in 1 .. Len(z) => z[i - 1] = s[(i - 1) + 1]
        BY <1>7
      <4> QED
        BY <1>4, <4>1, <4>2
    <3>3. ASSUME NEW i \in 1 .. Len(z) PROVE \E j \in 1 .. Len(s) : s[j] = z[i]
      <4>1. i + 1 \in 1 .. Len(s) /\ s[i + 1] = z[i]
        BY <1>4, <1>7
      <4> QED
        BY <4>1
    <3> QED
      BY <1>4, <3>1, <3>2, <3>3
  <2>2. head' = z[1]
    <3>1. 1 \in 1 .. Len(z) /\ 1 + 1 = 2
      BY <1>4, <1>5, <1>6
    <3> QED
      BY <1>2, <1>5, <1>7, <3>1
  <2>3. \A m \in Node : m \in allocated' <=> \/ \E i \in 1 .. Len(z) : z[i] = m
                                             \/ Adding' /\ m = lNode'[P]
                                             \/ Deleting' /\ m = lHead'[C]
    BY <1>1, <1>2, <1>3, <2>1, Zenon DEF Line
  <2>4. Adding' => \A i \in 1 .. Len(z) : z[i] # lNode'[P]
    BY <1>2, <1>3, <2>1, Zenon DEF Line
  <2>5. \A i \in 1 .. Len(z) : z[i] # lHead'[C]
    <3>1. ASSUME NEW i \in 1 .. Len(z), z[i] = head PROVE FALSE
      <4>1. i + 1 \in 1 .. Len(s) /\ 1 \in 1 .. Len(s) /\ s[i + 1] = s[1] /\ i + 1 # 1
        BY <1>4, <1>5, <1>7, <3>1
      <4> QED
        BY <4>1 DEF Line, Path
    <3> QED
      BY <1>3, <3>1
  <2> QED
    BY <1>3, <1>8, <2>2, <2>3, <2>4, <2>5, Zenon DEF Line
<1>10. /\ Contents \in Seq(Clause) /\ Len(Contents) = Len(s) - 1
       /\ \A j \in 1 .. Len(s) - 1 : Contents[j] = clause[s[1 + j]]
  BY <1>0, LineContents DEF LineReadOff
<1>11. /\ Contents' \in Seq(Clause) /\ Len(Contents') = Len(z) - 1
       /\ \A j \in 1 .. Len(z) - 1 : Contents'[j] = clause'[z[1 + j]]
  BY <1>9, LineContentsNext DEF LineReadOff
<1>12. /\ Contents # <<>> /\ Head(Contents) = clause[next[head]] /\ Contents' = Tail(Contents)
  <2>1. /\ Len(Contents) >= 1 /\ Len(Contents') = Len(Contents) - 1
        /\ Contents[1] = clause[next[head]]
    <3>1. 1 \in 1 .. Len(s) - 1 /\ 1 + 1 = 2 /\ Len(s) - 1 >= 1
      BY <1>4, <1>5
    <3> QED
      BY <1>4, <1>5, <1>6, <1>10, <1>11, <3>1
  <2>2. ASSUME NEW i \in 1 .. Len(Contents') PROVE Contents'[i] = Contents[i + 1]
    <3>1. /\ i \in 1 .. Len(z) - 1 /\ 1 + i \in 1 .. Len(z) /\ i + 1 \in 1 .. Len(s) - 1
          /\ 1 + (i + 1) = (1 + i) + 1
      BY <1>4, <1>6, <1>11
    <3>2. Contents'[i] = clause'[z[1 + i]] /\ Contents[i + 1] = clause[s[1 + (i + 1)]]
      BY <1>10, <1>11, <3>1
    <3>3. z[1 + i] = s[(1 + i) + 1]
      BY <1>7, <3>1
    <3> QED
      BY <1>2, <3>1, <3>2, <3>3
  <2> QED
    BY <1>10, <1>11, <2>1, <2>2, TailIs
<1>13. (fresh \cup Unlinked)' = fresh \cup Unlinked
  BY <1>2, <1>3, OneUnlinked, OneUnlinkedNext
<1>14. Queue!Dequeue
  BY <1>2, <1>12, <1>13 DEF Queue!Dequeue
<1>15. Takes(C)
  BY <1>1 DEF Takes
<1> QED
  BY <1>9, <1>14, <1>15

LEMMA LineDelete ==
    ASSUME OneEach, Shape, Shape', NEW s \in Seq(Node), Line(s), GetDelete(C)
    PROVE  Line(s)' /\ UNCHANGED <<Contents, fresh \cup Unlinked, taken>>
<1> USE Threads
<1>1. /\ pc[C] = "delete" /\ pc' = [pc EXCEPT ![C] = "uncount"]
      /\ allocated' = allocated \ {lHead[C]}
      /\ UNCHANGED <<next, clause, head, lNode, fresh, taken>>
  BY DEF GetDelete, Step, ends, locals, history
<1>2. Deleting /\ ~Deleting' /\ Adding' = Adding
  BY <1>1 DEF Shape, TypeOK, Deleting, Adding
<1>3. Adding => lNode[P] # lHead[C]
  BY <1>2 DEF Shape, TypeOK, ProducerAt, ConsumerAt
<1>4. Path(s)'
  BY <1>1 DEF Line, Path
<1>5. Line(s)'
  BY <1>1, <1>2, <1>3, <1>4 DEF Line
<1>6. Contents' = Contents
  BY <1>1, <1>5, LineSame
<1>7. Unlinked' = Unlinked
  BY <1>1, <1>2, OneUnlinked, OneUnlinkedNext
<1> QED
  BY <1>1, <1>5, <1>6, <1>7

\* Every step of the producer, and every step of the consumer.
LEMMA LineAdd ==
    ASSUME OneEach, IInv, Shape', NEW s \in Seq(Node), Line(s), Add(P)
    PROVE  /\ \E z \in Seq(Node) : Line(z)'
           /\ Links(P) => Queue!Enqueue
           /\ ~Links(P) => UNCHANGED <<Contents, fresh \cup Unlinked, taken>>
<1> USE Threads
<1>0. Shape
  BY DEF IInv
<1>1. CASE New(P)
  <2>1. ~Links(P)
    BY <1>1 DEF Links, AddLink, New, Step
  <2> QED
    BY <1>0, <1>1, <2>1, LineNew
<1>2. CASE AddLink(P)
  BY <1>2, LineLink
<1>3. CASE \/ AddReadTail(P) \/ AddReadNext(P) \/ AddCheck(P)
           \/ AddHelp(P) \/ AddSwing(P) \/ AddCount(P)
  <2>1. PICK x : /\ pc' = [pc EXCEPT ![P] = x]
                 /\ pc[P] # "idle" /\ pc[P] # "link"
                 /\ Adding <=> x \in {"tail", "next", "check", "link", "help"}
    BY <1>3 DEF AddReadTail, AddReadNext, AddCheck, AddHelp, AddSwing, AddCount, Step, Adding
  <2>2. /\ UNCHANGED <<allocated, next, clause, head, fresh, taken, lHead>>
        /\ Adding => lNode' = lNode
    BY <1>3 DEF AddReadTail, AddReadNext, AddCheck, AddHelp, AddSwing, AddCount, Step, Adding,
       memory, locals, history, ends
  <2>3. Adding' = Adding /\ Deleting' = Deleting
    BY <1>0, <2>1 DEF Shape, TypeOK, Adding, Deleting
  <2>4. ~Links(P)
    BY <2>1 DEF Links, AddLink, Step
  <2>5. Line(s)' /\ UNCHANGED <<Contents, fresh \cup Unlinked, taken>>
    BY <2>2, <2>3, LineQuiet
  <2> QED
    BY <2>4, <2>5
<1> QED
  BY <1>1, <1>2, <1>3 DEF Add

LEMMA LineGet ==
    ASSUME OneEach, IInv, Shape', NEW s \in Seq(Node), Line(s), Get(C)
    PROVE  /\ \E z \in Seq(Node) : Line(z)'
           /\ Takes(C) => Queue!Dequeue
           /\ ~Takes(C) => UNCHANGED <<Contents, fresh \cup Unlinked, taken>>
<1> USE Threads
<1>0. Shape
  BY DEF IInv
<1>1. CASE GetTake(C)
  BY <1>1, LineTake
<1>2. CASE GetDelete(C)
  <2>1. ~Takes(C)
    BY <1>2 DEF Takes, GetTake, GetDelete, Step
  <2> QED
    BY <1>0, <1>2, <2>1, LineDelete
<1>3. CASE \/ Size(C) \/ GetReadHead(C) \/ GetReadTail(C) \/ GetReadNext(C)
           \/ GetCheck(C) \/ GetHelp(C) \/ GetRead(C)
  <2>1. PICK x : /\ pc' = [pc EXCEPT ![C] = x]
                 /\ pc[C] # "take" /\ pc[C] # "delete" /\ x # "delete"
    BY <1>3 DEF Size, GetReadHead, GetReadTail, GetReadNext, GetCheck, GetHelp, GetRead, Step
  <2>2. UNCHANGED <<allocated, next, clause, head, fresh, taken, lNode>>
    BY <1>3 DEF Size, GetReadHead, GetReadTail, GetReadNext, GetCheck, GetHelp, GetRead, memory, ends, locals, history
  <2>3. Adding' = Adding /\ ~Deleting /\ Deleting' = Deleting
    BY <1>0, <2>1 DEF Shape, TypeOK, Adding, Deleting
  <2>4. ~Takes(C)
    BY <2>1 DEF Takes, GetTake, Step
  <2>5. Line(s)' /\ UNCHANGED <<Contents, fresh \cup Unlinked, taken>>
    BY <2>2, <2>3, LineQuiet
  <2> QED
    BY <2>4, <2>5
<1>4. CASE GetUncount(C) \/ Deliver(C) \/ Return(C)
  <2>1. PICK x : /\ pc' = [pc EXCEPT ![C] = x]
                 /\ pc[C] # "take" /\ pc[C] # "delete" /\ x # "delete"
    BY <1>4 DEF GetUncount, Deliver, Return, Step
  <2>2. UNCHANGED <<allocated, next, clause, head, fresh, taken, lNode>>
    BY <1>4 DEF GetUncount, Deliver, Return, memory, ends, locals, history
  <2>3. Adding' = Adding /\ ~Deleting /\ Deleting' = Deleting
    BY <1>0, <2>1 DEF Shape, TypeOK, Adding, Deleting
  <2>4. ~Takes(C)
    BY <2>1 DEF Takes, GetTake, Step
  <2>5. Line(s)' /\ UNCHANGED <<Contents, fresh \cup Unlinked, taken>>
    BY <2>2, <2>3, LineQuiet
  <2> QED
    BY <2>4, <2>5
<1> QED
  BY <1>1, <1>2, <1>3, <1>4 DEF Get

Lined == \E s \in Seq(Node) : Line(s)

LEMMA LineInit == ASSUME OneEach, Init, Shape PROVE Lined /\ Queue!Init
<1> USE Threads
<1>1. PICK n \in Node : head = n /\ tail = n /\ allocated = {n}
  BY DEF Init
<1>2. PICK s \in Seq(Node) : s = <<n>>
  <2>1. <<n>> \in Seq(Node)
    OBVIOUS
  <2> QED
    BY <2>1
<1>3. Len(s) = 1 /\ s[1] = n
  BY <1>2
<1>4. ~Adding /\ ~Deleting
  BY DEF Init, Adding, Deleting
<1>5. Line(s)
  <2>1. Path(s)
    BY <1>3 DEF Init, Path
  <2> QED
    BY <1>1, <1>3, <1>4, <2>1 DEF Line
<1>6. Contents = <<>>
  <2>1. Contents \in Seq(Clause) /\ Len(Contents) = 0
    BY <1>3, <1>5, LineContents DEF LineReadOff
  <2> QED
    BY <2>1
<1>7. fresh \cup Unlinked = Clause /\ taken = <<>>
  BY <1>4, OneUnlinked DEF Init
<1> QED
  BY <1>5, <1>6, <1>7 DEF Lined, Queue!Init

LEMMA LineStep ==
    ASSUME OneEach, IInv, Shape', Lined, [Next]_vars
    PROVE  Lined' /\ [Queue!Enqueue \/ Queue!Dequeue]_(Queue!vars)
<1>1. PICK s \in Seq(Node) : Line(s)
  BY DEF Lined
<1>2. CASE Add(P)
  BY <1>1, <1>2, LineAdd DEF Lined, Queue!vars
<1>3. CASE Get(C)
  BY <1>1, <1>3, LineGet DEF Lined, Queue!vars
<1>4. CASE UNCHANGED vars
  <2>1. Line(s)' /\ UNCHANGED <<Contents, fresh \cup Unlinked, taken>>
    BY <1>1, <1>4, LineQuiet DEF vars, memory, ends, locals, history, Adding, Deleting
  <2> QED
    BY <2>1 DEF Lined, Queue!vars
<1> QED
  BY <1>2, <1>3, <1>4 DEF Next, OneEach

\* Between one producer and one consumer the buffer is a first-in first-out queue of the
\* clauses added to it whatever addresses new returns, those of deleted nodes too: what a
\* deleted node still points to is never taken for a part of the queue.
\* (addClause, getClause, delete head)
THEOREM BufferIsAQueueForTwo ==
    ASSUME OneEach, IsFiniteSet(Clause)
    PROVE  Spec => IsQueue
<1>1. Init => IInv /\ Lined /\ Queue!Init
  BY InitInv, LineInit DEF IInv
<1>2. IInv /\ Lined /\ [Next]_vars
          => IInv' /\ Lined' /\ [Queue!Enqueue \/ Queue!Dequeue]_(Queue!vars)
  <2> SUFFICES ASSUME IInv, Lined, [Next]_vars
               PROVE  IInv' /\ Lined' /\ [Queue!Enqueue \/ Queue!Dequeue]_(Queue!vars)
    OBVIOUS
  <2>1. IInv'
    BY NextInv
  <2>2. Shape'
    BY <2>1 DEF IInv
  <2> QED
    BY <2>1, <2>2, LineStep
<1> QED
  BY <1>1, <1>2, PTL DEF Spec, IsQueue, Queue!Spec

LEMMA LineTypes ==
    ASSUME OneEach, IsFiniteSet(Clause), IInv, Lined
    PROVE  Lags /\ Types /\ Contents \in Seq(Clause)
<1>1. Lags
  BY FS_Singleton DEF OneEach, Lags
<1>2. Cardinality(Clause) \in Nat
  BY Added
<1>3. Types
  BY <1>2 DEF IInv, Shape, TypeOK, Types
<1>4. Contents \in Seq(Clause)
  BY LineContents DEF Lined, LineReadOff, IInv
<1> QED
  BY <1>1, <1>3, <1>4

\* Between one producer and one consumer size counts the clauses in the buffer, up to the
\* one that has been linked and not counted yet and the one that has been dequeued and not
\* uncounted yet, whatever addresses new returns.  (buffer.size++, buffer.size--)
THEOREM SizeIsRightForTwo ==
    ASSUME OneEach, IsFiniteSet(Clause)
    PROVE  Spec => []SizeAccounts
<1>1. Init => IInv /\ Lined /\ SizeAccounts
  <2> SUFFICES ASSUME Init PROVE IInv /\ Lined /\ SizeAccounts
    OBVIOUS
  <2>1. IInv /\ Lined /\ Contents = <<>>
    BY InitInv, LineInit DEF IInv, Queue!Init
  <2>2. Uncounted = {} /\ Overcounted = {} /\ size = 0
    BY ThreadKinds DEF Init, Uncounted, Overcounted
  <2>3. Len(Contents) = 0 /\ Cardinality(Uncounted) = 0 /\ Cardinality(Overcounted) = 0
    BY <2>1, <2>2, FS_EmptySet
  <2> QED
    BY <2>1, <2>2, <2>3 DEF SizeAccounts
<1>2. IInv /\ Lined /\ SizeAccounts /\ [Next]_vars => IInv' /\ Lined' /\ SizeAccounts'
  <2> SUFFICES ASSUME IInv, Lined, SizeAccounts, [Next]_vars
               PROVE  IInv' /\ Lined' /\ SizeAccounts'
    OBVIOUS
  <2>1. IInv' /\ Shape'
    BY NextInv DEF IInv
  <2>2. Lined'
    BY <2>1, LineStep
  <2>3. Lags /\ Types /\ Contents \in Seq(Clause) /\ P \in Producer /\ C \in Consumer
    BY LineTypes, Threads
  <2>4. PICK s \in Seq(Node) : Line(s)
    BY DEF Lined
  <2>5. CASE Add(P)
    <3>1. /\ Links(P) => Queue!Enqueue
          /\ ~Links(P) => Contents' = Contents
      BY <2>1, <2>4, <2>5, LineAdd
    <3> QED
      BY <2>1, <2>2, <2>3, <2>5, <3>1, AddSize
  <2>6. CASE Get(C)
    <3>1. /\ Takes(C) => Queue!Dequeue
          /\ ~Takes(C) => Contents' = Contents
      BY <2>1, <2>4, <2>6, LineGet
    <3> QED
      BY <2>1, <2>2, <2>3, <2>6, <3>1, GetSize
  <2>7. CASE UNCHANGED vars
    <3>1. UNCHANGED <<allocated, next, clause, head, pc, size>>
      BY <2>7 DEF vars, memory, ends
    <3>2. Contents' = Contents
      BY <3>1, SameContents
    <3>3. Uncounted' = Uncounted /\ Overcounted' = Overcounted
      BY <3>1 DEF Uncounted, Overcounted
    <3> QED
      BY <2>1, <2>2, <3>1, <3>2, <3>3 DEF SizeAccounts
  <2> QED
    BY <2>5, <2>6, <2>7 DEF Next, OneEach
<1> QED
  BY <1>1, <1>2, PTL DEF Spec
=============================================================================
