------------------------- MODULE ClauseBufferProofs -------------------------
(***************************************************************************)
(* ClauseBuffer between one producer and one consumer, for every number of *)
(* clauses and addresses, with and without their reuse: no thread follows  *)
(* a pointer to a node that was deleted, and getClauses drops no clause    *)
(* that size() announced.                                                  *)
(***************************************************************************)
EXTENDS ClauseBuffer, FiniteSetTheorems, WellFoundedInduction, TLAPS

P == CHOOSE p \in Producer : TRUE
C == CHOOSE c \in Consumer : TRUE

\* A solver and the sharer that serves it.
OneEach == Producer = {P} /\ Consumer = {C}

One(b) == IF b THEN 1 ELSE 0

\* The producer holds a node that is not linked; the consumer has unlinked one
\* that it has not deleted; it has a clause it has not handed on.
Adding   == pc[P] \in {"tail", "next", "check", "link", "help"}
Deleting == pc[C] = "delete"
Holding  == pc[C] \in {"delete", "uncount", "deliver"}

\* Only the producer links nodes, and the consumer only moves tail for it.
ProducerAt ==
    /\ pc[P] \in {"idle", "tail", "next", "check", "link", "swing", "count"}
    /\ pc[P] # "swing" => next[tail] = Null
    /\ pc[P] \in {"next", "check", "link"} => lTail[P] = tail
    /\ pc[P] = "check" => lNext[P] = Null
    /\ Adding => /\ lNode[P] \in allocated /\ next[lNode[P]] = Null
                 /\ lNode[P] # head /\ lNode[P] # tail
                 /\ clause[lNode[P]] \in Clause
    /\ pc[P] = "swing" => /\ lNode[P] \in allocated /\ next[lNode[P]] = Null
                          /\ \/ tail = lNode[P]
                             \/ tail = lTail[P] /\ next[tail] = lNode[P]
    /\ pc[P] = "count" => tail = lNode[P]

\* Only the consumer moves head, and it does so behind tail.
ConsumerAt ==
    /\ pc[C] = "idle" => got[C] = 0
    /\ pc[C] # "link" /\ pc[C] # "swing" /\ pc[C] # "count"
    /\ pc[C] \in {"tail", "next", "check", "help", "read", "take"} => lHead[C] = head
    /\ pc[C] \in {"next", "check"} /\ lTail[C] # head => tail # head
    /\ pc[C] = "check" =>
          /\ lNext[C] # Null => lNext[C] = next[head]
          /\ lTail[C] # head => lNext[C] # Null
    /\ pc[C] = "help" => lTail[C] = head
    /\ pc[C] \in {"help", "read", "take"} => lNext[C] # Null /\ lNext[C] = next[head]
    /\ pc[C] \in {"read", "take"} => tail # head
    /\ pc[C] = "take" => lClause[C] = clause[lNext[C]]
    /\ Holding => lClause[C] \in Clause
    /\ Deleting => /\ lHead[C] \in allocated /\ next[lHead[C]] = head
                   /\ tail # lHead[C]

\* The allocated nodes are a list: no two have the same successor, and nothing
\* points to head but the node that is being deleted, to which nothing points.
List ==
    /\ {head, tail} \subseteq allocated
    /\ \A n \in allocated :
          /\ next[n] \in allocated \cup {Null}
          /\ next[n] # Null => clause[next[n]] \in Clause
          /\ next[n] = head => Deleting /\ n = lHead[C]
          /\ Adding => next[n] # lNode[P]
          /\ Deleting => next[n] # lHead[C]
          /\ next[n] = Null => n = tail \/ ((Adding \/ pc[P] = "swing") /\ n = lNode[P])
    /\ \A m, n \in allocated : next[m] = next[n] /\ next[m] # Null => m = n

\* size, and the number of nodes, follow from the clauses added and taken.
Sizes ==
    /\ IsFiniteSet(allocated)
    /\ Cardinality(allocated) =
          1 + Cardinality(Clause \ fresh) - Len(taken) + One(Deleting)
    /\ size = Cardinality(Clause \ fresh) - Len(taken) - One(pc[P] # "idle")
                + One(pc[C] \in {"delete", "uncount"})
    /\ pc[P] # "idle" => Cardinality(Clause \ fresh) >= 1
    /\ Len(taken) \in Nat /\ Len(taken) >= One(pc[C] \in {"delete", "uncount"})
    /\ Cardinality(allocated) >= 1 + One(Deleting)

Shape == TypeOK /\ ProducerAt /\ ConsumerAt /\ List

-----------------------------------------------------------------------------
\* The nodes whose clause is in the buffer.
Queued == {n \in allocated : /\ n # head
                             /\ Deleting => n # lHead[C]
                             /\ Adding => n # lNode[P]}

\* They are in a chain that starts at head and has no cycle.
Increasing(rank) == \A n \in allocated : next[n] # Null => rank[n] < rank[next[n]]

Chain ==
    /\ \A n \in Queued : \E m \in Queued \cup {head} : next[m] = n
    /\ \E rank \in [Node -> Nat] : Increasing(rank)

\* Their clauses are those that have been linked and not taken.
Clauses ==
    /\ \A n \in Queued : clause[n] \in Clause \ (fresh \cup ToSet(taken))
    /\ \A m, n \in Queued : clause[m] = clause[n] => m = n
    /\ \A x \in Clause \ (fresh \cup ToSet(taken)) :
          \/ Adding /\ x = clause[lNode[P]]
          \/ \E n \in Queued : x = clause[n]
    /\ Adding => /\ clause[lNode[P]] \notin fresh \cup ToSet(taken)
                 /\ \A n \in Queued : clause[n] # clause[lNode[P]]
    /\ ToSet(taken) \subseteq Clause \ fresh
    /\ Cardinality(ToSet(taken)) = Len(taken)
    /\ dropped \subseteq ToSet(taken)
    /\ Holding => lClause[C] \in ToSet(taken)

\* What is announced and not taken is at the front of the chain, and as much as
\* getClauses has still to deliver.
Pending == counted[C] \ ToSet(taken)
Left    == announced[C] - got[C] - One(Holding)

Announced ==
    /\ counted[C] \cap fresh = {}
    /\ Adding => clause[lNode[P]] \notin counted[C]
    /\ \A m, n \in Queued :
          next[m] = n /\ clause[n] \in counted[C] => clause[m] \in counted[C]
    /\ Cardinality(Pending) = IF Left > 0 THEN Left ELSE 0
    /\ Holding /\ got[C] >= announced[C] => lClause[C] \notin counted[C]

IInv == Shape /\ Sizes /\ Chain /\ Clauses /\ Announced /\ AnnouncedIsDelivered

-----------------------------------------------------------------------------
\* The two threads are different, and Null is neither an address nor a clause.
LEMMA Threads ==
    ASSUME OneEach
    PROVE  /\ P \in Thread /\ C \in Thread /\ P # C
           /\ Thread = {P, C}
           /\ P \in Producer /\ C \in Consumer
           /\ Null \notin Node /\ Null \notin Clause
BY DistinctAssumption DEF OneEach, Thread

\* The clauses taken up so far can be counted.
LEMMA Added ==
    ASSUME IsFiniteSet(Clause)
    PROVE  \A S : /\ IsFiniteSet(Clause \ S)
                  /\ Cardinality(Clause \ S) \in Nat
                  /\ Cardinality(Clause) \in Nat
                  /\ Cardinality(Clause \ S) <= Cardinality(Clause)
<1> TAKE S
<1> QED
  BY FS_Subset, FS_CardinalityType, Clause \ S \subseteq Clause

\* The bounds of size in TypeOK follow from what it counts.
LEMMA SizeWithin ==
    ASSUME IsFiniteSet(Clause), Sizes'
    PROVE  size' \in -Cardinality(Clause) .. Cardinality(Clause)
<1>1. /\ Cardinality(Clause \ fresh') \in Nat
      /\ Cardinality(Clause \ fresh') <= Cardinality(Clause)
  BY Added
<1>2. Cardinality(Clause) \in Nat
  BY Added
<1> DEFINE up == Cardinality(Clause \ fresh')
           a  == One(pc'[P] # "idle")
           b  == One(pc'[C] \in {"delete", "uncount"})
           d  == One(Deleting')
<1>3. a \in {0, 1} /\ b \in {0, 1} /\ d \in {0, 1} /\ (a = 1 => up >= 1)
  BY DEF Sizes, One
<1>4. /\ Len(taken') \in Nat /\ Len(taken') >= b /\ size' = up - Len(taken') - a + b
      /\ 1 + up - Len(taken') + d >= 1 + d
  BY DEF Sizes
<1> HIDE DEF up, a, b, d
<1>5. up \in Nat /\ up <= Cardinality(Clause)
  BY <1>1 DEF up
<1> QED
  BY <1>2, <1>3, <1>4, <1>5

LEMMA TwoElements == \A a, b : a # b => Cardinality({a, b}) = 2
<1> SUFFICES ASSUME NEW a, NEW b, a # b PROVE Cardinality({a, b}) = 2
  OBVIOUS
<1>1. IsFiniteSet({a}) /\ Cardinality({a}) = 1
  BY FS_Singleton
<1>2. Cardinality({a} \cup {b}) = Cardinality({a}) + 1
  BY <1>1, FS_AddElement
<1>3. {a, b} = {a} \cup {b}
  OBVIOUS
<1> QED
  BY <1>1, <1>2, <1>3

\* The first node of a part of the queue that holds the predecessors of its
\* members comes after head.
LEMMA FrontOfQueue ==
    ASSUME OneEach, TypeOK, Chain,
           NEW S, S \subseteq Queued, S # {},
           \A m, n \in Queued : next[m] = n /\ n \in S => m \in S
    PROVE  next[head] \in S
<1>1. PICK rank \in [Node -> Nat] : Increasing(rank)
  BY DEF Chain
<1> DEFINE ranks == {rank[n] : n \in S}
<1>2. S \subseteq Node /\ ranks \subseteq Nat /\ ranks # {}
  BY <1>1 DEF TypeOK, Queued
<1>3. PICK k \in ranks : \A j \in ranks : <<j, k>> \notin OpToRel(<, Nat)
  <2> HIDE DEF ranks
  <2> QED
    BY <1>2, NatLessThanWellFounded, WFMin
<1>4. \A j \in ranks : ~(j < k)
  <2> TAKE j \in ranks
  <2> j \in Nat /\ k \in Nat
    BY <1>2
  <2> QED
    BY <1>3 DEF OpToRel
<1>5. PICK n \in S : k = rank[n]
  OBVIOUS
<1>6. PICK m \in Queued \cup {head} : next[m] = n
  BY DEF Chain
<1>7. ASSUME m \in Queued PROVE FALSE
  <2>1. m \in S /\ m \in allocated
    BY <1>6, <1>7 DEF Queued
  <2>2. rank[m] < rank[n]
    BY <1>1, <1>6, <2>1, <1>2, Threads DEF Increasing
  <2>3. rank[m] \in ranks
    BY <2>1
  <2> QED
    BY <1>4, <1>5, <2>2, <2>3
<1> QED
  BY <1>6, <1>7

\* The node linked last is the last of the queue, or taken and the queue empty.
LEMMA LastQueued ==
    ASSUME OneEach, Shape, Chain, pc[P] \in {"swing", "count"}
    PROVE  /\ next[lNode[P]] = Null
           /\ lNode[P] \in Queued \/ Queued = {}
<1>1. next[lNode[P]] = Null /\ lNode[P] \in allocated /\ ~Adding
  BY DEF Shape, ProducerAt, List
<1>2. lNode[P] \in Queued \/ lNode[P] = head
  BY <1>1, Threads DEF Shape, TypeOK, ConsumerAt, Queued
<1>3. ASSUME lNode[P] = head PROVE Queued = {}
  <2>1. next[head] \notin Queued
    BY <1>1, <1>3, Threads DEF Queued, Shape, TypeOK
  <2> QED
    BY <2>1, FrontOfQueue DEF Shape
<1> QED
  BY <1>1, <1>2, <1>3

\* A step that leaves the memory, head and the history alone.
LEMMA Quiet ==
    ASSUME IInv,
           UNCHANGED <<memory, head, size, history, lNode, announced, got, counted>>,
           Adding' = Adding, Deleting' = Deleting, Holding' = Holding,
           (pc[P] # "idle")' = (pc[P] # "idle"),
           (pc[C] \in {"delete", "uncount"})' = (pc[C] \in {"delete", "uncount"}),
           Deleting => lHead'[C] = lHead[C],
           Holding => lClause'[C] = lClause[C]
    PROVE  Sizes' /\ Chain' /\ Clauses' /\ Announced' /\ AnnouncedIsDelivered'
<1> USE DEF memory, history
<1>1. Sizes'
  BY DEF IInv, Sizes
<1>2. Queued' = Queued
  BY DEF Queued
<1>3. Chain'
  BY <1>2 DEF IInv, Chain, Increasing
<1>4. Clauses'
  BY <1>2 DEF IInv, Clauses
<1>5. Announced'
  <2>1. Pending' = Pending /\ Left' = Left
    BY DEF Pending, Left
  <2> QED
    BY <1>2, <2>1 DEF IInv, Announced
<1>6. AnnouncedIsDelivered'
  BY DEF IInv, AnnouncedIsDelivered
<1> QED
  BY <1>1, <1>3, <1>4, <1>5, <1>6

-----------------------------------------------------------------------------
LEMMA InitInv == ASSUME OneEach, IsFiniteSet(Clause), Init PROVE IInv
<1> USE Threads DEF Init
<1>0. PICK n \in Node : head = n /\ tail = n /\ allocated = {n}
  OBVIOUS
<1>1. TypeOK
  <2>1. Cardinality(Clause) \in Nat
    BY Added
  <2> QED
    BY <1>0, <2>1 DEF TypeOK, Address
<1>2. ProducerAt /\ ConsumerAt
  BY DEF ProducerAt, ConsumerAt, Adding, Holding, Deleting
<1>3. List
  BY <1>0 DEF List, Adding, Deleting
<1>4. Sizes
  <2>1. Clause \ fresh = {}
    OBVIOUS
  <2>2. Cardinality(Clause \ fresh) = 0
    BY <2>1, FS_EmptySet
  <2>3. IsFiniteSet(allocated) /\ Cardinality(allocated) = 1
    BY <1>0, FS_Singleton
  <2> QED
    BY <2>2, <2>3 DEF Sizes, One, Deleting
<1>5. Queued = {} /\ ToSet(taken) = {} /\ Pending = {} /\ counted[C] = {}
  BY <1>0 DEF Queued, Pending, ToSet
<1>6. Chain
  <2>1. [m \in Node |-> 0] \in [Node -> Nat] /\ Increasing([m \in Node |-> 0])
    BY <1>0 DEF Increasing
  <2> QED
    BY <1>5, <2>1 DEF Chain
<1>7. Clauses
  BY <1>5, FS_EmptySet DEF Clauses, Adding, Holding
<1>8. Announced
  BY <1>5, FS_EmptySet DEF Announced, Left, One
<1>9. AnnouncedIsDelivered
  BY DEF AnnouncedIsDelivered
<1> QED
  BY <1>1, <1>2, <1>3, <1>4, <1>6, <1>7, <1>8, <1>9 DEF IInv, Shape

-----------------------------------------------------------------------------
\* The steps of addClause

LEMMA NewStep == ASSUME OneEach, IsFiniteSet(Clause), IInv, New(P) PROVE IInv'
<1> USE Threads DEF IInv, Shape, Step, memory, ends, locals, history
<1>0. PICK n \in Free, c \in fresh :
        /\ Step(P, "idle", "tail")
        /\ allocated' = allocated \cup {n}
        /\ next' = [next EXCEPT ![n] = Null]
        /\ clause' = [clause EXCEPT ![n] = c]
        /\ lNode' = [lNode EXCEPT ![P] = n]
        /\ fresh' = fresh \ {c}
        /\ UNCHANGED <<ends, size, lHead, lTail, lNext, lClause, announced, got,
                       counted, taken, delivered, dropped>>
  BY DEF New
<1> n \in Node \ allocated /\ c \in Clause
  BY DEF Free, TypeOK
<1>1. Sizes'
  <2>1. Cardinality(allocated') = Cardinality(allocated) + 1 /\ IsFiniteSet(allocated')
    BY <1>0, FS_AddElement DEF Sizes
  <2>2. Cardinality(Clause \ fresh') = Cardinality(Clause \ fresh) + 1
    <3>1. Clause \ fresh' = (Clause \ fresh) \cup {c}
      BY <1>0
    <3>2. IsFiniteSet(Clause \ fresh) /\ c \notin Clause \ fresh
      BY Added
    <3> QED
      BY <3>1, <3>2, FS_AddElement
  <2>3. pc'[C] = pc[C] /\ pc[P] = "idle" /\ pc'[P] = "tail"
    BY <1>0 DEF TypeOK
  <2>4. Cardinality(Clause \ fresh) \in Nat
    BY Added
  <2> HIDE DEF Step
  <2>5. pc'[C] \in {"delete", "uncount"} <=> pc[C] \in {"delete", "uncount"}
    BY <2>3
  <2> QED
    BY <1>0, <2>1, <2>2, <2>3, <2>4, <2>5 DEF Sizes, One, Deleting
<1>2. size' \in -Cardinality(Clause) .. Cardinality(Clause)
  BY <1>1, SizeWithin
<1>3. TypeOK'
  BY <1>0, <1>2 DEF TypeOK, Address
<1>4. ProducerAt'
  BY <1>0 DEF TypeOK, ProducerAt, List
<1>5. ConsumerAt'
  BY <1>0 DEF ConsumerAt, List, Deleting, Holding
<1>6. List'
  BY <1>0 DEF TypeOK, ConsumerAt, List, Adding, Deleting
<1>7. Chain'
  <2>1. Queued' = Queued
    BY <1>0 DEF Queued, TypeOK, Adding, Deleting
  <2>2. \A m \in allocated : next'[m] = next[m] /\ next[m] # n
    BY <1>0, Threads DEF TypeOK, List
  <2>3. \A m \in Queued' : \E k \in Queued' \cup {head'} : next'[k] = m
    BY <1>0, <2>1, <2>2 DEF Chain, Queued, List
  <2>4. PICK rank \in [Node -> Nat] : Increasing(rank)
    BY DEF Chain
  <2>5. Increasing(rank)'
    BY <1>0, <2>2, <2>4 DEF Increasing, TypeOK
  <2> QED
    BY <2>3, <2>4, <2>5 DEF Chain
<1>8. Clauses'
  <2>1. Queued' = Queued
    BY <1>0 DEF Queued, TypeOK, Adding, Deleting
  <2>2. \A m \in Queued : clause'[m] = clause[m]
    BY <1>0 DEF Queued, TypeOK
  <2>3. clause'[lNode'[P]] = c /\ ~Adding /\ Adding' /\ pc'[C] = pc[C]
    BY <1>0 DEF TypeOK, Adding
  <2> QED
    BY <1>0, <2>1, <2>2, <2>3 DEF Clauses, Holding
<1>9. Announced'
  <2>1. Queued' = Queued
    BY <1>0 DEF Queued, TypeOK, Adding, Deleting
  <2>2. \A m \in Queued : clause'[m] = clause[m] /\ next'[m] = next[m]
    BY <1>0 DEF Queued, TypeOK
  <2>3. clause'[lNode'[P]] = c /\ Holding' = Holding
    BY <1>0 DEF TypeOK, Holding
  <2>4. Pending' = Pending /\ Left' = Left
    BY <1>0, <2>3 DEF Pending, Left
  <2> QED
    BY <1>0, <2>1, <2>2, <2>3, <2>4 DEF Announced
<1>10. AnnouncedIsDelivered'
  BY <1>0 DEF AnnouncedIsDelivered
<1> QED
  BY <1>1, <1>3, <1>4, <1>5, <1>6, <1>7, <1>8, <1>9, <1>10

LEMMA AddReadTailStep == ASSUME OneEach, IsFiniteSet(Clause), IInv, AddReadTail(P) PROVE IInv'
<1> USE Threads DEF IInv, Shape, AddReadTail, Step, memory, ends, locals, history
<1>1. TypeOK'
  BY DEF TypeOK, Address
<1>2. ProducerAt'
  BY DEF TypeOK, ProducerAt, Adding
<1>3. ConsumerAt'
  BY DEF ConsumerAt, Deleting, Holding
<1>4. List'
  BY DEF List, Adding, Deleting
<1>5. Sizes' /\ Chain' /\ Clauses' /\ Announced' /\ AnnouncedIsDelivered'
  BY Quiet DEF Adding, Deleting, Holding
<1> QED
  BY <1>1, <1>2, <1>3, <1>4, <1>5

LEMMA AddReadNextStep == ASSUME OneEach, IsFiniteSet(Clause), IInv, AddReadNext(P) PROVE IInv'
<1> USE Threads DEF IInv, Shape, AddReadNext, Step, memory, ends, locals, history
<1>1. TypeOK'
  BY DEF TypeOK, ProducerAt
<1>2. ProducerAt'
  BY DEF TypeOK, ProducerAt, Adding
<1>3. ConsumerAt'
  BY DEF ConsumerAt, Deleting, Holding
<1>4. List'
  BY DEF List, Adding, Deleting
<1>5. Sizes' /\ Chain' /\ Clauses' /\ Announced' /\ AnnouncedIsDelivered'
  BY Quiet DEF Adding, Deleting, Holding
<1> QED
  BY <1>1, <1>2, <1>3, <1>4, <1>5

LEMMA AddCheckStep == ASSUME OneEach, IsFiniteSet(Clause), IInv, AddCheck(P) PROVE IInv'
<1> USE Threads DEF IInv, Shape, AddCheck, Step, memory, ends, locals, history
<1>1. TypeOK'
  BY DEF TypeOK
<1>2. ProducerAt'
  BY DEF ProducerAt, Adding
<1>3. ConsumerAt'
  BY DEF ConsumerAt, Deleting, Holding
<1>4. List'
  BY DEF List, Adding, Deleting
<1>5. Sizes' /\ Chain' /\ Clauses' /\ Announced' /\ AnnouncedIsDelivered'
  BY Quiet DEF Adding, Deleting, Holding
<1> QED
  BY <1>1, <1>2, <1>3, <1>4, <1>5

LEMMA AddLinkStep == ASSUME OneEach, IsFiniteSet(Clause), IInv, AddLink(P) PROVE IInv'
<1> USE Threads DEF IInv, Shape, AddLink, Step, memory, ends, locals, history
<1>1. Sizes'
  BY DEF Sizes, Deleting
<1>2. size' \in -Cardinality(Clause) .. Cardinality(Clause)
  BY <1>1, SizeWithin
<1>3. TypeOK'
  BY <1>2 DEF TypeOK
<1>4. ProducerAt'
  BY DEF TypeOK, ProducerAt, Adding
<1>5. ConsumerAt'
  BY DEF ProducerAt, ConsumerAt, Deleting, Holding
<1>6. List'
  BY DEF TypeOK, ProducerAt, ConsumerAt, List, Adding, Deleting
<1>7. Chain'
  <2>1. next[tail] = Null /\ tail \in allocated /\ lNode[P] \in allocated
    BY DEF ProducerAt, List, Adding
  <2>2. /\ next' = [next EXCEPT ![tail] = lNode[P]]
        /\ Queued' = Queued \cup {lNode[P]}
        /\ tail \in Queued \cup {head}
    BY <2>1 DEF Queued, TypeOK, ProducerAt, ConsumerAt, Adding, Deleting
  <2>3. \A n \in Queued' : \E m \in Queued' \cup {head'} : next'[m] = n
    <3> TAKE n \in Queued'
    <3>1. CASE n = lNode[P]
      BY <2>1, <2>2, <3>1 DEF TypeOK
    <3>2. CASE n # lNode[P]
      <4>1. PICK m \in Queued \cup {head} : next[m] = n
        BY <2>2, <3>2 DEF Chain
      <4>2. n \in Node /\ m # tail
        BY <2>1, <2>2, <3>2, <4>1 DEF Queued, TypeOK
      <4> QED
        BY <2>2, <4>1, <4>2 DEF TypeOK, Queued
    <3> QED
      BY <3>1, <3>2
  <2>4. PICK rank \in [Node -> Nat] : Increasing(rank)
    BY DEF Chain
  <2> DEFINE raised == [rank EXCEPT ![lNode[P]] = rank[tail] + 1]
  <2>5. raised \in [Node -> Nat]
    BY <2>1 DEF TypeOK
  <2>6. Increasing(raised)'
    BY <2>1, <2>2, <2>4, <2>5 DEF Increasing, TypeOK, List, ProducerAt, Adding
  <2> QED
    BY <2>3, <2>5, <2>6 DEF Chain
<1>8. Clauses'
  <2>1. Queued' = Queued \cup {lNode[P]} /\ Adding /\ ~Adding' /\ lNode[P] \notin Queued
    BY DEF Queued, TypeOK, ProducerAt, ConsumerAt, Adding, Deleting
  <2>2. clause[lNode[P]] \in Clause /\ Holding' = Holding
    BY <2>1 DEF ProducerAt, Holding
  <2> QED
    BY <2>1, <2>2 DEF Clauses
<1>9. Announced'
  BY DEF TypeOK, ProducerAt, List, Adding, Deleting, Holding, Announced, Queued, Pending, Left
<1>10. AnnouncedIsDelivered'
  BY DEF AnnouncedIsDelivered
<1> QED
  BY <1>1, <1>3, <1>4, <1>5, <1>6, <1>7, <1>8, <1>9, <1>10

LEMMA AddHelpStep == ASSUME OneEach, IsFiniteSet(Clause), IInv, AddHelp(P) PROVE IInv'
<1> USE Threads DEF IInv, Shape, AddHelp, Step, memory, ends, locals, history, CasTail
<1>1. TypeOK'
  BY DEF ProducerAt
<1>2. ProducerAt'
  BY DEF ProducerAt
<1>3. ConsumerAt'
  BY DEF ProducerAt
<1>4. List'
  BY DEF ProducerAt
<1>5. Sizes' /\ Chain' /\ Clauses' /\ Announced' /\ AnnouncedIsDelivered'
  BY Quiet DEF Adding, Deleting, Holding
<1> QED
  BY <1>1, <1>2, <1>3, <1>4, <1>5

LEMMA AddSwingStep == ASSUME OneEach, IsFiniteSet(Clause), IInv, AddSwing(P) PROVE IInv'
<1> USE Threads DEF IInv, Shape, AddSwing, Step, memory, ends, locals, history, CasTail
<1>1. TypeOK'
  BY DEF TypeOK, ProducerAt
<1>2. ProducerAt'
  BY DEF ProducerAt, Adding
<1>3. ConsumerAt'
  BY DEF ProducerAt, ConsumerAt, List, Deleting, Holding
<1>4. List'
  BY DEF TypeOK, ProducerAt, List, Adding, Deleting
<1>5. Sizes' /\ Chain' /\ Clauses' /\ Announced' /\ AnnouncedIsDelivered'
  BY Quiet DEF Adding, Deleting, Holding
<1> QED
  BY <1>1, <1>2, <1>3, <1>4, <1>5

LEMMA AddCountStep == ASSUME OneEach, IsFiniteSet(Clause), IInv, AddCount(P) PROVE IInv'
<1> USE Threads DEF IInv, Shape, AddCount, Step, memory, ends, locals, history
<1>1. Sizes'
  <2>1. Cardinality(Clause \ fresh) \in Nat
    BY Added
  <2>2. /\ pc[P] = "count" /\ pc'[P] = "idle" /\ pc'[C] = pc[C] /\ size' = size + 1
        /\ UNCHANGED <<allocated, fresh, taken>>
    BY DEF TypeOK
  <2> HIDE DEF AddCount, Step
  <2> QED
    BY <2>1, <2>2 DEF Sizes, One, Deleting
<1>2. size' \in -Cardinality(Clause) .. Cardinality(Clause)
  BY <1>1, SizeWithin
<1>3. TypeOK'
  BY <1>2 DEF TypeOK, Address
<1>4. ProducerAt'
  BY DEF TypeOK, ProducerAt, Adding
<1>5. ConsumerAt'
  BY DEF ConsumerAt, Deleting, Holding
<1>6. List'
  BY DEF List, Adding, Deleting
<1>7. Chain'
  <2>1. Queued' = Queued
    BY DEF Queued, Adding, Deleting
  <2> QED
    BY <2>1 DEF Chain, Increasing
<1>8. Clauses'
  BY DEF Adding, Deleting, Holding, Clauses, Queued
<1>9. Announced'
  BY DEF Adding, Deleting, Holding, Announced, Queued, Pending, Left
<1>10. AnnouncedIsDelivered'
  BY DEF AnnouncedIsDelivered
<1> QED
  BY <1>1, <1>3, <1>4, <1>5, <1>6, <1>7, <1>8, <1>9, <1>10

-----------------------------------------------------------------------------
\* The steps of getClauses and getClause

LEMMA SizeStep == ASSUME OneEach, IsFiniteSet(Clause), IInv, Size(C) PROVE IInv'
<1> USE Threads DEF IInv, Shape, Size, Step, memory, ends, locals, history
<1>1. Sizes'
  <2>1. Cardinality(Clause \ fresh) \in Nat
    BY Added
  <2> QED
    BY <2>1 DEF Sizes, Deleting
<1>2. size' \in -Cardinality(Clause) .. Cardinality(Clause)
  BY <1>1, SizeWithin
<1>3. TypeOK'
  BY <1>2 DEF TypeOK, Linked
<1>4. ProducerAt'
  BY DEF ProducerAt, Adding
<1>5. ConsumerAt'
  BY DEF ConsumerAt, Deleting, Holding
<1>6. List'
  BY DEF List, Adding, Deleting
<1>7. Chain'
  <2>1. Queued' = Queued
    BY DEF Queued, Adding, Deleting
  <2> QED
    BY <2>1 DEF Chain, Increasing
<1>8. Clauses'
  BY DEF Adding, Deleting, Holding, Clauses, Queued
<1>9. Announced'
  <2> DEFINE A == counted'[C]
             D == ToSet(taken)
  <2>1. Queued' = Queued /\ Adding' = Adding /\ ~Holding' /\ pc[C] = "idle"
    BY DEF Queued, Adding, Deleting, Holding
  <2>2. A = Linked \ (D \cup InHand(Uncounted))
    BY DEF TypeOK
  <2>3. Unlinked = (IF Adding THEN {clause[lNode[P]]} ELSE {})
    BY DEF Unlinked, InHand, Unlinking, OneEach, Adding
  <2>4. InHand(Uncounted) = IF pc[P] \in {"swing", "count"} THEN {clause[lNode[P]]} ELSE {}
    BY DEF InHand, Uncounted, OneEach
  <2>5. A \cap fresh = {} /\ A \cap D = {} /\ (Adding => clause[lNode[P]] \notin A)
    BY <2>2, <2>3 DEF Linked
  <2>6. ASSUME NEW m \in Queued, NEW n \in Queued, next[m] = n, clause[n] \in A
        PROVE  clause[m] \in A
    <3>1. clause[m] \in Clause \ (fresh \cup D) /\ (Adding => clause[m] # clause[lNode[P]])
      BY DEF Clauses
    <3>2. m \in allocated /\ n \in Node /\ m \in Node
      BY DEF Queued, TypeOK
    <3>3. ASSUME pc[P] \in {"swing", "count"} PROVE clause[m] # clause[lNode[P]]
      <4>1. lNode[P] \in Queued /\ m # lNode[P]
        BY <3>3, <2>6, <3>2, LastQueued, Threads
      <4> QED
        BY <4>1 DEF Clauses
    <3> QED
      BY <2>2, <2>3, <2>4, <3>1, <3>3 DEF Linked
  <2>7. Cardinality(A) = IF size > 0 THEN size ELSE 0
    <3> DEFINE up == Clause \ fresh
               u  == clause[lNode[P]]
    <3>1. IsFiniteSet(up) /\ Cardinality(up) \in Nat
      BY Added
    <3>2. D \subseteq up /\ Cardinality(D) = Len(taken)
      BY DEF Clauses, TypeOK
    <3>3. /\ IsFiniteSet(up \ D)
          /\ Cardinality(up \ D) = Cardinality(up) - Len(taken)
          /\ Cardinality(up \ D) \in Nat
      <4> HIDE DEF up, D
      <4>1. up \cap D = D
        BY <3>2
      <4>2. /\ IsFiniteSet(up \ D)
            /\ Cardinality(up \ D) = Cardinality(up) - Cardinality(up \cap D)
        BY <3>1, <3>2, FS_Difference, FS_Subset
      <4> QED
        BY <3>2, <4>1, <4>2, FS_CardinalityType
    <3>4. size = Cardinality(up \ D) - One(pc[P] # "idle")
      BY <2>1, <3>3 DEF Sizes, One
    <3>5. A = (up \ D) \ (IF pc[P] # "idle" THEN {u} ELSE {})
      BY <2>2, <2>3, <2>4 DEF Linked, ProducerAt, Adding
    <3>6. CASE pc[P] = "idle"
      <4>1. A = up \ D
        BY <3>5, <3>6
      <4> HIDE DEF up, D, A
      <4> QED
        BY <3>3, <3>4, <3>6, <4>1 DEF One
    <3>7. CASE pc[P] # "idle" /\ u \in up \ D
      <4> HIDE DEF up, D, u, A
      <4>1. A = (up \ D) \ {u}
        BY <3>5, <3>7
      <4>2. Cardinality(A) = Cardinality(up \ D) - 1 /\ IsFiniteSet(A)
        BY <3>3, <3>7, <4>1, FS_RemoveElement
      <4>3. Cardinality(A) \in Nat
        BY <4>2, FS_CardinalityType
      <4> QED
        BY <3>3, <3>4, <3>7, <4>2, <4>3 DEF One
    <3>8. CASE pc[P] # "idle" /\ u \notin up \ D
      <4>1. pc[P] \in {"swing", "count"} /\ ~Adding
        BY <3>8 DEF Clauses, ProducerAt, Adding
      <4>2. Queued = {}
        BY <3>8, <4>1, LastQueued DEF Clauses
      <4>3. up \ D = {}
        BY <4>1, <4>2 DEF Clauses
      <4>4. Cardinality(up \ D) = 0 /\ A = {}
        BY <4>3, <3>5, FS_EmptySet
      <4> HIDE DEF up, D, A
      <4> QED
        BY <3>4, <3>8, <4>4, FS_EmptySet DEF One
    <3> QED
      BY <3>6, <3>7, <3>8
  <2>8. Pending' = A /\ Left' = size
    <3>1. announced'[C] = size /\ got'[C] = 0 /\ taken' = taken
      BY <2>1 DEF TypeOK, ConsumerAt
    <3> QED
      BY <2>1, <2>5, <3>1 DEF Pending, Left, One, TypeOK
  <2> QED
    BY <2>1, <2>5, <2>6, <2>7, <2>8 DEF Announced
<1>10. AnnouncedIsDelivered'
  BY DEF AnnouncedIsDelivered, Clauses
<1> QED
  BY <1>1, <1>3, <1>4, <1>5, <1>6, <1>7, <1>8, <1>9, <1>10

LEMMA GetReadHeadStep == ASSUME OneEach, IsFiniteSet(Clause), IInv, GetReadHead(C) PROVE IInv'
<1> USE Threads DEF IInv, Shape, GetReadHead, Step, memory, ends, locals, history
<1>1. TypeOK'
  BY DEF TypeOK, Address
<1>2. ProducerAt'
  BY DEF ProducerAt, Adding
<1>3. ConsumerAt'
  BY DEF TypeOK, ConsumerAt, Deleting, Holding
<1>4. List'
  BY DEF List, Adding, Deleting
<1>5. Sizes' /\ Chain' /\ Clauses' /\ Announced' /\ AnnouncedIsDelivered'
  BY Quiet DEF Adding, Deleting, Holding
<1> QED
  BY <1>1, <1>2, <1>3, <1>4, <1>5

LEMMA GetReadTailStep == ASSUME OneEach, IsFiniteSet(Clause), IInv, GetReadTail(C) PROVE IInv'
<1> USE Threads DEF IInv, Shape, GetReadTail, Step, memory, ends, locals, history
<1>1. TypeOK'
  BY DEF TypeOK, Address
<1>2. ProducerAt'
  BY DEF ProducerAt, Adding
<1>3. ConsumerAt'
  BY DEF TypeOK, ConsumerAt, Deleting, Holding
<1>4. List'
  BY DEF List, Adding, Deleting
<1>5. Sizes' /\ Chain' /\ Clauses' /\ Announced' /\ AnnouncedIsDelivered'
  BY Quiet DEF Adding, Deleting, Holding
<1> QED
  BY <1>1, <1>2, <1>3, <1>4, <1>5

LEMMA GetReadNextStep == ASSUME OneEach, IsFiniteSet(Clause), IInv, GetReadNext(C) PROVE IInv'
<1> USE Threads DEF IInv, Shape, GetReadNext, Step, memory, ends, locals, history
<1>1. TypeOK'
  BY DEF TypeOK, ConsumerAt
<1>2. ProducerAt'
  BY DEF ProducerAt, Adding
<1>3. ConsumerAt'
  BY DEF TypeOK, ProducerAt, ConsumerAt, List, Deleting, Holding
<1>4. List'
  BY DEF List, Adding, Deleting
<1>5. Sizes' /\ Chain' /\ Clauses' /\ Announced' /\ AnnouncedIsDelivered'
  BY Quiet DEF Adding, Deleting, Holding
<1> QED
  BY <1>1, <1>2, <1>3, <1>4, <1>5

LEMMA GetCheckStep == ASSUME OneEach, IsFiniteSet(Clause), IInv, GetCheck(C) PROVE IInv'
<1> USE Threads DEF IInv, Shape, GetCheck, Step, memory, ends, locals, history
<1>1. TypeOK'
  BY DEF TypeOK
<1>2. ProducerAt'
  BY DEF ProducerAt, Adding
<1>3. ConsumerAt'
  BY DEF ConsumerAt, Deleting, Holding
<1>4. List'
  BY DEF List, Adding, Deleting
<1>5. Sizes' /\ Chain' /\ Clauses' /\ Announced' /\ AnnouncedIsDelivered'
  BY Quiet DEF Adding, Deleting, Holding
<1> QED
  BY <1>1, <1>2, <1>3, <1>4, <1>5

LEMMA GetHelpStep == ASSUME OneEach, IsFiniteSet(Clause), IInv, GetHelp(C) PROVE IInv'
<1> USE Threads DEF IInv, Shape, GetHelp, Step, memory, ends, locals, history, CasTail
<1>1. TypeOK'
  BY DEF TypeOK, ConsumerAt, Address
<1>2. ProducerAt'
  BY DEF ProducerAt, ConsumerAt, Adding
<1>3. ConsumerAt'
  BY DEF ConsumerAt, Deleting, Holding
<1>4. List'
  BY DEF ConsumerAt, List, Adding
<1>5. Sizes' /\ Chain' /\ Clauses' /\ Announced' /\ AnnouncedIsDelivered'
  BY Quiet DEF Adding, Deleting, Holding
<1> QED
  BY <1>1, <1>2, <1>3, <1>4, <1>5

LEMMA GetReadStep == ASSUME OneEach, IsFiniteSet(Clause), IInv, GetRead(C) PROVE IInv'
<1> USE Threads DEF IInv, Shape, GetRead, Step, memory, ends, locals, history
<1>1. TypeOK'
  BY DEF TypeOK, Address
<1>2. ProducerAt'
  BY DEF ProducerAt, Adding
<1>3. ConsumerAt'
  BY DEF TypeOK, ConsumerAt, Deleting, Holding
<1>4. List'
  BY DEF List, Adding, Deleting
<1>5. Sizes' /\ Chain' /\ Clauses' /\ Announced' /\ AnnouncedIsDelivered'
  BY Quiet DEF Adding, Deleting, Holding
<1> QED
  BY <1>1, <1>2, <1>3, <1>4, <1>5

LEMMA GetTakeStep == ASSUME OneEach, IsFiniteSet(Clause), IInv, GetTake(C) PROVE IInv'
<1> USE Threads DEF IInv, Shape, GetTake, Step, memory, ends, locals, history, CasHead
<1> DEFINE n == next[head]
           x == clause[n]
<1>0. /\ pc[C] = "take" /\ lHead[C] = head /\ lNext[C] = n /\ lClause[C] = x
      /\ pc' = [pc EXCEPT ![C] = "delete"] /\ head' = n /\ taken' = Append(taken, x)
  BY DEF ConsumerAt
<1>a. /\ head \in Node /\ n \in allocated /\ n # Null /\ n # head
      /\ n \in Queued /\ x \in Clause
      /\ Deleting' /\ ~Deleting /\ Holding' /\ ~Holding /\ Adding' = Adding
  BY <1>0 DEF TypeOK, ConsumerAt, List, Deleting, Holding, Adding, Queued
<1>b. /\ Queued' = Queued \ {n}
      /\ \A m \in Queued : next[m] # n
  BY <1>0, <1>a DEF List, Queued
<1>c. /\ ToSet(taken') = ToSet(taken) \cup {x} /\ Len(taken') = Len(taken) + 1
      /\ x \in Clause \ (fresh \cup ToSet(taken))
  <2>1. taken \in Seq(Clause)
    BY DEF TypeOK
  <2>2. ToSet(Append(taken, x)) = ToSet(taken) \cup {x}
    BY <2>1, <1>a DEF ToSet
  <2>3. x \in Clause \ (fresh \cup ToSet(taken))
    BY <1>a DEF Clauses
  <2> QED
    BY <1>0, <2>1, <2>2, <2>3, <1>a
<1>1. Sizes'
  <2>1. Cardinality(allocated) >= 2 /\ Cardinality(allocated) \in Nat
    <3>1. {head, n} \subseteq allocated /\ IsFiniteSet(allocated)
      BY <1>a DEF List, Sizes
    <3>2. Cardinality({head, n}) = 2
      BY <1>a, TwoElements
    <3> QED
      BY <3>1, <3>2, FS_Subset, FS_CardinalityType
  <2>2. Cardinality(Clause \ fresh) \in Nat
    BY Added
  <2>3. pc'[C] = "delete" /\ pc[C] = "take" /\ pc'[P] = pc[P]
    BY <1>0 DEF TypeOK
  <2>4. /\ allocated' = allocated /\ fresh' = fresh /\ size' = size
        /\ Len(taken') = Len(taken) + 1 /\ Deleting' /\ ~Deleting
    BY <1>a, <1>c
  <2> HIDE DEF GetTake, Step, CasHead
  <2> QED
    BY <2>1, <2>2, <2>3, <2>4 DEF Sizes, One
<1>2. size' \in -Cardinality(Clause) .. Cardinality(Clause)
  BY <1>1, SizeWithin
<1>3. TypeOK'
  BY <1>0, <1>a, <1>2 DEF TypeOK
<1>4. ProducerAt'
  BY <1>0, <1>a DEF ProducerAt, List
<1>5. ConsumerAt'
  BY <1>0, <1>a DEF ConsumerAt, List, Holding
<1>6. List'
  BY <1>0, <1>a DEF List
<1>7. Chain'
  <2>1. \A k \in Queued' : \E m \in Queued' \cup {head'} : next'[m] = k
    BY <1>0, <1>a, <1>b DEF Chain
  <2> QED
    BY <2>1 DEF Chain, Increasing
<1>8. Clauses'
  <2>1. /\ IsFiniteSet(ToSet(taken)) /\ ToSet(taken) \subseteq Clause \ fresh
    BY Added, FS_Subset DEF Clauses
  <2>2. Cardinality(ToSet(taken')) = Len(taken')
    <3> HIDE DEF x
    <3>1. Cardinality(ToSet(taken) \cup {x}) = Cardinality(ToSet(taken)) + 1
      BY <1>c, <2>1, FS_AddElement
    <3>2. Cardinality(ToSet(taken)) = Len(taken)
      BY DEF Clauses
    <3> QED
      BY <1>c, <3>1, <3>2
  <2>3. \A m \in Queued : m # n => clause[m] # x
    BY <1>a DEF Clauses
  <2> QED
    BY <1>0, <1>a, <1>b, <1>c, <2>1, <2>2, <2>3 DEF Clauses
<1>9. Announced'
  <2>1. Pending' = Pending \ {x} /\ Left' = Left - 1 /\ Left \in Int
    BY <1>0, <1>a, <1>c DEF Pending, Left, One, TypeOK
  <2>2. IsFiniteSet(Pending)
    <3>1. Pending \subseteq Clause
      BY DEF Pending, TypeOK
    <3> QED
      BY <3>1, FS_Subset
  <2>3. ASSUME Pending # {} PROVE x \in Pending
    <3> DEFINE S == {m \in Queued : clause[m] \in Pending}
    <3>1. S # {}
      BY <2>3 DEF Clauses, Announced, Pending, TypeOK
    <3>2. ASSUME NEW k \in Queued, NEW m \in Queued, next[k] = m, m \in S PROVE k \in S
      BY <3>2 DEF Announced, Clauses, Pending
    <3> HIDE DEF S
    <3>3. n \in S
      BY <3>1, <3>2, FrontOfQueue DEF S
    <3> QED
      BY <3>3 DEF S
  <2>4. CASE Pending = {}
    <3>1. Cardinality(Pending) = 0 /\ Left <= 0
      <4>1. Cardinality(Pending) = 0
        BY <2>4, FS_EmptySet
      <4> QED
        BY <2>1, <4>1 DEF Announced
    <3>2. Pending' = Pending /\ x \notin counted[C]
      BY <2>1, <2>4, <1>c DEF Pending
    <3>3. Cardinality(Pending') = 0
      BY <3>1, <3>2, Zenon
    <3>4. ~(Left' > 0)
      BY <2>1, <3>1
    <3> QED
      BY <1>0, <1>a, <1>b, <3>2, <3>3, <3>4 DEF Announced, TypeOK
  <2>5. CASE Pending # {}
    <3>1. Cardinality(Pending') = Cardinality(Pending) - 1
      BY <2>1, <2>2, <2>3, <2>5, FS_RemoveElement
    <3>2. Cardinality(Pending) # 0
      BY <2>2, <2>5, FS_EmptySet
    <3>3. Left > 0 /\ Cardinality(Pending') = Left'
      BY <2>1, <3>1, <3>2 DEF Announced
    <3>4. got[C] < announced[C]
      BY <3>3, <1>a DEF Left, One, TypeOK
    <3> QED
      BY <1>0, <1>a, <1>b, <2>1, <3>3, <3>4 DEF Announced, TypeOK
  <2> QED
    BY <2>4, <2>5
<1>10. AnnouncedIsDelivered'
  BY DEF AnnouncedIsDelivered
<1> QED
  BY <1>1, <1>3, <1>4, <1>5, <1>6, <1>7, <1>8, <1>9, <1>10

LEMMA GetDeleteStep == ASSUME OneEach, IsFiniteSet(Clause), IInv, GetDelete(C) PROVE IInv'
<1> USE Threads DEF IInv, Shape, GetDelete, Step, memory, ends, locals, history
<1>1. Sizes'
  <2>1. /\ Cardinality(allocated') = Cardinality(allocated) - 1 /\ IsFiniteSet(allocated')
        /\ Deleting /\ ~Deleting'
    BY FS_RemoveElement DEF Sizes, ConsumerAt, Deleting, TypeOK
  <2>2. Cardinality(Clause \ fresh) \in Nat
    BY Added
  <2>3. Cardinality(allocated) \in Nat
    BY FS_CardinalityType DEF Sizes
  <2>4. pc'[C] = "uncount" /\ pc[C] = "delete" /\ pc'[P] = pc[P]
    BY DEF TypeOK
  <2> QED
    BY <2>1, <2>2, <2>3, <2>4 DEF Sizes, One
<1>2. size' \in -Cardinality(Clause) .. Cardinality(Clause)
  BY <1>1, SizeWithin
<1>3. TypeOK'
  BY <1>2 DEF TypeOK
<1>4. ProducerAt'
  BY DEF ProducerAt, ConsumerAt, List, Adding, Deleting
<1>5. ConsumerAt'
  BY DEF TypeOK, ConsumerAt, Deleting, Holding
<1>6. List'
  <2>1. Deleting /\ ~Deleting' /\ Adding' = Adding /\ (pc[P] = "swing")' = (pc[P] = "swing")
    BY DEF TypeOK, Deleting, Adding
  <2>2. \A k \in allocated' : k \in allocated /\ k # lHead[C]
    OBVIOUS
  <2>3. head # lHead[C] /\ tail # lHead[C]
    BY <2>1, Threads DEF List, ConsumerAt
  <2> QED
    BY <2>1, <2>2, <2>3 DEF List
<1>7. Chain'
  <2>1. Queued' = Queued
    BY DEF Queued, Adding, Deleting
  <2>2. PICK rank \in [Node -> Nat] : Increasing(rank)
    BY DEF Chain
  <2>3. Increasing(rank)'
    BY <2>2 DEF Increasing
  <2> QED
    BY <2>1, <2>2, <2>3 DEF Chain
<1>8. Clauses'
  BY DEF Adding, Deleting, Holding, Clauses, Queued
<1>9. Announced'
  BY DEF Adding, Holding, Announced, Queued, Pending, Left
<1>10. AnnouncedIsDelivered'
  BY DEF AnnouncedIsDelivered
<1> QED
  BY <1>1, <1>3, <1>4, <1>5, <1>6, <1>7, <1>8, <1>9, <1>10

LEMMA GetUncountStep == ASSUME OneEach, IsFiniteSet(Clause), IInv, GetUncount(C) PROVE IInv'
<1> USE Threads DEF IInv, Shape, GetUncount, Step, memory, ends, locals, history
<1>1. Sizes'
  <2>1. Cardinality(Clause \ fresh) \in Nat
    BY Added
  <2> QED
    BY <2>1 DEF TypeOK, Sizes, One, Deleting
<1>2. size' \in -Cardinality(Clause) .. Cardinality(Clause)
  BY <1>1, SizeWithin
<1>3. TypeOK'
  BY <1>2 DEF TypeOK
<1>4. ProducerAt'
  BY DEF ProducerAt, Adding
<1>5. ConsumerAt'
  BY DEF ConsumerAt, Deleting, Holding
<1>6. List'
  BY DEF List, Adding, Deleting
<1>7. Chain'
  <2>1. Queued' = Queued
    BY DEF Queued, Adding, Deleting
  <2> QED
    BY <2>1 DEF Chain, Increasing
<1>8. Clauses'
  BY DEF Adding, Deleting, Holding, Clauses, Queued
<1>9. Announced'
  BY DEF Adding, Deleting, Holding, Announced, Queued, Pending, Left
<1>10. AnnouncedIsDelivered'
  BY DEF AnnouncedIsDelivered
<1> QED
  BY <1>1, <1>3, <1>4, <1>5, <1>6, <1>7, <1>8, <1>9, <1>10

LEMMA DeliverStep == ASSUME OneEach, IsFiniteSet(Clause), IInv, Deliver(C) PROVE IInv'
<1> USE Threads DEF IInv, Shape, Deliver, Step, memory, ends, locals, history
<1>1. Sizes'
  <2>1. Cardinality(Clause \ fresh) \in Nat
    BY Added
  <2> QED
    BY <2>1 DEF TypeOK, Sizes, Deleting
<1>2. size' \in -Cardinality(Clause) .. Cardinality(Clause)
  BY <1>1, SizeWithin
<1>3. TypeOK'
  <2>1. lClause[C] \in Clause
    BY DEF ConsumerAt, Holding
  <2>2. CASE got[C] < announced[C]
    <3>1. /\ pc' = [pc EXCEPT ![C] = "head"]
          /\ got' = [got EXCEPT ![C] = @ + 1]
          /\ delivered' = delivered \cup {lClause[C]} /\ dropped' = dropped
      BY <2>2
    <3>2. got' \in [Thread -> Nat] /\ delivered' \subseteq Clause
      BY <2>1, <3>1 DEF TypeOK
    <3> QED
      BY <1>2, <3>1, <3>2 DEF TypeOK, Address
  <2>3. CASE ~(got[C] < announced[C])
    <3>1. /\ pc' = [pc EXCEPT ![C] = "return"]
          /\ dropped' = dropped \cup {lClause[C]} /\ UNCHANGED <<delivered, got>>
      BY <2>3
    <3>2. dropped' \subseteq Clause
      BY <2>1, <3>1 DEF TypeOK
    <3> QED
      BY <1>2, <3>1, <3>2 DEF TypeOK, Address
  <2> QED
    BY <2>2, <2>3
<1>4. ProducerAt'
  BY DEF TypeOK, ProducerAt, Adding
<1>5. ConsumerAt'
  BY DEF TypeOK, ConsumerAt, Deleting, Holding
<1>6. List'
  BY DEF TypeOK, List, Adding, Deleting
<1>7. Chain'
  <2>1. Queued' = Queued
    BY DEF Queued, TypeOK, Adding, Deleting
  <2> QED
    BY <2>1 DEF Chain, Increasing
<1>8. Clauses'
  BY DEF TypeOK, Adding, Deleting, Holding, Clauses, Queued
<1>9. Announced'
  <2>1. /\ Queued' = Queued /\ Adding' = Adding /\ Holding /\ ~Holding'
        /\ counted' = counted /\ Pending' = Pending
    BY DEF Queued, TypeOK, Adding, Deleting, Holding, Pending
  <2>2. got[C] \in Nat /\ announced[C] \in Int /\ announced'[C] = announced[C]
    BY DEF TypeOK
  <2>3. Left = announced[C] - got[C] - 1
    BY <2>1 DEF Left, One
  <2>4. Left' = announced[C] - got'[C]
    BY <2>1, <2>2 DEF Left, One, TypeOK
  <2>5. got'[C] = IF got[C] < announced[C] THEN got[C] + 1 ELSE got[C]
    BY <2>2 DEF TypeOK
  <2>6. (IF Left > 0 THEN Left ELSE 0) = (IF Left' > 0 THEN Left' ELSE 0)
    BY <2>2, <2>3, <2>4, <2>5
  <2> QED
    BY <2>1, <2>6 DEF Announced
<1>10. AnnouncedIsDelivered'
  <2>1. got[C] \in Nat /\ announced[C] \in Int /\ Holding
    BY DEF TypeOK, Holding
  <2>2. dropped' \cap counted[C] = {}
    BY <2>1 DEF AnnouncedIsDelivered, Announced
  <2> QED
    BY <2>2 DEF AnnouncedIsDelivered, OneEach
<1> QED
  BY <1>1, <1>3, <1>4, <1>5, <1>6, <1>7, <1>8, <1>9, <1>10

LEMMA ReturnStep == ASSUME OneEach, IsFiniteSet(Clause), IInv, Return(C) PROVE IInv'
<1> USE Threads DEF IInv, Shape, Return, Step, memory, ends, locals, history
<1>1. Sizes'
  <2>1. Cardinality(Clause \ fresh) \in Nat
    BY Added
  <2> QED
    BY <2>1 DEF Sizes, Deleting
<1>2. size' \in -Cardinality(Clause) .. Cardinality(Clause)
  BY <1>1, SizeWithin
<1>3. TypeOK'
  BY <1>2 DEF TypeOK, Address
<1>4. ProducerAt'
  BY DEF ProducerAt, Adding
<1>5. ConsumerAt'
  BY DEF TypeOK, ConsumerAt, Deleting, Holding
<1>6. List'
  BY DEF List, Adding, Deleting
<1>7. Chain'
  <2>1. Queued' = Queued
    BY DEF Queued, Adding, Deleting
  <2> QED
    BY <2>1 DEF Chain, Increasing
<1>8. Clauses'
  BY DEF Adding, Deleting, Holding, Clauses, Queued
<1>9. Announced'
  <2>1. /\ Queued' = Queued /\ ~Holding'
        /\ counted'[C] = {} /\ announced'[C] = 0 /\ got'[C] = 0
    BY DEF Queued, TypeOK, Adding, Deleting, Holding
  <2>2. Pending' = {} /\ Left' = 0
    BY <2>1 DEF Pending, Left, One
  <2> QED
    BY <2>1, <2>2, FS_EmptySet DEF Announced
<1>10. AnnouncedIsDelivered'
  BY DEF AnnouncedIsDelivered
<1> QED
  BY <1>1, <1>3, <1>4, <1>5, <1>6, <1>7, <1>8, <1>9, <1>10

-----------------------------------------------------------------------------
LEMMA NextInv == ASSUME OneEach, IsFiniteSet(Clause), IInv, [Next]_vars PROVE IInv'
<1>1. CASE Add(P)
  BY <1>1, NewStep, AddReadTailStep, AddReadNextStep, AddCheckStep, AddLinkStep,
     AddHelpStep, AddSwingStep, AddCountStep DEF Add
<1>2. CASE Get(C)
  BY <1>2, SizeStep, GetReadHeadStep, GetReadTailStep, GetReadNextStep, GetCheckStep,
     GetHelpStep, GetReadStep, GetTakeStep, GetDeleteStep, GetUncountStep,
     DeliverStep, ReturnStep DEF Get
<1>3. CASE UNCHANGED vars
  <2> USE <1>3 DEF vars, memory, ends, locals, history
  <2>1. Sizes' /\ Chain' /\ Clauses' /\ Announced' /\ AnnouncedIsDelivered'
    BY Quiet DEF Adding, Deleting, Holding
  <2>2. Shape'
    BY DEF IInv, Shape, TypeOK, ProducerAt, ConsumerAt, List, Adding, Deleting, Holding
  <2> QED
    BY <2>1, <2>2 DEF IInv
<1> QED
  BY <1>1, <1>2, <1>3 DEF Next, OneEach

LEMMA InvariantHolds == ASSUME OneEach, IsFiniteSet(Clause) PROVE Spec => []IInv
<1>1. Init => IInv
  BY InitInv
<1>2. IInv /\ [Next]_vars => IInv'
  BY NextInv
<1> QED
  BY <1>1, <1>2, PTL DEF Spec

LEMMA Safe == ASSUME OneEach, IInv PROVE NoReclaimedAccess
BY Threads DEF IInv, Shape, TypeOK, ProducerAt, ConsumerAt, List, Deleting, OneEach,
   NoReclaimedAccess

\* The memory, the locals of the threads and the history keep their types, and
\* size stays within the number of clauses.  (ClauseBuffer)
THEOREM TypeCorrect == ASSUME OneEach, IsFiniteSet(Clause) PROVE Spec => []TypeOK
<1>1. IInv => TypeOK
  BY DEF IInv, Shape
<1> QED
  BY <1>1, InvariantHolds, PTL

\* With one producer and one consumer, and whatever addresses new returns, no
\* thread loads or exchanges through a pointer to a node that was deleted, and
\* head and tail never point to one.  (addClause, getClause, delete head)
THEOREM NothingReclaimedIsUsed ==
    ASSUME OneEach, IsFiniteSet(Clause)
    PROVE  Spec => []NoReclaimedAccess
<1>1. IInv => NoReclaimedAccess
  BY Safe
<1> QED
  BY <1>1, InvariantHolds, PTL

\* With one producer and one consumer getClauses hands on every clause that was
\* in the buffer, and counted, when it called size: the one it may drop came
\* later.  (the loop condition of getClauses)
THEOREM AnnouncedIsNeverDropped ==
    ASSUME OneEach, IsFiniteSet(Clause)
    PROVE  Spec => []AnnouncedIsDelivered
<1>1. IInv => AnnouncedIsDelivered
  BY DEF IInv
<1> QED
  BY <1>1, InvariantHolds, PTL
=============================================================================
