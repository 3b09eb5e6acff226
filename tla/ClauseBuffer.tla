----------------------------- MODULE ClauseBuffer -----------------------------
(***************************************************************************)
(* ClauseBuffer: the lock-free linked queue through which solvers, sharers *)
(* and the communicator pass learned clauses.  Every access to a shared    *)
(* atomic is a step of its own.  Nodes are memory addresses: new takes any *)
(* free one, delete frees it with its contents still in place, and with    *)
(* Reuse a later new may return it again.                                  *)
(*                                                                         *)
(* Producers add clauses with addClause; consumers drain the buffer with   *)
(* getClauses, which calls getClause until it fails or has delivered as    *)
(* many clauses as size() announced.                                       *)
(***************************************************************************)
EXTENDS Integers, Sequences, FiniteSets, SequencesExt

CONSTANTS
    Producer,   \* threads that call addClause
    Consumer,   \* threads that call getClauses
    Clause,     \* the clauses to add, each once
    Node,       \* addresses of list elements: what bounds the memory
    Reuse,      \* whether new may return an address that was deleted
    Null

ASSUME DistinctAssumption ==
    /\ Producer \cap Consumer = {}
    /\ Null \notin Node /\ Null \notin Clause
    /\ Reuse \in BOOLEAN

VARIABLES
    allocated,  \* the nodes in use
    next,       \* ListElement::next of every address
    clause,     \* ListElement::clause of every address
    head, tail, \* buffer.head and buffer.tail
    size,       \* buffer.size
    pc,         \* where each thread is
    lHead,      \* local variables of the threads: head, ...
    lTail,
    lNext,
    lNode,      \* the node under construction
    lClause,    \* the clause read by getClause
    announced,  \* nClauses of getClauses
    got,        \* nClausesGet of getClauses
    counted,    \* the clauses announced stands for
    fresh,      \* clauses no producer has taken up
    taken,      \* clauses dequeued so far, in order
    delivered,  \* clauses getClauses has handed to its caller
    dropped     \* clauses it has dequeued without handing them on

memory  == <<allocated, next, clause>>
ends    == <<head, tail>>
locals  == <<lHead, lTail, lNext, lNode, lClause, announced, got, counted>>
history == <<fresh, taken, delivered, dropped>>
vars    == <<memory, ends, size, pc, locals, history>>

Thread == Producer \cup Consumer
Address == Node \cup {Null}

TypeOK ==
    /\ allocated \subseteq Node
    /\ next \in [Node -> Address]
    /\ clause \in [Node -> Clause \cup {Null}]
    /\ head \in Node /\ tail \in Node
    /\ size \in -Cardinality(Clause) .. Cardinality(Clause)
    /\ pc \in [Thread -> {"idle", "tail", "next", "check", "link", "help",
                          "swing", "count", "head", "read", "take", "delete",
                          "uncount", "deliver", "return"}]
    /\ lHead \in [Thread -> Address] /\ lTail \in [Thread -> Address]
    /\ lNext \in [Thread -> Address] /\ lNode \in [Thread -> Address]
    /\ lClause \in [Thread -> Clause \cup {Null}]
    /\ announced \in [Thread -> Int] /\ got \in [Thread -> Nat]
    /\ counted \in [Thread -> SUBSET Clause]
    /\ fresh \subseteq Clause /\ delivered \subseteq Clause /\ dropped \subseteq Clause
    /\ taken \in Seq(Clause)

\* The constructor: one dummy node.
Init ==
    /\ \E n \in Node : head = n /\ tail = n /\ allocated = {n}
    /\ next = [n \in Node |-> Null]
    /\ clause = [n \in Node |-> Null]
    /\ size = 0
    /\ pc = [t \in Thread |-> "idle"]
    /\ lHead = [t \in Thread |-> Null] /\ lTail = [t \in Thread |-> Null]
    /\ lNext = [t \in Thread |-> Null] /\ lNode = [t \in Thread |-> Null]
    /\ lClause = [t \in Thread |-> Null]
    /\ announced = [t \in Thread |-> 0] /\ got = [t \in Thread |-> 0]
    /\ counted = [t \in Thread |-> {}]
    /\ fresh = Clause /\ taken = <<>> /\ delivered = {} /\ dropped = {}

-----------------------------------------------------------------------------
Step(t, from, to) == pc[t] = from /\ pc' = [pc EXCEPT ![t] = to]

\* compare_exchange_strong on buffer.tail and buffer.head.
CasTail(expected, new) == tail' = IF tail = expected THEN new ELSE tail
CasHead(expected, new) == head' = IF head = expected THEN new ELSE head

\* addClause

\* The addresses new may return; every deleted node has a successor.
Free == {n \in Node \ allocated : Reuse \/ next[n] = Null}

New(p) ==
    \E n \in Free, c \in fresh :
        /\ Step(p, "idle", "tail")
        /\ allocated' = allocated \cup {n}
        /\ next' = [next EXCEPT ![n] = Null]
        /\ clause' = [clause EXCEPT ![n] = c]
        /\ lNode' = [lNode EXCEPT ![p] = n]
        /\ fresh' = fresh \ {c}
        /\ UNCHANGED <<ends, size, lHead, lTail, lNext, lClause, announced, got,
                       counted, taken, delivered, dropped>>

AddReadTail(p) ==
    /\ Step(p, "tail", "next")
    /\ lTail' = [lTail EXCEPT ![p] = tail]
    /\ UNCHANGED <<memory, ends, size, lHead, lNext, lNode, lClause, announced,
                   got, counted, history>>

AddReadNext(p) ==
    /\ Step(p, "next", "check")
    /\ lNext' = [lNext EXCEPT ![p] = next[lTail[p]]]
    /\ UNCHANGED <<memory, ends, size, lHead, lTail, lNode, lClause, announced,
                   got, counted, history>>

AddCheck(p) ==
    /\ Step(p, "check", IF lTail[p] # tail THEN "tail"
                        ELSE IF lNext[p] = Null THEN "link" ELSE "help")
    /\ UNCHANGED <<memory, ends, size, locals, history>>

\* The compare-and-exchange on tail->next makes the clause visible.
AddLink(p) ==
    LET t == lTail[p]
    IN  /\ Step(p, "link", IF next[t] = Null THEN "swing" ELSE "tail")
        /\ next' = IF next[t] = Null THEN [next EXCEPT ![t] = lNode[p]] ELSE next
        /\ UNCHANGED <<allocated, clause, ends, size, locals, history>>

AddHelp(p) ==
    /\ Step(p, "help", "tail")
    /\ CasTail(lTail[p], lNext[p])
    /\ UNCHANGED <<memory, head, size, locals, history>>

AddSwing(p) ==
    /\ Step(p, "swing", "count")
    /\ CasTail(lTail[p], lNode[p])
    /\ UNCHANGED <<memory, head, size, locals, history>>

\* The local pointers are dead from here on.
AddCount(p) ==
    /\ Step(p, "count", "idle")
    /\ size' = size + 1
    /\ lTail' = [lTail EXCEPT ![p] = Null]
    /\ lNext' = [lNext EXCEPT ![p] = Null]
    /\ lNode' = [lNode EXCEPT ![p] = Null]
    /\ UNCHANGED <<memory, ends, lHead, lClause, announced, got, counted,
                   history>>

Add(p) ==
    \/ New(p) \/ AddReadTail(p) \/ AddReadNext(p) \/ AddCheck(p)
    \/ AddLink(p) \/ AddHelp(p) \/ AddSwing(p) \/ AddCount(p)

-----------------------------------------------------------------------------
\* The clauses after node n, oldest first.  What a deleted node still points to is not
\* followed.
After[n \in Node] == IF next[n] \notin allocated THEN <<>>
                     ELSE <<clause[next[n]]>> \o After[next[n]]

Contents == After[head]

\* The producers whose clause is in the buffer and not in its size yet, and the
\* consumers whose clause is in its size and not in the buffer any more.
Uncounted == {p \in Producer : pc[p] \in {"swing", "count"}}
Overcounted == {c \in Consumer : pc[c] \in {"delete", "uncount"}}

\* The producers whose node is not linked yet, the clauses some producers are
\* adding, and the clauses that have been linked.
Unlinking == {p \in Producer : pc[p] \in {"tail", "next", "check", "link", "help"}}
InHand(ps) == {clause[lNode[p]] : p \in ps}
Unlinked == InHand(Unlinking)
Linked == Clause \ (fresh \cup Unlinked)

\* getClauses, and getClause inside it

Size(c) ==
    /\ Step(c, "idle", "head")
    /\ announced' = [announced EXCEPT ![c] = size]
    /\ counted' = [counted EXCEPT ![c] = Linked \ (ToSet(taken) \cup InHand(Uncounted))]
    /\ UNCHANGED <<memory, ends, size, lHead, lTail, lNext, lNode, lClause, got,
                   history>>

GetReadHead(c) ==
    /\ Step(c, "head", "tail")
    /\ lHead' = [lHead EXCEPT ![c] = head]
    /\ UNCHANGED <<memory, ends, size, lTail, lNext, lNode, lClause, announced,
                   got, counted, history>>

GetReadTail(c) ==
    /\ Step(c, "tail", "next")
    /\ lTail' = [lTail EXCEPT ![c] = tail]
    /\ UNCHANGED <<memory, ends, size, lHead, lNext, lNode, lClause, announced,
                   got, counted, history>>

GetReadNext(c) ==
    /\ Step(c, "next", "check")
    /\ lNext' = [lNext EXCEPT ![c] = next[lHead[c]]]
    /\ UNCHANGED <<memory, ends, size, lHead, lTail, lNode, lClause, announced,
                   got, counted, history>>

\* Mutants: no test of an empty buffer; tail ignored.
GetCheckNotEmpty(c) ==
    /\ Step(c, "check", IF lHead[c] # head THEN "head"
                        ELSE IF lHead[c] # lTail[c] THEN "read" ELSE "help")
    /\ UNCHANGED <<memory, ends, size, locals, history>>

GetCheckNoTail(c) ==
    /\ Step(c, "check", IF lHead[c] # head THEN "head"
                        ELSE IF lNext[c] # Null THEN "read" ELSE "return")
    /\ UNCHANGED <<memory, ends, size, locals, history>>

GetCheck(c) ==
    /\ Step(c, "check", IF lHead[c] # head THEN "head"
                        ELSE IF lHead[c] # lTail[c] THEN "read"
                        ELSE IF lNext[c] = Null THEN "return" ELSE "help")
    /\ UNCHANGED <<memory, ends, size, locals, history>>

\* Mutant: the consumer waits for the producer to move tail.
GetHelpNot(c) ==
    /\ Step(c, "help", "head")
    /\ UNCHANGED <<memory, ends, size, locals, history>>

GetHelp(c) ==
    /\ Step(c, "help", "head")
    /\ CasTail(lTail[c], lNext[c])
    /\ UNCHANGED <<memory, head, size, locals, history>>

\* Mutant: the clause of the dummy node.
GetReadDummy(c) ==
    /\ lNext[c] # Null
    /\ Step(c, "read", "take")
    /\ lClause' = [lClause EXCEPT ![c] = clause[lHead[c]]]
    /\ UNCHANGED <<memory, ends, size, lHead, lTail, lNext, lNode, announced, got,
                   counted, history>>

\* A null pointer, which a freed node can hold, ends the program.
GetRead(c) ==
    /\ lNext[c] # Null
    /\ Step(c, "read", "take")
    /\ lClause' = [lClause EXCEPT ![c] = clause[lNext[c]]]
    /\ UNCHANGED <<memory, ends, size, lHead, lTail, lNext, lNode, announced, got,
                   counted, history>>

\* The compare-and-exchange on buffer.head dequeues the clause.
GetTake(c) ==
    /\ Step(c, "take", IF head = lHead[c] THEN "delete" ELSE "head")
    /\ CasHead(lHead[c], lNext[c])
    /\ taken' = IF head = lHead[c] THEN Append(taken, lClause[c]) ELSE taken
    /\ UNCHANGED <<memory, tail, size, locals, fresh, delivered, dropped>>

GetDelete(c) ==
    /\ Step(c, "delete", "uncount")
    /\ allocated' = allocated \ {lHead[c]}
    /\ UNCHANGED <<next, clause, ends, size, locals, history>>

\* Mutant: size is left alone.
GetUncountNot(c) ==
    /\ Step(c, "uncount", "deliver")
    /\ UNCHANGED <<memory, ends, size, locals, history>>

GetUncount(c) ==
    /\ Step(c, "uncount", "deliver")
    /\ size' = size - 1
    /\ UNCHANGED <<memory, ends, locals, history>>

\* Mutant: one clause short.
DeliverOneLess(c) ==
    /\ IF got[c] + 1 < announced[c]
       THEN /\ Step(c, "deliver", "head")
            /\ delivered' = delivered \cup {lClause[c]}
            /\ got' = [got EXCEPT ![c] = @ + 1]
            /\ UNCHANGED dropped
       ELSE /\ Step(c, "deliver", "return")
            /\ dropped' = dropped \cup {lClause[c]}
            /\ UNCHANGED <<delivered, got>>
    /\ lClause' = [lClause EXCEPT ![c] = Null]
    /\ UNCHANGED <<memory, ends, size, lHead, lTail, lNext, lNode, announced,
                   counted, fresh, taken>>

\* getClause has returned true: the loop of getClauses either hands the clause
\* on, or ends because it has delivered as many as announced.
Deliver(c) ==
    /\ IF got[c] < announced[c]
       THEN /\ Step(c, "deliver", "head")
            /\ delivered' = delivered \cup {lClause[c]}
            /\ got' = [got EXCEPT ![c] = @ + 1]
            /\ UNCHANGED dropped
       ELSE /\ Step(c, "deliver", "return")
            /\ dropped' = dropped \cup {lClause[c]}
            /\ UNCHANGED <<delivered, got>>
    /\ lClause' = [lClause EXCEPT ![c] = Null]
    /\ UNCHANGED <<memory, ends, size, lHead, lTail, lNext, lNode, announced,
                   counted, fresh, taken>>

\* getClauses returns.
Return(c) ==
    /\ Step(c, "return", "idle")
    /\ lHead' = [lHead EXCEPT ![c] = Null]
    /\ lTail' = [lTail EXCEPT ![c] = Null]
    /\ lNext' = [lNext EXCEPT ![c] = Null]
    /\ announced' = [announced EXCEPT ![c] = 0]
    /\ got' = [got EXCEPT ![c] = 0]
    /\ counted' = [counted EXCEPT ![c] = {}]
    /\ UNCHANGED <<memory, ends, size, lNode, lClause, history>>

Get(c) ==
    \/ Size(c) \/ GetReadHead(c) \/ GetReadTail(c) \/ GetReadNext(c)
    \/ GetCheck(c) \/ GetHelp(c) \/ GetRead(c) \/ GetTake(c) \/ GetDelete(c)
    \/ GetUncount(c) \/ Deliver(c) \/ Return(c)

Next == (\E p \in Producer : Add(p)) \/ (\E c \in Consumer : Get(c))

Spec == Init /\ [][Next]_vars

\* Consumers drain the buffer again and again (a solver at every restart, a
\* sharer every round).  Nothing is asked of producers: one may stop anywhere.
FairSpec == Spec /\ \A c \in Consumer : WF_vars(Get(c))

-----------------------------------------------------------------------------
\* The buffer is a first-in first-out queue: a clause is enqueued when it is
\* linked, until when it counts as fresh, and dequeued when head moves.
\* (addClause, getClause)
Queue == INSTANCE ClauseQueue WITH queue <- Contents, fresh <- fresh \cup Unlinked
IsQueue == Queue!Spec

\* A node is freed by at most one thread, and no thread follows a pointer to a
\* node that has been freed.  (the loads of tail->next, head->next and
\* next->clause, the compare-and-exchange on tail->next, delete head)
NoReclaimedAccess ==
    /\ {head, tail} \subseteq allocated
    /\ \A p \in Producer : pc[p] \in {"next", "link"} => lTail[p] \in allocated
    /\ \A c \in Consumer :
          /\ pc[c] \in {"next", "delete"} => lHead[c] \in allocated
          /\ pc[c] = "read" => lNext[c] \in allocated

\* size counts the clauses in the buffer, up to the operations that have done
\* their compare-and-exchange and not yet counted it: what getClauses relies on
\* to know when to stop.  (buffer.size++, buffer.size--)
SizeAccounts ==
    size = Len(Contents) - Cardinality(Uncounted) + Cardinality(Overcounted)

\* getClauses drops no clause it has announced: a clause that was in the buffer,
\* and counted, when it called size() is handed to the caller.  (the loop
\* condition of getClauses against a producer that runs meanwhile)
AnnouncedIsDelivered == \A c \in Consumer : dropped \cap counted[c] = {}

\* A clause that has been linked is dequeued in the end, even when its producer
\* is preempted for ever before it moves tail: getClause moves it instead.
LinkedIsTaken ==
    \A x \in Clause : x \in Linked ~> x \in ToSet(taken)

\* Not true of the code with several producers and Reuse.  What ClauseBuffer.h:33 says: the
\* buffer is a queue of shared clauses, so one that has been linked is in it until it is taken.
LinkedIsQueued ==
    Linked \subseteq ToSet(Contents) \cup ToSet(taken)

\* Not true of the code.  What ClauseBuffer.h:52 says of getClauses: it dequeues the
\* shared clauses, so every clause it removes from the buffer reaches its caller.
NothingLost == dropped = {}
=============================================================================
