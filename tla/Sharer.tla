------------------------------- MODULE Sharer -------------------------------
(***************************************************************************)
(* The threads that carry learned clauses between solvers (Sharer), with   *)
(* the strategies -shr-strat=1 (SimpleSharing: all of them), 3 and 4       *)
(* (HordeSatSharing: the shortest, within a number of literals), while     *)
(* cube and conquer or divide and conquer clone solvers, announce the      *)
(* clones to each sharer, and take them back when their sub-problem is     *)
(* refuted.  A solver is deleted when nobody refers to it any more.        *)
(*                                                                         *)
(* The lists of a sharer are kept by role: producers are                   *)
(* members[s, "producer"], addConsumers toAdd[s, "consumer"].  The buffers *)
(* of a solver are what ClauseBuffer promises; how the holders of a clause *)
(* are counted is in ClauseSharing.                                        *)
(***************************************************************************)
EXTENDS Integers, Sequences, FiniteSets

CONSTANTS
    NumSharers,     \* at most
    Solver,
    Clause, Size,   \* the clauses learned, and how many literals each has
    LiteralPerRound, BucketLimit,   \* -shr-lit, and 1000 in ClauseDatabase::addClause
    Setup,          \* what the command line may ask for: see SetupAssumption
    None

Sharer == 1 .. NumSharers
Role   == {"producer", "consumer"}
List   == Sharer \X Role

\* strategy names that of each sharer; the solvers of original exist from the start and
\* are members of the lists of joined; calls are the lists a clone is announced to, in
\* the order of the calls.  Every original is a consumer of each sharer, and a clone of cube
\* and conquer is nobody's producer.  Originals are given up in divide and conquer only
\* (givesUp).
\* clones and clauses are bounds: the solvers cloned, and the clauses learned.
ASSUME NumSharersAssumption == NumSharers \in Nat \ {0}
ASSUME SolverAssumption == IsFiniteSet(Solver) /\ None \notin Solver
ASSUME ClauseAssumption == IsFiniteSet(Clause) /\ Size \in [Clause -> Nat \ {0}]
ASSUME LimitAssumption  == LiteralPerRound \in Nat /\ BucketLimit \in Nat \ {0}
ASSUME SetupAssumption  ==
    \A u \in Setup :
        /\ DOMAIN u.strategy \subseteq Sharer /\ 1 \in DOMAIN u.strategy
        /\ \A s \in DOMAIN u.strategy : u.strategy[s] \in {"simple", "horde"}
        /\ u.original \subseteq Solver
        /\ u.joined \in [List -> SUBSET u.original]
        /\ u.calls \in Seq(List) /\ u.calls # <<>>
        /\ \A i, j \in DOMAIN u.calls : u.calls[i] = u.calls[j] => i = j
        /\ \A s \in DOMAIN u.strategy : u.joined[<<s, "consumer">>] = u.original
        /\ ~u.givesUp => \A i \in DOMAIN u.calls : u.calls[i][2] = "consumer"
        /\ u.givesUp \in BOOLEAN /\ u.clones \subseteq Solver /\ u.clauses \subseteq Clause
        /\ u.givesUp => \A i \in DOMAIN u.calls : u.joined[u.calls[i]] = u.original

VARIABLES
    setup,
    globalEnding,
    nRefs,                      \* 0 for a solver that is deleted, or not there yet
    phase, at,                  \* what is being done with a solver, and the next call
    members, toAdd, toRemove,   \* the six lists of each sharer
    pc,
    from, current, to,          \* producers and consumers of the round left to serve
    tmp, database,              \* the clauses selected, and those of HordeSatSharing
    counted,                    \* nClauses of getClauses, when its loop begins
    exported, issuer,           \* buffers of the solvers, and who learned a clause
    uncounted,                  \* solvers that have linked a clause, before size++
    late,                       \* not among those a sharer has counted
    given,                      \* the clauses a solver has been given
    refused,                    \* by a full bucket
    overtaken,                  \* the lists that forgot a solver before they had it
    fault                       \* a deleted solver or sharer was used

lists   == <<members, toAdd, toRemove>>
solvers == <<nRefs, phase, at>>
round   == <<from, current, to, tmp, database, counted>>
clauses == <<exported, issuer, uncounted, late, given, refused>>
vars    == <<setup, globalEnding, solvers, lists, pc, round, clauses, overtaken, fault>>

Phases == {"unborn", "adding", "running", "removing", "destroy", "release", "over"}
SharerPc == {"sleep", "take", "dequeue", "give", "removeProducers", "removeConsumers", "done",
             "deleting", "deleted"}

TypeOK ==
    /\ setup \in Setup /\ globalEnding \in BOOLEAN
    /\ nRefs \in [Solver -> Nat]
    /\ phase \in [Solver -> Phases] /\ at \in [Solver -> Nat \ {0}]
    /\ {members, toAdd, toRemove} \subseteq [List -> SUBSET Solver]
    /\ pc \in [Sharer -> SharerPc]
    /\ {from, to} \subseteq [Sharer -> SUBSET Solver]
    /\ current \in [Sharer -> Solver \cup {None}]
    /\ {tmp, database} \subseteq [Sharer -> SUBSET Clause]
    /\ counted \in [Sharer -> Int]
    /\ exported \in [Solver -> Seq(Clause)] /\ given \in [Solver -> SUBSET Clause]
    /\ issuer \in [Clause -> Solver \cup {None}]
    /\ uncounted \subseteq Solver /\ late \subseteq Clause /\ refused \subseteq Clause
    /\ overtaken \subseteq List \X Solver
    /\ fault \in {"none", "solver", "sharer"}

\* The solvers, one reference for the worker that has it and one for each list.
Init ==
    /\ setup \in Setup /\ globalEnding = FALSE
    /\ members = setup.joined
    /\ toAdd = [l \in List |-> {}] /\ toRemove = [l \in List |-> {}]
    /\ nRefs = [v \in Solver |-> IF v \in setup.original
                                 THEN 1 + Cardinality({l \in List : v \in members[l]}) ELSE 0]
    /\ phase = [v \in Solver |-> IF v \in setup.original THEN "running" ELSE "unborn"]
    /\ at = [v \in Solver |-> 1]
    /\ pc = [s \in Sharer |-> IF s \in DOMAIN setup.strategy THEN "sleep" ELSE "deleted"]
    /\ from = [s \in Sharer |-> {}] /\ current = [s \in Sharer |-> None]
    /\ to = [s \in Sharer |-> {}]
    /\ tmp = [s \in Sharer |-> {}] /\ database = [s \in Sharer |-> {}]
    /\ counted = [s \in Sharer |-> 0]
    /\ exported = [v \in Solver |-> <<>>] /\ given = [v \in Solver |-> {}]
    /\ issuer = [c \in Clause |-> None] /\ uncounted = {} /\ late = {} /\ refused = {}
    /\ overtaken = {} /\ fault = "none"

-----------------------------------------------------------------------------
Alive(v) == nRefs[v] > 0
Go(s, here, there) == pc[s] = here /\ pc' = [pc EXCEPT ![s] = there]
Enter(v, here, there) == phase[v] = here /\ phase' = [phase EXCEPT ![v] = there]

\* The call that is next for v, and its list.
Call(v) == setup.calls[at[v]]
Calling(v, here) == phase[v] = here /\ at[v] \in DOMAIN setup.calls
LastCall(v) == at[v] \notin DOMAIN setup.calls

-----------------------------------------------------------------------------
\* A solver: its callbacks, and the worker or master that has it

\* addClause of clausesToExport: the clause is linked, and then size increased.
Learn(v) ==
    /\ phase[v] = "running" /\ v \notin uncounted
    /\ \E c \in setup.clauses :
          /\ issuer[c] = None
          /\ issuer' = [issuer EXCEPT ![c] = v]
          /\ exported' = [exported EXCEPT ![v] = Append(@, c)]
          /\ late' = IF \E s \in Sharer : pc[s] = "dequeue" /\ current[s] = v
                     THEN late \cup {c} ELSE late
    /\ uncounted' = uncounted \cup {v}
    /\ UNCHANGED <<setup, globalEnding, solvers, lists, pc, round, given, refused, overtaken,
                   fault>>

Learned(v) ==
    /\ v \in uncounted /\ uncounted' = uncounted \ {v}
    /\ UNCHANGED <<setup, globalEnding, solvers, lists, pc, round, exported, issuer, late,
                   given, refused, overtaken, fault>>

\* SolverFactory::cloneSolver of some solver.
Clone(v) ==
    /\ v \in setup.clones /\ Enter(v, "unborn", "adding")
    /\ \E w \in Solver : phase[w] = "running"
    /\ nRefs' = [nRefs EXCEPT ![v] = 1]
    /\ UNCHANGED <<setup, globalEnding, at, lists, pc, round, clauses, overtaken, fault>>

\* Mutant: the sharer's reference is not counted.
AddUncounted(v) ==
    /\ Calling(v, "adding") /\ pc[Call(v)[1]] # "deleted"
    /\ toAdd' = [toAdd EXCEPT ![Call(v)] = @ \cup {v}]
    /\ at' = [at EXCEPT ![v] = @ + 1]
    /\ UNCHANGED <<setup, globalEnding, nRefs, phase, members, toRemove, pc, round, clauses,
                   overtaken, fault>>

\* Sharer::addProducer and addConsumer.  Their increase, before the lock, is the same
\* step: the caller has a reference of its own.
Add(v) ==
    /\ Calling(v, "adding") /\ pc[Call(v)[1]] # "deleted"
    /\ nRefs' = [nRefs EXCEPT ![v] = @ + 1]
    /\ toAdd' = [toAdd EXCEPT ![Call(v)] = @ \cup {v}]
    /\ at' = [at EXCEPT ![v] = @ + 1]
    /\ UNCHANGED <<setup, globalEnding, phase, members, toRemove, pc, round, clauses,
                   overtaken, fault>>

Added(v) ==
    /\ LastCall(v) /\ Enter(v, "adding", "running")
    /\ at' = [at EXCEPT ![v] = 1]
    /\ UNCHANGED <<setup, globalEnding, nRefs, lists, pc, round, clauses, overtaken, fault>>

\* The sub-problem of v is refuted: v is out of its callbacks.  Only divide and conquer
\* turns back at the end.
GiveUp(v) ==
    /\ v \notin uncounted
    /\ v \notin setup.original \/ setup.givesUp
    /\ ~globalEnding \/ ~setup.givesUp
    /\ Enter(v, "running", "removing")
    /\ UNCHANGED <<setup, globalEnding, nRefs, at, lists, pc, round, clauses, overtaken,
                   fault>>

\* Sharer::removeProducer and removeConsumer; the sharer holds removeLock for its two loops.
Remove(v) ==
    /\ Calling(v, "removing")
    /\ pc[Call(v)[1]] \notin {"removeConsumers", "deleting", "deleted"}
    /\ toRemove' = [toRemove EXCEPT ![Call(v)] = @ \cup {v}]
    /\ at' = [at EXCEPT ![v] = @ + 1]
    /\ UNCHANGED <<setup, globalEnding, nRefs, phase, members, toAdd, pc, round, clauses,
                   overtaken, fault>>

\* Either, of a sharer that main has deleted.
CallDeleted(v) ==
    /\ Calling(v, "adding") \/ Calling(v, "removing")
    /\ pc[Call(v)[1]] = "deleted"
    /\ fault' = "sharer"
    /\ UNCHANGED <<setup, globalEnding, solvers, lists, pc, round, clauses, overtaken>>

Removed(v) ==
    /\ LastCall(v)
    /\ Enter(v, "removing", IF setup.givesUp THEN "release" ELSE "destroy")
    /\ UNCHANGED <<setup, globalEnding, nRefs, at, lists, pc, round, clauses, overtaken,
                   fault>>

\* ~SequentialWorker in cube and conquer: the flag is set back while the thread is joined.
Destroy(v) ==
    /\ Enter(v, "destroy", "release")
    /\ globalEnding' = FALSE
    /\ UNCHANGED <<setup, nRefs, at, lists, pc, round, clauses, overtaken, fault>>

Release(v) ==
    /\ Enter(v, "release", "over")
    /\ nRefs' = [nRefs EXCEPT ![v] = @ - 1]
    /\ UNCHANGED <<setup, globalEnding, at, lists, pc, round, clauses, overtaken, fault>>

Work(v) ==
    \/ Learn(v) \/ Learned(v) \/ Clone(v) \/ Add(v) \/ Added(v) \/ GiveUp(v) \/ Remove(v)
    \/ CallDeleted(v) \/ Removed(v) \/ Destroy(v) \/ Release(v)

-----------------------------------------------------------------------------
\* ClauseDatabase

Literals(set) == Cardinality(UNION {{c} \X (1 .. Size[c]) : c \in set})
Bucket(set, n) == {c \in set : Size[c] = n}
Sizes == {Size[c] : c \in Clause}
Least(m, n) == IF m < n THEN m ELSE n

\* What addClause, for each clause of new in some order, makes of a database: a bucket
\* of size n has room while one clause more is less than the limit.
Filled(db, new) ==
    {set \in SUBSET (db \cup new) :
        /\ db \subseteq set
        /\ \A n \in Sizes : Cardinality(Bucket(set, n)) =
              Least(Cardinality(Bucket(db \cup new, n)), (BucketLimit - 1) \div n)}

MaxSize == CHOOSE n \in Sizes : \A m \in Sizes : m <= n

\* Mutant: each bucket may use all of the literals.
UsedUncharged(db) ==
    LET used[n \in 0 .. MaxSize] ==
            IF n = 0 THEN 0
            ELSE used[n - 1] + n * Least(Cardinality(Bucket(db, n)), LiteralPerRound \div n)
    IN  used

\* The literals giveSelection has used after the buckets of sizes 1 to n.
Used(db) ==
    LET used[n \in 0 .. MaxSize] ==
            IF n = 0 THEN 0
            ELSE used[n - 1]
                 + n * Least(Cardinality(Bucket(db, n)), (LiteralPerRound - used[n - 1]) \div n)
    IN  used

\* giveSelection: which of a bucket it takes depends on the order they came in.
Selections(db) ==
    LET used == Used(db) IN
    {set \in SUBSET db : \A n \in Sizes :
        n * Cardinality(Bucket(set, n)) = used[n] - used[n - 1]}

-----------------------------------------------------------------------------
\* A sharer: mainThrSharing

\* The end of the pause.  The new solvers join under addLock.
Wake(s) ==
    /\ Go(s, "sleep", IF globalEnding THEN "done" ELSE "take")
    /\ IF globalEnding
       THEN UNCHANGED <<members, toAdd, from>>
       ELSE /\ members' = [l \in List |-> IF l[1] = s THEN members[l] \cup toAdd[l] ELSE members[l]]
            /\ toAdd' = [l \in List |-> IF l[1] = s THEN {} ELSE toAdd[l]]
            /\ from' = [from EXCEPT ![s] = members[<<s, "producer">>] \cup toAdd[<<s, "producer">>]]
    /\ UNCHANGED <<setup, globalEnding, solvers, toRemove, current, to, tmp, database,
                   counted, clauses, overtaken, fault>>

Elements(seq) == {seq[i] : i \in DOMAIN seq}

\* Mutant: the loop of getClauses loses the last clause it has counted.
FirstLess(seq, n) == Elements(SubSeq(seq, 1, Least(n, Len(seq)) - 1))

\* The first n clauses of a buffer, those after them, and the buffer once the loop of
\* getClauses has taken the first n and has lost one more.
First(seq, n)  == Elements(SubSeq(seq, 1, Least(n, Len(seq))))
Beyond(seq, n) == {seq[i] : i \in {j \in DOMAIN seq : j > n}}
Left(seq, n)   == SubSeq(seq, (IF n < 0 THEN 0 ELSE n) + 2, Len(seq))

\* doSharing: getLearnedClauses of producer p reads the size of its buffer.
Count(s, p) ==
    LET size == Len(exported[p]) - (IF p \in uncounted THEN 1 ELSE 0)
    IN  /\ p \in from[s] /\ Alive(p) /\ Go(s, "take", "dequeue")
        /\ current' = [current EXCEPT ![s] = p]
        /\ counted' = [counted EXCEPT ![s] = size]
        /\ late' = late \cup Beyond(exported[p], size)
        /\ UNCHANGED <<setup, globalEnding, solvers, lists, from, to, tmp, database,
                       exported, issuer, uncounted, given, refused, overtaken, fault>>

\* The clauses it has counted: all of them are shared, or a selection of those and of
\* what the rounds before have left.
Take(s) ==
    LET p    == current[s]
        list == First(exported[p], counted[s])
    IN  /\ Go(s, "dequeue", "give") /\ Alive(p)
        /\ exported' = [exported EXCEPT ![p] = Left(@, counted[s])]
        /\ counted' = [counted EXCEPT ![s] = 0]
        /\ IF setup.strategy[s] = "simple"
           THEN tmp' = [tmp EXCEPT ![s] = list] /\ UNCHANGED <<database, refused>>
           ELSE \E db \in Filled(database[s], list) : \E set \in Selections(db) :
                   /\ tmp' = [tmp EXCEPT ![s] = set]
                   /\ database' = [database EXCEPT ![s] = db \ set]
                   /\ refused' = refused \cup (list \ db)
        /\ to' = [to EXCEPT ![s] = members[<<s, "consumer">>]]
        /\ UNCHANGED <<setup, globalEnding, solvers, lists, from, current, issuer, uncounted,
                       late, given, overtaken, fault>>

\* addLearnedClauses of consumer q, unless it is the producer.
Give(s, q) ==
    /\ pc[s] = "give" /\ q \in to[s] /\ Alive(q) /\ Alive(current[s])
    /\ to' = [to EXCEPT ![s] = @ \ {q}]
    /\ given' = IF q = current[s] THEN given ELSE [given EXCEPT ![q] = @ \cup tmp[s]]
    /\ UNCHANGED <<setup, globalEnding, solvers, lists, pc, from, current, tmp, database,
                   counted, exported, issuer, uncounted, late, refused, overtaken, fault>>

Given(s) ==
    /\ to[s] = {} /\ Go(s, "give", "take")
    /\ from' = [from EXCEPT ![s] = @ \ {current[s]}]
    /\ current' = [current EXCEPT ![s] = None]
    /\ tmp' = [tmp EXCEPT ![s] = {}]
    /\ UNCHANGED <<setup, globalEnding, solvers, lists, to, database, counted, clauses,
                   overtaken, fault>>

Shared(s) ==
    /\ from[s] = {} /\ Go(s, "take", "removeProducers")
    /\ UNCHANGED <<setup, globalEnding, solvers, lists, round, clauses, overtaken, fault>>

\* Either reads the memory of a solver that is deleted.
UseDeleted(s) ==
    /\ \/ pc[s] = "take" /\ \E p \in from[s] : ~Alive(p)
       \/ pc[s] = "dequeue" /\ ~Alive(current[s])
       \/ pc[s] = "give" /\ \E q \in to[s] : ~Alive(q) \/ ~Alive(current[s])
    /\ fault' = "solver"
    /\ UNCHANGED <<setup, globalEnding, solvers, lists, pc, round, clauses, overtaken>>

\* Mutant: the list forgets the solvers, and their references.
ForgetUnreleased(l) ==
    /\ members' = [members EXCEPT ![l] = @ \ toRemove[l]]
    /\ toRemove' = [toRemove EXCEPT ![l] = {}]
    /\ overtaken' = overtaken \cup {l} \X (toRemove[l] \cap toAdd[l])
    /\ UNCHANGED <<nRefs, toAdd>>

\* Mutant: the solvers are released, and stay in the list.
ForgetNot(l) ==
    /\ nRefs' = [v \in Solver |-> IF v \in toRemove[l] THEN nRefs[v] - 1 ELSE nRefs[v]]
    /\ toRemove' = [toRemove EXCEPT ![l] = {}]
    /\ overtaken' = overtaken \cup {l} \X (toRemove[l] \cap toAdd[l])
    /\ UNCHANGED <<members, toAdd>>

\* The solvers taken off a list, and released.  One that is still to be added to it
\* stays so.
Forget(l) ==
    /\ members' = [members EXCEPT ![l] = @ \ toRemove[l]]
    /\ nRefs' = [v \in Solver |-> IF v \in toRemove[l] THEN nRefs[v] - 1 ELSE nRefs[v]]
    /\ toRemove' = [toRemove EXCEPT ![l] = {}]
    /\ overtaken' = overtaken \cup {l} \X (toRemove[l] \cap toAdd[l])
    /\ UNCHANGED toAdd

ForgetProducers(s) ==
    /\ Go(s, "removeProducers", "removeConsumers")
    /\ Forget(<<s, "producer">>)
    /\ UNCHANGED <<setup, globalEnding, phase, at, round, clauses, fault>>

ForgetConsumers(s) ==
    /\ Go(s, "removeConsumers", IF globalEnding THEN "done" ELSE "sleep")
    /\ Forget(<<s, "consumer">>)
    /\ UNCHANGED <<setup, globalEnding, phase, at, round, clauses, fault>>

Round(s) ==
    \/ Wake(s) \/ Given(s) \/ Shared(s) \/ ForgetProducers(s) \/ ForgetConsumers(s)
    \/ UseDeleted(s) \/ Take(s)
    \/ \E v \in Solver : Count(s, v) \/ Give(s, v)

-----------------------------------------------------------------------------
\* main: the end of the search, and delete sharers[i], which joins the thread

\* The result of some solver, or the time limit.
End ==
    /\ ~globalEnding /\ globalEnding' = TRUE
    /\ UNCHANGED <<setup, solvers, lists, pc, round, clauses, overtaken, fault>>

\* The lists of s are gone, whether Forget takes a solver off them or not.
DeleteProducers(s) ==
    /\ \A r \in 1 .. s - 1 : pc[r] = "deleted"
    /\ Go(s, "done", "deleting")
    /\ Forget(<<s, "producer">>)
    /\ UNCHANGED <<setup, globalEnding, phase, at, round, clauses, fault>>

DeleteConsumers(s) ==
    /\ Go(s, "deleting", "deleted")
    /\ Forget(<<s, "consumer">>)
    /\ UNCHANGED <<setup, globalEnding, phase, at, round, clauses, fault>>

Next ==
    /\ fault = "none"
    /\ \/ End
       \/ \E v \in Solver : Work(v)
       \/ \E s \in Sharer : Round(s) \/ DeleteProducers(s) \/ DeleteConsumers(s)

Spec == Init /\ [][Next]_vars

FairSpec == Spec /\ \A s \in Sharer : WF_vars(fault = "none" /\ Round(s))

-----------------------------------------------------------------------------
\* Who refers to v: the lists, but for those that had forgotten it before they got it,
\* and the worker or master that has it.
Listed(v, l) == v \in members[l] \cup toAdd[l] /\ <<l, v>> \notin overtaken
Owner == <<0, "worker">>
Holders(v) == {l \in List : Listed(v, l)}
              \cup {h \in {Owner} : phase[v] \notin {"unborn", "over"}}

\* nRefs is the number of references to a solver, except in a list that was asked to
\* forget it before it had it.  (increase and release of SolverInterface, in the
\* constructor, the additions and removals of Sharer and the two strategies)
SolverRefs == \A v \in Solver : nRefs[v] = Cardinality(Holders(v))

\* No sharer uses a solver that has been deleted, unless one was taken off a list before
\* it had been put there.  (the order of additions, removals and release)
NoDeletedSolver == fault = "solver" => overtaken # {}

\* A selection has as many clauses as the literals of a round allow.  (giveSelection)
BestSelection ==
    \A s \in DOMAIN setup.strategy :
        setup.strategy[s] = "horde" /\ pc[s] = "give" =>
            /\ Literals(tmp[s]) <= LiteralPerRound
            /\ \A set \in SUBSET (tmp[s] \cup database[s]) :
                  Literals(set) <= LiteralPerRound => Cardinality(set) <= Cardinality(tmp[s])

\* The clauses the sharers have given to all they had to.  One that is in the buffer, and
\* that a sharer has not counted, may be lost.
Done == {c \in Clause : /\ issuer[c] # None /\ c \notin Elements(exported[issuer[c]])
                        /\ c \notin late /\ c \notin refused
                        /\ \A s \in Sharer : c \notin tmp[s] \cup database[s]}

\* A clause that is counted by the first sharer that finds it in the buffer of its solver
\* reaches every solver that is there from the start to the end but the one that
\* learned it, which never gets it back; where one database is filled by several producers
\* neither is so.  (doSharing of the strategies, ClauseBuffer::getClauses)
ReachesTheOthers ==
    (\A s \in DOMAIN setup.strategy : setup.strategy[s] = "horde" =>
        Cardinality(setup.joined[<<s, "producer">>]) <= 1 /\ ~setup.givesUp) =>
    \A v \in Solver :
        /\ \A c \in given[v] : issuer[c] # v
        /\ v \in setup.original /\ phase[v] = "running" =>
              \A c \in Done : issuer[c] # v => c \in given[v]

\* A solver that is given up is deleted in the end, unless the sharers end first, or a
\* deleted one is used.
\* (removeProducer and removeConsumer, and the loops of the sharer)
GivenUpIsDeleted ==
    \A v \in Solver :
        phase[v] = "over" ~>
            \/ ~Alive(v) \/ fault # "none"
            \/ \E s \in DOMAIN setup.strategy : pc[s] \in {"done", "deleting", "deleted"}
=============================================================================
