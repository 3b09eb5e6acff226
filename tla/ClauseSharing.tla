---------------------------- MODULE ClauseSharing ----------------------------
(***************************************************************************)
(* How one process of the distributed portfolio shares learned clauses     *)
(* (-shr-strat=5): its solvers export and import, the sharer thread runs   *)
(* DistributionSharing::doSharing round after round, and the communicator  *)
(* thread sends clauses to the other ranks and takes theirs.  A clause is  *)
(* an object with a reference count, passed on through buffers.            *)
(*                                                                         *)
(* What a clause says is a member of Clause.  The order of clauses in a    *)
(* buffer tells no property apart, so buffers and databases are sets, and  *)
(* giveSelection takes any part of a database (the code: the shortest that *)
(* fit shr-lit).  A filter is a set of bits, four for a clause in the code,  *)
(* which it lets pass if one of its bits is new; a unit is a bit of its own.*)
(*                                                                         *)
(* No lock protects what the sharer and the communicator share: each of    *)
(* them asks externalFilter first and tells it then, and addClause may     *)
(* come between the two halves of giveSelection.                           *)
(***************************************************************************)
EXTENDS Integers, FiniteSets

CONSTANTS
    NumSolvers, \* solvers of the process
    FirstId,    \* the id of its first solver: rank * NumSolvers
    Clause,     \* the clauses a solver may learn
    Remote,     \* those the other ranks may send
    Bit, Bits,  \* Bits[c]: the bits ClauseFilter sets for c
    Object      \* addresses of ClauseExchange: bounds the clauses alive at once

Solver == 0 .. NumSolvers - 1
External == -1

ASSUME SolverAssumption ==
    NumSolvers \in Nat \ {0} /\ FirstId \in Nat /\ (FirstId = 0 \/ FirstId >= NumSolvers)
ASSUME ClauseAssumption == Remote \subseteq Clause /\ Bits \in [Clause -> (SUBSET Bit) \ {{}}]
ASSUME ObjectAssumption == IsFiniteSet(Object)

VARIABLES
    refs,           \* nbRefs of every object; 0: not allocated
    clause, from,   \* the literals and the exporter of every object
    exported,       \* clausesToExport of every solver
    imported,       \* clausesToImport and unitsToImport of every solver
    solverFilter,   \* DistributionSharing::solverFilters, localFilter, database
    localFilter,
    database,
    tmp,            \* DistributionSharing::tmp
    todo,           \* those of tmp addClausesToExternal has not treated
    adding,         \* the one of tmp that externalFilter has let pass
    toAdd,          \* clausesToAdd of doSharing
    pc, at,         \* where the sharer is, and its loop over the solvers
    externalFilter, \* of MpiComm
    toExport,       \* MpiComm::clausesToExport
    toImport,       \* MpiComm::clausesToImport
    commPc,
    commTmp,        \* tmp of exportLearnedClauses
    taking,         \* the received clause that externalFilter has let pass
    torn,           \* addClause has come into the giveSelection under way
    slipped,        \* clauses getClauses has dropped, or a torn giveSelection has touched
    raced,          \* clauses asked for while the other thread had asked and not told
    seen,           \* seen[s]: the clauses collected from or given to solver s
    shared,         \* the clauses handed out to the solvers in some round
    sent, received  \* the clauses exchanged with the other ranks

heap     == <<refs, clause, from>>
solvers  == <<exported, imported>>
filters  == <<solverFilter, localFilter>>
local    == <<database, tmp, todo, adding, toAdd, pc, at>>
commVars == <<toExport, toImport, commPc, commTmp, taking, torn>>
slips    == <<slipped, raced>>
history  == <<seen, shared, sent, received>>
vars     == <<heap, solvers, filters, local, externalFilter, commVars, slips, history>>

TypeOK ==
    /\ refs \in [Object -> Nat]
    /\ clause \in [Object -> Clause] /\ from \in [Object -> Nat \cup {External}]
    /\ exported \in [Solver -> SUBSET Object] /\ imported \in [Solver -> SUBSET Object]
    /\ solverFilter \in [Solver -> SUBSET Bit]
    /\ localFilter \subseteq Bit /\ externalFilter \subseteq Bit
    /\ database \subseteq Object /\ tmp \subseteq Object
    /\ todo \subseteq tmp /\ adding \subseteq tmp
    /\ toAdd \subseteq Object
    /\ pc \in {"collect", "external", "distribute", "give", "release"} /\ at \in Solver
    /\ toExport \subseteq Object /\ toImport \subseteq Object /\ commTmp \subseteq Object
    /\ commPc \in {"loop", "take", "clear", "send"}
    /\ taking \subseteq Remote /\ torn \in BOOLEAN
    /\ slipped \subseteq Object /\ raced \subseteq Clause
    /\ seen \in [Solver -> SUBSET Clause]
    /\ shared \subseteq Clause /\ sent \subseteq Clause /\ received \subseteq Clause

Init ==
    /\ refs = [o \in Object |-> 0]
    /\ \E c \in Clause : clause = [o \in Object |-> c]
    /\ from = [o \in Object |-> External]
    /\ exported = [s \in Solver |-> {}] /\ imported = [s \in Solver |-> {}]
    /\ solverFilter = [s \in Solver |-> {}] /\ localFilter = {} /\ externalFilter = {}
    /\ database = {} /\ tmp = {} /\ todo = {} /\ adding = {} /\ toAdd = {}
    /\ pc = "collect" /\ at = 0
    /\ toExport = {} /\ toImport = {}
    /\ commPc = "loop" /\ commTmp = {} /\ taking = {} /\ torn = FALSE
    /\ slipped = {} /\ raced = {}
    /\ seen = [s \in Solver |-> {}] /\ shared = {} /\ sent = {} /\ received = {}

-----------------------------------------------------------------------------
\* ClauseManager: allocClause, and what increaseClause and releaseClause of every
\* object of a set make of the counts.

Alloc(o, c, id) ==
    /\ refs[o] = 0
    /\ refs' = [refs EXCEPT ![o] = 1]
    /\ clause' = [clause EXCEPT ![o] = c]
    /\ from' = [from EXCEPT ![o] = id]
    /\ slipped' = slipped \ {o}

Increased(S) == [o \in Object |-> IF o \in S THEN refs[o] + 1 ELSE refs[o]]
Released(S)  == [o \in Object |-> IF o \in S THEN refs[o] - 1 ELSE refs[o]]

Says(S) == {clause[o] : o \in S}

\* getClauses dequeues one more than announced if another clause has been added
\* meanwhile, and drops it.
Dropped(buffer) == {{}} \cup {{o} : o \in buffer}

\* registerClause: what a filter lets pass, and what it holds after the clauses C.
Passes(c, filter) == ~(Bits[c] \subseteq filter)
AllBits(C) == UNION {Bits[c] : c \in C}

\* The same of externalFilter, which two threads use: what it answers while the other
\* thread registers a clause, and the bits it keeps if they have raced.
Answers(c, alone) == IF alone THEN {Passes(c, externalFilter)} ELSE BOOLEAN
Told(c) ==
    \E bits \in SUBSET Bits[c] :
        /\ c \notin raced => bits = Bits[c]
        /\ externalFilter' = externalFilter \cup bits

-----------------------------------------------------------------------------
\* The solvers' export and import callbacks

Export(s) ==
    \E o \in Object, c \in Clause :
        /\ Alloc(o, c, FirstId + s)
        /\ exported' = [exported EXCEPT ![s] = @ \cup {o}]
        /\ UNCHANGED <<imported, filters, local, externalFilter, commVars, raced, history>>

\* The units a Lingeling imports go through getClauses.
Import(s) ==
    \E o \in imported[s] :
        /\ imported' = [imported EXCEPT ![s] = @ \ {o}]
        /\ \/ refs' = Released({o}) /\ UNCHANGED slipped
           \/ slipped' = slipped \cup {o} /\ UNCHANGED refs
        /\ UNCHANGED <<clause, from, exported, filters, local, externalFilter,
                       commVars, raced, history>>

-----------------------------------------------------------------------------
\* doSharing

\* Mutants: one solver too many; localFilter asked first.
CollectedBeyond ==
    \E D \in Dropped(exported[at]) :
        /\ pc = "collect"
        /\ exported' = [exported EXCEPT ![at] = @ \ D] /\ slipped' = slipped \cup D
        /\ IF at < NumSolvers
           THEN at' = at + 1 /\ UNCHANGED <<database, tmp, todo, pc>>
           ELSE \E S \in SUBSET database :
                    /\ database' = database \ S
                    /\ tmp' = S /\ todo' = S
                    /\ at' = 0 /\ pc' = "external"
        /\ UNCHANGED <<heap, imported, filters, adding, toAdd, externalFilter, commVars,
                       raced, history>>

CollectSwapped ==
    \E o \in exported[at] :
        LET c    == clause[o]
            new  == Passes(c, localFilter)
            pass == new /\ Passes(c, solverFilter[at])
        IN  /\ pc = "collect"
            /\ exported' = [exported EXCEPT ![at] = @ \ {o}]
            /\ localFilter' = localFilter \cup Bits[c]
            /\ solverFilter' = IF new THEN [solverFilter EXCEPT ![at] = @ \cup Bits[c]]
                                      ELSE solverFilter
            /\ \/ pass /\ database' = database \cup {o} /\ refs' = refs
               \/ database' = database /\ refs' = Released({o})
            /\ seen' = [seen EXCEPT ![at] = @ \cup {c}]
            /\ UNCHANGED <<clause, from, imported, tmp, todo, adding, toAdd, pc, at,
                           externalFilter, commVars, slips, shared, sent, received>>

\* One clause of getLearnedClauses: both filters are asked, the second only if
\* the first lets the clause pass; the database may have no room for it.
Collect ==
    \E o \in exported[at] :
        LET c    == clause[o]
            new  == Passes(c, solverFilter[at])
            pass == new /\ Passes(c, localFilter)
        IN  /\ pc = "collect"
            /\ exported' = [exported EXCEPT ![at] = @ \ {o}]
            /\ solverFilter' = [solverFilter EXCEPT ![at] = @ \cup Bits[c]]
            /\ localFilter' = IF new THEN localFilter \cup Bits[c] ELSE localFilter
            /\ \/ pass /\ database' = database \cup {o} /\ refs' = refs
               \/ database' = database /\ refs' = Released({o})
            /\ seen' = [seen EXCEPT ![at] = @ \cup {c}]
            /\ UNCHANGED <<clause, from, imported, tmp, todo, adding, toAdd, pc, at,
                           externalFilter, commVars, slips, shared, sent, received>>

Collected ==
    \E D \in Dropped(exported[at]) :
        /\ pc = "collect"
        /\ exported' = [exported EXCEPT ![at] = @ \ D] /\ slipped' = slipped \cup D
        /\ IF at < NumSolvers - 1
           THEN at' = at + 1 /\ UNCHANGED <<database, tmp, todo, pc>>
           ELSE \E S \in SUBSET database :      \* giveSelection
                    /\ database' = database \ S
                    /\ tmp' = S /\ todo' = S
                    /\ at' = 0 /\ pc' = "external"
        /\ UNCHANGED <<heap, imported, filters, adding, toAdd, externalFilter, commVars,
                       raced, history>>

\* addClausesToExternal asks the filter for a clause ...
AskExternal ==
    \E o \in todo :
        /\ pc = "external" /\ adding = {}
        /\ todo' = todo \ {o}
        /\ \E pass \in Answers(clause[o], taking = {}) : adding' = IF pass THEN {o} ELSE {}
        /\ raced' = IF taking = {} THEN raced ELSE raced \cup taking \cup {clause[o]}
        /\ UNCHANGED <<heap, solvers, filters, database, tmp, toAdd, pc, at,
                       externalFilter, commVars, slipped, history>>

\* ... and, if it passes, tells the filter and adds the clause to the communicator's
\* database, which may have no room for it.
AddToExternal ==
    \E o \in adding :
        /\ adding' = {}
        /\ Told(clause[o])
        /\ \/ toExport' = toExport \cup {o} /\ refs' = Increased({o})
           \/ UNCHANGED <<toExport, refs>>
        /\ torn' = (torn \/ commPc = "clear")
        /\ slipped' = IF torn' THEN slipped \cup toExport' ELSE slipped
        /\ UNCHANGED <<clause, from, solvers, filters, database, tmp, todo, toAdd, pc, at,
                       toImport, commPc, commTmp, taking, raced, history>>

\* getClausesFromExternal
GetFromExternal ==
    \E D \in Dropped(toImport) :
        /\ pc = "external" /\ todo = {} /\ adding = {}
        /\ tmp' = tmp \cup (toImport \ D)
        /\ toImport' = {} /\ slipped' = slipped \cup D
        /\ pc' = "distribute"
        /\ shared' = shared \cup Says(tmp')
        /\ UNCHANGED <<heap, solvers, filters, database, todo, adding, toAdd, at,
                       externalFilter, toExport, commPc, commTmp, taking, torn, raced,
                       seen, sent, received>>

\* Mutant: the filter of the process instead of the solver's.
SelectionsLocal ==
    LET others == {o \in tmp : from[o] # at}
        Stopped(o, S) == ~Passes(clause[o], localFilter \cup AllBits(Says(S)))
    IN  {S \in SUBSET others :
            /\ \A o \in others : Stopped(o, S)
            /\ \A T \in (SUBSET S) \ {{}} : \E o \in T : ~Stopped(o, T \ {o})}

\* The clauses of tmp for the solver: not its own, and let through by its filter
\* in some order of tmp: all others of tmp are stopped once these have passed, and
\* the last of any of these has bits that the rest of them have not.
Selections ==
    LET others == {o \in tmp : from[o] # at}
        Stopped(o, S) == ~Passes(clause[o], solverFilter[at] \cup AllBits(Says(S)))
    IN  {S \in SUBSET others :
            /\ \A o \in others : Stopped(o, S)
            /\ \A T \in (SUBSET S) \ {{}} : \E o \in T : ~Stopped(o, T \ {o})}

\* Mutant: no increaseClause.
DistributeUncounted ==
    \E S \in Selections :
        /\ pc = "distribute" /\ pc' = "give"
        /\ toAdd' = S
        /\ solverFilter' = [solverFilter EXCEPT ![at] = @ \cup AllBits(Says(S))]
        /\ UNCHANGED <<heap, solvers, localFilter, database, tmp, todo, adding, at,
                       externalFilter, commVars, slips, history>>

Distribute ==
    \E S \in Selections :
        /\ pc = "distribute" /\ pc' = "give"
        /\ toAdd' = S
        /\ solverFilter' = [solverFilter EXCEPT ![at] = @ \cup AllBits(Says(S))]
        /\ refs' = Increased(S)
        /\ UNCHANGED <<clause, from, solvers, localFilter, database, tmp, todo, adding, at,
                       externalFilter, commVars, slips, history>>

\* addLearnedClauses
Give ==
    /\ pc = "give"
    /\ imported' = [imported EXCEPT ![at] = @ \cup toAdd]
    /\ seen' = [seen EXCEPT ![at] = @ \cup Says(toAdd)]
    /\ toAdd' = {}
    /\ IF at < NumSolvers - 1 THEN at' = at + 1 /\ pc' = "distribute"
                              ELSE at' = 0 /\ pc' = "release"
    /\ UNCHANGED <<heap, exported, filters, database, tmp, todo, adding, externalFilter,
                   commVars, slips, shared, sent, received>>

Release ==
    /\ pc = "release" /\ pc' = "collect"
    /\ refs' = Released(tmp)
    /\ tmp' = {}
    /\ UNCHANGED <<clause, from, solvers, filters, database, todo, adding, toAdd, at,
                   externalFilter, commVars, slips, history>>

-----------------------------------------------------------------------------
\* The communicator

\* exportLearnedClauses: giveSelection copies clauses of the database ...
Select ==
    \E S \in SUBSET toExport :
        /\ commPc = "loop" /\ S # {}
        /\ commPc' = "clear"
        /\ commTmp' = S
        /\ UNCHANGED <<heap, solvers, filters, local, externalFilter, toExport,
                       toImport, taking, torn, slips, history>>

\* ... and then removes what it has copied.  If a clause has been added meanwhile, any
\* may go with the bucket that is cleared, and any that was copied may stay in it.
ClearBuckets ==
    \E left \in IF torn THEN SUBSET toExport ELSE {toExport \ commTmp} :
        /\ commPc = "clear" /\ commPc' = "send"
        /\ toExport' = left /\ torn' = FALSE
        /\ UNCHANGED <<heap, solvers, filters, local, externalFilter, toImport,
                       commTmp, taking, slips, history>>

\* The clauses are sent, and released.
Send ==
    /\ commPc = "send" /\ commPc' = "loop"
    /\ sent' = sent \cup Says(commTmp)
    /\ refs' = Released(commTmp)
    /\ commTmp' = {}
    /\ UNCHANGED <<clause, from, solvers, filters, local, externalFilter, toExport,
                   toImport, taking, torn, slips, seen, shared, received>>

\* handleReceivedClauses asks the filter for a clause of a message, and goes on to the
\* next if it is stopped ...
AskReceived ==
    \E c \in Remote :
        /\ commPc = "loop"
        /\ \E pass \in Answers(c, adding = {}) :
              /\ taking' = IF pass THEN {c} ELSE {}
              /\ commPc' = IF pass THEN "take" ELSE "loop"
        /\ raced' = IF adding = {} THEN raced ELSE raced \cup Says(adding) \cup {c}
        /\ UNCHANGED <<heap, solvers, filters, local, externalFilter, toExport, toImport,
                       commTmp, torn, slipped, history>>

\* Mutant: the filter is asked and not told.
ReceiveUnregistered ==
    \E o \in Object, c \in taking :
        /\ commPc = "take" /\ commPc' = "loop"
        /\ Alloc(o, c, External)
        /\ toImport' = toImport \cup {o}
        /\ taking' = {}
        /\ received' = received \cup {c}
        /\ UNCHANGED <<solvers, filters, local, externalFilter, toExport, commTmp, torn,
                       raced, seen, shared, sent>>

\* ... and, if it passes, tells the filter.
Receive ==
    \E o \in Object, c \in taking :
        /\ commPc = "take" /\ commPc' = "loop"
        /\ Told(c)
        /\ Alloc(o, c, External)
        /\ toImport' = toImport \cup {o}
        /\ taking' = {}
        /\ received' = received \cup {c}
        /\ UNCHANGED <<solvers, filters, local, toExport, commTmp, torn, raced, seen,
                       shared, sent>>

-----------------------------------------------------------------------------
\* How many places hold object o and will release it.
One(held) == IF held THEN 1 ELSE 0
Exporters(o) == {s \in Solver : o \in exported[s]}
Importers(o) == {s \in Solver : o \in imported[s]}
Holders(o) ==
    Cardinality(Exporters(o)) + Cardinality(Importers(o))
    + One(o \in database) + One(o \in tmp) + One(o \in toAdd)
    + One(o \in toExport \cup commTmp) + One(o \in toImport)

\* What the program does once a clause is freed that a thread still holds is undefined;
\* it is followed up to there.
Intact == \A o \in Object : Holders(o) > 0 => refs[o] > 0

Next ==
    /\ Intact
    /\ \/ \E s \in Solver : Export(s) \/ Import(s)
       \/ Collect \/ Collected \/ AskExternal \/ AddToExternal \/ GetFromExternal
       \/ Distribute \/ Give \/ Release
       \/ Select \/ ClearBuckets \/ Send \/ AskReceived \/ Receive

Spec == Init /\ [][Next]_vars

-----------------------------------------------------------------------------
\* The count of an object is the number of its holders, but for the clauses that slip:
\* whatever the missing lock does to the communicator's database, and getClauses drops,
\* no other clause is freed under a thread that reads it, and no other leaks.
\* (increaseClause and releaseClause over all the threads)
RefsAreHolders == \A o \in Object \ slipped : refs[o] = Holders(o)

\* A clause that was shared in a round has reached every solver by its end, unless
\* the clauses the solver has seen have set all of its bits.  (the filters and the from test of doSharing)
SharedReachesAll ==
    pc = "collect" =>
        \A c \in shared, s \in Solver : Bits[c] \subseteq AllBits(seen[s])

\* No solver is given a clause it has already been given, or exported itself and
\* had collected.  (the order of the two filters in doSharing)
NeverGivenTwice ==
    [][\A s \in Solver, o \in Object :
          o \in imported'[s] \ imported[s] => clause[o] \notin seen[s]]_vars

\* No clause the process took from the other ranks is sent back to them, by whatever
\* solver learns it again, unless one thread asked the filter for it just when the
\* other had asked and not yet told it.  (externalFilter, shared by the two threads)
NeverSentBack == sent \cap received \subseteq raced
=============================================================================
