------------------------- MODULE ClauseSharingProofs -------------------------
(***************************************************************************)
(* ClauseSharing, for every number of solvers, clauses, bits and objects:  *)
(* how the holders of a clause are counted, and that each clause reaches   *)
(* every solver once and no rank it came from.                             *)
(***************************************************************************)
EXTENDS ClauseSharing, FiniteSetTheorems, TLAPS

\* What has not slipped has as many holders as its count says.
Counts == \A o \in Object \ slipped : refs[o] = Holders(o)

\* The sets the threads have between their steps.
Control ==
    /\ pc # "external" => todo = {} /\ adding = {}
    /\ pc = "collect" => tmp = {}
    /\ pc = "external" => at = 0
    /\ pc # "give" => toAdd = {}
    /\ toAdd \subseteq tmp
    /\ todo \cap adding = {}
    /\ (todo \cup adding) \cap (toExport \cup commTmp) = {}
    /\ commPc \in {"loop", "take"} => commTmp = {}
    /\ commPc # "take" => taking = {}
    /\ commPc = "clear" => commTmp \subseteq toExport
    /\ commPc = "send" => commTmp \cap toExport \subseteq slipped
    /\ commPc # "clear" => ~torn
    /\ torn => toExport \subseteq slipped

\* A clause has one holder until it is selected, or taken from the communicator.
Single ==
    \A o \in Object :
        (\E s \in Solver : o \in exported[s]) \/ o \in database \/ o \in toImport =>
            Holders(o) = 1

\* A clause that is to be shared is known to the solver that learned it.
Origins ==
    /\ \A s \in Solver : \A o \in exported[s] : from[o] = FirstId + s
    /\ \A o \in toImport : from[o] = External
    /\ \A o \in database \cup tmp : \A s \in Solver :
          from[o] = FirstId + s => clause[o] \in seen[s]
    /\ \A o \in database \cup tmp : from[o] = External \/ from[o] >= FirstId

\* The filter of a solver is what the solver has seen, and is about to be given.
Filters ==
    /\ \A s \in Solver : \A o \in imported[s] : clause[o] \in seen[s]
    /\ \A s \in Solver : AllBits(seen[s]) \subseteq solverFilter[s]
    /\ \A s \in Solver :
          pc # "give" \/ s # at => solverFilter[s] \subseteq AllBits(seen[s])
    /\ pc = "give" =>
          /\ solverFilter[at] \subseteq AllBits(seen[at] \cup Says(toAdd))
          /\ \A o \in toAdd : clause[o] \notin seen[at]
          /\ \A o \in tmp : Bits[clause[o]] \subseteq solverFilter[at]

\* Each clause that has not raced passes the filter of the process to one side only;
\* the threads pass different clauses, and at different times, or they race.
Ranks ==
    /\ \A o \in toExport \cup commTmp :
          \/ clause[o] \in raced
          \/ Bits[clause[o]] \subseteq externalFilter /\ clause[o] \notin received
    /\ \A c \in sent \cup received : c \in raced \/ Bits[c] \subseteq externalFilter
    /\ \A o \in adding : clause[o] \in raced \/ (clause[o] \notin received /\ taking = {})
    /\ \A c \in taking :
          \/ c \in raced
          \/ c \notin sent /\ c \notin Says(toExport \cup commTmp) /\ adding = {}
    /\ NeverSentBack

\* The clauses of this round have reached the solvers before at, older ones all.
Reached(c, s) == Bits[c] \subseteq AllBits(seen[s])
Shares ==
    \A c \in shared, s \in Solver :
        Reached(c, s) \/ (pc \in {"distribute", "give"} /\ s >= at /\ c \in Says(tmp))

IInv == TypeOK /\ Counts /\ Control /\ Single /\ Origins /\ Filters /\ Ranks /\ Shares

-----------------------------------------------------------------------------
\* The operators of the model

LEMMA SolverSets == \A S \in SUBSET Solver : IsFiniteSet(S) /\ Cardinality(S) \in Nat
<1>1. IsFiniteSet(Solver)
  BY SolverAssumption, FS_Interval DEF Solver
<1> QED BY <1>1, FS_Subset, FS_CardinalityType

LEMMA SolverGain ==
    ASSUME NEW S \in SUBSET Solver, NEW s \in Solver, s \notin S
    PROVE  Cardinality(S \cup {s}) = Cardinality(S) + 1
BY SolverSets, FS_AddElement

LEMMA SolverLoss ==
    ASSUME NEW S \in SUBSET Solver, NEW s \in S
    PROVE  Cardinality(S \ {s}) = Cardinality(S) - 1
BY SolverSets, FS_RemoveElement

LEMMA AllBitsUnion ==
    /\ \A C, D : AllBits(C \cup D) = AllBits(C) \cup AllBits(D)
    /\ \A C : \A c \in C : Bits[c] \subseteq AllBits(C)
    /\ \A c : AllBits({c}) = Bits[c]
    /\ AllBits({}) = {}
BY DEF AllBits

LEMMA BitsOf == \A c \in Clause : Bits[c] \subseteq Bit
BY ClauseAssumption

\* The terms of Holders, and what each being nothing means.
LEMMA HolderTerms ==
    ASSUME NEW o \in Object
    PROVE  /\ Cardinality(Exporters(o)) \in Nat /\ Cardinality(Importers(o)) \in Nat
           /\ Holders(o) \in Nat
           /\ Cardinality(Exporters(o)) = 0 <=> \A s \in Solver : o \notin exported[s]
           /\ Cardinality(Importers(o)) = 0 <=> \A s \in Solver : o \notin imported[s]
           /\ One(o \in database) \in {0, 1} /\ One(o \in tmp) \in {0, 1}
           /\ One(o \in toAdd) \in {0, 1} /\ One(o \in toExport \cup commTmp) \in {0, 1}
           /\ One(o \in toImport) \in {0, 1}
<1>1. Exporters(o) \in SUBSET Solver /\ Importers(o) \in SUBSET Solver
  BY DEF Exporters, Importers
<1>2. Cardinality(Exporters(o)) \in Nat /\ Cardinality(Importers(o)) \in Nat
  BY <1>1, SolverSets
<1>3. Cardinality(Exporters(o)) = 0 <=> Exporters(o) = {}
  BY <1>1, SolverSets, FS_EmptySet
<1>4. Cardinality(Importers(o)) = 0 <=> Importers(o) = {}
  BY <1>1, SolverSets, FS_EmptySet
<1>5. /\ One(o \in database) \in {0, 1} /\ One(o \in tmp) \in {0, 1}
      /\ One(o \in toAdd) \in {0, 1} /\ One(o \in toExport \cup commTmp) \in {0, 1}
      /\ One(o \in toImport) \in {0, 1}
  BY DEF One
<1>6. Holders(o) \in Nat
  BY <1>2, <1>5 DEF Holders
<1>7. Exporters(o) = {} <=> \A s \in Solver : o \notin exported[s]
  BY DEF Exporters
<1>8. Importers(o) = {} <=> \A s \in Solver : o \notin imported[s]
  BY DEF Importers
<1> QED BY <1>2, <1>3, <1>4, <1>5, <1>6, <1>7, <1>8

\* An object that is not allocated is nowhere.
Nowhere(o) ==
    /\ \A s \in Solver : o \notin exported[s] /\ o \notin imported[s]
    /\ o \notin database \cup tmp \cup toAdd \cup toExport \cup commTmp \cup toImport

LEMMA FreeIsNowhere ==
    ASSUME TypeOK, Intact, NEW o \in Object, refs[o] = 0
    PROVE  Nowhere(o) /\ Holders(o) = 0
<1>1. Holders(o) = 0
  BY HolderTerms DEF Intact
<1>2. /\ Cardinality(Exporters(o)) = 0 /\ Cardinality(Importers(o)) = 0
      /\ One(o \in database) = 0 /\ One(o \in tmp) = 0 /\ One(o \in toAdd) = 0
      /\ One(o \in toExport \cup commTmp) = 0 /\ One(o \in toImport) = 0
  BY <1>1, HolderTerms DEF Holders
<1>3. \A s \in Solver : o \notin exported[s] /\ o \notin imported[s]
  BY <1>2, HolderTerms
<1>4. /\ o \notin database /\ o \notin tmp /\ o \notin toAdd
      /\ o \notin toExport \cup commTmp /\ o \notin toImport
  BY <1>2 DEF One
<1> QED BY <1>1, <1>3, <1>4 DEF Nowhere

LEMMA HeldIsCounted ==
    ASSUME TypeOK, Intact, NEW o \in Object, ~Nowhere(o)
    PROVE  refs[o] > 0
<1>1. refs[o] \in Nat
  BY DEF TypeOK
<1> QED BY <1>1, FreeIsNowhere

\* What is not shared yet, or comes from other ranks, is in one place.
LEMMA SingleFacts ==
    ASSUME Single, NEW o \in Object
    PROVE  /\ \A s \in Solver : o \in exported[s] =>
                  /\ Exporters(o) = {s} /\ Importers(o) = {}
                  /\ o \notin database \cup tmp \cup toAdd \cup toExport \cup commTmp \cup toImport
           /\ o \in database =>
                  o \notin tmp \cup toAdd \cup toExport \cup commTmp \cup toImport
           /\ o \in toImport =>
                  o \notin tmp \cup toAdd \cup toExport \cup commTmp \cup database
<1>1. ASSUME NEW s \in Solver, o \in exported[s]
      PROVE  /\ Exporters(o) = {s} /\ Importers(o) = {}
             /\ o \notin database \cup tmp \cup toAdd \cup toExport \cup commTmp \cup toImport
  <2>1. Holders(o) = 1
    BY <1>1 DEF Single
  <2>2. Cardinality(Exporters(o)) # 0
    BY <1>1, HolderTerms
  <2>3. /\ Cardinality(Exporters(o)) = 1 /\ Cardinality(Importers(o)) = 0
        /\ One(o \in database) = 0 /\ One(o \in tmp) = 0 /\ One(o \in toAdd) = 0
        /\ One(o \in toExport \cup commTmp) = 0 /\ One(o \in toImport) = 0
    BY <2>1, <2>2, HolderTerms DEF Holders
  <2>4. /\ o \notin database /\ o \notin tmp /\ o \notin toAdd
        /\ o \notin toExport \cup commTmp /\ o \notin toImport
    BY <2>3 DEF One
  <2>5. Importers(o) = {}
    BY <2>3, HolderTerms DEF Importers
  <2>6. s \in Exporters(o) /\ Exporters(o) \in SUBSET Solver
    BY <1>1 DEF Exporters
  <2>7. Cardinality(Exporters(o) \ {s}) = 0
    BY <2>3, <2>6, SolverLoss
  <2>8. Exporters(o) \ {s} = {}
    BY <2>6, <2>7, SolverSets, FS_EmptySet
  <2> QED BY <2>4, <2>5, <2>6, <2>8
<1>2. ASSUME o \in database \/ o \in toImport
      PROVE  /\ One(o \in database) + One(o \in tmp) + One(o \in toAdd)
                + One(o \in toExport \cup commTmp) + One(o \in toImport) <= 1
  <2>1. Holders(o) = 1
    BY <1>2 DEF Single
  <2> QED BY <2>1, HolderTerms DEF Holders
<1> QED BY <1>1, <1>2 DEF One

LEMMA SelectionFacts ==
    ASSUME TypeOK, NEW S \in Selections
    PROVE  /\ S \subseteq tmp
           /\ \A o \in S : ~(Bits[clause[o]] \subseteq solverFilter[at])
           /\ \A o \in tmp : \/ from[o] = at
                             \/ Bits[clause[o]] \subseteq solverFilter[at] \cup AllBits(Says(S))
<1>1. S \subseteq tmp
  BY DEF Selections
<1>2. ASSUME NEW o \in S
      PROVE  ~(Bits[clause[o]] \subseteq solverFilter[at])
  <2>1. {o} \in (SUBSET S) \ {{}} /\ {o} \ {o} = {}
    OBVIOUS
  <2>2. Says({}) = {}
    BY DEF Says
  <2>3. Passes(clause[o], solverFilter[at] \cup AllBits(Says({})))
    BY <2>1 DEF Selections
  <2> QED BY <2>2, <2>3, AllBitsUnion DEF Passes
<1>3. ASSUME NEW o \in tmp, from[o] # at
      PROVE  Bits[clause[o]] \subseteq solverFilter[at] \cup AllBits(Says(S))
  <2>1. o \in {p \in tmp : from[p] # at}
    BY <1>3
  <2>2. ~Passes(clause[o], solverFilter[at] \cup AllBits(Says(S)))
    BY <2>1 DEF Selections
  <2> QED BY <2>2 DEF Passes
<1> QED BY <1>1, <1>2, <1>3

-----------------------------------------------------------------------------
\* The counts after a step that changes the number of holders as it changes the counts
LEMMA CountsKept ==
    ASSUME TypeOK, Counts, slipped \subseteq slipped',
           \A o \in Object \ slipped' : refs'[o] - refs[o] = Holders(o)' - Holders(o),
           \A o \in Object : refs'[o] \in Int /\ Holders(o)' \in Int
    PROVE  Counts'
<1>1. \A o \in Object : refs[o] \in Nat /\ Holders(o) \in Nat
  BY HolderTerms DEF TypeOK
<1>2. ASSUME NEW o \in Object \ slipped'
      PROVE  refs'[o] = Holders(o)'
  <2>1. refs[o] = Holders(o) /\ refs'[o] - refs[o] = Holders(o)' - Holders(o)
    BY DEF Counts
  <2>2. refs'[o] \in Int /\ Holders(o)' \in Int
    OBVIOUS
  <2> QED BY <1>1, <2>1, <2>2
<1> QED BY <1>2 DEF Counts

\* What an allocation changes
LEMMA AllocFacts ==
    ASSUME IInv, Intact, NEW o \in Object, NEW c \in Clause, NEW id \in Nat \cup {External},
           Alloc(o, c, id)
    PROVE  /\ Nowhere(o) /\ Holders(o) = 0
           /\ refs' \in [Object -> Nat] /\ clause' \in [Object -> Clause]
           /\ from' \in [Object -> Nat \cup {External}]
           /\ refs'[o] = 1 /\ refs[o] = 0 /\ clause'[o] = c /\ from'[o] = id
           /\ slipped' = slipped \ {o}
           /\ \A p \in Object : p # o =>
                 refs'[p] = refs[p] /\ clause'[p] = clause[p] /\ from'[p] = from[p]
<1>1. Nowhere(o) /\ Holders(o) = 0
  BY FreeIsNowhere DEF IInv, Alloc
<1> QED BY <1>1 DEF IInv, TypeOK, Alloc

LEMMA ExportStep ==
    ASSUME IInv, Intact, NEW s \in Solver, Export(s)
    PROVE  IInv'
<1>1. PICK o \in Object, c \in Clause :
          /\ Alloc(o, c, FirstId + s)
          /\ exported' = [exported EXCEPT ![s] = @ \cup {o}]
          /\ UNCHANGED <<imported, filters, local, externalFilter, commVars, raced, history>>
  BY DEF Export
<1> USE DEF filters, local, commVars, history
<1>2. FirstId + s \in Nat /\ FirstId + s \in Nat \cup {External}
  BY SolverAssumption DEF Solver
<1>3. /\ Nowhere(o) /\ Holders(o) = 0
      /\ refs' \in [Object -> Nat] /\ clause' \in [Object -> Clause]
      /\ from' \in [Object -> Nat \cup {External}]
      /\ refs'[o] = 1 /\ refs[o] = 0 /\ clause'[o] = c /\ from'[o] = FirstId + s
      /\ slipped' = slipped \ {o}
      /\ \A p \in Object : p # o =>
            refs'[p] = refs[p] /\ clause'[p] = clause[p] /\ from'[p] = from[p]
  <2>1. Alloc(o, c, FirstId + s)
    BY <1>1
  <2> QED BY <1>2, <2>1, AllocFacts
<1>4. TypeOK'
  <2>1. exported' \in [Solver -> SUBSET Object]
    BY <1>1 DEF IInv, TypeOK
  <2> QED BY <1>1, <1>3, <2>1 DEF IInv, TypeOK
<1>5. \A p \in Object : Holders(p)' = IF p = o THEN 1 ELSE Holders(p)
  <2> SUFFICES ASSUME NEW p \in Object
               PROVE  Holders(p)' = IF p = o THEN 1 ELSE Holders(p)
    OBVIOUS
  <2>1. Exporters(p)' = IF p = o THEN Exporters(p) \cup {s} ELSE Exporters(p)
    BY <1>1 DEF Exporters, IInv, TypeOK
  <2>2. Importers(p)' = Importers(p)
    BY <1>1 DEF Importers
  <2>3. p = o => s \notin Exporters(p)
    BY <1>3 DEF Exporters, Nowhere
  <2>4. p = o => Cardinality(Exporters(p)') = Cardinality(Exporters(p)) + 1
    BY <2>1, <2>3, SolverGain DEF Exporters
  <2>5. p # o => Cardinality(Exporters(p)') = Cardinality(Exporters(p))
    BY <2>1
  <2>6. Cardinality(Importers(p)') = Cardinality(Importers(p))
    BY <2>2
  <2>7. Holders(p)' = Cardinality(Exporters(p)') + Cardinality(Importers(p))
            + One(p \in database) + One(p \in tmp) + One(p \in toAdd)
            + One(p \in toExport \cup commTmp) + One(p \in toImport)
    BY <1>1, <2>6 DEF Holders, One
  <2> QED BY <1>3, <2>4, <2>5, <2>7, HolderTerms DEF Holders
<1>6. Counts'
  BY <1>3, <1>5 DEF IInv, Counts
<1>7. Control'
  BY <1>1, <1>3 DEF IInv, Control, Nowhere
<1>8. Single'
  <2> SUFFICES ASSUME NEW p \in Object, NEW t \in Solver,
                      (p \in exported[t] \/ p \in database \/ p \in toImport)' \/ p = o
               PROVE  Holders(p)' = 1
    BY DEF Single
  <2>1. CASE p = o
    BY <1>5, <2>1
  <2>2. CASE p # o
    <3>1. p \in exported[t] \/ p \in database \/ p \in toImport
      BY <1>1, <2>2 DEF IInv, TypeOK
    <3> QED BY <1>5, <2>2, <3>1 DEF IInv, Single
  <2> QED BY <2>1, <2>2
<1>9. Origins'
  BY <1>1, <1>2, <1>3 DEF IInv, Origins, TypeOK, Nowhere
<1>10. Filters'
  BY <1>1, <1>3 DEF IInv, Filters, TypeOK, Nowhere, Says, AllBits
<1>11. Ranks'
  <2>1. \A p \in toExport \cup commTmp \cup adding : p \in Object /\ p # o
    BY <1>3 DEF IInv, TypeOK, Nowhere
  <2>2. \A p \in toExport \cup commTmp \cup adding : clause'[p] = clause[p]
    BY <1>3, <2>1
  <2>3. Says(toExport \cup commTmp)' = Says(toExport \cup commTmp)
    BY <1>1, <2>2 DEF Says
  <2> QED BY <1>1, <2>2, <2>3 DEF IInv, Ranks, NeverSentBack
<1>12. Says(tmp)' = Says(tmp)
  BY <1>1, <1>3 DEF Says, Nowhere, IInv, TypeOK
<1>13. Shares'
  BY <1>1, <1>12 DEF IInv, Shares, Reached
<1> QED
  BY <1>4, <1>6, <1>7, <1>8, <1>9, <1>10, <1>11, <1>13 DEF IInv

LEMMA ReceiveStep ==
    ASSUME IInv, Intact, Receive
    PROVE  IInv'
<1>1. PICK o \in Object, c \in taking :
          /\ commPc = "take" /\ commPc' = "loop"
          /\ Told(c)
          /\ Alloc(o, c, External)
          /\ toImport' = toImport \cup {o}
          /\ taking' = {}
          /\ received' = received \cup {c}
          /\ UNCHANGED <<solvers, filters, local, toExport, commTmp, torn, raced, seen,
                         shared, sent>>
  BY DEF Receive
<1> USE DEF solvers, filters, local
<1>0. PICK bits \in SUBSET Bits[c] :
            /\ c \notin raced => bits = Bits[c]
            /\ externalFilter' = externalFilter \cup bits
  BY <1>1 DEF Told
<1>2. c \in Clause /\ External \in Nat \cup {External} /\ External \in Int /\ External < 0
  BY ClauseAssumption DEF External, IInv, TypeOK
<1>3. /\ Nowhere(o) /\ Holders(o) = 0
      /\ refs' \in [Object -> Nat] /\ clause' \in [Object -> Clause]
      /\ from' \in [Object -> Nat \cup {External}]
      /\ refs'[o] = 1 /\ refs[o] = 0 /\ clause'[o] = c /\ from'[o] = External
      /\ slipped' = slipped \ {o}
      /\ \A p \in Object : p # o =>
            refs'[p] = refs[p] /\ clause'[p] = clause[p] /\ from'[p] = from[p]
  <2>1. Alloc(o, c, External)
    BY <1>1
  <2> QED BY <1>2, <2>1, AllocFacts
<1>4. TypeOK'
  <2>1. /\ toImport' \subseteq Object /\ received' \subseteq Clause
        /\ externalFilter' \subseteq Bit
    BY <1>1, <1>0, <1>2, BitsOf DEF IInv, TypeOK
  <2> QED BY <1>1, <1>3, <2>1 DEF IInv, TypeOK
<1>5. \A p \in Object : Holders(p)' = IF p = o THEN 1 ELSE Holders(p)
  <2> SUFFICES ASSUME NEW p \in Object
               PROVE  Holders(p)' = IF p = o THEN 1 ELSE Holders(p)
    OBVIOUS
  <2>1. Exporters(p)' = Exporters(p) /\ Importers(p)' = Importers(p)
    BY <1>1 DEF Exporters, Importers
  <2>2. Holders(p)' = Cardinality(Exporters(p)) + Cardinality(Importers(p))
            + One(p \in database) + One(p \in tmp) + One(p \in toAdd)
            + One(p \in toExport \cup commTmp) + One(p \in toImport \cup {o})
    BY <1>1, <2>1 DEF Holders, One
  <2>3. p # o => One(p \in toImport \cup {o}) = One(p \in toImport)
    BY DEF One
  <2>4. One(o \in toImport \cup {o}) = 1 /\ One(o \in toImport) = 0
    BY <1>3 DEF One, Nowhere
  <2> QED BY <1>3, <2>2, <2>3, <2>4, HolderTerms DEF Holders
<1>6. Counts'
  BY <1>3, <1>5 DEF IInv, Counts
<1>7. Control'
  BY <1>1, <1>3 DEF IInv, Control, Nowhere
<1>8. Single'
  BY <1>1, <1>5 DEF IInv, Single
<1>9. Origins'
  <2>1. \A t \in Solver : \A p \in exported[t] : from'[p] = from[p]
    BY <1>3 DEF IInv, TypeOK, Nowhere
  <2>2. \A p \in toImport \cup {o} : from'[p] = External
    BY <1>3 DEF IInv, TypeOK, Nowhere, Origins
  <2>3. \A p \in database \cup tmp : from'[p] = from[p] /\ clause'[p] = clause[p]
    BY <1>3 DEF IInv, TypeOK, Nowhere
  <2>4. /\ exported' = exported /\ database' = database /\ tmp' = tmp /\ seen' = seen
        /\ toImport' = toImport \cup {o}
    BY <1>1
  <2> QED BY <2>1, <2>2, <2>3, <2>4 DEF IInv, Origins
<1>10. Filters'
  BY <1>1, <1>3 DEF IInv, Filters, TypeOK, Nowhere, Says, AllBits
<1>11. Ranks'
  <2>1. c \in raced \/ (c \notin sent /\ c \notin Says(toExport \cup commTmp) /\ adding = {})
    BY DEF IInv, Ranks
  <2>2. \A p \in toExport \cup commTmp \cup adding : p \in Object /\ clause'[p] = clause[p]
    BY <1>3 DEF IInv, TypeOK, Nowhere
  <2>3. \A p \in toExport \cup commTmp :
            \/ clause'[p] \in raced
            \/ Bits[clause'[p]] \subseteq externalFilter' /\ clause'[p] \notin received'
    BY <1>1, <1>0, <2>1, <2>2 DEF IInv, Ranks, Says
  <2>4. \A d \in sent \cup received' : d \in raced \/ Bits[d] \subseteq externalFilter'
    BY <1>1, <1>0 DEF IInv, Ranks
  <2>5. \A p \in adding : clause'[p] \in raced \/ clause'[p] \notin received'
    BY <1>1, <2>1, <2>2 DEF IInv, Ranks
  <2>6. sent \cap received' \subseteq raced
    BY <1>1, <2>1 DEF IInv, Ranks, NeverSentBack
  <2> QED BY <1>1, <2>3, <2>4, <2>5, <2>6 DEF Ranks, NeverSentBack
<1>12. Says(tmp)' = Says(tmp)
  BY <1>1, <1>3 DEF Says, Nowhere, IInv, TypeOK
<1>13. Shares'
  BY <1>1, <1>12 DEF IInv, Shares, Reached
<1> QED
  BY <1>4, <1>6, <1>7, <1>8, <1>9, <1>10, <1>11, <1>13 DEF IInv

-----------------------------------------------------------------------------
\* The solvers and the sharer

LEMMA ImportStep ==
    ASSUME IInv, Intact, NEW s \in Solver, Import(s)
    PROVE  IInv'
<1>1. PICK o \in imported[s] :
          /\ imported' = [imported EXCEPT ![s] = @ \ {o}]
          /\ \/ refs' = Released({o}) /\ UNCHANGED slipped
             \/ slipped' = slipped \cup {o} /\ UNCHANGED refs
          /\ UNCHANGED <<clause, from, exported, filters, local, externalFilter,
                         commVars, raced, history>>
  BY DEF Import
<1> USE DEF filters, local, commVars, history
<1>2. o \in Object
  BY DEF IInv, TypeOK
<1>3. refs[o] > 0
  BY <1>2, HeldIsCounted DEF IInv, Nowhere
<1>4. TypeOK'
  <2>1. imported' \in [Solver -> SUBSET Object]
    BY <1>1 DEF IInv, TypeOK
  <2>2. refs' \in [Object -> Nat]
    BY <1>1, <1>3 DEF IInv, TypeOK, Released
  <2> QED BY <1>1, <2>1, <2>2 DEF IInv, TypeOK
<1>5. \A p \in Object : Holders(p)' = IF p = o THEN Holders(p) - 1 ELSE Holders(p)
  <2> SUFFICES ASSUME NEW p \in Object
               PROVE  Holders(p)' = IF p = o THEN Holders(p) - 1 ELSE Holders(p)
    OBVIOUS
  <2>1. Importers(p)' = IF p = o THEN Importers(p) \ {s} ELSE Importers(p)
    BY <1>1 DEF Importers, IInv, TypeOK
  <2>2. Exporters(p)' = Exporters(p)
    BY <1>1 DEF Exporters
  <2>3. p = o => s \in Importers(p)
    BY DEF Importers
  <2>4. p = o => Cardinality(Importers(p)') = Cardinality(Importers(p)) - 1
    BY <2>1, <2>3, SolverLoss DEF Importers
  <2>5. p # o => Cardinality(Importers(p)') = Cardinality(Importers(p))
    BY <2>1
  <2>6. Holders(p)' = Cardinality(Exporters(p)) + Cardinality(Importers(p)')
            + One(p \in database) + One(p \in tmp) + One(p \in toAdd)
            + One(p \in toExport \cup commTmp) + One(p \in toImport)
    BY <1>1, <2>2 DEF Holders, One
  <2> QED BY <2>4, <2>5, <2>6, HolderTerms DEF Holders
<1>6. /\ \A p \in Object : p # o \/ p \in slipped' \/ refs'[p] = refs[p] - 1
      /\ \A p \in Object : p # o => refs'[p] = refs[p]
      /\ slipped \subseteq slipped'
  BY <1>1 DEF Released, IInv, TypeOK
<1>7. Counts'
  <2>1. \A p \in Object \ slipped' : refs'[p] - refs[p] = Holders(p)' - Holders(p)
    BY <1>5, <1>6, HolderTerms DEF IInv, TypeOK
  <2>2. \A p \in Object : refs'[p] \in Int /\ Holders(p)' \in Int
    BY <1>4, <1>5, HolderTerms DEF TypeOK
  <2> QED BY <1>6, <2>1, <2>2, CountsKept DEF IInv
<1>8. Control'
  BY <1>1 DEF IInv, Control
<1>9. Single'
  <2>1. Importers(o) # {}
    BY DEF Importers
  <2>2. /\ \A t \in Solver : o \notin exported[t]
        /\ Holders(o) = 1 => o \notin database \cup toImport
    <3>1. Cardinality(Importers(o)) # 0
      BY <1>2, HolderTerms
    <3>2. One(o \in database) = 1 \/ One(o \in toImport) = 1 => Holders(o) # 1
      BY <1>2, <3>1, HolderTerms DEF Holders
    <3> QED BY <1>2, <2>1, <3>2, SingleFacts DEF IInv, One
  <2>3. o \notin database \cup toImport
    BY <1>2, <2>2 DEF IInv, Single
  <2> QED BY <1>1, <1>5, <2>2, <2>3 DEF IInv, Single
<1>10. Origins'
  BY <1>1 DEF IInv, Origins
<1>11. Filters'
  BY <1>1 DEF IInv, Filters, TypeOK, Says
<1>12. Ranks'
  BY <1>1 DEF IInv, Ranks, NeverSentBack, Says
<1>13. Says(tmp)' = Says(tmp)
  BY <1>1 DEF Says
<1>14. Shares'
  BY <1>1, <1>13 DEF IInv, Shares, Reached
<1> QED
  BY <1>4, <1>7, <1>8, <1>9, <1>10, <1>11, <1>12, <1>14 DEF IInv

LEMMA CollectStep ==
    ASSUME IInv, Intact, Collect
    PROVE  IInv'
<1>1. PICK o \in exported[at] :
          /\ pc = "collect"
          /\ exported' = [exported EXCEPT ![at] = @ \ {o}]
          /\ solverFilter' = [solverFilter EXCEPT ![at] = @ \cup Bits[clause[o]]]
          /\ localFilter' \in {localFilter, localFilter \cup Bits[clause[o]]}
          /\ \/ database' = database \cup {o} /\ refs' = refs
             \/ database' = database /\ refs' = Released({o})
          /\ seen' = [seen EXCEPT ![at] = @ \cup {clause[o]}]
          /\ UNCHANGED <<clause, from, imported, tmp, todo, adding, toAdd, pc, at,
                         externalFilter, commVars, slips, shared, sent, received>>
  <2>1. PICK o \in exported[at] :
          /\ pc = "collect"
          /\ exported' = [exported EXCEPT ![at] = @ \ {o}]
          /\ solverFilter' = [solverFilter EXCEPT ![at] = @ \cup Bits[clause[o]]]
          /\ localFilter' = IF Passes(clause[o], solverFilter[at])
                            THEN localFilter \cup Bits[clause[o]] ELSE localFilter
          /\ \/ database' = database \cup {o} /\ refs' = refs
             \/ database' = database /\ refs' = Released({o})
          /\ seen' = [seen EXCEPT ![at] = @ \cup {clause[o]}]
          /\ UNCHANGED <<clause, from, imported, tmp, todo, adding, toAdd, pc, at,
                         externalFilter, commVars, slips, shared, sent, received>>
    BY DEF Collect
  <2> QED BY <2>1
<1> USE DEF commVars, slips
<1>2. o \in Object /\ at \in Solver /\ clause[o] \in Clause
  BY DEF IInv, TypeOK
<1>3. refs[o] > 0
  BY <1>2, HeldIsCounted DEF IInv, Nowhere
<1>4. /\ Exporters(o) = {at} /\ Importers(o) = {}
      /\ o \notin database \cup tmp \cup toAdd \cup toExport \cup commTmp \cup toImport
  BY <1>2, SingleFacts DEF IInv
<1>5. Bits[clause[o]] \subseteq Bit
  BY <1>2, BitsOf
<1>6. TypeOK'
  <2>1. exported' \in [Solver -> SUBSET Object] /\ solverFilter' \in [Solver -> SUBSET Bit]
        /\ seen' \in [Solver -> SUBSET Clause]
    BY <1>1, <1>2, <1>5 DEF IInv, TypeOK
  <2>2. refs' \in [Object -> Nat] /\ database' \subseteq Object
    BY <1>1, <1>2, <1>3 DEF IInv, TypeOK, Released
  <2>3. localFilter' \subseteq Bit
    BY <1>1, <1>5 DEF IInv, TypeOK
  <2> QED BY <1>1, <2>1, <2>2, <2>3 DEF IInv, TypeOK
<1>7. \A p \in Object : p # o => Holders(p)' = Holders(p) /\ refs'[p] = refs[p]
  <2> SUFFICES ASSUME NEW p \in Object, p # o
               PROVE  Holders(p)' = Holders(p) /\ refs'[p] = refs[p]
    OBVIOUS
  <2>1. Exporters(p)' = Exporters(p) /\ Importers(p)' = Importers(p)
    BY <1>1 DEF Exporters, Importers, IInv, TypeOK
  <2>2. One(p \in database)' = One(p \in database)
    BY <1>1 DEF One
  <2>3. Holders(p)' = Holders(p)
    BY <1>1, <2>1, <2>2 DEF Holders, One
  <2> QED BY <1>1, <2>3 DEF Released, IInv, TypeOK
<1>8. /\ Holders(o) = 1
      /\ \/ Holders(o)' = 1 /\ refs'[o] = refs[o]
         \/ Holders(o)' = 0 /\ refs'[o] = refs[o] - 1 /\ o \notin database'
  <2>1. Holders(o) = 1
    BY <1>2 DEF IInv, Single
  <2>2. Exporters(o)' = {} /\ Importers(o)' = {}
    BY <1>1, <1>4 DEF Exporters, Importers, IInv, TypeOK
  <2>3. Cardinality({}) = 0
    BY FS_EmptySet
  <2>4. Holders(o)' = One(o \in database)'
    <3>1. One(o \in tmp)' = 0 /\ One(o \in toAdd)' = 0 /\ One(o \in toImport)' = 0
          /\ One(o \in toExport \cup commTmp)' = 0
      BY <1>1, <1>4 DEF One
    <3>2. One(o \in database)' \in {0, 1}
      BY DEF One
    <3> QED BY <2>2, <2>3, <3>1, <3>2 DEF Holders
  <2>5. CASE database' = database \cup {o} /\ refs' = refs
    BY <2>1, <2>4, <2>5 DEF One
  <2>6. CASE database' = database /\ refs' = Released({o})
    <3>1. refs'[o] = refs[o] - 1
      BY <1>2, <2>6 DEF Released
    <3> QED BY <1>4, <2>1, <2>4, <2>6, <3>1 DEF One
  <2> QED BY <1>1, <2>5, <2>6
<1>9. Counts'
  <2>1. \A p \in Object : refs'[p] - refs[p] = Holders(p)' - Holders(p)
    BY <1>7, <1>8, HolderTerms DEF IInv, TypeOK
  <2>2. \A p \in Object : refs'[p] \in Int /\ Holders(p)' \in Int
    BY <1>6, <1>7, <1>8, HolderTerms DEF TypeOK
  <2> QED BY <1>1, <2>1, <2>2, CountsKept DEF IInv
<1>10. Control'
  BY <1>1 DEF IInv, Control
<1>11. Single'
  <2> SUFFICES ASSUME NEW p \in Object,
                      (\E t \in Solver : p \in exported'[t]) \/ p \in database' \/ p \in toImport'
               PROVE  Holders(p)' = 1
    BY DEF Single
  <2>1. CASE p = o
    <3>1. \A t \in Solver : o \notin exported'[t]
      <4>1. Exporters(o)' = {}
        BY <1>1, <1>4 DEF Exporters, IInv, TypeOK
      <4> QED BY <4>1 DEF Exporters
    <3> QED BY <1>1, <1>4, <1>8, <2>1, <3>1
  <2>2. CASE p # o
    <3>1. (\E t \in Solver : p \in exported[t]) \/ p \in database \/ p \in toImport
      BY <1>1, <2>2 DEF IInv, TypeOK
    <3> QED BY <1>7, <2>2, <3>1 DEF IInv, Single
  <2> QED BY <2>1, <2>2
<1>12. Origins'
  <2>1. from[o] = FirstId + at
    BY <1>2 DEF IInv, Origins
  <2>2. \A t \in Solver : FirstId + t = FirstId + at => t = at
    BY <1>2, SolverAssumption DEF Solver
  <2>3. clause[o] \in seen'[at] /\ \A t \in Solver : seen[t] \subseteq seen'[t]
    BY <1>1, <1>2 DEF IInv, TypeOK
  <2>4. \A t \in Solver : exported'[t] \subseteq exported[t]
    BY <1>1 DEF IInv, TypeOK
  <2>5. from[o] >= FirstId
    BY <1>2, <2>1, SolverAssumption DEF Solver
  <2>6. \A p \in database' \cup tmp' : p \in database \cup tmp \/ p = o
    BY <1>1
  <2>7. \A p \in database' \cup tmp' : from'[p] = External \/ from'[p] >= FirstId
    BY <1>1, <2>5, <2>6 DEF IInv, Origins
  <2>8. \A p \in database' \cup tmp' : \A t \in Solver :
            from'[p] = FirstId + t => clause'[p] \in seen'[t]
    BY <1>1, <1>2, <2>1, <2>2, <2>3, <2>6 DEF IInv, Origins
  <2> QED BY <1>1, <2>4, <2>7, <2>8 DEF IInv, Origins
<1>13. Filters'
  <2>1. \A t \in Solver : seen[t] \subseteq seen'[t]
    BY <1>1 DEF IInv, TypeOK
  <2>2. \A t \in Solver :
            /\ AllBits(seen'[t]) \subseteq solverFilter'[t]
            /\ solverFilter'[t] \subseteq AllBits(seen'[t])
    <3> SUFFICES ASSUME NEW t \in Solver
                 PROVE  /\ AllBits(seen'[t]) \subseteq solverFilter'[t]
                        /\ solverFilter'[t] \subseteq AllBits(seen'[t])
      OBVIOUS
    <3>1. AllBits(seen[t]) = solverFilter[t]
      BY <1>1 DEF IInv, Filters
    <3>2. CASE t # at
      BY <1>1, <3>1, <3>2 DEF IInv, TypeOK
    <3>3. CASE t = at
      <4>1. seen'[t] = seen[t] \cup {clause[o]}
            /\ solverFilter'[t] = solverFilter[t] \cup Bits[clause[o]]
        BY <1>1, <3>3 DEF IInv, TypeOK
      <4>2. AllBits(seen'[t]) = AllBits(seen[t]) \cup Bits[clause[o]]
        BY <4>1 DEF AllBits
      <4> QED BY <3>1, <4>1, <4>2
    <3> QED BY <3>2, <3>3
  <2> QED BY <1>1, <2>1, <2>2 DEF IInv, Filters
<1>14. Ranks'
  BY <1>1 DEF IInv, Ranks, NeverSentBack, Says
<1>15. Shares'
  <2>1. \A c \in shared, t \in Solver : Reached(c, t)
    BY <1>1 DEF IInv, Shares
  <2>2. \A t \in Solver : AllBits(seen[t]) \subseteq AllBits(seen'[t])
    <3>1. \A t \in Solver : seen[t] \subseteq seen'[t]
      BY <1>1 DEF IInv, TypeOK
    <3> QED BY <3>1 DEF AllBits
  <2> QED BY <1>1, <2>1, <2>2 DEF Shares, Reached
<1> QED
  BY <1>6, <1>9, <1>10, <1>11, <1>12, <1>13, <1>14, <1>15 DEF IInv

\* What getClauses drops has slipped, and is nowhere.
LEMMA DroppedFacts ==
    ASSUME TypeOK, Single, at \in Solver, NEW D \in Dropped(exported[at])
    PROVE  /\ D \subseteq Object
           /\ \A o \in D : /\ Exporters(o) = {at} /\ Importers(o) = {}
                           /\ o \notin database \cup tmp \cup toAdd \cup toExport
                                       \cup commTmp \cup toImport
<1>1. D \subseteq exported[at] /\ D \subseteq Object
  BY DEF Dropped, TypeOK
<1> QED BY <1>1, SingleFacts

LEMMA CollectedStep ==
    ASSUME IInv, Intact, Collected
    PROVE  IInv'
<1> USE DEF heap, filters, commVars, history
<1>1. PICK D \in Dropped(exported[at]) :
          /\ pc = "collect"
          /\ exported' = [exported EXCEPT ![at] = @ \ D] /\ slipped' = slipped \cup D
          /\ IF at < NumSolvers - 1
             THEN at' = at + 1 /\ UNCHANGED <<database, tmp, todo, pc>>
             ELSE \E S \in SUBSET database :
                      /\ database' = database \ S
                      /\ tmp' = S /\ todo' = S
                      /\ at' = 0 /\ pc' = "external"
          /\ UNCHANGED <<heap, imported, filters, adding, toAdd, externalFilter, commVars,
                         raced, history>>
  BY DEF Collected
<1>2. /\ tmp = {} /\ todo = {} /\ adding = {} /\ toAdd = {}
      /\ at \in Solver
  BY <1>1 DEF IInv, Control, TypeOK
<1>3. /\ D \subseteq Object
      /\ \A o \in D : /\ Exporters(o) = {at} /\ Importers(o) = {}
                      /\ o \notin database \cup tmp \cup toAdd \cup toExport
                                  \cup commTmp \cup toImport
  BY <1>2, DroppedFacts DEF IInv
<1>4. PICK S \in SUBSET database :
          /\ database' = database \ S
          /\ \/ S = {} /\ UNCHANGED <<tmp, todo, pc>> /\ at' = at + 1 /\ at < NumSolvers - 1
             \/ tmp' = S /\ todo' = S /\ pc' = "external" /\ at' = 0
  BY <1>1
<1>5. at' \in Solver
  BY <1>2, <1>4, SolverAssumption DEF Solver
<1>6. tmp' = S /\ todo' \subseteq S /\ S \subseteq Object /\ (pc' = "external" => at' = 0)
  BY <1>1, <1>2, <1>4 DEF IInv, TypeOK
<1>7. TypeOK'
  <2>1. exported' \in [Solver -> SUBSET Object] /\ slipped' \subseteq Object
    BY <1>1, <1>3 DEF IInv, TypeOK
  <2>2. pc' \in {"collect", "external", "distribute", "give", "release"}
    BY <1>1, <1>4
  <2>3. database' \subseteq Object /\ tmp' \subseteq Object /\ todo' \subseteq tmp'
        /\ adding' \subseteq tmp'
    BY <1>1, <1>2, <1>4, <1>6 DEF IInv, TypeOK
  <2> QED BY <1>1, <1>5, <2>1, <2>2, <2>3 DEF IInv, TypeOK
<1>8. /\ \A o \in D : \A s \in Solver : o \notin exported'[s]
      /\ \A s \in Solver : exported'[s] \subseteq exported[s]
      /\ \A o \in Object : o \notin D =>
            \A s \in Solver : o \in exported'[s] <=> o \in exported[s]
  <2>1. \A o \in D : \A s \in Solver : o \in exported[s] => s = at
    BY <1>3 DEF Exporters
  <2> QED BY <1>1, <1>2, <2>1 DEF IInv, TypeOK
<1>9. \A o \in Object : o \notin D => Holders(o)' = Holders(o)
  <2> SUFFICES ASSUME NEW o \in Object, o \notin D PROVE Holders(o)' = Holders(o)
    OBVIOUS
  <2>1. Exporters(o)' = Exporters(o) /\ Importers(o)' = Importers(o)
    BY <1>1, <1>8 DEF Exporters, Importers
  <2>2. One(o \in database)' + One(o \in tmp)' = One(o \in database) + One(o \in tmp)
    BY <1>2, <1>4, <1>6 DEF One
  <2>3. /\ One(o \in database)' \in Int /\ One(o \in tmp)' \in Int
        /\ One(o \in toAdd)' = One(o \in toAdd)
        /\ One(o \in toExport \cup commTmp)' = One(o \in toExport \cup commTmp)
        /\ One(o \in toImport)' = One(o \in toImport)
    BY <1>1 DEF One
  <2>4. Holders(o)' = Cardinality(Exporters(o)) + Cardinality(Importers(o))
            + One(o \in database)' + One(o \in tmp)' + One(o \in toAdd)
            + One(o \in toExport \cup commTmp) + One(o \in toImport)
    BY <2>1, <2>3 DEF Holders
  <2>5. Holders(o) = Cardinality(Exporters(o)) + Cardinality(Importers(o))
            + One(o \in database) + One(o \in tmp) + One(o \in toAdd)
            + One(o \in toExport \cup commTmp) + One(o \in toImport)
    BY DEF Holders
  <2>6. /\ Cardinality(Exporters(o)) \in Int /\ Cardinality(Importers(o)) \in Int
        /\ One(o \in database) \in Int /\ One(o \in tmp) \in Int
        /\ One(o \in toAdd) \in Int /\ One(o \in toExport \cup commTmp) \in Int
        /\ One(o \in toImport) \in Int
    BY HolderTerms
  <2> QED BY <2>2, <2>3, <2>4, <2>5, <2>6
<1>10. Counts'
  <2>1. \A o \in Object \ slipped' : o \in Object \ slipped /\ o \notin D
    BY <1>1
  <2>2. refs' = refs
    BY <1>1
  <2> QED BY <1>9, <2>1, <2>2 DEF IInv, Counts
<1>11. Single'
  <2> SUFFICES ASSUME NEW o \in Object,
                      (\E t \in Solver : o \in exported'[t]) \/ o \in database' \/ o \in toImport'
               PROVE  Holders(o)' = 1
    BY DEF Single
  <2>1. o \notin D /\ ((\E t \in Solver : o \in exported[t]) \/ o \in database \/ o \in toImport)
    BY <1>1, <1>3, <1>4, <1>8
  <2> QED BY <1>9, <2>1 DEF IInv, Single
<1>12. Control'
  <2>1. \A o \in database : o \notin toExport \cup commTmp
    BY SingleFacts DEF IInv, TypeOK
  <2>2. pc' # "external" => todo' = {}
    BY <1>2, <1>4
  <2>3. pc' = "collect" => tmp' = {}
    BY <1>1, <1>2, <1>4
  <2>4. todo' \cap (toExport \cup commTmp) = {}
    BY <1>6, <2>1
  <2>5. pc' # "give" /\ toAdd' = {} /\ adding' = {}
    BY <1>1, <1>2, <1>4
  <2> QED BY <1>1, <1>6, <2>2, <2>3, <2>4, <2>5 DEF IInv, Control
<1>13. Origins'
  <2>1. database' \cup tmp' \subseteq database \cup tmp
    BY <1>4, <1>6
  <2> QED BY <1>1, <1>8, <2>1 DEF IInv, Origins
<1>14. Filters'
  <2>1. \A s \in Solver : solverFilter[s] \subseteq AllBits(seen[s])
    BY <1>1 DEF IInv, Filters
  <2>2. pc' # "give"
    BY <1>1, <1>4
  <2> QED BY <1>1, <2>1, <2>2 DEF IInv, Filters
<1>15. Ranks'
  BY <1>1 DEF IInv, Ranks, NeverSentBack, Says
<1>16. Shares'
  BY <1>1 DEF IInv, Shares, Reached
<1> QED
  BY <1>7, <1>10, <1>11, <1>12, <1>13, <1>14, <1>15, <1>16 DEF IInv

LEMMA AskExternalStep ==
    ASSUME IInv, Intact, AskExternal
    PROVE  IInv'
<1>1. PICK o \in todo :
          /\ pc = "external" /\ adding = {}
          /\ todo' = todo \ {o}
          /\ \E pass \in Answers(clause[o], taking = {}) :
                adding' = IF pass THEN {o} ELSE {}
          /\ raced' = IF taking = {} THEN raced ELSE raced \cup taking \cup {clause[o]}
          /\ UNCHANGED <<heap, solvers, filters, database, tmp, toAdd, pc, at,
                         externalFilter, commVars, slipped, history>>
  BY DEF AskExternal
<1> USE DEF heap, solvers, filters, commVars, history
<1>2. o \in tmp /\ o \in Object /\ clause[o] \in Clause
  BY DEF IInv, TypeOK
<1>3. adding' \subseteq {o}
  BY <1>1
<1>4. raced \subseteq raced' /\ raced' \subseteq Clause
  BY <1>1, <1>2, ClauseAssumption DEF IInv, TypeOK
<1>5. TypeOK'
  <2>1. todo' \subseteq tmp /\ adding' \subseteq tmp
    BY <1>1, <1>2, <1>3 DEF IInv, TypeOK
  <2> QED BY <1>1, <1>4, <2>1 DEF IInv, TypeOK
<1>6. \A p \in Object : Holders(p)' = Holders(p)
  BY <1>1 DEF Holders, Exporters, Importers, One
<1>7. Counts' /\ Single'
  BY <1>1, <1>6 DEF IInv, Counts, Single
<1>8. Control'
  <2>1. todo' \cap adding' = {} /\ todo' \cup adding' \subseteq todo \cup adding
    BY <1>1, <1>3
  <2> QED BY <1>1, <2>1 DEF IInv, Control
<1>9. Origins'
  BY <1>1 DEF IInv, Origins
<1>10. Filters'
  BY <1>1 DEF IInv, Filters, Says
<1>11. Ranks'
  <2>1. CASE taking = {}
    <3>1. raced' = raced
      BY <1>1, <2>1
    <3>2. adding' # {} => ~(Bits[clause[o]] \subseteq externalFilter)
      BY <1>1, <2>1 DEF Answers, Passes
    <3>3. adding' # {} => clause[o] \in raced \/ clause[o] \notin received
      BY <3>2 DEF IInv, Ranks
    <3>4. \A p \in adding' : clause[p] \in raced \/ (clause[p] \notin received /\ taking = {})
      BY <1>3, <2>1, <3>3
    <3> QED BY <1>1, <2>1, <3>1, <3>4 DEF IInv, Ranks, NeverSentBack, Says
  <2>2. CASE taking # {}
    <3>1. taking \subseteq raced' /\ clause[o] \in raced'
      BY <1>1, <2>2
    <3> QED BY <1>1, <1>3, <1>4, <3>1 DEF IInv, Ranks, NeverSentBack, Says
  <2> QED BY <2>1, <2>2
<1>12. Shares'
  BY <1>1 DEF IInv, Shares, Reached, Says
<1> QED
  BY <1>5, <1>7, <1>8, <1>9, <1>10, <1>11, <1>12 DEF IInv

LEMMA AddToExternalStep ==
    ASSUME IInv, Intact, AddToExternal
    PROVE  IInv'
<1>1. PICK o \in adding :
          /\ adding' = {}
          /\ Told(clause[o])
          /\ \/ toExport' = toExport \cup {o} /\ refs' = Increased({o})
             \/ UNCHANGED <<toExport, refs>>
          /\ torn' = (torn \/ commPc = "clear")
          /\ slipped' = IF torn' THEN slipped \cup toExport' ELSE slipped
          /\ UNCHANGED <<clause, from, solvers, filters, database, tmp, todo, toAdd, pc, at,
                         toImport, commPc, commTmp, taking, raced, history>>
  BY DEF AddToExternal
<1> USE DEF solvers, filters, history
<1>2. PICK bits \in SUBSET Bits[clause[o]] :
          /\ clause[o] \notin raced => bits = Bits[clause[o]]
          /\ externalFilter' = externalFilter \cup bits
  BY <1>1 DEF Told
<1>3. o \in Object /\ o \in tmp /\ clause[o] \in Clause
  BY DEF IInv, TypeOK
<1>4. slipped \subseteq slipped' /\ slipped' \subseteq Object
      /\ toExport \subseteq toExport' /\ toExport' \subseteq toExport \cup {o}
  BY <1>1, <1>3 DEF IInv, TypeOK
<1>5. TypeOK'
  <2>1. refs' \in [Object -> Nat]
    BY <1>1, <1>3 DEF IInv, TypeOK, Increased
  <2>2. externalFilter' \subseteq Bit /\ toExport' \subseteq Object /\ torn' \in BOOLEAN
    BY <1>1, <1>2, <1>3, <1>4, BitsOf DEF IInv, TypeOK
  <2> QED BY <1>1, <1>4, <2>1, <2>2 DEF IInv, TypeOK
<1>6. o \notin toExport \cup commTmp /\ o \notin todo
  BY DEF IInv, Control
<1>7. \A p \in Object : refs'[p] - refs[p] = Holders(p)' - Holders(p)
  <2> SUFFICES ASSUME NEW p \in Object
               PROVE  refs'[p] - refs[p] = Holders(p)' - Holders(p)
    OBVIOUS
  <2>1. Exporters(p)' = Exporters(p) /\ Importers(p)' = Importers(p)
    BY <1>1 DEF Exporters, Importers
  <2>2. /\ One(p \in database)' = One(p \in database) /\ One(p \in tmp)' = One(p \in tmp)
        /\ One(p \in toAdd)' = One(p \in toAdd) /\ One(p \in toImport)' = One(p \in toImport)
    BY <1>1 DEF One
  <2>3. One(p \in toExport \cup commTmp)' - One(p \in toExport \cup commTmp)
            = refs'[p] - refs[p]
    <3>1. CASE toExport' = toExport /\ refs' = refs
      BY <1>1, <3>1 DEF One, IInv, TypeOK
    <3>2. CASE toExport' = toExport \cup {o} /\ refs' = Increased({o})
      <4>1. CASE p = o
        <5>1. refs'[p] = refs[p] + 1 /\ refs[p] \in Nat
          BY <3>2, <4>1 DEF Increased, IInv, TypeOK
        <5> QED BY <1>1, <1>6, <3>2, <4>1, <5>1 DEF One
      <4>2. CASE p # o
        <5>1. refs'[p] = refs[p] /\ refs[p] \in Nat
          BY <3>2, <4>2 DEF Increased, IInv, TypeOK
        <5> QED BY <1>1, <3>2, <4>2, <5>1 DEF One
      <4> QED BY <4>1, <4>2
    <3> QED BY <1>1, <3>1, <3>2
  <2>4. One(p \in toExport \cup commTmp)' \in {0, 1}
    BY DEF One
  <2> QED BY <2>1, <2>2, <2>3, <2>4, HolderTerms DEF Holders
<1>8. \A p \in Object : Exporters(p)' = Exporters(p) /\ Importers(p)' = Importers(p)
  BY <1>1 DEF Exporters, Importers
<1>9. \A p \in Object : Holders(p)' \in Int
  BY <1>8, HolderTerms DEF Holders, One
<1>10. Counts'
  BY <1>4, <1>5, <1>7, <1>9, CountsKept DEF IInv, TypeOK
<1>11. Control'
  <2>1. (todo' \cup adding') \cap (toExport' \cup commTmp') = {}
    BY <1>1, <1>4, <1>6 DEF IInv, Control
  <2>2. commPc' = "clear" => commTmp' \subseteq toExport'
    BY <1>1, <1>4 DEF IInv, Control
  <2>3. commPc' = "send" => commTmp' \cap toExport' \subseteq slipped'
    BY <1>1, <1>4, <1>6 DEF IInv, Control
  <2>4. (commPc' # "clear" => ~torn') /\ (torn' => toExport' \subseteq slipped')
    BY <1>1 DEF IInv, Control
  <2> QED BY <1>1, <2>1, <2>2, <2>3, <2>4 DEF IInv, Control
<1>12. Single'
  <2>1. /\ \A s \in Solver : o \notin exported[s]
        /\ o \notin database \cup toImport
    BY <1>3, SingleFacts DEF IInv
  <2>2. \A p \in Object : p # o => refs'[p] = refs[p]
    BY <1>1 DEF Increased, IInv, TypeOK
  <2>3. \A p \in Object : p # o => Holders(p)' = Holders(p)
    BY <1>7, <1>9, <2>2, HolderTerms DEF IInv, TypeOK
  <2> QED BY <1>1, <2>1, <2>3 DEF IInv, Single
<1>13. Origins'
  BY <1>1 DEF IInv, Origins
<1>14. Filters'
  BY <1>1 DEF IInv, Filters, Says
<1>15. Ranks'
  <2>1. clause[o] \in raced \/ (clause[o] \notin received /\ taking = {})
    BY DEF IInv, Ranks
  <2>2. \A p \in toExport' \cup commTmp' :
            \/ clause[p] \in raced
            \/ Bits[clause[p]] \subseteq externalFilter' /\ clause[p] \notin received
    BY <1>1, <1>2, <1>4, <2>1 DEF IInv, Ranks
  <2>3. \A c \in sent \cup received : c \in raced \/ Bits[c] \subseteq externalFilter'
    BY <1>2 DEF IInv, Ranks
  <2>4. \A c \in taking : c \in raced
    BY DEF IInv, Ranks
  <2> QED BY <1>1, <2>2, <2>3, <2>4 DEF IInv, Ranks, NeverSentBack
<1>16. Shares'
  BY <1>1 DEF IInv, Shares, Reached, Says
<1> QED
  BY <1>5, <1>10, <1>11, <1>12, <1>13, <1>14, <1>15, <1>16 DEF IInv

LEMMA GetFromExternalStep ==
    ASSUME IInv, Intact, GetFromExternal
    PROVE  IInv'
<1> USE DEF heap, solvers, filters
<1>1. PICK D \in Dropped(toImport) :
          /\ pc = "external" /\ todo = {} /\ adding = {}
          /\ tmp' = tmp \cup (toImport \ D)
          /\ toImport' = {} /\ slipped' = slipped \cup D
          /\ pc' = "distribute"
          /\ shared' = shared \cup Says(tmp')
          /\ UNCHANGED <<heap, solvers, filters, database, todo, adding, toAdd, at,
                         externalFilter, toExport, commPc, commTmp, taking, torn, raced,
                         seen, sent, received>>
  BY DEF GetFromExternal
<1>2. Says(tmp)' = Says(tmp') /\ Says(tmp') \subseteq Clause
  BY <1>1 DEF Says, IInv, TypeOK
<1>3. D \subseteq toImport /\ D \subseteq Object
  BY DEF Dropped, IInv, TypeOK
<1>4. TypeOK'
  BY <1>1, <1>2, <1>3 DEF IInv, TypeOK
<1>5. \A o \in toImport : o \notin tmp \cup toAdd \cup database
  BY SingleFacts DEF IInv, TypeOK
<1>6. \A o \in Object : o \notin D => Holders(o)' = Holders(o)
  <2> SUFFICES ASSUME NEW o \in Object, o \notin D PROVE Holders(o)' = Holders(o)
    OBVIOUS
  <2>1. Exporters(o)' = Exporters(o) /\ Importers(o)' = Importers(o)
    BY <1>1 DEF Exporters, Importers
  <2>2. One(o \in toImport)' + One(o \in tmp)' = One(o \in toImport) + One(o \in tmp)
    BY <1>1, <1>5 DEF One
  <2>3. /\ One(o \in toImport)' \in Int /\ One(o \in tmp)' \in Int
        /\ One(o \in toAdd)' = One(o \in toAdd)
        /\ One(o \in toExport \cup commTmp)' = One(o \in toExport \cup commTmp)
        /\ One(o \in database)' = One(o \in database)
    BY <1>1 DEF One
  <2>4. Holders(o)' = Cardinality(Exporters(o)) + Cardinality(Importers(o))
            + One(o \in database) + One(o \in tmp)' + One(o \in toAdd)
            + One(o \in toExport \cup commTmp) + One(o \in toImport)'
    BY <2>1, <2>3 DEF Holders
  <2>5. Holders(o) = Cardinality(Exporters(o)) + Cardinality(Importers(o))
            + One(o \in database) + One(o \in tmp) + One(o \in toAdd)
            + One(o \in toExport \cup commTmp) + One(o \in toImport)
    BY DEF Holders
  <2>6. /\ Cardinality(Exporters(o)) \in Int /\ Cardinality(Importers(o)) \in Int
        /\ One(o \in database) \in Int /\ One(o \in tmp) \in Int
        /\ One(o \in toAdd) \in Int /\ One(o \in toExport \cup commTmp) \in Int
        /\ One(o \in toImport) \in Int
    BY HolderTerms
  <2> QED BY <2>2, <2>3, <2>4, <2>5, <2>6
<1>7. Counts'
  BY <1>1, <1>6 DEF IInv, Counts
<1>8. Single'
  <2> SUFFICES ASSUME NEW o \in Object,
                      (\E t \in Solver : o \in exported[t]) \/ o \in database
               PROVE  Holders(o)' = 1
    BY <1>1 DEF Single
  <2>1. o \notin D
    BY <1>3, SingleFacts DEF IInv
  <2> QED BY <1>6, <2>1 DEF IInv, Single
<1>9. Control'
  BY <1>1 DEF IInv, Control
<1>10. Origins'
  <2>1. \A o \in toImport, s \in Solver : from[o] # FirstId + s
    BY SolverAssumption DEF IInv, Origins, External, Solver
  <2> QED BY <1>1, <2>1 DEF IInv, Origins
<1>11. Filters'
  BY <1>1 DEF IInv, Filters
<1>12. Ranks'
  BY <1>1 DEF IInv, Ranks, NeverSentBack, Says
<1>13. Shares'
  <2>1. at = 0 /\ \A s \in Solver : s >= 0
    BY <1>1 DEF IInv, Control, Solver
  <2>2. \A c \in shared, s \in Solver : Reached(c, s)
    BY <1>1 DEF IInv, Shares
  <2> QED BY <1>1, <1>2, <2>1, <2>2 DEF Shares, Reached
<1> QED
  BY <1>4, <1>7, <1>8, <1>9, <1>10, <1>11, <1>12, <1>13 DEF IInv

LEMMA DistributeStep ==
    ASSUME IInv, Intact, Distribute
    PROVE  IInv'
<1> USE DEF solvers, commVars, slips, history
<1>1. PICK S \in Selections :
          /\ pc = "distribute" /\ pc' = "give"
          /\ toAdd' = S
          /\ solverFilter' = [solverFilter EXCEPT ![at] = @ \cup AllBits(Says(S))]
          /\ refs' = Increased(S)
          /\ UNCHANGED <<clause, from, solvers, localFilter, database, tmp, todo, adding, at,
                         externalFilter, commVars, slips, history>>
  BY DEF Distribute
<1>2. /\ S \subseteq tmp /\ at \in Solver
      /\ \A o \in S : ~(Bits[clause[o]] \subseteq solverFilter[at])
      /\ \A o \in tmp : \/ from[o] = at
                        \/ Bits[clause[o]] \subseteq solverFilter[at] \cup AllBits(Says(S))
  BY SelectionFacts DEF IInv, TypeOK
<1>3. Says(toAdd)' = Says(S) /\ Says(tmp)' = Says(tmp)
  BY <1>1 DEF Says
<1>4. S \subseteq Object /\ AllBits(Says(S)) \subseteq Bit
  <2>1. S \subseteq Object /\ \A o \in S : Bits[clause[o]] \subseteq Bit
    BY <1>2, BitsOf DEF IInv, TypeOK
  <2> QED BY <2>1 DEF AllBits, Says
<1>5. TypeOK'
  <2>1. solverFilter' \in [Solver -> SUBSET Bit]
    BY <1>1, <1>4 DEF IInv, TypeOK
  <2>2. refs' \in [Object -> Nat] /\ toAdd' \subseteq Object
    BY <1>1, <1>4 DEF IInv, TypeOK, Increased
  <2> QED BY <1>1, <2>1, <2>2 DEF IInv, TypeOK
<1>6. toAdd = {}
  BY <1>1 DEF IInv, Control
<1>7. \A o \in Object : /\ refs'[o] - refs[o] = Holders(o)' - Holders(o)
                        /\ Holders(o)' \in Int
                        /\ o \notin S => Holders(o)' = Holders(o)
  <2> SUFFICES ASSUME NEW o \in Object
               PROVE  /\ refs'[o] - refs[o] = Holders(o)' - Holders(o)
                      /\ Holders(o)' \in Int
                      /\ o \notin S => Holders(o)' = Holders(o)
    OBVIOUS
  <2>1. Exporters(o)' = Exporters(o) /\ Importers(o)' = Importers(o)
    BY <1>1 DEF Exporters, Importers
  <2>2. /\ One(o \in database)' = One(o \in database) /\ One(o \in tmp)' = One(o \in tmp)
        /\ One(o \in toExport \cup commTmp)' = One(o \in toExport \cup commTmp)
        /\ One(o \in toImport)' = One(o \in toImport)
    BY <1>1 DEF One
  <2>3. One(o \in toAdd)' = One(o \in S) /\ One(o \in toAdd) = 0
    BY <1>1, <1>6 DEF One
  <2>4. /\ refs'[o] - refs[o] = One(o \in S) /\ One(o \in S) \in {0, 1}
        /\ o \notin S => One(o \in S) = 0
    BY <1>1 DEF Increased, One, IInv, TypeOK
  <2>5. Holders(o)' = Cardinality(Exporters(o)) + Cardinality(Importers(o))
            + One(o \in database) + One(o \in tmp) + One(o \in S)
            + One(o \in toExport \cup commTmp) + One(o \in toImport)
    BY <2>1, <2>2, <2>3 DEF Holders
  <2> QED BY <2>3, <2>4, <2>5, HolderTerms DEF Holders
<1>8. Counts'
  BY <1>1, <1>5, <1>7, CountsKept DEF IInv, TypeOK
<1>9. Control'
  BY <1>1, <1>2 DEF IInv, Control
<1>10. Single'
  <2>1. \A o \in S : /\ \A s \in Solver : o \notin exported[s]
                     /\ o \notin database \cup toImport
    BY <1>2, <1>4, SingleFacts DEF IInv
  <2> QED BY <1>1, <1>7, <2>1 DEF IInv, Single
<1>11. Origins'
  BY <1>1 DEF IInv, Origins
<1>12. Filters'
  <2>1. solverFilter'[at] = solverFilter[at] \cup AllBits(Says(S))
    BY <1>1, <1>2 DEF IInv, TypeOK
  <2>2. \A s \in Solver : s # at => solverFilter'[s] = solverFilter[s]
    BY <1>1 DEF IInv, TypeOK
  <2>3. AllBits(seen[at]) \subseteq solverFilter[at]
        /\ solverFilter[at] \subseteq AllBits(seen[at])
    BY <1>1, <1>2 DEF IInv, Filters
  <2>4. AllBits(seen[at] \cup Says(S)) = AllBits(seen[at]) \cup AllBits(Says(S))
    BY AllBitsUnion
  <2>5. \A o \in S : clause[o] \notin seen[at]
    BY <1>2, <2>3, AllBitsUnion
  <2>6. \A o \in tmp : Bits[clause[o]] \subseteq solverFilter'[at]
    <3>1. ASSUME NEW o \in tmp, from[o] = at
          PROVE  Bits[clause[o]] \subseteq solverFilter[at]
      <4>1. at = FirstId + at
        <5>1. from[o] = at /\ at \in Nat /\ at < NumSolvers
          BY <1>2, <3>1, SolverAssumption DEF Solver
        <5>2. from[o] = -1 \/ from[o] >= FirstId
          BY DEF IInv, Origins, External
        <5>3. FirstId = 0 \/ FirstId >= NumSolvers
          BY SolverAssumption
        <5>4. NumSolvers \in Nat /\ FirstId \in Nat
          BY SolverAssumption
        <5> QED BY <5>1, <5>2, <5>3, <5>4
      <4> QED BY <1>2, <2>3, <3>1, <4>1, AllBitsUnion DEF IInv, Origins
    <3> QED BY <1>2, <2>1, <3>1
  <2>7. \A s \in Solver : AllBits(seen[s]) \subseteq solverFilter'[s]
    BY <2>1, <2>2 DEF IInv, Filters
  <2>8. \A s \in Solver : s # at => solverFilter'[s] \subseteq AllBits(seen[s])
    BY <1>1, <2>2 DEF IInv, Filters
  <2>9. AllBits(seen[at] \cup Says(toAdd))' = AllBits(seen[at] \cup Says(S))
    BY <1>1, <1>3 DEF AllBits
  <2>10. solverFilter'[at] \subseteq AllBits(seen[at] \cup Says(toAdd))'
    BY <2>1, <2>3, <2>4, <2>9
  <2>11. \A s \in Solver : \A o \in imported[s] : clause[o] \in seen[s]
    BY DEF IInv, Filters
  <2>12. /\ \A s \in Solver : \A o \in imported'[s] : clause'[o] \in seen'[s]
         /\ \A s \in Solver : AllBits(seen'[s]) \subseteq solverFilter'[s]
         /\ \A s \in Solver : s # at' => solverFilter'[s] \subseteq AllBits(seen'[s])
         /\ \A o \in toAdd' : clause'[o] \notin seen'[at']
         /\ \A o \in tmp' : Bits[clause'[o]] \subseteq solverFilter'[at']
    BY <1>1, <2>5, <2>6, <2>7, <2>8, <2>11
  <2> QED BY <1>1, <2>10, <2>12 DEF Filters
<1>13. Ranks'
  BY <1>1 DEF IInv, Ranks, NeverSentBack, Says
<1>14. Shares'
  BY <1>1, <1>3 DEF IInv, Shares, Reached
<1> QED
  BY <1>5, <1>8, <1>9, <1>10, <1>11, <1>12, <1>13, <1>14 DEF IInv

LEMMA GiveStep ==
    ASSUME IInv, Intact, Give
    PROVE  IInv'
<1> USE DEF heap, filters, commVars, slips
<1>1. /\ pc = "give"
      /\ imported' = [imported EXCEPT ![at] = @ \cup toAdd]
      /\ seen' = [seen EXCEPT ![at] = @ \cup Says(toAdd)]
      /\ toAdd' = {}
      /\ \/ at < NumSolvers - 1 /\ at' = at + 1 /\ pc' = "distribute"
         \/ at >= NumSolvers - 1 /\ at' = 0 /\ pc' = "release"
      /\ UNCHANGED <<heap, exported, filters, database, tmp, todo, adding, externalFilter,
                     commVars, slips, shared, sent, received>>
  BY SolverAssumption DEF Give, IInv, TypeOK, Solver
<1>2. at \in Solver /\ at' \in Solver
  BY <1>1, SolverAssumption DEF IInv, TypeOK, Solver
<1>3. Says(toAdd) \subseteq Clause /\ toAdd \subseteq tmp
  BY DEF Says, IInv, TypeOK, Control
<1>4. TypeOK'
  <2>1. imported' \in [Solver -> SUBSET Object] /\ seen' \in [Solver -> SUBSET Clause]
    BY <1>1, <1>3 DEF IInv, TypeOK
  <2>2. pc' \in {"collect", "external", "distribute", "give", "release"}
    BY <1>1
  <2> QED BY <1>1, <1>2, <2>1, <2>2 DEF IInv, TypeOK
<1>5. \A o \in toAdd : o \notin imported[at]
  BY <1>1, <1>2 DEF IInv, Filters
<1>6. \A o \in Object : Holders(o)' = Holders(o)
  <2> SUFFICES ASSUME NEW o \in Object PROVE Holders(o)' = Holders(o)
    OBVIOUS
  <2>1. Exporters(o)' = Exporters(o)
    BY <1>1 DEF Exporters
  <2>2. Importers(o)' = IF o \in toAdd THEN Importers(o) \cup {at} ELSE Importers(o)
    BY <1>1, <1>2 DEF Importers, IInv, TypeOK
  <2>3. Cardinality(Importers(o)') = Cardinality(Importers(o)) + One(o \in toAdd)
    <3>1. CASE o \in toAdd
      <4>1. at \notin Importers(o) /\ Importers(o) \in SUBSET Solver
        BY <1>5, <3>1 DEF Importers
      <4> QED BY <1>2, <2>2, <3>1, <4>1, SolverGain DEF One
    <3>2. CASE o \notin toAdd
      BY <2>2, <3>2, HolderTerms DEF One
    <3> QED BY <3>1, <3>2
  <2>4. One(o \in toAdd)' = 0
    BY <1>1 DEF One
  <2>5. /\ One(o \in database)' = One(o \in database) /\ One(o \in tmp)' = One(o \in tmp)
        /\ One(o \in toExport \cup commTmp)' = One(o \in toExport \cup commTmp)
        /\ One(o \in toImport)' = One(o \in toImport)
    BY <1>1 DEF One
  <2>6. Holders(o)' = Cardinality(Exporters(o)) + Cardinality(Importers(o)')
            + One(o \in database) + One(o \in tmp) + 0
            + One(o \in toExport \cup commTmp) + One(o \in toImport)
    BY <2>1, <2>4, <2>5 DEF Holders
  <2> QED BY <2>3, <2>6, HolderTerms DEF Holders
<1>7. Counts' /\ Single'
  BY <1>1, <1>6 DEF IInv, Counts, Single
<1>8. Control'
  BY <1>1 DEF IInv, Control
<1>9. /\ seen'[at] = seen[at] \cup Says(toAdd)
      /\ \A s \in Solver : s # at => seen'[s] = seen[s]
      /\ \A s \in Solver : seen[s] \subseteq seen'[s]
  BY <1>1, <1>2 DEF IInv, TypeOK
<1>10. Origins'
  BY <1>1, <1>9 DEF IInv, Origins
<1>11. \A s \in Solver : AllBits(seen'[s]) = solverFilter[s]
  <2>1. AllBits(Says(toAdd)) \subseteq solverFilter[at]
    BY <1>1, <1>3 DEF IInv, Filters, AllBits, Says
  <2>2. AllBits(seen'[at]) = AllBits(seen[at] \cup Says(toAdd))
    BY <1>9
  <2>3. AllBits(seen[at] \cup Says(toAdd)) = AllBits(seen[at]) \cup AllBits(Says(toAdd))
    BY AllBitsUnion
  <2>4. AllBits(seen'[at]) = solverFilter[at]
    BY <1>1, <1>2, <2>1, <2>2, <2>3 DEF IInv, Filters
  <2>5. ASSUME NEW s \in Solver, s # at
        PROVE  AllBits(seen'[s]) = solverFilter[s]
    BY <1>9, <2>5 DEF IInv, Filters
  <2> QED BY <2>4, <2>5
<1>12. Filters'
  <2>1. \A o \in toAdd : clause[o] \in Says(toAdd)
    BY DEF Says
  <2>2. \A s \in Solver : \A o \in imported'[s] : o \in imported[s] \/ (s = at /\ o \in toAdd)
    BY <1>1 DEF IInv, TypeOK
  <2>3. \A s \in Solver : \A o \in imported[s] : clause[o] \in seen[s]
    BY DEF IInv, Filters
  <2>4. \A s \in Solver : \A o \in imported'[s] : clause[o] \in seen'[s]
    BY <1>9, <2>1, <2>2, <2>3
  <2> QED BY <1>1, <1>11, <2>4 DEF Filters
<1>13. Ranks'
  BY <1>1 DEF IInv, Ranks, NeverSentBack, Says
<1>14. Shares'
  <2>1. Says(tmp)' = Says(tmp)
    BY <1>1 DEF Says
  <2>2. \A c \in Says(tmp) : Bits[c] \subseteq AllBits(seen'[at])
    BY <1>1, <1>2, <1>11 DEF IInv, Filters, Says
  <2>3. \A c \in shared, s \in Solver :
            \/ Bits[c] \subseteq AllBits(seen[s])
            \/ s >= at /\ c \in Says(tmp)
    BY <1>1 DEF IInv, Shares, Reached
  <2>4. \A s \in Solver : AllBits(seen[s]) \subseteq AllBits(seen'[s])
    BY <1>9 DEF AllBits
  <2>5. \A c \in shared, s \in Solver :
            \/ Bits[c] \subseteq AllBits(seen'[s])
            \/ s > at /\ c \in Says(tmp)
    <3>1. \A s \in Solver : s \in Int
      BY DEF Solver
    <3> QED BY <1>2, <2>2, <2>3, <2>4, <3>1
  <2>6. \A s \in Solver : s > at => at < NumSolvers - 1 /\ s >= at + 1
    BY <1>2, SolverAssumption DEF Solver
  <2>7. \A s \in Solver : s > at => pc' = "distribute" /\ s >= at'
    <3>1. at \in Int /\ NumSolvers \in Int
      BY <1>2, SolverAssumption DEF Solver
    <3> QED BY <1>1, <2>6, <3>1
  <2> QED BY <1>1, <2>1, <2>5, <2>7 DEF Shares, Reached
<1> QED
  BY <1>4, <1>7, <1>8, <1>10, <1>12, <1>13, <1>14 DEF IInv

LEMMA ReleaseStep ==
    ASSUME IInv, Intact, Release
    PROVE  IInv'
<1> USE DEF solvers, filters, commVars, slips, history
<1>1. /\ pc = "release" /\ pc' = "collect"
      /\ refs' = Released(tmp)
      /\ tmp' = {}
      /\ UNCHANGED <<clause, from, solvers, filters, database, todo, adding, toAdd, at,
                     externalFilter, commVars, slips, history>>
  BY DEF Release
<1>2. \A o \in tmp : refs[o] > 0
  BY HeldIsCounted DEF IInv, TypeOK, Nowhere
<1>3. todo = {} /\ adding = {} /\ toAdd = {}
  BY <1>1 DEF IInv, Control
<1>4. TypeOK'
  <2>1. refs' \in [Object -> Nat]
    BY <1>1, <1>2 DEF IInv, TypeOK, Released
  <2> QED BY <1>1, <1>3, <2>1 DEF IInv, TypeOK
<1>5. \A o \in Object : /\ refs'[o] - refs[o] = Holders(o)' - Holders(o)
                        /\ Holders(o)' \in Int
                        /\ o \notin tmp => Holders(o)' = Holders(o)
  <2> SUFFICES ASSUME NEW o \in Object
               PROVE  /\ refs'[o] - refs[o] = Holders(o)' - Holders(o)
                      /\ Holders(o)' \in Int
                      /\ o \notin tmp => Holders(o)' = Holders(o)
    OBVIOUS
  <2>1. Exporters(o)' = Exporters(o) /\ Importers(o)' = Importers(o)
    BY <1>1 DEF Exporters, Importers
  <2>2. /\ One(o \in database)' = One(o \in database) /\ One(o \in toAdd)' = One(o \in toAdd)
        /\ One(o \in toExport \cup commTmp)' = One(o \in toExport \cup commTmp)
        /\ One(o \in toImport)' = One(o \in toImport) /\ One(o \in tmp)' = 0
    BY <1>1 DEF One
  <2>3. /\ refs'[o] - refs[o] = 0 - One(o \in tmp)
        /\ o \notin tmp => One(o \in tmp) = 0
    BY <1>1 DEF Released, One, IInv, TypeOK
  <2>4. Holders(o)' = Cardinality(Exporters(o)) + Cardinality(Importers(o))
            + One(o \in database) + 0 + One(o \in toAdd)
            + One(o \in toExport \cup commTmp) + One(o \in toImport)
    BY <2>1, <2>2 DEF Holders
  <2> QED BY <2>3, <2>4, HolderTerms DEF Holders
<1>6. Counts'
  BY <1>1, <1>4, <1>5, CountsKept DEF IInv, TypeOK
<1>7. Control'
  BY <1>1, <1>3 DEF IInv, Control
<1>8. Single'
  <2>1. \A o \in tmp : /\ \A s \in Solver : o \notin exported[s]
                       /\ o \notin database \cup toImport
    BY SingleFacts DEF IInv, TypeOK
  <2> QED BY <1>1, <1>5, <2>1 DEF IInv, Single
<1>9. Origins'
  BY <1>1 DEF IInv, Origins
<1>10. Filters'
  BY <1>1 DEF IInv, Filters
<1>11. Ranks'
  BY <1>1 DEF IInv, Ranks, NeverSentBack, Says
<1>12. Shares'
  BY <1>1 DEF IInv, Shares, Reached
<1> QED
  BY <1>4, <1>6, <1>7, <1>8, <1>9, <1>10, <1>11, <1>12 DEF IInv

-----------------------------------------------------------------------------
\* The communicator

LEMMA SelectStep ==
    ASSUME IInv, Intact, Select
    PROVE  IInv'
<1> USE DEF heap, solvers, filters, local, slips, history
<1>1. PICK S \in SUBSET toExport :
          /\ commPc = "loop" /\ S # {}
          /\ commPc' = "clear"
          /\ commTmp' = S
          /\ UNCHANGED <<heap, solvers, filters, local, externalFilter, toExport,
                         toImport, taking, torn, slips, history>>
  BY DEF Select
<1>2. TypeOK'
  BY <1>1 DEF IInv, TypeOK
<1>3. toExport' \cup commTmp' = toExport \cup commTmp
  BY <1>1 DEF IInv, Control
<1>4. \A o \in Object : Holders(o)' = Holders(o)
  BY <1>1, <1>3 DEF Holders, Exporters, Importers, One
<1>5. Counts' /\ Single'
  BY <1>1, <1>4 DEF IInv, Counts, Single
<1>6. Control'
  BY <1>1 DEF IInv, Control
<1>7. Origins' /\ Filters'
  BY <1>1 DEF IInv, Origins, Filters, Says, AllBits
<1>8. Ranks'
  BY <1>1, <1>3 DEF IInv, Ranks, NeverSentBack, Says
<1>9. Shares'
  BY <1>1 DEF IInv, Shares, Reached, Says
<1> QED BY <1>2, <1>5, <1>6, <1>7, <1>8, <1>9 DEF IInv

LEMMA ClearBucketsStep ==
    ASSUME IInv, Intact, ClearBuckets
    PROVE  IInv'
<1> USE DEF heap, solvers, filters, local, slips, history
<1>1. /\ commPc = "clear" /\ commPc' = "send"
      /\ toExport' \subseteq toExport
      /\ ~torn => toExport' = toExport \ commTmp
      /\ torn' = FALSE
      /\ UNCHANGED <<heap, solvers, filters, local, externalFilter, toImport,
                     commTmp, taking, slips, history>>
  BY DEF ClearBuckets
<1>2. TypeOK'
  BY <1>1 DEF IInv, TypeOK
<1>3. commTmp \subseteq toExport
  BY <1>1 DEF IInv, Control
<1>4. \A o \in Object : o \notin slipped \/ o \notin toExport => Holders(o)' = Holders(o)
  <2> SUFFICES ASSUME NEW o \in Object, o \notin slipped \/ o \notin toExport
               PROVE  Holders(o)' = Holders(o)
    OBVIOUS
  <2>1. Exporters(o)' = Exporters(o) /\ Importers(o)' = Importers(o)
    BY <1>1 DEF Exporters, Importers
  <2>2. /\ One(o \in database)' = One(o \in database) /\ One(o \in toAdd)' = One(o \in toAdd)
        /\ One(o \in toImport)' = One(o \in toImport) /\ One(o \in tmp)' = One(o \in tmp)
    BY <1>1 DEF One
  <2>3. One(o \in toExport \cup commTmp)' = One(o \in toExport \cup commTmp)
    <3>1. torn => o \notin toExport
      BY DEF IInv, Control
    <3> QED BY <1>1, <1>3, <3>1 DEF One
  <2>4. Holders(o)' = Cardinality(Exporters(o)) + Cardinality(Importers(o))
            + One(o \in database) + One(o \in tmp) + One(o \in toAdd)
            + One(o \in toExport \cup commTmp)' + One(o \in toImport)
    BY <2>1, <2>2 DEF Holders
  <2> QED BY <2>3, <2>4 DEF Holders
<1>5. Counts'
  BY <1>1, <1>4 DEF IInv, Counts
<1>6. Single'
  <2>1. \A o \in toExport : /\ \A s \in Solver : o \notin exported[s]
                            /\ o \notin database \cup toImport
    BY SingleFacts DEF IInv, TypeOK
  <2> QED BY <1>1, <1>4, <2>1 DEF IInv, Single
<1>7. Control'
  BY <1>1, <1>3 DEF IInv, Control
<1>8. Origins' /\ Filters'
  BY <1>1 DEF IInv, Origins, Filters, Says, AllBits
<1>9. Ranks'
  BY <1>1 DEF IInv, Ranks, NeverSentBack, Says
<1>10. Shares'
  BY <1>1 DEF IInv, Shares, Reached, Says
<1> QED BY <1>2, <1>5, <1>6, <1>7, <1>8, <1>9, <1>10 DEF IInv

LEMMA SendStep ==
    ASSUME IInv, Intact, Send
    PROVE  IInv'
<1> USE DEF solvers, filters, local, slips
<1>1. /\ commPc = "send" /\ commPc' = "loop"
      /\ sent' = sent \cup Says(commTmp)
      /\ refs' = Released(commTmp)
      /\ commTmp' = {}
      /\ UNCHANGED <<clause, from, solvers, filters, local, externalFilter, toExport,
                     toImport, taking, torn, slips, seen, shared, received>>
  BY DEF Send
<1>2. \A o \in commTmp : refs[o] > 0 /\ o \in Object /\ clause[o] \in Clause
  BY HeldIsCounted DEF IInv, TypeOK, Nowhere
<1>3. TypeOK'
  <2>1. refs' \in [Object -> Nat]
    BY <1>1, <1>2 DEF IInv, TypeOK, Released
  <2>2. sent' \subseteq Clause
    BY <1>1, <1>2 DEF IInv, TypeOK, Says
  <2> QED BY <1>1, <2>1, <2>2 DEF IInv, TypeOK
<1>4. commTmp \cap toExport \subseteq slipped
  BY <1>1 DEF IInv, Control
<1>5. \A o \in Object : /\ o \notin slipped => refs'[o] - refs[o] = Holders(o)' - Holders(o)
                        /\ Holders(o)' \in Int
                        /\ o \notin commTmp => Holders(o)' = Holders(o)
  <2> SUFFICES ASSUME NEW o \in Object
               PROVE  /\ o \notin slipped => refs'[o] - refs[o] = Holders(o)' - Holders(o)
                      /\ Holders(o)' \in Int
                      /\ o \notin commTmp => Holders(o)' = Holders(o)
    OBVIOUS
  <2>1. Exporters(o)' = Exporters(o) /\ Importers(o)' = Importers(o)
    BY <1>1 DEF Exporters, Importers
  <2>2. /\ One(o \in database)' = One(o \in database) /\ One(o \in toAdd)' = One(o \in toAdd)
        /\ One(o \in toImport)' = One(o \in toImport) /\ One(o \in tmp)' = One(o \in tmp)
    BY <1>1 DEF One
  <2>3. /\ One(o \in toExport \cup commTmp)' = One(o \in toExport)
        /\ o \notin slipped =>
              One(o \in toExport) + One(o \in commTmp) = One(o \in toExport \cup commTmp)
        /\ o \notin commTmp => One(o \in toExport) = One(o \in toExport \cup commTmp)
        /\ One(o \in toExport) \in {0, 1} /\ One(o \in commTmp) \in {0, 1}
    BY <1>1, <1>4 DEF One
  <2>4. /\ refs'[o] - refs[o] = 0 - One(o \in commTmp)
        /\ o \notin commTmp => One(o \in commTmp) = 0
    BY <1>1 DEF Released, One, IInv, TypeOK
  <2>5. Holders(o)' = Cardinality(Exporters(o)) + Cardinality(Importers(o))
            + One(o \in database) + One(o \in tmp) + One(o \in toAdd)
            + One(o \in toExport) + One(o \in toImport)
    BY <2>1, <2>2, <2>3 DEF Holders
  <2> QED BY <2>3, <2>4, <2>5, HolderTerms DEF Holders
<1>6. Counts'
  BY <1>1, <1>3, <1>5, CountsKept DEF IInv, TypeOK
<1>7. Control'
  BY <1>1 DEF IInv, Control
<1>8. Single'
  <2>1. \A o \in commTmp : /\ \A s \in Solver : o \notin exported[s]
                           /\ o \notin database \cup toImport
    BY SingleFacts DEF IInv, TypeOK
  <2> QED BY <1>1, <1>5, <2>1 DEF IInv, Single
<1>9. Origins' /\ Filters'
  BY <1>1 DEF IInv, Origins, Filters, Says, AllBits
<1>10. Ranks'
  BY <1>1 DEF IInv, Ranks, NeverSentBack, Says
<1>11. Shares'
  BY <1>1 DEF IInv, Shares, Reached, Says
<1> QED BY <1>3, <1>6, <1>7, <1>8, <1>9, <1>10, <1>11 DEF IInv

LEMMA AskReceivedStep ==
    ASSUME IInv, Intact, AskReceived
    PROVE  IInv'
<1>1. PICK c \in Remote :
          /\ commPc = "loop"
          /\ \E pass \in Answers(c, adding = {}) :
                /\ taking' = IF pass THEN {c} ELSE {}
                /\ commPc' = IF pass THEN "take" ELSE "loop"
          /\ raced' = IF adding = {} THEN raced ELSE raced \cup Says(adding) \cup {c}
          /\ UNCHANGED <<heap, solvers, filters, local, externalFilter, toExport, toImport,
                         commTmp, torn, slipped, history>>
  BY DEF AskReceived
<1> USE DEF heap, solvers, filters, local, history
<1>2. taking' \subseteq {c} /\ commPc' \in {"loop", "take"} /\ (commPc' # "take" => taking' = {})
  BY <1>1
<1>3. raced \subseteq raced' /\ raced' \subseteq Clause
  BY <1>1, ClauseAssumption DEF IInv, TypeOK, Says
<1>4. TypeOK'
  BY <1>1, <1>2, <1>3 DEF IInv, TypeOK
<1>5. \A o \in Object : Holders(o)' = Holders(o)
  BY <1>1 DEF Holders, Exporters, Importers, One
<1>6. Counts' /\ Single'
  BY <1>1, <1>5 DEF IInv, Counts, Single
<1>7. Control'
  BY <1>1, <1>2 DEF IInv, Control
<1>8. Origins' /\ Filters'
  BY <1>1 DEF IInv, Origins, Filters, Says, AllBits
<1>9. Ranks'
  <2>1. CASE adding = {}
    <3>1. raced' = raced
      BY <1>1, <2>1
    <3>2. taking' # {} => ~(Bits[c] \subseteq externalFilter)
      BY <1>1, <2>1 DEF Answers, Passes
    <3>3. taking' # {} =>
              c \in raced \/ (c \notin sent /\ c \notin Says(toExport \cup commTmp))
      BY <3>2 DEF IInv, Ranks, Says
    <3>4. Says(toExport \cup commTmp)' = Says(toExport \cup commTmp)
      BY <1>1 DEF Says
    <3>5. \A d \in taking' :
              d \in raced \/ (d \notin sent /\ d \notin Says(toExport \cup commTmp) /\ adding = {})
      BY <1>2, <2>1, <3>3
    <3> QED BY <1>1, <2>1, <3>1, <3>4, <3>5 DEF IInv, Ranks, NeverSentBack
  <2>2. CASE adding # {}
    <3>1. (\A o \in adding : clause[o] \in raced') /\ c \in raced'
      BY <1>1, <2>2 DEF Says
    <3> QED BY <1>1, <1>2, <1>3, <3>1 DEF IInv, Ranks, NeverSentBack
  <2> QED BY <2>1, <2>2
<1>10. Shares'
  BY <1>1 DEF IInv, Shares, Reached, Says
<1> QED BY <1>4, <1>6, <1>7, <1>8, <1>9, <1>10 DEF IInv

-----------------------------------------------------------------------------
\* The invariant, and what it gives

LEMMA InitIInv == Init => IInv
<1> SUFFICES ASSUME Init PROVE IInv
  OBVIOUS
<1>1. PICK c \in Clause : clause = [o \in Object |-> c]
  BY DEF Init
<1>2. 0 \in Solver
  BY SolverAssumption DEF Solver
<1>3. TypeOK
  BY <1>1, <1>2 DEF Init, TypeOK
<1>4. \A o \in Object : Holders(o) = 0
  <2> SUFFICES ASSUME NEW o \in Object PROVE Holders(o) = 0
    OBVIOUS
  <2>1. Exporters(o) = {} /\ Importers(o) = {}
    BY DEF Init, Exporters, Importers
  <2>2. Cardinality({}) = 0
    BY FS_EmptySet
  <2>3. /\ One(o \in database) = 0 /\ One(o \in tmp) = 0 /\ One(o \in toAdd) = 0
        /\ One(o \in toExport \cup commTmp) = 0 /\ One(o \in toImport) = 0
    BY DEF Init, One
  <2> QED BY <2>1, <2>2, <2>3 DEF Holders
<1>5. Counts /\ Single
  BY <1>4 DEF Init, Counts, Single
<1>6. Control /\ Origins /\ Filters /\ Ranks /\ Shares
  BY DEF Init, Control, Origins, Filters, Ranks, Shares, AllBits, Says, NeverSentBack
<1> QED BY <1>3, <1>5, <1>6 DEF IInv

LEMMA StutterIInv == IInv /\ UNCHANGED vars => IInv'
<1> SUFFICES ASSUME IInv, UNCHANGED vars PROVE IInv'
  OBVIOUS
<1> USE DEF vars, heap, solvers, filters, local, commVars, slips, history
<1>1. \A o \in Object : Holders(o)' = Holders(o)
  BY DEF Holders, Exporters, Importers, One
<1>2. TypeOK' /\ Counts' /\ Single'
  BY <1>1 DEF IInv, TypeOK, Counts, Single
<1>3. Control' /\ Origins'
  BY DEF IInv, Control, Origins
<1>4. Filters' /\ Ranks' /\ Shares'
  BY DEF IInv, Filters, Ranks, Shares, Reached, AllBits, Says, NeverSentBack
<1> QED BY <1>2, <1>3, <1>4 DEF IInv

LEMMA Invariance == Spec => []IInv
<1>1. IInv /\ [Next]_vars => IInv'
  <2> SUFFICES ASSUME IInv, [Next]_vars PROVE IInv'
    OBVIOUS
  <2>1. CASE Next
    BY <2>1, ExportStep, ImportStep, CollectStep, CollectedStep, AskExternalStep,
       AddToExternalStep, GetFromExternalStep, DistributeStep, GiveStep, ReleaseStep,
       SelectStep, ClearBucketsStep, SendStep, AskReceivedStep, ReceiveStep DEF Next
  <2>2. CASE UNCHANGED vars
    BY <2>2, StutterIInv
  <2> QED BY <2>1, <2>2
<1> QED BY <1>1, InitIInv, PTL DEF Spec

\* Every variable keeps its type; no count of holders becomes negative.
THEOREM TypeCorrect == Spec => []TypeOK
<1>1. IInv => TypeOK
  BY DEF IInv
<1> QED BY <1>1, Invariance, PTL

\* The count of a clause is the number of its holders, if it has not slipped.
THEOREM ReferencesAreHolders == Spec => []RefsAreHolders
<1>1. IInv => RefsAreHolders
  BY DEF IInv, Counts, RefsAreHolders
<1> QED BY <1>1, Invariance, PTL

\* A clause that was shared in a round has reached every solver by its end.
THEOREM SharedClausesReachAll == Spec => []SharedReachesAll
<1>1. IInv => SharedReachesAll
  BY DEF IInv, Shares, Reached, SharedReachesAll
<1> QED BY <1>1, Invariance, PTL

\* No clause is sent back to the ranks it came from, if the threads have not raced for it.
THEOREM NothingSentBack == Spec => []NeverSentBack
<1>1. IInv => NeverSentBack
  BY DEF IInv, Ranks
<1> QED BY <1>1, Invariance, PTL

\* No solver is given a clause it has been given before, or has exported.
THEOREM GivenOnce == Spec => NeverGivenTwice
<1> DEFINE Once == \A s \in Solver, o \in Object :
                       o \in imported'[s] \ imported[s] => clause[o] \notin seen[s]
<1>1. IInv /\ [Next]_vars => [Once]_vars
  <2> SUFFICES ASSUME IInv, Next PROVE Once
    BY DEF vars
  <2>1. CASE Give
    <3>1. ASSUME NEW s \in Solver, NEW o \in imported'[s] \ imported[s]
          PROVE  clause[o] \notin seen[s]
      <4>1. s = at /\ o \in toAdd /\ pc = "give"
        BY <2>1, <3>1 DEF Give, IInv, TypeOK
      <4> QED BY <4>1 DEF IInv, Filters
    <3> QED BY <3>1
  <2>2. CASE \E t \in Solver : Import(t)
    BY <2>2 DEF Import, IInv, TypeOK
  <2>3. CASE imported' = imported
    BY <2>3
  <2>4. \/ Give \/ (\E t \in Solver : Import(t)) \/ imported' = imported
    BY DEF Next, Export, Collect, Collected, AskExternal, AddToExternal, GetFromExternal,
           Distribute, Release, Select, ClearBuckets, Send, AskReceived, Receive, solvers
  <2> QED BY <2>1, <2>2, <2>3, <2>4
<1>2. Spec => [][Once]_vars
  BY <1>1, Invariance, PTL DEF Spec
<1> QED BY <1>2 DEF NeverGivenTwice

=============================================================================
