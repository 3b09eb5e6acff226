------------------------------ MODULE SearchSpace ------------------------------
(***************************************************************************)
(* What dividing a formula promises: the cubes that are open, each with    *)
(* its searcher, stay so until they are refuted or divided in two, and the *)
(* answer is SAT when a model lies within an open one, UNSAT when none is  *)
(* open.  Then nothing is left to be done.                                 *)
(***************************************************************************)
CONSTANTS Searcher, First, Var, Formula

VARIABLES
    models, \* of the formula
    open,   \* the cube of each searcher that has one
    answer

vars == <<models, open, answer>>

Within(cube) == {a \in [Var -> BOOLEAN] : \A l \in cube : a[l[1]] = l[2]}

Init == models \in Formula /\ open = [s \in {First} |-> {}] /\ answer = "UNKNOWN"

\* Searcher s leaves half of its cube to another that has none.
Divide ==
    \E s \in DOMAIN open, v \in Var : \E other \in Searcher \ DOMAIN open :
        /\ open' = [x \in DOMAIN open \cup {other} |->
                      IF x = s THEN open[s] \cup {<<v, TRUE>>}
                      ELSE IF x = other THEN open[s] \cup {<<v, FALSE>>} ELSE open[x]]
        /\ UNCHANGED <<models, answer>>

Refute ==
    \E s \in DOMAIN open : /\ models \cap Within(open[s]) = {}
                           /\ open' = [x \in DOMAIN open \ {s} |-> open[x]]
                           /\ UNCHANGED <<models, answer>>

Satisfy ==
    \E s \in DOMAIN open : /\ models \cap Within(open[s]) # {}
                           /\ answer' = "SAT" /\ open' = [x \in {} |-> {}]
                           /\ UNCHANGED models

Exhaust == DOMAIN open = {} /\ answer' = "UNSAT" /\ UNCHANGED <<models, open>>

Next == answer = "UNKNOWN" /\ (Divide \/ Refute \/ Satisfy \/ Exhaust)

Spec == Init /\ [][Next]_vars
=============================================================================
