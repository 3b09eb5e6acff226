------------------------------- MODULE MCSharer -------------------------------
(***************************************************************************)
(* Small instances of Sharer.                                              *)
(***************************************************************************)
EXTENDS Sharer

CONSTANTS a, b, c, one, two, three

Lengths == [k \in Clause |-> IF k = one THEN 1 ELSE 2]

\* -wkr-strat=4 -copy-mode=2 -shr-strat=1: one sharer for a and its clone.
Divided ==
    [strategy |-> <<"simple">>, original |-> {a}, givesUp |-> TRUE,
     joined |-> [l \in List |-> IF l[1] = 1 THEN {a} ELSE {}],
     calls |-> <<<<1, "consumer">>, <<1, "producer">>>>,
     clones |-> {b}, clauses |-> {one}]

\* -wkr-strat=3 -shr-strat=4: one sharer for the portfolio, a, and one for b, which is
\* cloned by cube and conquer: what becomes of the clone.
Cubes ==
    [strategy |-> <<"simple", "horde">>, original |-> {a, b}, givesUp |-> FALSE,
     joined |-> [l \in List |-> IF l[2] = "consumer" THEN {a, b}
                                ELSE IF l[1] = 1 THEN {a} ELSE {b}],
     calls |-> <<<<1, "consumer">>, <<2, "consumer">>>>,
     clones |-> {c}, clauses |-> {}]

\* The same before the first clone.
Undivided == [Cubes EXCEPT !.clones = {}, !.clauses = {one, two}]

\* -wkr-strat=1 -shr-strat=2: a sharer with a database for each of two solvers.
Portfolio ==
    [strategy |-> <<"horde", "horde">>, original |-> {a, b}, givesUp |-> FALSE,
     joined |-> [l \in List |-> IF l[2] = "consumer" THEN {a, b}
                                ELSE IF l[1] = 1 THEN {a} ELSE {b}],
     calls |-> <<<<1, "consumer">>, <<2, "consumer">>>>,
     clones |-> {}, clauses |-> {one, two}]

\* -wkr-strat=1 -c=1 -shr-strat=3: one solver, more clauses than its sharer can carry.
Alone ==
    [strategy |-> <<"horde">>, original |-> {a}, givesUp |-> FALSE,
     joined |-> [l \in List |-> IF l[1] = 1 THEN {a} ELSE {}],
     calls |-> <<<<1, "consumer">>>>,
     clones |-> {}, clauses |-> Clause]

Setups == {Divided, Cubes, Undivided, Portfolio, Alone}
=============================================================================
