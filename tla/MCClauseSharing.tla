--------------------------- MODULE MCClauseSharing ---------------------------
(***************************************************************************)
(* Small instances of ClauseSharing.  Addresses are interchangeable.       *)
(***************************************************************************)
EXTENDS ClauseSharing, TLC

CONSTANTS c1, c2

\* A filter that has let c2 pass stops c1; one that has let c1 pass lets c2.
Overlap == [c \in Clause |-> IF c = c1 THEN {1} ELSE {1, 2}]

Symmetry == Permutations(Object)
=============================================================================
