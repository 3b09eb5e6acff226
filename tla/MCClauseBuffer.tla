--------------------------- MODULE MCClauseBuffer ---------------------------
(***************************************************************************)
(* Small instances of ClauseBuffer.  Addresses are interchangeable, and so *)
(* are clauses.                                                            *)
(***************************************************************************)
EXTENDS ClauseBuffer, TLC

Symmetry == Permutations(Node)
=============================================================================
