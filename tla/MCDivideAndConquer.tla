-------------------------- MODULE MCDivideAndConquer --------------------------
(***************************************************************************)
(* Small instances of DivideAndConquer.  Slaves other than slaves[0] are   *)
(* interchangeable, and so are the variables.                              *)
(***************************************************************************)
EXTENDS DivideAndConquer, TLC

CONSTANTS s1, s2, s3, x, y

\* A formula without a model, and one with two: exactly one variable is true.
HardOnes == {{}, {[v \in Var |-> v = x], [v \in Var |-> v = y]}}

\* Not for liveness.
Symmetry == Permutations(Slave \ {First}) \cup Permutations(Var)
=============================================================================
