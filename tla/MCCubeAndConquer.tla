--------------------------- MODULE MCCubeAndConquer ---------------------------
(***************************************************************************)
(* Small instances of CubeAndConquer.                                      *)
(***************************************************************************)
EXTENDS CubeAndConquer

CONSTANTS x, y

\* A formula without a model, and one with a single model.
HardOnes == {{}, {[v \in Var |-> v = x]}}
=============================================================================
