-------------------------- MODULE MCLocalPortfolio --------------------------
(***************************************************************************)
(* Small instances of LocalPortfolio.  Slaves are visited in order, so     *)
(* they are numbers and no symmetry applies.                               *)
(***************************************************************************)
EXTENDS LocalPortfolio
=============================================================================
