----------------------- MODULE MCDistributedPortfolio -----------------------
(***************************************************************************)
(* Small instances of DistributedPortfolio.                                *)
(***************************************************************************)
EXTENDS DistributedPortfolio, FiniteSets, TLC

CONSTANTS w1, w2

\* Two ranks of one worker.
TwoRanks == w1 :> 0 @@ w2 :> 1
=============================================================================
