---------------------------- MODULE MCLossLimits ----------------------------
(* The markets are interchangeable. *)
EXTENDS LossLimits, TLC

MarketSymmetry == Permutations(Markets)
=============================================================================
