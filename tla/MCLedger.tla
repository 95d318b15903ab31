------------------------------ MODULE MCLedger ------------------------------
(* The windows, and the outcomes of each, are interchangeable. *)
EXTENDS Ledger, TLC

WindowSymmetry ==
  {f @@ g : f \in Permutations(Market), g \in Permutations(Outcome)}
=============================================================================
