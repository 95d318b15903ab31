---------------------------- MODULE MCExecution ----------------------------
(* Model checking of Execution. *)
EXTENDS Execution, TLC

(* The decisions are interchangeable (safety runs only). *)
DecisionSymmetry == Permutations(Decision)
=============================================================================
