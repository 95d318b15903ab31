---------------------------- MODULE TradingPermit ----------------------------
(***************************************************************************)
(* What the lifecycle promises about the permission to trade, without      *)
(* tasks, threads, health checks or listeners: it is given while no        *)
(* difference with the exchange is outstanding, withdrawn by anybody,      *)
(* given back a limited number of times an hour, and once it is locked it  *)
(* stays so until the process ends; a kill switch outlives the process.    *)
(* When it is withdrawn one entry may be on its way.                       *)
(***************************************************************************)
EXTENDS Naturals

CONSTANT MaxRecoveries

VARIABLES
  permit,   \* "DISABLED" (no process), "SYNCING", "TRADING", "HALTED" or "LOCKED"
  engaged,  \* the kill switch
  doubts,   \* differing reconciliations in a row, up to 2
  spent,    \* automatic recoveries of the last hour
  overtaken \* entries since trading was last forbidden

vars == <<permit, engaged, doubts, spent, overtaken>>

Init == permit = "DISABLED" /\ ~engaged /\ doubts = 0 /\ spent = 0 /\ overtaken = 0

Start ==
  /\ permit = "DISABLED"
  /\ permit' = IF engaged THEN "LOCKED" ELSE "SYNCING"
  /\ UNCHANGED <<engaged, doubts, spent, overtaken>>

Grant ==
  /\ permit = "SYNCING" /\ doubts = 0
  /\ permit' = "TRADING" /\ overtaken' = 0
  /\ UNCHANGED <<engaged, doubts, spent>>

Pause ==
  /\ permit \in {"SYNCING", "TRADING"}
  /\ permit' = "HALTED"
  /\ UNCHANGED <<engaged, doubts, spent, overtaken>>

(* For the operator; by the kill switch as well. *)
Lock ==
  /\ permit # "DISABLED"
  /\ permit' = "LOCKED" /\ engaged' \in {engaged, TRUE}
  /\ UNCHANGED <<doubts, spent, overtaken>>

(* An attempt that comes after a lock is counted and changes nothing. *)
Recover ==
  /\ permit \in {"HALTED", "LOCKED"} /\ spent < MaxRecoveries
  /\ permit' = IF permit = "HALTED" THEN "SYNCING" ELSE "LOCKED"
  /\ spent' = spent + 1
  /\ UNCHANGED <<engaged, doubts, overtaken>>

HourPasses ==
  /\ spent > 0 /\ spent' = spent - 1
  /\ UNCHANGED <<permit, engaged, doubts, overtaken>>

Agrees ==
  /\ permit # "DISABLED" /\ doubts' = 0
  /\ UNCHANGED <<permit, engaged, spent, overtaken>>

Differs ==
  /\ permit # "DISABLED"
  /\ \/ doubts = 0 /\ doubts' = 1 /\ UNCHANGED permit
     \/ doubts > 0 /\ doubts' = 2 /\ permit' = "LOCKED"
  /\ UNCHANGED <<engaged, spent, overtaken>>

Engage == engaged' /\ UNCHANGED <<permit, doubts, spent, overtaken>>

Reset == ~engaged' /\ overtaken' = 0 /\ UNCHANGED <<permit, doubts, spent>>

Overtakes ==
  /\ permit # "TRADING" \/ engaged
  /\ overtaken = 0 /\ overtaken' = 1
  /\ UNCHANGED <<permit, engaged, doubts, spent>>

End ==
  /\ permit' = "DISABLED" /\ doubts' = 0 /\ spent' = 0 /\ overtaken' = 0
  /\ UNCHANGED engaged

Next ==
  \/ Start \/ Grant \/ Pause \/ Lock \/ Recover \/ HourPasses
  \/ Agrees \/ Differs \/ Engage \/ Reset \/ Overtakes \/ End

Spec == Init /\ [][Next]_vars
=============================================================================
