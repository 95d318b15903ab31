------------------------------ MODULE OrderOnce ------------------------------
(***************************************************************************)
(* What the execution engine promises of every approved decision, without  *)
(* processes, databases or venues: it is put on record, submitted at most  *)
(* once and never before it is on record, and closed for good.             *)
(***************************************************************************)
EXTENDS Naturals

CONSTANT Decision

VARIABLES
  phase,   \* "none", "recorded", "sent" or "closed"
  sends    \* submissions made for the decision

vars == <<phase, sends>>

Init ==
  /\ phase = [d \in Decision |-> "none"]
  /\ sends = [d \in Decision |-> 0]

Record(d) ==
  /\ phase[d] = "none"
  /\ phase' = [phase EXCEPT ![d] = "recorded"]
  /\ UNCHANGED sends

Send(d) ==
  /\ phase[d] = "recorded" /\ sends[d] = 0
  /\ phase' = [phase EXCEPT ![d] = "sent"]
  /\ sends' = [sends EXCEPT ![d] = 1]

Close(d) ==
  /\ phase[d] \in {"recorded", "sent"}
  /\ phase' = [phase EXCEPT ![d] = "closed"]
  /\ UNCHANGED sends

Next == \E d \in Decision : Record(d) \/ Send(d) \/ Close(d)

Spec == Init /\ [][Next]_vars
=============================================================================
