--------------------------- MODULE LifecycleProofs ---------------------------
(* Proofs about Lifecycle, for every choice of faults and every bound. *)
EXTENDS Lifecycle, TLAPS

-----------------------------------------------------------------------------
(* Type correctness. *)

(* A group of variables that a step leaves alone keeps its type. *)
LEMMA Carry ==
  ASSUME TypeOK
  PROVE  /\ UNCHANGED machineVars => MachineType'
         /\ UNCHANGED killVars => KillType'
         /\ UNCHANGED coreVars => CoreType'
         /\ UNCHANGED healthVars => HealthType'
         /\ UNCHANGED watchdogVars => WatchdogType'
         /\ UNCHANGED stallVars => StallType'
         /\ UNCHANGED <<pc, saved, overrun, restarts>> => OtherType'
         /\ UNCHANGED <<pc, coreVars>> => ResumeType'
<1>1. UNCHANGED machineVars => MachineType'
  BY DEF TypeOK, MachineType, machineVars
<1>2. UNCHANGED killVars => KillType'
  BY DEF TypeOK, KillType, killVars
<1>3. UNCHANGED coreVars => CoreType'
  BY DEF TypeOK, CoreType, coreVars
<1>4. UNCHANGED healthVars => HealthType'
  BY DEF TypeOK, HealthType, healthVars
<1>5. UNCHANGED watchdogVars => WatchdogType'
  BY DEF TypeOK, WatchdogType, watchdogVars
<1>6. UNCHANGED stallVars => StallType'
  BY DEF TypeOK, StallType, stallVars
<1>7. UNCHANGED <<pc, saved, overrun, restarts>> => OtherType'
  BY DEF TypeOK, OtherType
<1>8. UNCHANGED <<pc, coreVars>> => ResumeType'
  BY DEF TypeOK, ResumeType, coreVars
<1> QED
  BY <1>1, <1>2, <1>3, <1>4, <1>5, <1>6, <1>7, <1>8

(* The health checks report known codes only. *)
LEMMA AnomalyType ==
  /\ Blockers \in SUBSET Code
  /\ \A force \in BOOLEAN : Anomalies(force) \in SUBSET Code
BY DEF Blockers, Anomalies, Present

(* A halt, manual or not, leaves the machine with a state, causes and a    *)
(* change to deliver of their types.                                       *)
LEMMA HaltType ==
  ASSUME MachineType, NEW manual \in BOOLEAN, NEW why \in SUBSET (Code \cup CoreCause),
         Halt(manual, why)
  PROVE  MachineType'
BY DEF MachineType, Halt, MoveTo, machineVars, State, Change

(* So does a transition to any state.                                      *)
LEMMA MoveType ==
  ASSUME MachineType, NEW target \in State, NEW manual \in BOOLEAN, MoveTo(target, manual),
         cause' \in SUBSET (Code \cup CoreCause)
  PROVE  MachineType'
<1>1. [state |-> target, manual |-> manual] \in Change
  BY DEF Change
<1> QED
  BY <1>1 DEF MachineType, MoveTo

(* The bounds are natural numbers.                                         *)
LEMMA BoundsType ==
  MaxRecoveries \in Nat /\ MaxCommands \in Nat /\ MaxRestarts \in Nat
BY LifecycleAssumption

(* The process that has not started yet is well typed.                     *)
LEMMA InitType == Init => TypeOK
<1> SUFFICES ASSUME Init PROVE TypeOK
  OBVIOUS
<1> USE BoundsType DEF Init
<1>1. MachineType
  BY DEF MachineType, State, Change, NoChange
<1>2. KillType
  <2>1. commands \in 0 .. MaxCommands
    OBVIOUS
  <2> QED
    BY <2>1 DEF KillType
<1>3. CoreType /\ ResumeType
  <2>1. recoveries \in 0 .. MaxRecoveries /\ failures \in 0 .. 2
    OBVIOUS
  <2>2. plan = "none" /\ unknown \in BOOLEAN /\ reconciled \in BOOLEAN
    OBVIOUS
  <2> HIDE DEF Init
  <2> QED
    BY <2>1, <2>2 DEF CoreType, ResumeType
<1>4. HealthType
  BY DEF HealthType
<1>5. WatchdogType /\ StallType
  BY DEF WatchdogType, StallType, State, Change, NoChange
<1>6. OtherType
  BY DEF OtherType, LoopPC, State, Change, NoChange
<1> QED
  BY <1>1, <1>2, <1>3, <1>4, <1>5, <1>6 DEF TypeOK

(* Every step keeps every variable in its type; the decision to recover    *)
(* and the recovery itself are two steps, which is why ResumeType          *)
(* remembers the limit in between.                                         *)
LEMMA TypeStep == TypeOK /\ [Next]_vars => TypeOK'
<1> SUFFICES ASSUME TypeOK, [Next]_vars PROVE TypeOK'
  OBVIOUS
<1>0. /\ MachineType /\ KillType /\ CoreType /\ HealthType
      /\ WatchdogType /\ StallType /\ OtherType /\ ResumeType
  BY DEF TypeOK
<1>1. ASSUME Listeners PROVE TypeOK'
  <2>1. MachineType'
    BY <1>0, <1>1 DEF Listeners, MachineType, machineVars, State, Change, NoChange, Code, CoreCause
  <2>2. OtherType'
    BY <1>0, <1>1 DEF Listeners, OtherType, LoopPC, State, Change, NoChange, MachineType
  <2> QED
    BY <2>1, <2>2, <1>1, Carry DEF TypeOK, Listeners
<1>2. ASSUME Start PROVE TypeOK'
  <2>1. MachineType'
    <3>1. state' \in State /\ manualOnly' \in BOOLEAN
      BY <1>0, <1>2 DEF Start, Engaged, KillType, State
    <3> QED
      BY <1>0, <1>2, <3>1 DEF Start, MachineType
  <2>2. CoreType'
    BY <1>0, <1>2, BoundsType DEF Start, Engaged, CoreType, coreVars
  <2>3. HealthType'
    BY <1>0, <1>2 DEF Start, Engaged, HealthType, healthVars
  <2>4. OtherType'
    <3>1. state' \in State /\ Engaged \in BOOLEAN
      BY <1>0, <1>2 DEF Start, Engaged, KillType, State
    <3>2. saved' \in Change
      BY <1>0, <1>2, <3>1 DEF Start, Change
    <3> QED
      BY <1>0, <1>2, <3>2 DEF Start, OtherType, LoopPC
  <2>5. ResumeType'
    BY <1>0, <1>2, BoundsType DEF Start, Engaged, ResumeType, CoreType, coreVars
  <2> QED
    BY <2>1, <2>2, <2>3, <2>4, <2>5, <1>2, Carry DEF TypeOK, Start
<1>3. ASSUME StepBegins PROVE TypeOK'
  <2>1. HealthType'
    BY <1>0, <1>3 DEF StepBegins, At, HealthType, healthVars
  <2>2. OtherType'
    BY <1>0, <1>3 DEF StepBegins, At, OtherType, LoopPC
  <2>3. ResumeType'
    BY <1>0, <1>3, BoundsType DEF StepBegins, At, ResumeType, CoreType, coreVars
  <2> QED
    BY <2>1, <2>2, <2>3, <1>3, Carry DEF TypeOK, StepBegins
<1>4. ASSUME Poll PROVE TypeOK'
  <2>1. MachineType'
    BY <1>0, <1>4, HaltType DEF Poll, At, AfterPoll, MachineType, machineVars, State, Change, NoChange, Code, CoreCause
  <2>2. HealthType'
    BY <1>0, <1>4 DEF Poll, At, AfterPoll, HealthType, healthVars, CoreType
  <2>3. OtherType'
    BY <1>0, <1>4 DEF Poll, At, AfterPoll, OtherType, LoopPC
  <2>4. ResumeType'
    BY <1>0, <1>4, BoundsType DEF Poll, At, AfterPoll, ResumeType, CoreType, coreVars
  <2> QED
    BY <2>1, <2>2, <2>3, <2>4, <1>4, Carry DEF TypeOK, Poll
<1>5. ASSUME Engage PROVE TypeOK'
  <2>1. KillType'
    BY <1>0, <1>5, BoundsType DEF Engage, At, KillType, killVars
  <2>2. HealthType'
    BY <1>0, <1>5 DEF Engage, At, HealthType, healthVars, CoreType
  <2>3. OtherType'
    BY <1>0, <1>5 DEF Engage, At, OtherType, LoopPC
  <2>4. ResumeType'
    BY <1>0, <1>5, BoundsType DEF Engage, At, ResumeType, CoreType, coreVars
  <2> QED
    BY <2>1, <2>2, <2>3, <2>4, <1>5, Carry DEF TypeOK, Engage
<1>6. ASSUME EngageFails PROVE TypeOK'
  <2>1. OtherType'
    BY <1>0, <1>6 DEF EngageFails, At, OtherType, LoopPC
  <2>2. ResumeType'
    BY <1>0, <1>6, BoundsType DEF EngageFails, At, ResumeType, CoreType, coreVars
  <2> QED
    BY <2>1, <2>2, <1>6, Carry DEF TypeOK, EngageFails
<1>7. ASSUME EngageState PROVE TypeOK'
  <2>1. MachineType'
    <3>1. CASE Locked
      BY <1>0, <1>7, <3>1 DEF EngageState, MachineType, machineVars
    <3>2. CASE ~Locked
      <4>1. MoveTo("KILL_SWITCH", TRUE) /\ cause' = cause
        BY <1>0, <1>7, <3>2 DEF EngageState
      <4> QED
        BY <1>0, <4>1, MoveType DEF State, MachineType
    <3> QED
      BY <3>1, <3>2
  <2>2. KillType'
    BY <1>0, <1>7, BoundsType DEF EngageState, At, AfterPoll, Locked, MoveTo, KillType, killVars
  <2>3. HealthType'
    BY <1>0, <1>7 DEF EngageState, At, AfterPoll, Locked, MoveTo, HealthType, healthVars, CoreType
  <2>4. OtherType'
    BY <1>0, <1>7 DEF EngageState, At, AfterPoll, Locked, MoveTo, OtherType, LoopPC
  <2>5. ResumeType'
    BY <1>0, <1>7, BoundsType DEF EngageState, At, AfterPoll, Locked, MoveTo, ResumeType, CoreType, coreVars
  <2> QED
    BY <2>1, <2>2, <2>3, <2>4, <2>5, <1>7, Carry DEF TypeOK, EngageState
<1>8. ASSUME Resolve PROVE TypeOK'
  <2>1. MachineType'
    BY <1>0, <1>8, HaltType DEF Resolve, At, MachineType, machineVars, State, Change, NoChange, Code, CoreCause
  <2>2. CoreType'
    BY <1>0, <1>8, BoundsType DEF Resolve, At, CoreType, coreVars
  <2>3. OtherType'
    BY <1>0, <1>8 DEF Resolve, At, OtherType, LoopPC
  <2>4. ResumeType'
    BY <1>0, <1>8, BoundsType DEF Resolve, At, ResumeType, CoreType, coreVars
  <2> QED
    BY <2>1, <2>2, <2>3, <2>4, <1>8, Carry DEF TypeOK, Resolve
<1>9. ASSUME Reconcile PROVE TypeOK'
  <2>1. OtherType'
    BY <1>0, <1>9 DEF Reconcile, At, OtherType, LoopPC
  <2>2. ResumeType'
    BY <1>0, <1>9, BoundsType DEF Reconcile, At, ResumeType, CoreType, coreVars
  <2> QED
    BY <2>1, <2>2, <1>9, Carry DEF TypeOK, Reconcile
<1>10. ASSUME SnapshotAgrees PROVE TypeOK'
  <2>1. CoreType'
    BY <1>0, <1>10, BoundsType DEF SnapshotAgrees, At, Reconciled, CoreType, coreVars
  <2>2. HealthType'
    BY <1>0, <1>10 DEF SnapshotAgrees, At, Reconciled, HealthType, healthVars
  <2>3. OtherType'
    BY <1>0, <1>10 DEF SnapshotAgrees, At, Reconciled, OtherType, LoopPC
  <2>4. ResumeType'
    BY <1>0, <1>10, BoundsType DEF SnapshotAgrees, At, Reconciled, ResumeType, CoreType, coreVars
  <2> QED
    BY <2>1, <2>2, <2>3, <2>4, <1>10, Carry DEF TypeOK, SnapshotAgrees, Reconciled
<1>11. ASSUME SnapshotFails PROVE TypeOK'
  <2>1. CoreType'
    BY <1>0, <1>11, BoundsType DEF SnapshotFails, At, Reconciled, CoreType, coreVars
  <2>2. HealthType'
    BY <1>0, <1>11 DEF SnapshotFails, At, Reconciled, HealthType, healthVars
  <2>3. OtherType'
    BY <1>0, <1>11 DEF SnapshotFails, At, Reconciled, OtherType, LoopPC
  <2>4. ResumeType'
    BY <1>0, <1>11, BoundsType DEF SnapshotFails, At, Reconciled, ResumeType, CoreType, coreVars
  <2> QED
    BY <2>1, <2>2, <2>3, <2>4, <1>11, Carry DEF TypeOK, SnapshotFails, Reconciled
<1>12. ASSUME SnapshotDiffers PROVE TypeOK'
  <2>1. MachineType'
    BY <1>0, <1>12, HaltType DEF SnapshotDiffers, At, Reconciled, MachineType, machineVars, State, Change, NoChange, Code, CoreCause
  <2>2. CoreType'
    <3>1. failures' \in {1, 2} /\ reconciled' \in BOOLEAN
      BY <1>0, <1>12, Zenon DEF SnapshotDiffers, Reconciled
    <3>2. UNCHANGED <<plan, unknown, recoveries>>
      BY <1>0, <1>12, Zenon DEF SnapshotDiffers, Reconciled
    <3> QED
      BY <1>0, <3>1, <3>2 DEF CoreType
  <2>3. HealthType'
    BY <1>0, <1>12 DEF SnapshotDiffers, At, Reconciled, HealthType, healthVars
  <2>4. OtherType'
    BY <1>0, <1>12 DEF SnapshotDiffers, At, Reconciled, OtherType, LoopPC
  <2>5. ResumeType'
    BY <1>0, <1>12, BoundsType DEF SnapshotDiffers, At, Reconciled, ResumeType, CoreType, coreVars
  <2> QED
    BY <2>1, <2>2, <2>3, <2>4, <2>5, <1>12, Carry DEF TypeOK, SnapshotDiffers, Reconciled
<1>13. ASSUME Evidence PROVE TypeOK'
  <2>1. MachineType'
    BY <1>0, <1>13, HaltType DEF Evidence, At, MachineType, machineVars, State, Change, NoChange, Code, CoreCause
  <2> QED
    BY <2>1, <1>13, Carry DEF TypeOK, Evidence
<1>14. ASSUME Advance PROVE TypeOK'
  <2>1. CoreType'
    BY <1>0, <1>14, BoundsType DEF Advance, At, MayTrade, MayResume, MustEscalate, LimitReached, CoreType, coreVars
  <2>2. OtherType'
    BY <1>0, <1>14 DEF Advance, At, MayTrade, MayResume, MustEscalate, LimitReached, OtherType, LoopPC
  <2>3. ResumeType'
    BY <1>0, <1>14, BoundsType DEF Advance, At, MayTrade, MayResume, MustEscalate, LimitReached, ResumeType, CoreType, coreVars
  <2> QED
    BY <2>1, <2>2, <2>3, <1>14, Carry DEF TypeOK, Advance
<1>15. ASSUME Act PROVE TypeOK'
  <2>1. MachineType'
    <3>1. \/ UNCHANGED machineVars
          \/ MoveTo("TRADING", FALSE) /\ UNCHANGED cause
          \/ MoveTo("SYNCING", FALSE) /\ UNCHANGED cause
          \/ Halt(TRUE, {})
      BY <1>0, <1>15 DEF Act, Refused
    <3>2. CASE UNCHANGED machineVars
      BY <1>0, <3>2 DEF MachineType, machineVars
    <3>3. CASE MoveTo("TRADING", FALSE) /\ UNCHANGED cause
      BY <1>0, <3>3, MoveType DEF State, MachineType
    <3>4. CASE MoveTo("SYNCING", FALSE) /\ UNCHANGED cause
      BY <1>0, <3>4, MoveType DEF State, MachineType
    <3>5. CASE Halt(TRUE, {})
      BY <1>0, <3>5, HaltType
    <3> QED
      BY <3>1, <3>2, <3>3, <3>4, <3>5
  <2>2. CoreType'
    BY <1>0, <1>15, BoundsType DEF Act, Refused, At, MoveTo, CoreType, coreVars, ResumeType
  <2>3. HealthType'
    BY <1>0, <1>15 DEF Act, Refused, At, MoveTo, HealthType, healthVars
  <2>4. OtherType'
    BY <1>0, <1>15 DEF Act, Refused, At, MoveTo, OtherType, LoopPC
  <2>5. ResumeType'
    BY <1>0, <1>15, BoundsType DEF Act, Refused, At, MoveTo, ResumeType, CoreType, coreVars
  <2> QED
    BY <2>1, <2>2, <2>3, <2>4, <2>5, <1>15, Carry DEF TypeOK, Act
<1>16. ASSUME ExitsDone PROVE TypeOK'
  <2>1. OtherType'
    BY <1>0, <1>16 DEF ExitsDone, At, OtherType, LoopPC
  <2>2. ResumeType'
    BY <1>0, <1>16, BoundsType DEF ExitsDone, At, ResumeType, CoreType, coreVars
  <2> QED
    BY <2>1, <2>2, <1>16, Carry DEF TypeOK, ExitsDone
<1>17. ASSUME EntryApproved PROVE TypeOK'
  <2>1. OtherType'
    BY <1>0, <1>17 DEF EntryApproved, MayEnter, At, OtherType, LoopPC
  <2>2. ResumeType'
    BY <1>0, <1>17, BoundsType DEF EntryApproved, MayEnter, At, ResumeType, CoreType, coreVars
  <2> QED
    BY <2>1, <2>2, <1>17, Carry DEF TypeOK, EntryApproved
<1>18. ASSUME EntrySubmitted PROVE TypeOK'
  <2>1. OtherType'
    BY <1>0, <1>18 DEF EntrySubmitted, At, OtherType, LoopPC
  <2>2. ResumeType'
    BY <1>0, <1>18, BoundsType DEF EntrySubmitted, At, ResumeType, CoreType, coreVars
  <2> QED
    BY <2>1, <2>2, <1>18, Carry DEF TypeOK, EntrySubmitted
<1>19. ASSUME EntryReturns PROVE TypeOK'
  <2>1. CoreType'
    BY <1>0, <1>19, BoundsType DEF EntryReturns, At, CoreType, coreVars
  <2>2. OtherType'
    BY <1>0, <1>19 DEF EntryReturns, At, OtherType, LoopPC
  <2>3. ResumeType'
    BY <1>0, <1>19, BoundsType DEF EntryReturns, At, ResumeType, CoreType, coreVars
  <2> QED
    BY <2>1, <2>2, <2>3, <1>19, Carry DEF TypeOK, EntryReturns
<1>20. ASSUME StepDone PROVE TypeOK'
  <2>1. OtherType'
    BY <1>0, <1>20 DEF StepDone, At, OtherType, LoopPC
  <2>2. ResumeType'
    BY <1>0, <1>20, BoundsType DEF StepDone, At, ResumeType, CoreType, coreVars
  <2> QED
    BY <2>1, <2>2, <1>20, Carry DEF TypeOK, StepDone
<1>21. ASSUME StepRaises PROVE TypeOK'
  <2>1. CoreType'
    BY <1>0, <1>21, BoundsType DEF StepRaises, At, CoreType, coreVars
  <2>2. HealthType'
    BY <1>0, <1>21 DEF StepRaises, At, HealthType, healthVars
  <2>3. OtherType'
    BY <1>0, <1>21 DEF StepRaises, At, OtherType, LoopPC
  <2>4. ResumeType'
    BY <1>0, <1>21, BoundsType DEF StepRaises, At, ResumeType, CoreType, coreVars
  <2> QED
    BY <2>1, <2>2, <2>3, <2>4, <1>21, Carry DEF TypeOK, StepRaises
<1>22. ASSUME Check PROVE TypeOK'
  <2>1. MachineType'
    BY <1>0, <1>22, HaltType, AnomalyType DEF Check, NeedsOperator, MachineType, machineVars, State, Change, NoChange, Code, CoreCause
  <2>2. WatchdogType'
    BY <1>0, <1>22, AnomalyType DEF Check, NeedsOperator, WatchdogType, watchdogVars
  <2> QED
    BY <2>1, <2>2, <1>22, Carry DEF TypeOK, Check
<1>23. ASSUME Cancelled PROVE TypeOK'
  <2>1. WatchdogType'
    BY <1>0, <1>23 DEF Cancelled, WatchdogType, watchdogVars
  <2> QED
    BY <2>1, <1>23, Carry DEF TypeOK, Cancelled
<1>24. ASSUME Heartbeat PROVE TypeOK'
  <2>1. HealthType'
    BY <1>0, <1>24 DEF Heartbeat, HealthType, healthVars
  <2> QED
    BY <2>1, <1>24, Carry DEF TypeOK, Heartbeat
<1>25. ASSUME StreamsConnect PROVE TypeOK'
  <2>1. HealthType'
    BY <1>0, <1>25 DEF StreamsConnect, HealthType, healthVars
  <2> QED
    BY <2>1, <1>25, Carry DEF TypeOK, StreamsConnect
<1>26. ASSUME StreamsFail PROVE TypeOK'
  <2>1. HealthType'
    BY <1>0, <1>26 DEF StreamsFail, HealthType, healthVars
  <2> QED
    BY <2>1, <1>26, Carry DEF TypeOK, StreamsFail
<1>27. ASSUME ReconciliationAges PROVE TypeOK'
  <2>1. HealthType'
    BY <1>0, <1>27 DEF ReconciliationAges, HealthType, healthVars
  <2> QED
    BY <2>1, <1>27, Carry DEF TypeOK, ReconciliationAges
<1>28. ASSUME HourPasses PROVE TypeOK'
  <2>1. CoreType'
    BY <1>0, <1>28, BoundsType DEF HourPasses, CoreType, coreVars
  <2>2. ResumeType'
    BY <1>0, <1>28, BoundsType DEF HourPasses, ResumeType, CoreType, coreVars
  <2> QED
    BY <2>1, <2>2, <1>28, Carry DEF TypeOK, HourPasses
<1>29. ASSUME LoopStalls PROVE TypeOK'
  <2>1. HealthType'
    BY <1>0, <1>29 DEF LoopStalls, HealthType, healthVars
  <2> QED
    BY <2>1, <1>29, Carry DEF TypeOK, LoopStalls
<1>30. ASSUME StallHalt PROVE TypeOK'
  <2>1. MachineType'
    BY <1>0, <1>30 DEF StallHalt, MachineType, machineVars, State, Change, NoChange, Code, CoreCause
  <2>2. StallType'
    <3>1. [state |-> "HALTED", manual |-> TRUE] \in Change
      BY DEF Change, State
    <3> QED
      BY <1>0, <1>30, <3>1 DEF StallHalt, StallType
  <2> QED
    BY <2>1, <2>2, <1>30, Carry DEF TypeOK, StallHalt
<1>31. ASSUME StallListeners PROVE TypeOK'
  <2>1. StallType'
    BY <1>0, <1>31 DEF StallListeners, StallType, stallVars, State, Change, NoChange
  <2>2. OtherType'
    BY <1>0, <1>31 DEF StallListeners, OtherType, LoopPC, State, Change, NoChange, StallType
  <2> QED
    BY <2>1, <2>2, <1>31, Carry DEF TypeOK, StallListeners
<1>32. ASSUME CliEngage PROVE TypeOK'
  <2>1. KillType'
    BY <1>0, <1>32, BoundsType DEF CliEngage, OperatorActs, KillType, killVars
  <2>2. OtherType'
    BY <1>0, <1>32 DEF CliEngage, OperatorActs, OtherType, LoopPC
  <2> QED
    BY <2>1, <2>2, <1>32, Carry DEF TypeOK, CliEngage, OperatorActs
<1>33. ASSUME CliReset PROVE TypeOK'
  <2>1. KillType'
    <3>1. flag' \in BOOLEAN /\ file' \in BOOLEAN
      BY <1>0, <1>33 DEF CliReset, KillType, Running
    <3>2. cli' = "resetting" /\ commands' \in 0 .. MaxCommands
      BY <1>0, <1>33, BoundsType DEF CliReset, OperatorActs, KillType
    <3> QED
      BY <3>1, <3>2 DEF KillType
  <2>2. OtherType'
    BY <1>0, <1>33 DEF CliReset, OperatorActs, Running, OtherType, LoopPC
  <2> QED
    BY <2>1, <2>2, <1>33, Carry DEF TypeOK, CliReset, OperatorActs
<1>34. ASSUME TouchFile PROVE TypeOK'
  <2>1. KillType'
    BY <1>0, <1>34, BoundsType DEF TouchFile, OperatorActs, KillType, killVars
  <2>2. OtherType'
    BY <1>0, <1>34 DEF TouchFile, OperatorActs, OtherType, LoopPC
  <2> QED
    BY <2>1, <2>2, <1>34, Carry DEF TypeOK, TouchFile, OperatorActs
<1>35. ASSUME CliFile PROVE TypeOK'
  <2>1. KillType'
    BY <1>0, <1>35, BoundsType DEF CliFile, KillType, killVars
  <2>2. OtherType'
    BY <1>0, <1>35 DEF CliFile, OtherType, LoopPC
  <2> QED
    BY <2>1, <2>2, <1>35, Carry DEF TypeOK, CliFile
<1>36. ASSUME Crash PROVE TypeOK'
  <2>1. MachineType'
    BY <1>0, <1>36, BoundsType DEF Crash, MachineType, machineVars, State, Change, NoChange, Code, CoreCause
  <2>2. KillType'
    BY <1>0, <1>36, BoundsType DEF Crash, KillType, killVars
  <2>3. CoreType'
    <3>1. plan' = "none" /\ unknown' \in BOOLEAN /\ reconciled' \in BOOLEAN
      BY <1>0, <1>36 DEF Crash
    <3>2. recoveries' \in 0 .. MaxRecoveries /\ failures' \in 0 .. 2
      BY <1>0, <1>36, BoundsType DEF Crash
    <3> QED
      BY <3>1, <3>2 DEF CoreType
  <2>4. HealthType'
    BY <1>0, <1>36, BoundsType DEF Crash, HealthType, healthVars
  <2>5. WatchdogType'
    BY <1>0, <1>36, BoundsType DEF Crash, WatchdogType, watchdogVars
  <2>6. StallType'
    BY <1>0, <1>36, BoundsType DEF Crash, StallType, stallVars, State, Change, NoChange
  <2>7. OtherType'
    BY <1>0, <1>36, BoundsType DEF Crash, OtherType, LoopPC
  <2>8. ResumeType'
    BY <1>0, <1>36, BoundsType DEF Crash, ResumeType, CoreType, coreVars
  <2> QED
    BY <2>1, <2>2, <2>3, <2>4, <2>5, <2>6, <2>7, <2>8, <1>36 DEF TypeOK, Crash
<1>37. CASE UNCHANGED vars
  BY <1>0, <1>37, Carry DEF vars, TypeOK
<1> QED
  BY <1>1, <1>2, <1>3, <1>4, <1>5, <1>6, <1>7, <1>8, <1>9, <1>10, <1>11, <1>12, <1>13, <1>14, <1>15, <1>16, <1>17, <1>18, <1>19, <1>20, <1>21, <1>22, <1>23, <1>24, <1>25, <1>26, <1>27, <1>28, <1>29, <1>30, <1>31, <1>32, <1>33, <1>34, <1>35, <1>36, <1>37
     DEF Next, DecisionLoop, OtherTasks, Time, StallThread, Operator

-----------------------------------------------------------------------------
(* The inductive invariant. *)

(* An entry that is approved has had no overrun before it: approval needs  *)
(* a moment at which trading is allowed, and that moment has none.         *)
OverrunInv ==
  /\ overrun \in {0, 1}
  /\ ~Forbidden => overrun = 0
  /\ pc = "approved" => overrun = 0

(* The second mismatch in a row locks the machine; a running process has   *)
(* left DISABLED for good; the kill switch counts as a manual lock.        *)
StateInv ==
  /\ failures = 2 => Locked
  /\ Running <=> state # "DISABLED"
  /\ state = "KILL_SWITCH" => manualOnly

(* The change the listeners have still to deliver is the last one made on  *)
(* the event loop, until the stall thread has acted.                       *)
SavedInv ==
  /\ Running /\ ~triggered =>
       IF pend = NoChange THEN saved.state = state ELSE pend.state = state
  /\ pendStall # NoChange => triggered
  /\ ~Running => pend = NoChange

IInv == TypeOK /\ OverrunInv /\ StateInv /\ SevereHaltsAreManual /\ SavedInv

(* What a manual halt does, by the state it finds. *)
HaltedManually ==
  \/ state \in {"KILL_SWITCH", "DISABLED"} /\ UNCHANGED machineVars
  \/ state = "HALTED" /\ manualOnly' = TRUE /\ UNCHANGED <<state, cause, pend>>
  \/ /\ state \in {"SYNCING", "TRADING"} /\ state' = "HALTED" /\ manualOnly' = TRUE
     /\ pend' = [state |-> "HALTED", manual |-> TRUE]

(* The halts of the decision step itself. *)
LEMMA CoreHalts ==
  ASSUME TypeOK, Resolve \/ SnapshotDiffers \/ Evidence
  PROVE  /\ \/ UNCHANGED machineVars /\ failures' \in {failures, 1}
            \/ HaltedManually
         /\ pc # "down" /\ pc' # "down" /\ pc' # "approved"
         /\ UNCHANGED <<flag, file, triggered, pendStall, saved, overrun>>
<1>0. manualOnly \in BOOLEAN
  BY DEF TypeOK, MachineType
<1>1. CASE Resolve
  <2>1. UNCHANGED machineVars \/ Halt(TRUE, {"order stuck"})
    BY <1>1, Zenon DEF Resolve
  <2>2. pc = "resolving" /\ pc' = "reconcile" /\ failures' = failures
    BY <1>1, Zenon DEF Resolve, At
  <2>3. UNCHANGED <<flag, file, triggered, pendStall, saved, overrun>>
    BY <1>1, Zenon DEF Resolve, killVars, stallVars
  <2>4. Halt(TRUE, {"order stuck"}) => HaltedManually
    BY Zenon DEF Halt, MoveTo, machineVars, HaltedManually
  <2> QED
    BY <2>1, <2>2, <2>3, <2>4
<1>2. CASE SnapshotDiffers
  <2>1. \/ failures' = 1 /\ UNCHANGED machineVars
        \/ Halt(TRUE, {"mismatch confirmed"})
    BY <1>2, Zenon DEF SnapshotDiffers, Reconciled
  <2>2. pc = "snapshot" /\ pc' = "advance"
    BY <1>2, Zenon DEF SnapshotDiffers, Reconciled, At
  <2>3. UNCHANGED <<flag, file, triggered, pendStall, saved, overrun>>
    BY <1>2, Zenon DEF SnapshotDiffers, Reconciled, killVars, stallVars
  <2>4. Halt(TRUE, {"mismatch confirmed"}) => HaltedManually
    BY Zenon DEF Halt, MoveTo, machineVars, HaltedManually
  <2> QED
    BY <2>1, <2>2, <2>3, <2>4
<1>3. CASE Evidence
  <2>1. Halt(TRUE, {"price to beat"})
    BY <1>3, Zenon DEF Evidence
  <2>2. pc = "advance" /\ pc' = "advance"
    BY <1>3, Zenon DEF Evidence, At
  <2>3. UNCHANGED <<flag, file, triggered, pendStall, saved, overrun>>
    BY <1>3, Zenon DEF Evidence, killVars, stallVars
  <2>4. Halt(TRUE, {"price to beat"}) => HaltedManually
    BY Zenon DEF Halt, MoveTo, machineVars, HaltedManually
  <2> QED
    BY <2>1, <2>2, <2>3, <2>4
<1> QED
  BY <1>1, <1>2, <1>3

(* Trading cannot be forbidden behind the back of the risk check for more   *)
(* than the one entry it has approved.                                     *)
LEMMA OverrunStep ==
  ASSUME TypeOK, OverrunInv, [Next]_vars
  PROVE  OverrunInv'
<1>1. ASSUME Listeners PROVE OverrunInv'
  BY <1>1 DEF Listeners, OverrunInv, Forbidden, Engaged, killVars
<1>2. ASSUME Start PROVE OverrunInv'
  BY <1>2 DEF Start, Engaged, OverrunInv, Forbidden, killVars
<1>3. ASSUME StepBegins PROVE OverrunInv'
  BY <1>3 DEF StepBegins, At, OverrunInv, Forbidden, Engaged, machineVars, killVars
<1>4. ASSUME Poll PROVE OverrunInv'
  BY <1>4 DEF Poll, At, AfterPoll, Halt, MoveTo, OverrunInv, Forbidden, Engaged, machineVars, killVars
<1>5. ASSUME Engage PROVE OverrunInv'
  BY <1>5 DEF Engage, At, OverrunInv, Forbidden, Engaged, machineVars
<1>6. ASSUME EngageFails PROVE OverrunInv'
  BY <1>6 DEF EngageFails, At, OverrunInv, Forbidden, Engaged, machineVars, killVars
<1>7. ASSUME EngageState PROVE OverrunInv'
  BY <1>7 DEF EngageState, At, AfterPoll, Locked, MoveTo, OverrunInv, Forbidden, Engaged, machineVars
<1>8. ASSUME Resolve PROVE OverrunInv'
  BY <1>8 DEF Resolve, At, Halt, MoveTo, OverrunInv, Forbidden, Engaged, machineVars, killVars
<1>9. ASSUME Reconcile PROVE OverrunInv'
  BY <1>9 DEF Reconcile, At, OverrunInv, Forbidden, Engaged, machineVars, killVars
<1>10. ASSUME SnapshotAgrees PROVE OverrunInv'
  BY <1>10 DEF SnapshotAgrees, At, Reconciled, OverrunInv, Forbidden, Engaged, machineVars, killVars
<1>11. ASSUME SnapshotFails PROVE OverrunInv'
  BY <1>11 DEF SnapshotFails, At, Reconciled, OverrunInv, Forbidden, Engaged, machineVars, killVars
<1>12. ASSUME SnapshotDiffers PROVE OverrunInv'
  <2>1. \/ UNCHANGED machineVars /\ failures' \in {failures, 1}
        \/ HaltedManually
    BY <1>12, CoreHalts
  <2>2. /\ pc # "down" /\ pc' # "down" /\ pc' # "approved"
        /\ UNCHANGED <<flag, file, triggered, pendStall, saved, overrun>>
    BY <1>12, CoreHalts
  <2> QED
    BY <2>1, <2>2 DEF OverrunInv, Forbidden, Engaged, HaltedManually, machineVars
<1>13. ASSUME Evidence PROVE OverrunInv'
  BY <1>13 DEF Evidence, At, Halt, MoveTo, OverrunInv, Forbidden, Engaged, machineVars, killVars
<1>14. ASSUME Advance PROVE OverrunInv'
  BY <1>14 DEF Advance, At, OverrunInv, Forbidden, Engaged, machineVars, killVars
<1>15. ASSUME Act PROVE OverrunInv'
  BY <1>15 DEF Act, Refused, At, MoveTo, Halt, OverrunInv, Forbidden, Engaged, machineVars, killVars
<1>16. ASSUME ExitsDone PROVE OverrunInv'
  BY <1>16 DEF ExitsDone, At, OverrunInv, Forbidden, Engaged, machineVars, killVars
<1>17. ASSUME EntryApproved PROVE OverrunInv'
  BY <1>17 DEF EntryApproved, MayEnter, At, OverrunInv, Forbidden, Engaged, machineVars, killVars
<1>18. ASSUME EntrySubmitted PROVE OverrunInv'
  BY <1>18 DEF EntrySubmitted, At, OverrunInv, Forbidden, Engaged, machineVars, killVars
<1>19. ASSUME EntryReturns PROVE OverrunInv'
  BY <1>19 DEF EntryReturns, At, OverrunInv, Forbidden, Engaged, machineVars, killVars
<1>20. ASSUME StepDone PROVE OverrunInv'
  BY <1>20 DEF StepDone, At, OverrunInv, Forbidden, Engaged, machineVars, killVars
<1>21. ASSUME StepRaises PROVE OverrunInv'
  BY <1>21 DEF StepRaises, At, OverrunInv, Forbidden, Engaged, machineVars, killVars
<1>22. ASSUME Check PROVE OverrunInv'
  BY <1>22 DEF Check, NeedsOperator, Halt, MoveTo, OverrunInv, Forbidden, Engaged, machineVars, killVars
<1>23. ASSUME Cancelled PROVE OverrunInv'
  BY <1>23 DEF Cancelled, OverrunInv, Forbidden, Engaged, machineVars, killVars
<1>24. ASSUME Heartbeat PROVE OverrunInv'
  BY <1>24 DEF Heartbeat, OverrunInv, Forbidden, Engaged, machineVars, killVars
<1>25. ASSUME StreamsConnect PROVE OverrunInv'
  BY <1>25 DEF StreamsConnect, OverrunInv, Forbidden, Engaged, machineVars, killVars
<1>26. ASSUME StreamsFail PROVE OverrunInv'
  BY <1>26 DEF StreamsFail, OverrunInv, Forbidden, Engaged, machineVars, killVars
<1>27. ASSUME ReconciliationAges PROVE OverrunInv'
  BY <1>27 DEF ReconciliationAges, OverrunInv, Forbidden, Engaged, machineVars, killVars
<1>28. ASSUME HourPasses PROVE OverrunInv'
  BY <1>28 DEF HourPasses, OverrunInv, Forbidden, Engaged, machineVars, killVars
<1>29. ASSUME LoopStalls PROVE OverrunInv'
  BY <1>29 DEF LoopStalls, OverrunInv, Forbidden, Engaged, machineVars, killVars
<1>30. ASSUME StallHalt PROVE OverrunInv'
  BY <1>30 DEF StallHalt, OverrunInv, Forbidden, Engaged, killVars
<1>31. ASSUME StallListeners PROVE OverrunInv'
  BY <1>31 DEF StallListeners, OverrunInv, Forbidden, Engaged, machineVars, killVars
<1>32. ASSUME CliEngage PROVE OverrunInv'
  BY <1>32 DEF CliEngage, OperatorActs, OverrunInv, Forbidden, Engaged, machineVars
<1>33. ASSUME CliReset PROVE OverrunInv'
  BY <1>33 DEF CliReset, OperatorActs, Running, OverrunInv, Forbidden, Engaged, machineVars
<1>34. ASSUME TouchFile PROVE OverrunInv'
  BY <1>34 DEF TouchFile, OperatorActs, OverrunInv, Forbidden, Engaged, machineVars
<1>35. ASSUME CliFile PROVE OverrunInv'
  <2>1. cli \in {"engaging", "resetting"}
    BY <1>35 DEF CliFile, TypeOK, KillType
  <2>2. UNCHANGED <<state, flag, pc>>
    BY <1>35 DEF CliFile, machineVars
  <2>3. CASE cli = "engaging"
    BY <1>35, <2>2, <2>3 DEF CliFile, OverrunInv, Forbidden, Engaged
  <2>4. CASE cli = "resetting"
    BY <1>35, <2>2, <2>4 DEF CliFile, OverrunInv, Forbidden, Engaged
  <2> QED
    BY <2>1, <2>3, <2>4
<1>36. ASSUME Crash PROVE OverrunInv'
  BY <1>36 DEF Crash, OverrunInv, Forbidden, Engaged
<1>37. CASE UNCHANGED vars
  BY <1>37 DEF vars, OverrunInv, Forbidden, Engaged, machineVars, killVars
<1> QED
  BY <1>1, <1>2, <1>3, <1>4, <1>5, <1>6, <1>7, <1>8, <1>9, <1>10, <1>11, <1>12, <1>13, <1>14, <1>15, <1>16, <1>17, <1>18, <1>19, <1>20, <1>21, <1>22, <1>23, <1>24, <1>25, <1>26, <1>27, <1>28, <1>29, <1>30, <1>31, <1>32, <1>33, <1>34, <1>35, <1>36, <1>37
     DEF Next, DecisionLoop, OtherTasks, Time, StallThread, Operator

(* The stable part of the state: who is locked stays locked, and a second  *)
(* mismatch in a row is a lock.                                            *)
LEMMA StateStep ==
  ASSUME TypeOK, StateInv, [Next]_vars
  PROVE  StateInv'
<1>1. ASSUME Listeners PROVE StateInv'
  BY <1>1 DEF Listeners, StateInv, Locked, Running, coreVars
<1>2. ASSUME Start PROVE StateInv'
  BY <1>2 DEF Start, Engaged, StateInv, Locked, Running
<1>3. ASSUME StepBegins PROVE StateInv'
  BY <1>3 DEF StepBegins, At, StateInv, Locked, Running, machineVars, coreVars
<1>4. ASSUME Poll PROVE StateInv'
  BY <1>4 DEF Poll, At, AfterPoll, Halt, MoveTo, StateInv, Locked, Running, machineVars, coreVars
<1>5. ASSUME Engage PROVE StateInv'
  BY <1>5 DEF Engage, At, StateInv, Locked, Running, machineVars, coreVars
<1>6. ASSUME EngageFails PROVE StateInv'
  BY <1>6 DEF EngageFails, At, StateInv, Locked, Running, machineVars, coreVars
<1>7. ASSUME EngageState PROVE StateInv'
  BY <1>7 DEF EngageState, At, AfterPoll, Locked, MoveTo, StateInv, Running, machineVars, coreVars
<1>8. ASSUME Resolve PROVE StateInv'
  <2>1. \/ UNCHANGED machineVars /\ failures' \in {failures, 1}
        \/ HaltedManually
    BY <1>8, CoreHalts
  <2>2. /\ pc # "down" /\ pc' # "down" /\ pc' # "approved"
        /\ UNCHANGED <<flag, file, triggered, pendStall, saved, overrun>>
    BY <1>8, CoreHalts
  <2> QED
    BY <2>1, <2>2 DEF StateInv, Locked, Running, HaltedManually, machineVars
<1>9. ASSUME Reconcile PROVE StateInv'
  BY <1>9 DEF Reconcile, At, StateInv, Locked, Running, machineVars, coreVars
<1>10. ASSUME SnapshotAgrees PROVE StateInv'
  BY <1>10 DEF SnapshotAgrees, At, Reconciled, StateInv, Locked, Running, machineVars
<1>11. ASSUME SnapshotFails PROVE StateInv'
  BY <1>11 DEF SnapshotFails, At, Reconciled, StateInv, Locked, Running, machineVars
<1>12. ASSUME SnapshotDiffers PROVE StateInv'
  <2>1. \/ UNCHANGED machineVars /\ failures' \in {failures, 1}
        \/ HaltedManually
    BY <1>12, CoreHalts
  <2>2. /\ pc # "down" /\ pc' # "down" /\ pc' # "approved"
        /\ UNCHANGED <<flag, file, triggered, pendStall, saved, overrun>>
    BY <1>12, CoreHalts
  <2> QED
    BY <2>1, <2>2 DEF StateInv, Locked, Running, HaltedManually, machineVars
<1>13. ASSUME Evidence PROVE StateInv'
  <2>1. \/ UNCHANGED machineVars /\ failures' \in {failures, 1}
        \/ HaltedManually
    BY <1>13, CoreHalts
  <2>2. /\ pc # "down" /\ pc' # "down" /\ pc' # "approved"
        /\ UNCHANGED <<flag, file, triggered, pendStall, saved, overrun>>
    BY <1>13, CoreHalts
  <2> QED
    BY <2>1, <2>2 DEF StateInv, Locked, Running, HaltedManually, machineVars
<1>14. ASSUME Advance PROVE StateInv'
  BY <1>14 DEF Advance, At, StateInv, Locked, Running, machineVars
<1>15. ASSUME Act PROVE StateInv'
  BY <1>15 DEF Act, Refused, At, MoveTo, Halt, StateInv, Locked, Running, machineVars
<1>16. ASSUME ExitsDone PROVE StateInv'
  BY <1>16 DEF ExitsDone, At, StateInv, Locked, Running, machineVars, coreVars
<1>17. ASSUME EntryApproved PROVE StateInv'
  BY <1>17 DEF EntryApproved, MayEnter, At, StateInv, Locked, Running, machineVars, coreVars
<1>18. ASSUME EntrySubmitted PROVE StateInv'
  BY <1>18 DEF EntrySubmitted, At, StateInv, Locked, Running, machineVars, coreVars
<1>19. ASSUME EntryReturns PROVE StateInv'
  BY <1>19 DEF EntryReturns, At, StateInv, Locked, Running, machineVars
<1>20. ASSUME StepDone PROVE StateInv'
  BY <1>20 DEF StepDone, At, StateInv, Locked, Running, machineVars, coreVars
<1>21. ASSUME StepRaises PROVE StateInv'
  BY <1>21 DEF StepRaises, At, StateInv, Locked, Running, machineVars
<1>22. ASSUME Check PROVE StateInv'
  BY <1>22 DEF Check, NeedsOperator, Halt, MoveTo, StateInv, Locked, Running, machineVars, coreVars
<1>23. ASSUME Cancelled PROVE StateInv'
  BY <1>23 DEF Cancelled, StateInv, Locked, Running, machineVars, coreVars
<1>24. ASSUME Heartbeat PROVE StateInv'
  BY <1>24 DEF Heartbeat, StateInv, Locked, Running, machineVars, coreVars
<1>25. ASSUME StreamsConnect PROVE StateInv'
  BY <1>25 DEF StreamsConnect, StateInv, Locked, Running, machineVars, coreVars
<1>26. ASSUME StreamsFail PROVE StateInv'
  BY <1>26 DEF StreamsFail, StateInv, Locked, Running, machineVars, coreVars
<1>27. ASSUME ReconciliationAges PROVE StateInv'
  BY <1>27 DEF ReconciliationAges, StateInv, Locked, Running, machineVars, coreVars
<1>28. ASSUME HourPasses PROVE StateInv'
  BY <1>28 DEF HourPasses, StateInv, Locked, Running, machineVars
<1>29. ASSUME LoopStalls PROVE StateInv'
  BY <1>29 DEF LoopStalls, StateInv, Locked, Running, machineVars, coreVars
<1>30. ASSUME StallHalt PROVE StateInv'
  BY <1>30 DEF StallHalt, StateInv, Locked, Running, coreVars
<1>31. ASSUME StallListeners PROVE StateInv'
  BY <1>31 DEF StallListeners, StateInv, Locked, Running, machineVars, coreVars
<1>32. ASSUME CliEngage PROVE StateInv'
  BY <1>32 DEF CliEngage, OperatorActs, StateInv, Locked, Running, machineVars, coreVars
<1>33. ASSUME CliReset PROVE StateInv'
  BY <1>33 DEF CliReset, OperatorActs, Running, StateInv, Locked, machineVars, coreVars
<1>34. ASSUME TouchFile PROVE StateInv'
  BY <1>34 DEF TouchFile, OperatorActs, StateInv, Locked, Running, machineVars, coreVars
<1>35. ASSUME CliFile PROVE StateInv'
  BY <1>35 DEF CliFile, StateInv, Locked, Running, machineVars, coreVars
<1>36. ASSUME Crash PROVE StateInv'
  BY <1>36 DEF Crash, StateInv, Locked, Running
<1>37. CASE UNCHANGED vars
  BY <1>37 DEF vars, StateInv, Locked, Running, machineVars, coreVars
<1> QED
  BY <1>1, <1>2, <1>3, <1>4, <1>5, <1>6, <1>7, <1>8, <1>9, <1>10, <1>11, <1>12, <1>13, <1>14, <1>15, <1>16, <1>17, <1>18, <1>19, <1>20, <1>21, <1>22, <1>23, <1>24, <1>25, <1>26, <1>27, <1>28, <1>29, <1>30, <1>31, <1>32, <1>33, <1>34, <1>35, <1>36, <1>37
     DEF Next, DecisionLoop, OtherTasks, Time, StallThread, Operator

(* A halt never becomes milder.                                            *)
LEMMA SevereStep ==
  ASSUME TypeOK, SevereHaltsAreManual, [Next]_vars
  PROVE  SevereHaltsAreManual'
<1>1. ASSUME Listeners PROVE SevereHaltsAreManual'
  BY <1>1 DEF Listeners, SevereHaltsAreManual, ManualCode, Code, CoreCause
<1>2. ASSUME Start PROVE SevereHaltsAreManual'
  BY <1>2 DEF Start, Engaged, SevereHaltsAreManual, ManualCode, Code, CoreCause
<1>3. ASSUME StepBegins PROVE SevereHaltsAreManual'
  BY <1>3 DEF StepBegins, SevereHaltsAreManual, ManualCode, Code, CoreCause, machineVars
<1>4. ASSUME Poll PROVE SevereHaltsAreManual'
  BY <1>4 DEF Poll, At, AfterPoll, Halt, MoveTo, SevereHaltsAreManual, ManualCode, Code, CoreCause, machineVars
<1>5. ASSUME Engage PROVE SevereHaltsAreManual'
  BY <1>5 DEF Engage, SevereHaltsAreManual, ManualCode, Code, CoreCause, machineVars
<1>6. ASSUME EngageFails PROVE SevereHaltsAreManual'
  BY <1>6 DEF EngageFails, SevereHaltsAreManual, ManualCode, Code, CoreCause, machineVars
<1>7. ASSUME EngageState PROVE SevereHaltsAreManual'
  BY <1>7 DEF EngageState, AfterPoll, Locked, MoveTo, SevereHaltsAreManual, ManualCode, Code, CoreCause, machineVars
<1>8. ASSUME Resolve PROVE SevereHaltsAreManual'
  <2>1. \/ UNCHANGED machineVars /\ failures' \in {failures, 1}
        \/ HaltedManually
    BY <1>8, CoreHalts
  <2>2. /\ pc # "down" /\ pc' # "down" /\ pc' # "approved"
        /\ UNCHANGED <<flag, file, triggered, pendStall, saved, overrun>>
    BY <1>8, CoreHalts
  <2> QED
    BY <2>1, <2>2 DEF SevereHaltsAreManual, ManualCode, HaltedManually, machineVars
<1>9. ASSUME Reconcile PROVE SevereHaltsAreManual'
  BY <1>9 DEF Reconcile, SevereHaltsAreManual, ManualCode, Code, CoreCause, machineVars
<1>10. ASSUME SnapshotAgrees PROVE SevereHaltsAreManual'
  BY <1>10 DEF SnapshotAgrees, Reconciled, SevereHaltsAreManual, ManualCode, Code, CoreCause, machineVars
<1>11. ASSUME SnapshotFails PROVE SevereHaltsAreManual'
  BY <1>11 DEF SnapshotFails, Reconciled, SevereHaltsAreManual, ManualCode, Code, CoreCause, machineVars
<1>12. ASSUME SnapshotDiffers PROVE SevereHaltsAreManual'
  <2>1. \/ UNCHANGED machineVars /\ failures' \in {failures, 1}
        \/ HaltedManually
    BY <1>12, CoreHalts
  <2>2. /\ pc # "down" /\ pc' # "down" /\ pc' # "approved"
        /\ UNCHANGED <<flag, file, triggered, pendStall, saved, overrun>>
    BY <1>12, CoreHalts
  <2> QED
    BY <2>1, <2>2 DEF SevereHaltsAreManual, ManualCode, HaltedManually, machineVars
<1>13. ASSUME Evidence PROVE SevereHaltsAreManual'
  <2>1. \/ UNCHANGED machineVars /\ failures' \in {failures, 1}
        \/ HaltedManually
    BY <1>13, CoreHalts
  <2>2. /\ pc # "down" /\ pc' # "down" /\ pc' # "approved"
        /\ UNCHANGED <<flag, file, triggered, pendStall, saved, overrun>>
    BY <1>13, CoreHalts
  <2> QED
    BY <2>1, <2>2 DEF SevereHaltsAreManual, ManualCode, HaltedManually, machineVars
<1>14. ASSUME Advance PROVE SevereHaltsAreManual'
  BY <1>14 DEF Advance, SevereHaltsAreManual, ManualCode, Code, CoreCause, machineVars
<1>15. ASSUME Act PROVE SevereHaltsAreManual'
  BY <1>15 DEF Act, Refused, At, MoveTo, Halt, SevereHaltsAreManual, ManualCode, Code, CoreCause, machineVars
<1>16. ASSUME ExitsDone PROVE SevereHaltsAreManual'
  BY <1>16 DEF ExitsDone, SevereHaltsAreManual, ManualCode, Code, CoreCause, machineVars
<1>17. ASSUME EntryApproved PROVE SevereHaltsAreManual'
  BY <1>17 DEF EntryApproved, MayEnter, SevereHaltsAreManual, ManualCode, Code, CoreCause, machineVars
<1>18. ASSUME EntrySubmitted PROVE SevereHaltsAreManual'
  BY <1>18 DEF EntrySubmitted, SevereHaltsAreManual, ManualCode, Code, CoreCause, machineVars
<1>19. ASSUME EntryReturns PROVE SevereHaltsAreManual'
  BY <1>19 DEF EntryReturns, SevereHaltsAreManual, ManualCode, Code, CoreCause, machineVars
<1>20. ASSUME StepDone PROVE SevereHaltsAreManual'
  BY <1>20 DEF StepDone, SevereHaltsAreManual, ManualCode, Code, CoreCause, machineVars
<1>21. ASSUME StepRaises PROVE SevereHaltsAreManual'
  BY <1>21 DEF StepRaises, SevereHaltsAreManual, ManualCode, Code, CoreCause, machineVars
<1>22. ASSUME Check PROVE SevereHaltsAreManual'
  <2> DEFINE new == Anomalies(FALSE) \ active
             manual == new \cap ManualCode # {}
  <2>1. new \subseteq Code
    BY AnomalyType
  <2>2. UNCHANGED machineVars \/ Halt(manual, new)
    BY <1>22, Zenon DEF Check, NeedsOperator
  <2>3. CASE UNCHANGED machineVars
    BY <2>3 DEF SevereHaltsAreManual, machineVars
  <2>4. CASE state = "HALTED" /\ manualOnly' = (manualOnly \/ manual) /\ UNCHANGED <<state, cause, pend>>
    <3>1. manualOnly => manualOnly'
      BY <2>4, Zenon
    <3> QED
      BY <2>4, <3>1 DEF SevereHaltsAreManual
  <2>5. CASE state' = "HALTED" /\ manualOnly' = manual /\ cause' = new
    <3>1. ManualCode \cup CoreCause \subseteq ManualCode \cup CoreCause /\ Code \cap CoreCause = {}
      BY DEF Code, CoreCause
    <3>2. cause' \cap (ManualCode \cup CoreCause) # {} => new \cap ManualCode # {}
      BY <2>1, <2>5, <3>1
    <3>3. new \cap ManualCode # {} => manualOnly'
      BY <2>5, Zenon
    <3> QED
      BY <3>2, <3>3 DEF SevereHaltsAreManual
  <2> QED
    BY <2>2, <2>3, <2>4, <2>5, Zenon DEF Halt, MoveTo
<1>23. ASSUME Cancelled PROVE SevereHaltsAreManual'
  BY <1>23 DEF Cancelled, SevereHaltsAreManual, ManualCode, Code, CoreCause, machineVars
<1>24. ASSUME Heartbeat PROVE SevereHaltsAreManual'
  BY <1>24 DEF Heartbeat, SevereHaltsAreManual, ManualCode, Code, CoreCause, machineVars
<1>25. ASSUME StreamsConnect PROVE SevereHaltsAreManual'
  BY <1>25 DEF StreamsConnect, SevereHaltsAreManual, ManualCode, Code, CoreCause, machineVars
<1>26. ASSUME StreamsFail PROVE SevereHaltsAreManual'
  BY <1>26 DEF StreamsFail, SevereHaltsAreManual, ManualCode, Code, CoreCause, machineVars
<1>27. ASSUME ReconciliationAges PROVE SevereHaltsAreManual'
  BY <1>27 DEF ReconciliationAges, SevereHaltsAreManual, ManualCode, Code, CoreCause, machineVars
<1>28. ASSUME HourPasses PROVE SevereHaltsAreManual'
  BY <1>28 DEF HourPasses, SevereHaltsAreManual, ManualCode, Code, CoreCause, machineVars
<1>29. ASSUME LoopStalls PROVE SevereHaltsAreManual'
  BY <1>29 DEF LoopStalls, SevereHaltsAreManual, ManualCode, Code, CoreCause, machineVars
<1>30. ASSUME StallHalt PROVE SevereHaltsAreManual'
  BY <1>30 DEF StallHalt, SevereHaltsAreManual, ManualCode, Code, CoreCause
<1>31. ASSUME StallListeners PROVE SevereHaltsAreManual'
  BY <1>31 DEF StallListeners, SevereHaltsAreManual, ManualCode, Code, CoreCause, machineVars
<1>32. ASSUME CliEngage PROVE SevereHaltsAreManual'
  BY <1>32 DEF CliEngage, OperatorActs, SevereHaltsAreManual, ManualCode, Code, CoreCause, machineVars
<1>33. ASSUME CliReset PROVE SevereHaltsAreManual'
  BY <1>33 DEF CliReset, OperatorActs, Running, SevereHaltsAreManual, ManualCode, Code, CoreCause, machineVars
<1>34. ASSUME TouchFile PROVE SevereHaltsAreManual'
  BY <1>34 DEF TouchFile, OperatorActs, SevereHaltsAreManual, ManualCode, Code, CoreCause, machineVars
<1>35. ASSUME CliFile PROVE SevereHaltsAreManual'
  BY <1>35 DEF CliFile, SevereHaltsAreManual, ManualCode, Code, CoreCause, machineVars
<1>36. ASSUME Crash PROVE SevereHaltsAreManual'
  BY <1>36 DEF Crash, SevereHaltsAreManual, ManualCode, Code, CoreCause
<1>37. CASE UNCHANGED vars
  BY <1>37 DEF vars, SevereHaltsAreManual, ManualCode, Code, CoreCause, machineVars
<1> QED
  BY <1>1, <1>2, <1>3, <1>4, <1>5, <1>6, <1>7, <1>8, <1>9, <1>10, <1>11, <1>12, <1>13, <1>14, <1>15, <1>16, <1>17, <1>18, <1>19, <1>20, <1>21, <1>22, <1>23, <1>24, <1>25, <1>26, <1>27, <1>28, <1>29, <1>30, <1>31, <1>32, <1>33, <1>34, <1>35, <1>36, <1>37
     DEF Next, DecisionLoop, OtherTasks, Time, StallThread, Operator

(* The listeners of the event loop save what its transitions made.         *)
LEMMA SavedStep ==
  ASSUME TypeOK, StateInv, SavedInv, [Next]_vars
  PROVE  SavedInv'
<1>1. ASSUME Listeners PROVE SavedInv'
  BY <1>1 DEF Listeners, SavedInv, StateInv, Running, NoChange, stallVars
<1>2. ASSUME Start PROVE SavedInv'
  BY <1>2 DEF Start, Engaged, SavedInv, StateInv, Running, NoChange, stallVars
<1>3. ASSUME StepBegins PROVE SavedInv'
  BY <1>3 DEF StepBegins, At, SavedInv, StateInv, Running, NoChange, machineVars, stallVars
<1>4. ASSUME Poll PROVE SavedInv'
  BY <1>4 DEF Poll, At, AfterPoll, Halt, MoveTo, SavedInv, StateInv, Running, NoChange, machineVars, stallVars
<1>5. ASSUME Engage PROVE SavedInv'
  BY <1>5 DEF Engage, At, SavedInv, StateInv, Running, NoChange, machineVars, stallVars
<1>6. ASSUME EngageFails PROVE SavedInv'
  BY <1>6 DEF EngageFails, At, SavedInv, StateInv, Running, NoChange, machineVars, stallVars
<1>7. ASSUME EngageState PROVE SavedInv'
  BY <1>7 DEF EngageState, At, AfterPoll, Locked, MoveTo, SavedInv, StateInv, Running, NoChange, machineVars, stallVars
<1>8. ASSUME Resolve PROVE SavedInv'
  <2>1. \/ UNCHANGED machineVars /\ failures' \in {failures, 1}
        \/ HaltedManually
    BY <1>8, CoreHalts
  <2>2. /\ pc # "down" /\ pc' # "down" /\ pc' # "approved"
        /\ UNCHANGED <<flag, file, triggered, pendStall, saved, overrun>>
    BY <1>8, CoreHalts
  <2> QED
    BY <2>1, <2>2 DEF SavedInv, StateInv, Running, NoChange, HaltedManually, machineVars
<1>9. ASSUME Reconcile PROVE SavedInv'
  BY <1>9 DEF Reconcile, At, SavedInv, StateInv, Running, NoChange, machineVars, stallVars
<1>10. ASSUME SnapshotAgrees PROVE SavedInv'
  BY <1>10 DEF SnapshotAgrees, At, Reconciled, SavedInv, StateInv, Running, NoChange, machineVars, stallVars
<1>11. ASSUME SnapshotFails PROVE SavedInv'
  BY <1>11 DEF SnapshotFails, At, Reconciled, SavedInv, StateInv, Running, NoChange, machineVars, stallVars
<1>12. ASSUME SnapshotDiffers PROVE SavedInv'
  <2>1. \/ UNCHANGED machineVars /\ failures' \in {failures, 1}
        \/ HaltedManually
    BY <1>12, CoreHalts
  <2>2. /\ pc # "down" /\ pc' # "down" /\ pc' # "approved"
        /\ UNCHANGED <<flag, file, triggered, pendStall, saved, overrun>>
    BY <1>12, CoreHalts
  <2> QED
    BY <2>1, <2>2 DEF SavedInv, StateInv, Running, NoChange, HaltedManually, machineVars
<1>13. ASSUME Evidence PROVE SavedInv'
  <2>1. \/ UNCHANGED machineVars /\ failures' \in {failures, 1}
        \/ HaltedManually
    BY <1>13, CoreHalts
  <2>2. /\ pc # "down" /\ pc' # "down" /\ pc' # "approved"
        /\ UNCHANGED <<flag, file, triggered, pendStall, saved, overrun>>
    BY <1>13, CoreHalts
  <2> QED
    BY <2>1, <2>2 DEF SavedInv, StateInv, Running, NoChange, HaltedManually, machineVars
<1>14. ASSUME Advance PROVE SavedInv'
  BY <1>14 DEF Advance, At, SavedInv, StateInv, Running, NoChange, machineVars, stallVars
<1>15. ASSUME Act PROVE SavedInv'
  BY <1>15 DEF Act, Refused, At, MoveTo, Halt, SavedInv, StateInv, Running, NoChange, machineVars, stallVars
<1>16. ASSUME ExitsDone PROVE SavedInv'
  BY <1>16 DEF ExitsDone, At, SavedInv, StateInv, Running, NoChange, machineVars, stallVars
<1>17. ASSUME EntryApproved PROVE SavedInv'
  BY <1>17 DEF EntryApproved, MayEnter, At, SavedInv, StateInv, Running, NoChange, machineVars, stallVars
<1>18. ASSUME EntrySubmitted PROVE SavedInv'
  BY <1>18 DEF EntrySubmitted, At, SavedInv, StateInv, Running, NoChange, machineVars, stallVars
<1>19. ASSUME EntryReturns PROVE SavedInv'
  BY <1>19 DEF EntryReturns, At, SavedInv, StateInv, Running, NoChange, machineVars, stallVars
<1>20. ASSUME StepDone PROVE SavedInv'
  BY <1>20 DEF StepDone, At, SavedInv, StateInv, Running, NoChange, machineVars, stallVars
<1>21. ASSUME StepRaises PROVE SavedInv'
  BY <1>21 DEF StepRaises, At, SavedInv, StateInv, Running, NoChange, machineVars, stallVars
<1>22. ASSUME Check PROVE SavedInv'
  <2> DEFINE new == Anomalies(FALSE) \ active
             manual == new \cap ManualCode # {}
  <2>1. UNCHANGED <<pc, triggered, pendStall, saved>> /\ Running
    BY <1>22, Zenon DEF Check, NeedsOperator, LoopFree, Awaiting, Running, stallVars
  <2>2. \/ UNCHANGED <<state, pend>>
        \/ state' = "HALTED" /\ pend' = [state |-> "HALTED", manual |-> manual]
    BY <1>22, Zenon DEF Check, NeedsOperator, Halt, MoveTo, machineVars
  <2> HIDE DEF manual
  <2> QED
    BY <2>1, <2>2 DEF SavedInv, Running, NoChange
<1>23. ASSUME Cancelled PROVE SavedInv'
  BY <1>23 DEF Cancelled, SavedInv, StateInv, Running, NoChange, machineVars, stallVars
<1>24. ASSUME Heartbeat PROVE SavedInv'
  BY <1>24 DEF Heartbeat, SavedInv, StateInv, Running, NoChange, machineVars, stallVars
<1>25. ASSUME StreamsConnect PROVE SavedInv'
  BY <1>25 DEF StreamsConnect, SavedInv, StateInv, Running, NoChange, machineVars, stallVars
<1>26. ASSUME StreamsFail PROVE SavedInv'
  BY <1>26 DEF StreamsFail, SavedInv, StateInv, Running, NoChange, machineVars, stallVars
<1>27. ASSUME ReconciliationAges PROVE SavedInv'
  BY <1>27 DEF ReconciliationAges, SavedInv, StateInv, Running, NoChange, machineVars, stallVars
<1>28. ASSUME HourPasses PROVE SavedInv'
  BY <1>28 DEF HourPasses, SavedInv, StateInv, Running, NoChange, machineVars, stallVars
<1>29. ASSUME LoopStalls PROVE SavedInv'
  BY <1>29 DEF LoopStalls, SavedInv, StateInv, Running, NoChange, machineVars, stallVars
<1>30. ASSUME StallHalt PROVE SavedInv'
  BY <1>30 DEF StallHalt, SavedInv, StateInv, Running, NoChange
<1>31. ASSUME StallListeners PROVE SavedInv'
  BY <1>31 DEF StallListeners, SavedInv, StateInv, Running, NoChange, machineVars
<1>32. ASSUME CliEngage PROVE SavedInv'
  BY <1>32 DEF CliEngage, OperatorActs, SavedInv, StateInv, Running, NoChange, machineVars, stallVars
<1>33. ASSUME CliReset PROVE SavedInv'
  BY <1>33 DEF CliReset, OperatorActs, Running, SavedInv, StateInv, NoChange, machineVars, stallVars
<1>34. ASSUME TouchFile PROVE SavedInv'
  BY <1>34 DEF TouchFile, OperatorActs, SavedInv, StateInv, Running, NoChange, machineVars, stallVars
<1>35. ASSUME CliFile PROVE SavedInv'
  BY <1>35 DEF CliFile, SavedInv, StateInv, Running, NoChange, machineVars, stallVars
<1>36. ASSUME Crash PROVE SavedInv'
  BY <1>36 DEF Crash, SavedInv, StateInv, Running, NoChange
<1>37. CASE UNCHANGED vars
  BY <1>37 DEF vars, SavedInv, StateInv, Running, NoChange, machineVars, stallVars
<1> QED
  BY <1>1, <1>2, <1>3, <1>4, <1>5, <1>6, <1>7, <1>8, <1>9, <1>10, <1>11, <1>12, <1>13, <1>14, <1>15, <1>16, <1>17, <1>18, <1>19, <1>20, <1>21, <1>22, <1>23, <1>24, <1>25, <1>26, <1>27, <1>28, <1>29, <1>30, <1>31, <1>32, <1>33, <1>34, <1>35, <1>36, <1>37
     DEF Next, DecisionLoop, OtherTasks, Time, StallThread, Operator

(* Nothing but a crash ends a lock.                                        *)
LEMMA LockedStep ==
  ASSUME TypeOK, StateInv, [Next]_vars, Running, Locked, pc' # "down"
  PROVE  state' = state /\ manualOnly'
<1>1. ASSUME Listeners PROVE state' = state /\ manualOnly'
  BY <1>1 DEF Listeners, StateInv, Locked, Running
<1>2. ASSUME Start PROVE state' = state /\ manualOnly'
  BY <1>2 DEF Start, Engaged, StateInv, Locked, Running
<1>3. ASSUME StepBegins PROVE state' = state /\ manualOnly'
  BY <1>3 DEF StepBegins, At, StateInv, Locked, Running, machineVars
<1>4. ASSUME Poll PROVE state' = state /\ manualOnly'
  BY <1>4 DEF Poll, At, AfterPoll, Halt, MoveTo, StateInv, Locked, Running, machineVars
<1>5. ASSUME Engage PROVE state' = state /\ manualOnly'
  BY <1>5 DEF Engage, At, StateInv, Locked, Running, machineVars
<1>6. ASSUME EngageFails PROVE state' = state /\ manualOnly'
  BY <1>6 DEF EngageFails, At, StateInv, Locked, Running, machineVars
<1>7. ASSUME EngageState PROVE state' = state /\ manualOnly'
  BY <1>7 DEF EngageState, At, AfterPoll, Locked, MoveTo, StateInv, Running, machineVars
<1>8. ASSUME Resolve PROVE state' = state /\ manualOnly'
  <2>1. \/ UNCHANGED machineVars /\ failures' \in {failures, 1}
        \/ HaltedManually
    BY <1>8, CoreHalts
  <2>2. /\ pc # "down" /\ pc' # "down" /\ pc' # "approved"
        /\ UNCHANGED <<flag, file, triggered, pendStall, saved, overrun>>
    BY <1>8, CoreHalts
  <2> QED
    BY <2>1, <2>2 DEF StateInv, Locked, Running, HaltedManually, machineVars
<1>9. ASSUME Reconcile PROVE state' = state /\ manualOnly'
  BY <1>9 DEF Reconcile, At, StateInv, Locked, Running, machineVars
<1>10. ASSUME SnapshotAgrees PROVE state' = state /\ manualOnly'
  BY <1>10 DEF SnapshotAgrees, At, Reconciled, StateInv, Locked, Running, machineVars
<1>11. ASSUME SnapshotFails PROVE state' = state /\ manualOnly'
  BY <1>11 DEF SnapshotFails, At, Reconciled, StateInv, Locked, Running, machineVars
<1>12. ASSUME SnapshotDiffers PROVE state' = state /\ manualOnly'
  <2>1. \/ UNCHANGED machineVars /\ failures' \in {failures, 1}
        \/ HaltedManually
    BY <1>12, CoreHalts
  <2>2. /\ pc # "down" /\ pc' # "down" /\ pc' # "approved"
        /\ UNCHANGED <<flag, file, triggered, pendStall, saved, overrun>>
    BY <1>12, CoreHalts
  <2> QED
    BY <2>1, <2>2 DEF StateInv, Locked, Running, HaltedManually, machineVars
<1>13. ASSUME Evidence PROVE state' = state /\ manualOnly'
  <2>1. \/ UNCHANGED machineVars /\ failures' \in {failures, 1}
        \/ HaltedManually
    BY <1>13, CoreHalts
  <2>2. /\ pc # "down" /\ pc' # "down" /\ pc' # "approved"
        /\ UNCHANGED <<flag, file, triggered, pendStall, saved, overrun>>
    BY <1>13, CoreHalts
  <2> QED
    BY <2>1, <2>2 DEF StateInv, Locked, Running, HaltedManually, machineVars
<1>14. ASSUME Advance PROVE state' = state /\ manualOnly'
  BY <1>14 DEF Advance, At, StateInv, Locked, Running, machineVars
<1>15. ASSUME Act PROVE state' = state /\ manualOnly'
  BY <1>15 DEF Act, Refused, At, MoveTo, Halt, StateInv, Locked, Running, machineVars
<1>16. ASSUME ExitsDone PROVE state' = state /\ manualOnly'
  BY <1>16 DEF ExitsDone, At, StateInv, Locked, Running, machineVars
<1>17. ASSUME EntryApproved PROVE state' = state /\ manualOnly'
  BY <1>17 DEF EntryApproved, MayEnter, At, StateInv, Locked, Running, machineVars
<1>18. ASSUME EntrySubmitted PROVE state' = state /\ manualOnly'
  BY <1>18 DEF EntrySubmitted, At, StateInv, Locked, Running, machineVars
<1>19. ASSUME EntryReturns PROVE state' = state /\ manualOnly'
  BY <1>19 DEF EntryReturns, At, StateInv, Locked, Running, machineVars
<1>20. ASSUME StepDone PROVE state' = state /\ manualOnly'
  BY <1>20 DEF StepDone, At, StateInv, Locked, Running, machineVars
<1>21. ASSUME StepRaises PROVE state' = state /\ manualOnly'
  BY <1>21 DEF StepRaises, At, StateInv, Locked, Running, machineVars
<1>22. ASSUME Check PROVE state' = state /\ manualOnly'
  BY <1>22 DEF Check, NeedsOperator, Halt, MoveTo, StateInv, Locked, Running, machineVars
<1>23. ASSUME Cancelled PROVE state' = state /\ manualOnly'
  BY <1>23 DEF Cancelled, StateInv, Locked, Running, machineVars
<1>24. ASSUME Heartbeat PROVE state' = state /\ manualOnly'
  BY <1>24 DEF Heartbeat, StateInv, Locked, Running, machineVars
<1>25. ASSUME StreamsConnect PROVE state' = state /\ manualOnly'
  BY <1>25 DEF StreamsConnect, StateInv, Locked, Running, machineVars
<1>26. ASSUME StreamsFail PROVE state' = state /\ manualOnly'
  BY <1>26 DEF StreamsFail, StateInv, Locked, Running, machineVars
<1>27. ASSUME ReconciliationAges PROVE state' = state /\ manualOnly'
  BY <1>27 DEF ReconciliationAges, StateInv, Locked, Running, machineVars
<1>28. ASSUME HourPasses PROVE state' = state /\ manualOnly'
  BY <1>28 DEF HourPasses, StateInv, Locked, Running, machineVars
<1>29. ASSUME LoopStalls PROVE state' = state /\ manualOnly'
  BY <1>29 DEF LoopStalls, StateInv, Locked, Running, machineVars
<1>30. ASSUME StallHalt PROVE state' = state /\ manualOnly'
  BY <1>30 DEF StallHalt, StateInv, Locked, Running
<1>31. ASSUME StallListeners PROVE state' = state /\ manualOnly'
  BY <1>31 DEF StallListeners, StateInv, Locked, Running, machineVars
<1>32. ASSUME CliEngage PROVE state' = state /\ manualOnly'
  BY <1>32 DEF CliEngage, OperatorActs, StateInv, Locked, Running, machineVars
<1>33. ASSUME CliReset PROVE state' = state /\ manualOnly'
  BY <1>33 DEF CliReset, OperatorActs, Running, StateInv, Locked, machineVars
<1>34. ASSUME TouchFile PROVE state' = state /\ manualOnly'
  BY <1>34 DEF TouchFile, OperatorActs, StateInv, Locked, Running, machineVars
<1>35. ASSUME CliFile PROVE state' = state /\ manualOnly'
  BY <1>35 DEF CliFile, StateInv, Locked, Running, machineVars
<1>36. ASSUME Crash PROVE state' = state /\ manualOnly'
  BY <1>36 DEF Crash, StateInv, Locked, Running
<1>37. CASE UNCHANGED vars
  BY <1>37 DEF vars, StateInv, Locked, Running, machineVars
<1> QED
  BY <1>1, <1>2, <1>3, <1>4, <1>5, <1>6, <1>7, <1>8, <1>9, <1>10, <1>11, <1>12, <1>13, <1>14, <1>15, <1>16, <1>17, <1>18, <1>19, <1>20, <1>21, <1>22, <1>23, <1>24, <1>25, <1>26, <1>27, <1>28, <1>29, <1>30, <1>31, <1>32, <1>33, <1>34, <1>35, <1>36, <1>37
     DEF Next, DecisionLoop, OtherTasks, Time, StallThread, Operator

(* The inductive invariant holds at the start.                             *)
LEMMA InitIInv == Init => IInv
<1> SUFFICES ASSUME Init PROVE IInv
  OBVIOUS
<1>1. TypeOK
  BY InitType
<1>2. OverrunInv
  BY DEF Init, OverrunInv
<1>3. StateInv
  BY DEF Init, StateInv, Running, Locked
<1>4. SevereHaltsAreManual
  BY DEF Init, SevereHaltsAreManual
<1>5. SavedInv
  BY DEF Init, SavedInv, Running
<1> QED
  BY <1>1, <1>2, <1>3, <1>4, <1>5 DEF IInv

-----------------------------------------------------------------------------
(* The theorems. *)

(* The inductive invariant holds in every reachable state. *)
THEOREM Invariance == Spec => []IInv
<1>1. IInv /\ [Next]_vars => IInv'
  BY TypeStep, OverrunStep, StateStep, SevereStep, SavedStep DEF IInv
<1> QED
  BY <1>1, InitIInv, PTL DEF Spec

(* Every variable of the lifecycle model keeps its type; the automatic     *)
(* recoveries of an hour never exceed their limit.                         *)
THEOREM TypeCorrect == Spec => []TypeOK
<1>1. IInv => TypeOK
  BY DEF IInv
<1> QED
  BY <1>1, Invariance, PTL

(* However halt, kill switch, stall thread and operator interleave with    *)
(* the decision loop, at most one entry goes out once trading is           *)
(* forbidden.                                                              *)
THEOREM AtMostOneOverrun == Spec => []OneEntryOverrun
<1>1. IInv => OneEntryOverrun
  BY DEF IInv, OverrunInv, OneEntryOverrun
<1> QED
  BY <1>1, Invariance, PTL

(* A manual halt and the kill-switch state last as long as the process.    *)
THEOREM LocksHold == Spec => LockedUntilRestart
<1>1. IInv /\ [Next]_vars =>
        [Running /\ Locked /\ pc' # "down" => state' = state /\ manualOnly']_vars
  BY LockedStep DEF IInv
<1> QED
  BY <1>1, Invariance, PTL DEF Spec, LockedUntilRestart

(* A halt with any severe condition among its causes is a manual one.      *)
THEOREM SevereIsManual == Spec => []SevereHaltsAreManual
<1>1. IInv => SevereHaltsAreManual
  BY DEF IInv
<1> QED
  BY <1>1, Invariance, PTL

(* The bot never trades after two mismatching reconciliations in a row.    *)
THEOREM NoTradingOnMismatch == Spec => []TradingIsReconciled
<1>1. IInv => TradingIsReconciled
  BY DEF IInv, StateInv, TypeOK, CoreType, Locked, TradingIsReconciled
<1> QED
  BY <1>1, Invariance, PTL

(* Without a loop stall, the database holds the state the machine is in.   *)
THEOREM SavedIsTheState == Spec => []SavedIsState
<1>1. IInv => SavedIsState
  BY DEF IInv, SavedInv, SavedIsState
<1> QED
  BY <1>1, Invariance, PTL

-----------------------------------------------------------------------------
(* The permission to trade. *)

(* What _advance_lifecycle has decided still holds of the count and, but   *)
(* for the stall thread, of the state when it acts.                        *)
PlanInv ==
  pc = "acting" => /\ plan = "trade" => failures = 0
                   /\ plan = "resume" => state = "HALTED"

LEMMA PlanStep ==
  ASSUME TypeOK, PlanInv, [Next]_vars
  PROVE  PlanInv'
<1> USE DEF PlanInv, At
<1>1. CASE Listeners \/ Time \/ UNCHANGED vars
  BY <1>1 DEF Listeners, Time, StreamsFail, ReconciliationAges, HourPasses, LoopStalls,
     vars, machineVars, coreVars
<1>2. CASE Start \/ StepBegins \/ Poll \/ Engage \/ EngageFails \/ EngageState
  BY <1>2 DEF Start, StepBegins, Poll, AfterPoll, Engage, EngageFails, EngageState
<1>3. CASE Resolve \/ Reconcile \/ SnapshotAgrees \/ SnapshotFails \/ SnapshotDiffers \/ Evidence
  BY <1>3 DEF Resolve, Reconcile, SnapshotAgrees, SnapshotFails, SnapshotDiffers, Reconciled,
     Evidence
<1>4. CASE Advance
  <2>1. /\ plan' = "trade" => MayTrade
        /\ plan' = "resume" => MayResume
        /\ UNCHANGED <<state, failures>>
    BY <1>4 DEF Advance, machineVars
  <2> QED BY <2>1 DEF MayTrade, MayResume
<1>5. CASE Act
  BY <1>5 DEF Act
<1>6. CASE ExitsDone \/ EntryApproved \/ EntrySubmitted \/ EntryReturns \/ StepDone \/ StepRaises
  BY <1>6 DEF ExitsDone, EntryApproved, EntrySubmitted, EntryReturns, StepDone, StepRaises
<1>7. CASE Check \/ Cancelled \/ Heartbeat \/ StreamsConnect
  BY <1>7 DEF Check, Cancelled, Heartbeat, StreamsConnect, LoopFree, Awaiting
<1>8. CASE StallHalt
  <2>1. UNCHANGED <<pc, plan, failures>> /\ (state = "HALTED" => state' = "HALTED")
    BY <1>8 DEF StallHalt, coreVars
  <2> QED BY <2>1
<1>9. CASE StallListeners
  BY <1>9 DEF StallListeners, machineVars, coreVars
<1>10. CASE Operator
  BY <1>10 DEF Operator, CliEngage, CliReset, TouchFile, CliFile, OperatorActs, machineVars, coreVars
<1>11. CASE Crash
  BY <1>11 DEF Crash
<1> QED BY <1>1, <1>2, <1>3, <1>4, <1>5, <1>6, <1>7, <1>8, <1>9, <1>10, <1>11
     DEF Next, DecisionLoop, OtherTasks, StallThread

(* A halt pauses trading or locks it, or comes too late to do either.      *)
LEMMA HaltIsPauseOrLock ==
  ASSUME TypeOK, StateInv, Running, NEW manual \in BOOLEAN, NEW why, Halt(manual, why),
         UNCHANGED <<flag, file, failures, recoveries, overrun>>
  PROVE  /\ [Permission!Next]_(Permission!vars)
         /\ manual => permit' = "LOCKED"
<1>1. state \in State \ {"DISABLED"} /\ manualOnly \in BOOLEAN
  BY DEF TypeOK, MachineType, StateInv
<1>2. Engaged' = Engaged
  BY DEF Engaged
<1>3. CASE UNCHANGED <<state, manualOnly>>
  <2>1. permit' = permit
    BY <1>3 DEF permit, Locked
  <2>2. manual => permit = "LOCKED"
    BY <1>1, <1>3 DEF permit, Locked, Halt, MoveTo, StateInv
  <2> QED BY <1>2, <2>1, <2>2 DEF Permission!vars
<1>4. CASE state = "HALTED" /\ state' = state /\ manualOnly' = (manualOnly \/ manual)
  <2>1. permit' = (IF manual \/ manualOnly THEN "LOCKED" ELSE "HALTED")
    BY <1>1, <1>4 DEF permit, Locked
  <2>2. CASE permit' = "LOCKED"
    BY <1>1, <1>2, <1>4, <2>1, <2>2 DEF permit, Locked, Permission!Lock, Permission!Next
  <2>3. CASE ~manual /\ ~manualOnly
    BY <1>2, <1>4, <2>1, <2>3 DEF permit, Locked, Permission!vars
  <2> QED BY <2>1, <2>2, <2>3
<1>5. CASE state \in {"SYNCING", "TRADING"} /\ state' = "HALTED" /\ manualOnly' = manual
  <2>1. permit = state /\ permit' = (IF manual THEN "LOCKED" ELSE "HALTED")
    BY <1>1, <1>5 DEF permit, Locked
  <2>2. CASE manual
    BY <1>2, <1>5, <2>1, <2>2 DEF Permission!Lock, Permission!Next
  <2>3. CASE ~manual
    BY <1>2, <1>5, <2>1, <2>3 DEF Permission!Pause, Permission!Next
  <2> QED BY <2>1, <2>2, <2>3
<1> QED BY <1>3, <1>4, <1>5 DEF Halt, MoveTo, machineVars

(* What leaves the state and the counts leaves the permission.             *)
LEMMA PermitStays ==
  ASSUME UNCHANGED <<state, manualOnly, flag, file, failures, recoveries, overrun>>
  PROVE  UNCHANGED Permission!vars
<1>1. Engaged' = Engaged /\ permit' = permit
  BY DEF Engaged, permit, Locked
<1> QED BY <1>1 DEF Permission!vars

(* The machine is locked by a halt for the operator, in whatever state.    *)
LEMMA ManualHaltLocks ==
  ASSUME TypeOK, StateInv, Running, NEW why, Halt(TRUE, why)
  PROVE  permit' = "LOCKED"
<1>1. state \in State \ {"DISABLED"} /\ manualOnly \in BOOLEAN
  BY DEF TypeOK, MachineType, StateInv
<1> QED BY <1>1 DEF Halt, MoveTo, machineVars, permit, Locked, StateInv, State

LEMMA PermitStep ==
  ASSUME IInv, PlanInv, [Next]_vars
  PROVE  [Permission!Next]_(Permission!vars)
<1>0. /\ TypeOK /\ StateInv /\ OverrunInv /\ MachineType /\ CoreType
      /\ state \in State /\ manualOnly \in BOOLEAN /\ failures \in 0 .. 2
      /\ Code \subseteq Code \cup CoreCause
  BY DEF IInv, TypeOK, MachineType, CoreType
<1>1. CASE \/ Listeners \/ StepBegins \/ EngageFails \/ Reconcile \/ SnapshotFails \/ Advance
           \/ ExitsDone \/ EntryApproved \/ EntryReturns \/ StepDone \/ StepRaises
           \/ Cancelled \/ Heartbeat \/ StreamsConnect
           \/ StreamsFail \/ ReconciliationAges \/ LoopStalls \/ StallListeners
           \/ UNCHANGED vars
  <2>1. UNCHANGED <<state, manualOnly, flag, file, failures, recoveries, overrun>>
    BY <1>1 DEF Listeners, StepBegins, EngageFails, Reconcile, SnapshotFails, Reconciled,
       Advance, ExitsDone, EntryApproved, EntryReturns, StepDone, StepRaises, Cancelled,
       Heartbeat, StreamsConnect, StreamsFail, ReconciliationAges, LoopStalls,
       StallListeners, vars, machineVars, killVars, coreVars
  <2> QED BY <2>1, PermitStays
<1>2. CASE Start
  <2>1. permit = "DISABLED"
    BY <1>0, <1>2 DEF Start, StateInv, Running, permit, Locked
  <2>2. permit' = IF Engaged THEN "LOCKED" ELSE "SYNCING"
    BY <1>2 DEF Start, permit, Locked
  <2>3. Engaged' = Engaged /\ UNCHANGED <<failures, recoveries, overrun>>
    BY <1>2 DEF Start, Engaged, killVars
  <2> QED BY <2>1, <2>2, <2>3 DEF Permission!Start, Permission!Next
<1>3. CASE Poll \/ Resolve \/ Evidence \/ Check
  <2>1. Running /\ UNCHANGED <<flag, file, failures, recoveries, overrun>>
    BY <1>3 DEF Poll, Resolve, Evidence, Check, At, LoopFree, Awaiting, Running, killVars,
       coreVars
  <2>2. UNCHANGED machineVars \/ \E manual \in BOOLEAN : \E why : Halt(manual, why)
    <3>1. \A codes : NeedsOperator(codes) \in BOOLEAN
      BY DEF NeedsOperator
    <3>2. CASE Poll \/ Resolve \/ Evidence
      BY <3>2 DEF Poll, Resolve, Evidence
    <3>3. CASE Check
      BY <3>1, <3>3 DEF Check
    <3> QED BY <1>3, <3>2, <3>3
  <2>3. CASE UNCHANGED machineVars
    BY <2>1, <2>3, PermitStays DEF machineVars
  <2> QED BY <1>0, <2>1, <2>2, <2>3, HaltIsPauseOrLock
<1>4. CASE Engage
  <2>1. Engaged' = TRUE /\ UNCHANGED <<state, manualOnly, failures, recoveries, overrun>>
    BY <1>4 DEF Engage, Engaged, machineVars, coreVars
  <2>2. permit' = permit
    BY <2>1 DEF permit, Locked
  <2> QED BY <2>1, <2>2 DEF Permission!Engage, Permission!Next
<1>5. CASE EngageState
  <2>1. permit # "DISABLED"
    BY <1>0, <1>5 DEF EngageState, At, StateInv, Running, permit
  <2>2. permit' = "LOCKED"
    BY <1>5 DEF EngageState, MoveTo, machineVars, permit, Locked
  <2>3. Engaged' \in {Engaged, TRUE}
    <3>1. flag' = flag /\ (file' = TRUE \/ file' = file)
      BY <1>5 DEF EngageState
    <3>2. file' = TRUE => Engaged' = TRUE
      BY Zenon DEF Engaged
    <3>3. file' = file => Engaged' = Engaged
      BY <3>1 DEF Engaged
    <3> QED BY <3>1, <3>2, <3>3
  <2>4. UNCHANGED <<failures, recoveries, overrun>>
    BY <1>5 DEF EngageState, coreVars
  <2> QED BY <2>1, <2>2, <2>3, <2>4 DEF Permission!Lock, Permission!Next
<1>6. CASE SnapshotAgrees \/ SnapshotDiffers
  <2>1. /\ Running /\ UNCHANGED <<flag, file, recoveries, overrun>>
        /\ Engaged' = Engaged
    <3>1. \E ok, n, done : Reconciled(ok, n, done)
      BY <1>6, Zenon DEF SnapshotAgrees, SnapshotDiffers
    <3>2. pc = "snapshot" /\ UNCHANGED <<flag, file, recoveries, overrun>>
      BY <3>1 DEF Reconciled, At, killVars
    <3> QED BY <3>2 DEF Running, Engaged
  <2>2. permit # "DISABLED"
    BY <1>0, <2>1 DEF StateInv, permit
  <2>3. CASE SnapshotAgrees
    <3>1. failures' = 0 /\ permit' = permit
      BY <2>3 DEF SnapshotAgrees, Reconciled, machineVars, permit, Locked
    <3> QED BY <2>1, <2>2, <3>1 DEF Permission!Agrees, Permission!Next
  <2>4. CASE failures = 0 /\ failures' = 1 /\ UNCHANGED machineVars
    <3>1. permit' = permit
      BY <2>4 DEF machineVars, permit, Locked
    <3> QED BY <2>1, <2>2, <2>4, <3>1 DEF Permission!Differs, Permission!Next
  <2>5. CASE failures > 0 /\ failures' = 2 /\ Halt(TRUE, {"mismatch confirmed"})
    <3>1. permit' = "LOCKED"
      BY <1>0, <2>1, <2>5, ManualHaltLocks
    <3> QED BY <2>1, <2>2, <2>5, <3>1 DEF Permission!Differs, Permission!Next
  <2> QED BY <1>6, <2>3, <2>4, <2>5 DEF SnapshotDiffers, Reconciled
<1>7. CASE Act
  <2>1. /\ pc = "acting" /\ Running /\ UNCHANGED <<flag, file, failures>> /\ Engaged' = Engaged
        /\ overrun' = (IF plan = "trade" /\ ~Refused THEN 0 ELSE overrun)
        /\ recoveries' = (IF plan = "resume" THEN recoveries + 1 ELSE recoveries)
    BY <1>7 DEF Act, At, Running, killVars, Engaged
  <2>2. CASE plan = "resume"
    <3>1. state = "HALTED" /\ recoveries < MaxRecoveries
      BY <1>0, <2>1, <2>2 DEF PlanInv, TypeOK, ResumeType
    <3>2. CASE Refused
      <4>1. UNCHANGED machineVars
        BY <1>7, <2>2, <3>2 DEF Act
      <4>2. permit = "LOCKED" /\ permit' = "LOCKED"
        BY <2>2, <3>1, <3>2, <4>1 DEF Refused, machineVars, permit, Locked
      <4> QED BY <2>1, <2>2, <3>1, <4>2 DEF Permission!Recover, Permission!Next
    <3>3. CASE ~Refused
      <4>1. MoveTo("SYNCING", FALSE)
        BY <1>7, <2>2, <3>3 DEF Act
      <4>2. permit = "HALTED" /\ permit' = "SYNCING"
        BY <2>2, <3>1, <3>3, <4>1 DEF Refused, MoveTo, permit, Locked
      <4> QED BY <2>1, <2>2, <3>1, <4>2 DEF Permission!Recover, Permission!Next
    <3> QED BY <3>2, <3>3
  <2>3. CASE plan = "trade" /\ ~Refused
    <3>1. MoveTo("TRADING", FALSE) /\ state = "SYNCING" /\ failures = 0
      BY <1>7, <2>1, <2>3 DEF Act, Refused, PlanInv
    <3>2. permit = "SYNCING" /\ permit' = "TRADING"
      BY <3>1 DEF MoveTo, permit, Locked
    <3> QED BY <2>1, <2>3, <3>1, <3>2 DEF Permission!Grant, Permission!Next
  <2>4. CASE plan = "escalate" /\ Halt(TRUE, {})
    BY <1>0, <2>1, <2>4, HaltIsPauseOrLock
  <2>5. CASE plan # "resume" /\ Refused /\ UNCHANGED machineVars
    BY <2>1, <2>5, PermitStays DEF machineVars
  <2> QED BY <1>7, <2>2, <2>3, <2>4, <2>5 DEF Act
<1>8. CASE EntrySubmitted
  <2>1. UNCHANGED <<state, manualOnly, flag, file, failures, recoveries>> /\ pc = "approved"
    BY <1>8 DEF EntrySubmitted, At, machineVars, killVars, coreVars
  <2>2. CASE ~Forbidden
    <3>1. overrun' = overrun
      BY <1>8, <2>2 DEF EntrySubmitted
    <3> QED BY <2>1, <3>1, PermitStays
  <2>3. CASE Forbidden
    <3>1. overrun = 0 /\ overrun' = 1
      BY <1>0, <1>8, <2>1, <2>3 DEF EntrySubmitted, OverrunInv
    <3>2. permit' = permit /\ Engaged' = Engaged /\ (permit # "TRADING" \/ Engaged)
      BY <2>1, <2>3 DEF permit, Locked, Engaged, Forbidden
    <3> QED BY <2>1, <3>1, <3>2 DEF Permission!Overtakes, Permission!Next
  <2> QED BY <2>2, <2>3
<1>9. CASE HourPasses
  <2>1. /\ recoveries > 0 /\ recoveries' = recoveries - 1
        /\ UNCHANGED <<state, manualOnly, flag, file, failures, overrun>>
    BY <1>9 DEF HourPasses, machineVars, killVars
  <2>2. permit' = permit /\ Engaged' = Engaged
    BY <2>1 DEF permit, Locked, Engaged
  <2> QED BY <2>1, <2>2 DEF Permission!HourPasses, Permission!Next
<1>10. CASE StallHalt
  <2>1. Running /\ UNCHANGED <<flag, file, failures, recoveries, overrun>> /\ Engaged' = Engaged
    BY <1>10 DEF StallHalt, killVars, coreVars, Engaged
  <2>2. permit # "DISABLED" /\ permit' = "LOCKED"
    BY <1>0, <1>10, <2>1 DEF StallHalt, StateInv, State, permit, Locked
  <2> QED BY <2>1, <2>2 DEF Permission!Lock, Permission!Next
<1>11. CASE CliEngage \/ TouchFile
  <2>1. Engaged' = TRUE /\ UNCHANGED <<state, manualOnly, failures, recoveries, overrun>>
    BY <1>11 DEF CliEngage, TouchFile, OperatorActs, Engaged, machineVars, coreVars
  <2>2. permit' = permit
    BY <2>1 DEF permit, Locked
  <2> QED BY <2>1, <2>2 DEF Permission!Engage, Permission!Next
<1>12. CASE CliReset
  <2>1. /\ flag' = FALSE /\ file' = file /\ overrun' = (IF file THEN overrun ELSE 0)
        /\ UNCHANGED <<state, manualOnly, failures, recoveries>>
    BY <1>12 DEF CliReset, OperatorActs, machineVars, coreVars
  <2>2. permit' = permit
    BY <2>1 DEF permit, Locked
  <2>3. CASE file
    <3>1. Engaged' = TRUE /\ overrun' = overrun
      BY <2>1, <2>3 DEF Engaged
    <3> QED BY <2>1, <2>2, <3>1 DEF Permission!Engage, Permission!Next
  <2>4. CASE ~file
    <3>1. Engaged' = FALSE /\ overrun' = 0
      BY <2>1, <2>4 DEF Engaged
    <3> QED BY <2>1, <2>2, <3>1 DEF Permission!Reset, Permission!Next
  <2> QED BY <2>3, <2>4
<1>13. CASE CliFile
  <2>1. /\ UNCHANGED <<state, manualOnly, flag, failures, recoveries>>
        /\ file' = (cli = "engaging")
        /\ overrun' = (IF cli = "resetting" /\ ~flag THEN 0 ELSE overrun)
        /\ cli \in {"engaging", "resetting"}
    BY <1>0, <1>13 DEF CliFile, machineVars, coreVars, TypeOK, KillType
  <2>2. permit' = permit
    BY <2>1 DEF permit, Locked
  <2>3. CASE cli = "engaging" \/ flag
    <3>1. Engaged' = TRUE /\ overrun' = overrun
      BY <2>1, <2>3 DEF Engaged
    <3> QED BY <2>1, <2>2, <3>1 DEF Permission!Engage, Permission!Next
  <2>4. CASE cli = "resetting" /\ ~flag
    <3>1. Engaged' = FALSE /\ overrun' = 0
      BY <2>1, <2>4 DEF Engaged
    <3> QED BY <2>1, <2>2, <3>1 DEF Permission!Reset, Permission!Next
  <2> QED BY <2>1, <2>3, <2>4
<1>14. CASE Crash
  <2>1. permit' = "DISABLED"
    BY <1>14 DEF Crash, permit, Locked
  <2>2. Engaged' = Engaged /\ failures' = 0 /\ recoveries' = 0 /\ overrun' = 0
    BY <1>14 DEF Crash, Engaged
  <2> QED BY <2>1, <2>2 DEF Permission!End, Permission!Next
<1> QED
  BY <1>1, <1>2, <1>3, <1>4, <1>5, <1>6, <1>7, <1>8, <1>9, <1>10, <1>11, <1>12, <1>13, <1>14
     DEF Next, DecisionLoop, OtherTasks, Time, StallThread, Operator

(* The lifecycle implements the abstract permission to trade: it is given  *)
(* with no difference outstanding, given back within the hourly limit, and *)
(* once locked it is gone until the process ends, whatever the decision    *)
(* loop, the watchdog, the stall thread and the operator have read before  *)
(* the others acted.                                                       *)
THEOREM GivesAndWithdrawsPermission == Spec => ImplementsTradingPermit
<1>1. Init => Permission!Init
  BY DEF Init, Permission!Init, permit, Locked, Engaged
<1>2. Init => PlanInv
  BY DEF Init, PlanInv
<1>3. IInv /\ PlanInv /\ [Next]_vars => PlanInv'
  BY PlanStep DEF IInv
<1>4. IInv /\ PlanInv /\ [Next]_vars => [Permission!Next]_(Permission!vars)
  BY PermitStep
<1> QED
  BY <1>1, <1>2, <1>3, <1>4, Invariance, PTL DEF Spec, ImplementsTradingPermit, Permission!Spec
=============================================================================
