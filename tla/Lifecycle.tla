------------------------------ MODULE Lifecycle ------------------------------
(***************************************************************************)
(* Who may trade and who may stop it: the state machine                    *)
(* (lifecycle/state_machine.py), the kill switch, the decision loop        *)
(* (app/core.py), the watchdog, the loop-stall thread, and the operator's  *)
(* "kill-switch" command, a process of its own.                            *)
(*                                                                         *)
(* The decision loop and the watchdog are tasks of one asyncio loop: one   *)
(* runs only while the other awaits.  The loop-stall thread and the        *)
(* operator run between any two steps.  "TRADING" is PAPER or LIVE,        *)
(* whichever the process was started for.                                  *)
(***************************************************************************)
EXTENDS Naturals, FiniteSets

CONSTANTS
  Faults,         \* what may go wrong, a subset of Fault
  MaxRecoveries,  \* watchdog.max_auto_recoveries_per_hour
  MaxCommands,    \* bound on operator commands
  MaxRestarts     \* bound on crashes of the bot process

Fault == {"stream", "stale", "account", "mismatch", "order", "exception", "storage",
          "stall", "kill", "evidence"}

ASSUME LifecycleAssumption ==
  /\ Faults \subseteq Fault
  /\ MaxRecoveries \in Nat
  /\ MaxCommands \in Nat
  /\ MaxRestarts \in Nat

VARIABLES
  (* BotStateMachine *)
  state, manualOnly,
  cause,       \* conditions given for the last transition into HALTED
  (* KillSwitch: the database flag and the sentinel file, both durable *)
  flag, file,
  (* TradingCore *)
  pc,          \* where the decision loop is
  plan,        \* the transition _advance_lifecycle has decided on
  unknown,     \* the engine holds an UNKNOWN order
  failures,    \* _recon_failures
  reconciled,  \* _last_recon_ms is set
  recoveries,  \* automatic recoveries of the last hour
  (* HealthRegistry *)
  streams,     \* the data streams are connected and not silent
  recon,       \* the last reconciliation
  gauge,       \* unknown_orders > 0
  exceptions,  \* unhandled_exceptions > 0
  late,        \* the loop's heartbeat is older than loop_stall_s
  (* Watchdog and LoopStallDetector *)
  wd, active, healthy, triggered,
  (* state-change listeners: changes not yet delivered, the last saved *)
  pend, pendStall, saved,
  (* the operator's process *)
  cli,
  (* history and bounds *)
  overrun,     \* entries submitted since trading was last forbidden
  commands, restarts

machineVars  == <<state, manualOnly, cause, pend>>
killVars     == <<flag, file, cli, commands>>
coreVars     == <<plan, unknown, failures, reconciled, recoveries>>
healthVars   == <<streams, recon, gauge, exceptions, late>>
watchdogVars == <<wd, active, healthy>>
stallVars    == <<triggered, pendStall>>
vars == <<machineVars, killVars, pc, coreVars, healthVars, watchdogVars, stallVars, saved,
          overrun, restarts>>

State == {"DISABLED", "SYNCING", "TRADING", "HALTED", "KILL_SWITCH"}
Code  == {"loop_stall", "stream_down", "reconciliation_stale", "reconciliation_mismatch",
          "unknown_order_state", "unhandled_exception"}
ManualCode == Code \ {"stream_down", "reconciliation_stale"}
CoreCause  == {"resolution", "order stuck", "mismatch confirmed", "price to beat"}

Change   == [state : State, manual : BOOLEAN]
NoChange == [state |-> "DISABLED", manual |-> FALSE]

LoopPC == {"down", "idle", "polling", "engaging", "violating", "handler", "resolving", "reconcile",
           "snapshot", "advance", "acting", "exiting", "entries", "approved",
           "submitting", "dead"}

(* The decision loop awaits: other tasks of the event loop may run. *)
Awaiting == pc \in {"idle", "polling", "resolving", "snapshot", "exiting", "submitting", "dead"}
Engaged  == flag \/ file
Locked   == state = "KILL_SWITCH" \/ (state = "HALTED" /\ manualOnly)

MachineType ==
  /\ state \in State /\ manualOnly \in BOOLEAN /\ cause \subseteq Code \cup CoreCause
  /\ pend \in Change
KillType ==
  /\ flag \in BOOLEAN /\ file \in BOOLEAN /\ cli \in {"idle", "engaging", "resetting"}
  /\ commands \in 0 .. MaxCommands
CoreType ==
  /\ plan \in {"none", "trade", "resume", "escalate"}
  /\ unknown \in BOOLEAN /\ failures \in 0 .. 2 /\ reconciled \in BOOLEAN
  /\ recoveries \in 0 .. MaxRecoveries
HealthType ==
  /\ streams \in BOOLEAN /\ recon \in {"stale", "ok", "failed"}
  /\ gauge \in BOOLEAN /\ exceptions \in BOOLEAN /\ late \in BOOLEAN
WatchdogType ==
  /\ wd \in {"idle", "cancelling"} /\ active \subseteq Code /\ healthy \in BOOLEAN
StallType ==
  /\ triggered \in BOOLEAN /\ pendStall \in Change
OtherType ==
  /\ pc \in LoopPC /\ saved \in Change /\ overrun \in Nat /\ restarts \in 0 .. MaxRestarts

(* A recovery is decided on below the hourly limit only. *)
ResumeType ==
  pc = "acting" /\ plan = "resume" => recoveries < MaxRecoveries

TypeOK ==
  /\ MachineType /\ KillType /\ CoreType /\ HealthType
  /\ WatchdogType /\ StallType /\ OtherType /\ ResumeType

Init ==
  /\ state = "DISABLED" /\ manualOnly = FALSE /\ cause = {}
  /\ flag = FALSE /\ file = FALSE
  /\ pc = "down" /\ plan = "none" /\ unknown = FALSE
  /\ failures = 0 /\ reconciled = FALSE /\ recoveries = 0
  /\ streams = FALSE /\ recon = "stale" /\ gauge = FALSE /\ exceptions = FALSE /\ late = FALSE
  /\ wd = "idle" /\ active = {} /\ healthy = TRUE /\ triggered = FALSE
  /\ pend = NoChange /\ pendStall = NoChange /\ saved = NoChange
  /\ cli = "idle" /\ overrun = 0 /\ commands = 0 /\ restarts = 0

-----------------------------------------------------------------------------
(* BotStateMachine.transition and halt, called on the event loop.  The     *)
(* listeners run after the lock is released: pend is what they will save.  *)

(* Mutant: the listeners are told the state that was left. *)
MoveToTellsOld(target, manual) ==
  /\ state' = target /\ manualOnly' = manual
  /\ pend' = [state |-> state, manual |-> manual]

MoveTo(target, manual) ==
  /\ state' = target /\ manualOnly' = manual
  /\ pend' = [state |-> target, manual |-> manual]

Halt(manual, why) ==
  \/ state \in {"KILL_SWITCH", "DISABLED"} /\ UNCHANGED machineVars
  \/ /\ state = "HALTED"
     /\ manualOnly' = (manualOnly \/ manual)
     /\ UNCHANGED <<state, cause, pend>>
  \/ /\ state \in {"SYNCING", "TRADING"}
     /\ MoveTo("HALTED", manual)
     /\ cause' = why

Listeners ==
  /\ pend # NoChange
  /\ saved' = pend /\ pend' = NoChange
  /\ UNCHANGED <<state, manualOnly, cause, killVars, pc, coreVars, healthVars, watchdogVars,
                 stallVars, overrun, restarts>>

(* The event loop's thread is free to run the decision loop at place p. *)
At(p) == pc = p /\ pend = NoChange

-----------------------------------------------------------------------------
(* The decision loop: start() and step(). *)

(* start() ends in KILL_SWITCH or SYNCING; orders left open in the         *)
(* database come back UNKNOWN.                                             *)
Start ==
  /\ pc = "down"
  /\ pc' = "idle"
  /\ state' = IF Engaged THEN "KILL_SWITCH" ELSE "SYNCING"
  /\ manualOnly' = Engaged
  /\ saved' = [state |-> state', manual |-> Engaged]
  /\ unknown' \in (IF "order" \in Faults THEN BOOLEAN ELSE {FALSE})
  /\ gauge' = unknown'
  /\ UNCHANGED <<cause, pend, killVars, plan, failures, reconciled, recoveries,
                 streams, recon, exceptions, late, watchdogVars, stallVars, overrun, restarts>>

StepBegins ==
  /\ At("idle")
  /\ late' = FALSE
  /\ pc' = "polling"
  /\ UNCHANGED <<machineVars, killVars, coreVars, streams, recon, gauge, exceptions,
                 watchdogVars, stallVars, saved, overrun, restarts>>

(* poll_events() returned: events, settlement, mark and loss limits.       *)
AfterPoll == IF unknown THEN "resolving" ELSE "reconcile"

Poll ==
  /\ At("polling")
  /\ gauge' = unknown
  /\ pc' = AfterPoll
  /\ \/ UNCHANGED machineVars
     \/ "evidence" \in Faults /\ Halt(TRUE, {"resolution"})
  /\ UNCHANGED <<killVars, coreVars, streams, recon, exceptions, late, watchdogVars,
                 stallVars, saved, overrun, restarts>>

(* KillSwitch.engage, called by the core: first the database flag ...      *)
(* "engaging" and "violating" come from the step itself (poll_events or    *)
(* resolve_unknown reported a violation, a loss limit is breached),        *)
(* "handler" from the handler around it, for an InvariantError.            *)
Engage ==
  /\ At("polling") \/ At("resolving")
  /\ "kill" \in Faults
  /\ flag' = TRUE
  /\ gauge' = unknown
  /\ pc' \in {IF pc = "polling" THEN "engaging" ELSE "violating", "handler"}
  /\ UNCHANGED <<machineVars, file, cli, commands, coreVars, streams, recon,
                 exceptions, late, watchdogVars, stallVars, saved, overrun, restarts>>

(* The flag cannot be written: fatal in the handler (in the step itself it *)
(* is an exception like any other).                                        *)
EngageFails ==
  /\ At("polling") \/ At("resolving")
  /\ {"kill", "storage"} \subseteq Faults
  /\ pc' = "dead"
  /\ UNCHANGED <<machineVars, killVars, coreVars, healthVars, watchdogVars, stallVars,
                 saved, overrun, restarts>>

(* ... then the file (the write may fail), then the state.  From a manual  *)
(* HALTED the transition raises: the step fails, or the whole loop when it *)
(* is the handler that engages.                                            *)
EngageState ==
  /\ At("engaging") \/ At("violating") \/ At("handler")
  /\ file' \in {TRUE, file}
  /\ IF Locked THEN UNCHANGED machineVars
     ELSE MoveTo("KILL_SWITCH", TRUE) /\ UNCHANGED cause
  /\ LET raises == state = "HALTED" /\ manualOnly
     IN /\ exceptions' = (exceptions \/ (raises /\ pc # "handler"))
        /\ pc' = IF raises /\ pc = "handler" THEN "dead"
                 ELSE IF raises \/ pc = "handler" THEN "idle"
                 ELSE IF pc = "engaging" THEN AfterPoll ELSE "reconcile"
  /\ UNCHANGED <<flag, cli, commands, coreVars, streams, recon, gauge, late,
                 watchdogVars, stallVars, saved, overrun, restarts>>

(* resolve_unknown() returned: resolved, still unknown, or past the        *)
(* timeout.                                                                *)
Resolve ==
  /\ At("resolving")
  /\ unknown' \in {FALSE, unknown}
  /\ \/ UNCHANGED machineVars
     \/ unknown' /\ Halt(TRUE, {"order stuck"})
  /\ pc' = "reconcile"
  /\ UNCHANGED <<killVars, plan, failures, reconciled, recoveries, healthVars,
                 watchdogVars, stallVars, saved, overrun, restarts>>

(* Never while an order is open (UNKNOWN or resting), and only when due.   *)
Reconcile ==
  /\ At("reconcile")
  /\ pc' \in {"snapshot", "advance"}
  /\ unknown => pc' = "advance"
  /\ UNCHANGED <<machineVars, killVars, coreVars, healthVars, watchdogVars, stallVars,
                 saved, overrun, restarts>>

Reconciled(ok, n, done) ==
  /\ At("snapshot")
  /\ recon' = ok /\ failures' = n /\ reconciled' = done
  /\ pc' = "advance"
  /\ UNCHANGED <<killVars, plan, unknown, recoveries, streams, gauge, exceptions,
                 late, watchdogVars, stallVars, saved, overrun, restarts>>

SnapshotAgrees == Reconciled("ok", 0, TRUE) /\ UNCHANGED machineVars

SnapshotFails ==
  /\ "account" \in Faults
  /\ Reconciled("failed", failures, TRUE)
  /\ UNCHANGED machineVars

(* Mutant: a confirmed mismatch only fails the reconciliation. *)
DifferenceIgnored ==
  /\ "mismatch" \in Faults
  /\ \/ failures = 0 /\ Reconciled("failed", 1, FALSE)
     \/ failures > 0 /\ Reconciled("failed", 2, TRUE)
  /\ UNCHANGED machineVars

SnapshotDiffers ==
  /\ "mismatch" \in Faults
  /\ \/ failures = 0 /\ Reconciled("failed", 1, FALSE) /\ UNCHANGED machineVars
     \/ failures > 0 /\ Reconciled("failed", 2, TRUE) /\ Halt(TRUE, {"mismatch confirmed"})

-----------------------------------------------------------------------------
(* WatchdogEvaluator.evaluate. *)

Present ==
  {c \in Code :
    \/ c = "loop_stall" /\ late
    \/ c = "stream_down" /\ ~streams
    \/ c = "reconciliation_stale" /\ recon = "stale"
    \/ c = "reconciliation_mismatch" /\ recon = "failed"
    \/ c = "unknown_order_state" /\ gauge
    \/ c = "unhandled_exception" /\ exceptions}

(* Mutant: nobody looks at the exceptions counted. *)
AnomaliesButExceptions(force) ==
  (IF force \/ state = "TRADING" THEN Present ELSE Present \cap {"loop_stall"})
    \ {"unhandled_exception"}

Anomalies(force) ==
  IF force \/ state = "TRADING" THEN Present ELSE Present \cap {"loop_stall"}

Blockers == Anomalies(TRUE)

(* _check_price_to_beat_evidence, then _advance_lifecycle up to its        *)
(* decision; the state it has read may change before the decision is       *)
(* carried out.                                                            *)
Evidence ==
  /\ At("advance")
  /\ "evidence" \in Faults
  /\ Halt(TRUE, {"price to beat"})
  /\ UNCHANGED <<killVars, pc, coreVars, healthVars, watchdogVars, stallVars, saved,
                 overrun, restarts>>

MayTrade     == state = "SYNCING" /\ reconciled /\ failures = 0 /\ Blockers = {}

(* Mutant: one recovery more than the limit. *)
LimitPassed == recoveries > MaxRecoveries

LimitReached == recoveries >= MaxRecoveries
MustEscalate == state = "HALTED" /\ ~manualOnly /\ LimitReached

(* Mutant: the limit's comparison is the wrong way round. *)
NeverResume == state = "HALTED" /\ ~manualOnly /\ LimitReached /\ Blockers = {}

MayResume == state = "HALTED" /\ ~manualOnly /\ ~LimitReached /\ Blockers = {}

Advance ==
  /\ At("advance")
  /\ plan' = IF MayTrade THEN "trade"
             ELSE IF MustEscalate THEN "escalate"
             ELSE IF MayResume THEN "resume" ELSE "none"
  /\ pc' = IF plan' = "none" THEN "exiting" ELSE "acting"
  /\ UNCHANGED <<machineVars, killVars, unknown, failures, reconciled, recoveries,
                 healthVars, watchdogVars, stallVars, saved, overrun, restarts>>

(* Mutant: a manual halt is not told from a recoverable one. *)
RefusedByState ==
  \/ plan = "trade" /\ state # "SYNCING"
  \/ plan = "resume" /\ state # "HALTED"

(* The transition is refused, and the step fails, if the stall thread has  *)
(* moved the state meanwhile.                                              *)
Refused ==
  \/ plan = "trade" /\ state # "SYNCING"
  \/ plan = "resume" /\ (state # "HALTED" \/ manualOnly)

Act ==
  /\ At("acting")
  /\ \/ Refused /\ UNCHANGED machineVars
     \/ ~Refused /\ plan = "trade" /\ MoveTo("TRADING", FALSE) /\ UNCHANGED cause
     \/ ~Refused /\ plan = "resume" /\ MoveTo("SYNCING", FALSE) /\ UNCHANGED cause
     \/ plan = "escalate" /\ Halt(TRUE, {})
  /\ overrun' = IF plan = "trade" /\ ~Refused THEN 0 ELSE overrun
  /\ exceptions' = (exceptions \/ Refused)
  /\ pc' = IF Refused THEN "idle" ELSE "exiting"
  /\ recoveries' = IF plan = "resume" THEN recoveries + 1 ELSE recoveries
  /\ plan' = "none"
  /\ UNCHANGED <<killVars, unknown, failures, reconciled, streams, recon, gauge, late,
                 watchdogVars, stallVars, saved, restarts>>

-----------------------------------------------------------------------------
(* Exits, entries, proposals. *)

Forbidden == state # "TRADING" \/ Engaged

ExitsDone ==
  /\ At("exiting")
  /\ pc' = "entries"
  /\ UNCHANGED <<machineVars, killVars, coreVars, healthVars, watchdogVars, stallVars,
                 saved, overrun, restarts>>

(* Mutant: the risk engine does not ask for the state and the kill switch. *)
MayEnterAnyState == streams /\ recon = "ok" /\ healthy /\ ~unknown

MayEnter == ~Forbidden /\ streams /\ recon = "ok" /\ healthy /\ ~unknown

(* _try_entry, for a candidate of _entries or a proposal: the risk engine  *)
(* reads state, kill switch and health anew for each.                      *)
EntryApproved ==
  /\ At("entries")
  /\ MayEnter
  /\ pc' = "approved"
  /\ UNCHANGED <<machineVars, killVars, coreVars, healthVars, watchdogVars, stallVars,
                 saved, overrun, restarts>>

(* execute() records the order and hands it to the venue. *)
EntrySubmitted ==
  /\ At("approved")
  /\ overrun' = IF Forbidden THEN overrun + 1 ELSE overrun
  /\ pc' = "submitting"
  /\ UNCHANGED <<machineVars, killVars, coreVars, healthVars, watchdogVars, stallVars,
                 saved, restarts>>

EntryReturns ==
  /\ At("submitting")
  /\ unknown' = unknown \/ ("order" \in Faults /\ unknown' = TRUE)
  /\ pc' = "entries"
  /\ UNCHANGED <<machineVars, killVars, plan, failures, reconciled, recoveries, healthVars,
                 watchdogVars, stallVars, saved, overrun, restarts>>

StepDone ==
  /\ At("entries")
  /\ pc' = "idle"
  /\ UNCHANGED <<machineVars, killVars, coreVars, healthVars, watchdogVars, stallVars,
                 saved, overrun, restarts>>

(* Anything else that raises is counted; writing the incident may raise    *)
(* too, like the other handler, and ends the decision loop, nothing else.  *)
StepRaises ==
  /\ \E p \in LoopPC \ {"down", "idle", "acting", "dead"} : At(p)
  /\ "exception" \in Faults
  /\ exceptions' = (exceptions \/ pc # "handler")
  /\ pc' \in (IF pc = "handler" THEN {"dead"}
             ELSE IF "storage" \in Faults THEN {"idle", "dead"} ELSE {"idle"})
  /\ plan' = "none"
  /\ UNCHANGED <<machineVars, killVars, unknown, failures, reconciled, recoveries, streams,
                 recon, gauge, late, watchdogVars, stallVars, saved, overrun, restarts>>

-----------------------------------------------------------------------------
(* The other tasks of the event loop. *)

LoopFree == Awaiting /\ pend = NoChange

(* Mutant: a halt is manual only when every code needs the operator. *)
AllNeedOperator(codes) == codes \subseteq ManualCode

NeedsOperator(codes) == codes \cap ManualCode # {}

(* check_once(): acts on codes that were not there at the last check. *)
Check ==
  /\ LoopFree /\ wd = "idle"
  /\ LET codes == Anomalies(FALSE)
         new   == codes \ active
     IN /\ active' = codes
        /\ healthy' = (codes = {})
        /\ IF new # {} /\ state \in {"TRADING", "SYNCING"}
           THEN Halt(NeedsOperator(new), new)
           ELSE UNCHANGED machineVars
        /\ wd' = IF new = {} THEN "idle" ELSE "cancelling"
  /\ UNCHANGED <<killVars, pc, coreVars, healthVars, stallVars, saved, overrun, restarts>>

(* cancel_all() returned. *)
Cancelled ==
  /\ LoopFree /\ wd = "cancelling"
  /\ wd' = "idle"
  /\ UNCHANGED <<machineVars, killVars, pc, coreVars, healthVars, active, healthy,
                 stallVars, saved, overrun, restarts>>

Heartbeat ==
  /\ LoopFree /\ late
  /\ late' = FALSE
  /\ UNCHANGED <<machineVars, killVars, pc, coreVars, streams, recon, gauge, exceptions,
                 watchdogVars, stallVars, saved, overrun, restarts>>

StreamsConnect ==
  /\ LoopFree /\ ~streams
  /\ streams' = TRUE
  /\ UNCHANGED <<machineVars, killVars, pc, coreVars, recon, gauge, exceptions, late,
                 watchdogVars, stallVars, saved, overrun, restarts>>

-----------------------------------------------------------------------------
(* Time passing. *)

Running == pc # "down"

StreamsFail ==
  /\ Running /\ "stream" \in Faults /\ streams
  /\ streams' = FALSE
  /\ UNCHANGED <<machineVars, killVars, pc, coreVars, recon, gauge, exceptions, late,
                 watchdogVars, stallVars, saved, overrun, restarts>>

ReconciliationAges ==
  /\ Running /\ "stale" \in Faults /\ recon # "stale"
  /\ recon' = "stale"
  /\ UNCHANGED <<machineVars, killVars, pc, coreVars, streams, gauge, exceptions, late,
                 watchdogVars, stallVars, saved, overrun, restarts>>

HourPasses ==
  /\ recoveries > 0
  /\ recoveries' = recoveries - 1
  /\ UNCHANGED <<machineVars, killVars, pc, plan, unknown, failures, reconciled, healthVars,
                 watchdogVars, stallVars, saved, overrun, restarts>>

LoopStalls ==
  /\ Running /\ "stall" \in Faults /\ ~late
  /\ late' = TRUE
  /\ UNCHANGED <<machineVars, killVars, pc, coreVars, streams, recon, gauge, exceptions,
                 watchdogVars, stallVars, saved, overrun, restarts>>

-----------------------------------------------------------------------------
(* LoopStallDetector._run, on its own thread: halts once. *)

StallHalt ==
  /\ Running /\ late /\ ~triggered
  /\ triggered' = TRUE
  /\ \/ state \in {"KILL_SWITCH", "DISABLED"} /\ UNCHANGED <<state, manualOnly, cause, pendStall>>
     \/ /\ state = "HALTED" /\ manualOnly' = TRUE
        /\ UNCHANGED <<state, cause, pendStall>>
     \/ /\ state \in {"SYNCING", "TRADING"}
        /\ state' = "HALTED" /\ manualOnly' = TRUE /\ cause' = {"loop_stall"}
        /\ pendStall' = [state |-> "HALTED", manual |-> TRUE]
  /\ UNCHANGED <<pend, killVars, pc, coreVars, healthVars, watchdogVars, saved, overrun,
                 restarts>>

StallListeners ==
  /\ pendStall # NoChange
  /\ saved' = pendStall /\ pendStall' = NoChange
  /\ UNCHANGED <<machineVars, killVars, pc, coreVars, healthVars, watchdogVars, triggered,
                 overrun, restarts>>

-----------------------------------------------------------------------------
(* The operator: "kill-switch engage" and "reset" work on the database and *)
(* the file from a process whose own state machine is not the bot's;       *)
(* anybody may touch the file.                                             *)

OperatorActs(next) ==
  /\ cli = "idle" /\ commands < MaxCommands
  /\ commands' = commands + 1
  /\ cli' = next
  /\ UNCHANGED <<machineVars, pc, coreVars, healthVars, watchdogVars, stallVars, saved,
                 restarts>>

CliEngage ==
  /\ OperatorActs("engaging")
  /\ flag' = TRUE
  /\ UNCHANGED <<file, overrun>>

CliReset ==
  /\ Engaged
  /\ OperatorActs("resetting")
  /\ flag' = FALSE
  /\ overrun' = IF file THEN overrun ELSE 0
  /\ UNCHANGED file

TouchFile ==
  /\ OperatorActs("idle")
  /\ file' = TRUE
  /\ UNCHANGED <<flag, overrun>>

CliFile ==
  /\ cli # "idle"
  /\ file' = (cli = "engaging")
  /\ overrun' = IF cli = "resetting" /\ ~flag THEN 0 ELSE overrun
  /\ cli' = "idle"
  /\ UNCHANGED <<machineVars, flag, commands, pc, coreVars, healthVars,
                 watchdogVars, stallVars, saved, restarts>>

Crash ==
  /\ Running /\ restarts < MaxRestarts
  /\ restarts' = restarts + 1
  /\ pc' = "down" /\ plan' = "none"
  /\ state' = "DISABLED" /\ manualOnly' = FALSE /\ cause' = {} /\ pend' = NoChange
  /\ unknown' = FALSE /\ failures' = 0 /\ reconciled' = FALSE /\ recoveries' = 0
  /\ streams' = FALSE /\ recon' = "stale" /\ gauge' = FALSE /\ exceptions' = FALSE
  /\ late' = FALSE
  /\ wd' = "idle" /\ active' = {} /\ healthy' = TRUE
  /\ triggered' = FALSE /\ pendStall' = NoChange
  /\ overrun' = 0
  /\ UNCHANGED <<flag, file, cli, commands, saved>>

-----------------------------------------------------------------------------
DecisionLoop ==
  \/ Start \/ StepBegins \/ Poll \/ Engage \/ EngageFails \/ EngageState \/ Resolve
  \/ Reconcile \/ SnapshotAgrees \/ SnapshotFails \/ SnapshotDiffers
  \/ Evidence \/ Advance \/ Act
  \/ ExitsDone \/ EntryApproved \/ EntrySubmitted \/ EntryReturns \/ StepDone
  \/ StepRaises

OtherTasks == Listeners \/ Check \/ Cancelled \/ Heartbeat \/ StreamsConnect
Time       == StreamsFail \/ ReconciliationAges \/ HourPasses \/ LoopStalls
StallThread == StallHalt \/ StallListeners
Operator   == CliEngage \/ CliReset \/ TouchFile \/ CliFile

Next == DecisionLoop \/ OtherTasks \/ Time \/ StallThread \/ Operator \/ Crash

Spec == Init /\ [][Next]_vars

(* No await hangs for ever (each has a timeout), and whenever the decision *)
(* loop awaits the other tasks that are due get their turn.  A step that   *)
(* does not reconcile, because it is not due or an order is open, is       *)
(* followed by one that does.                                              *)
LoopFairness ==
  /\ WF_vars(DecisionLoop)
  /\ SF_vars(Reconcile /\ pc' = "snapshot")
  /\ WF_vars(Listeners)
  /\ SF_vars(Check)
  /\ SF_vars(Cancelled)
  /\ SF_vars(Heartbeat)

FairSpec == Spec /\ LoopFairness

-----------------------------------------------------------------------------
(* Safety. *)

(* Once the state machine or the kill switch forbids trading, whoever did  *)
(* it and wherever the decision loop was, at most the one entry already    *)
(* approved still goes out.                                                *)
OneEntryOverrun == overrun <= 1

(* A manual halt and a kill switch end with the process only: no recovery, *)
(* no resync and no later, milder halt gets the bot out of them.           *)
LockedUntilRestart ==
  [][Running /\ Locked /\ pc' # "down" => state' = state /\ manualOnly']_vars

(* A halt given for any condition an operator must look at is a manual     *)
(* one, whatever recoverable conditions came with it.                      *)
SevereHaltsAreManual ==
  state = "HALTED" /\ cause \cap (ManualCode \cup CoreCause) # {} => manualOnly

(* No trading after two mismatching reconciliations in a row, not through  *)
(* an automatic recovery, a resync or a failed snapshot in between: only   *)
(* an agreeing one clears the count, and the second one locks.             *)
TradingIsReconciled == state = "TRADING" => failures < 2

(* While the stall thread has not acted, what the listeners saved is the   *)
(* state the machine is in, as soon as they have run.                      *)
SavedIsState ==
  Running /\ ~triggered /\ pend = NoChange => saved.state = state

-----------------------------------------------------------------------------
(* The abstract permission to trade. *)

permit == IF Locked THEN "LOCKED" ELSE state

Permission == INSTANCE TradingPermit
  WITH engaged <- Engaged, doubts <- failures, spent <- recoveries, overtaken <- overrun

(* Together the decision loop, the watchdog, the stall thread and the      *)
(* operator give and withdraw the permission to trade as TradingPermit     *)
(* says, whatever each has read before the other acted.                    *)
ImplementsTradingPermit == Permission!Spec

-----------------------------------------------------------------------------
(* Liveness. *)

(* Once the data streams stay up, no step raises and the loop is in time,  *)
(* the bot is back to trading, unless it has used up its automatic         *)
(* recoveries or was halted for the operator.                              *)
RecoversWithStreams ==
  <>[](streams /\ ~exceptions /\ ~late) => []<>(state = "TRADING" \/ Locked)

(* An exception that escapes a step ends trading for the rest of the       *)
(* process, even when it ends the decision loop as well.                   *)
ExceptionsStopTrading == exceptions ~> [](state # "TRADING" \/ ~Running)

-----------------------------------------------------------------------------
(* What the documentation says and the code does not do. *)

(* kill_switch.py:8, "Engaging is always allowed": an engagement by the    *)
(* core puts the bot into KILL_SWITCH, whatever state it was in.           *)
EngageReachesState == [][EngageState => state' = "KILL_SWITCH"]_vars

(* docs/incident-response.md, stream down: HALTED.                         *)
StreamLossHalts == <>[](~streams) => []<>(state # "TRADING")
=============================================================================
