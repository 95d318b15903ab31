------------------------------ MODULE AuditTrail ------------------------------
(***************************************************************************)
(* What the audit log tells afterwards.  The bot and operator commands     *)
(* append hash-chained records to one file, each through an AuditLog that  *)
(* knows the tail it read when it was made.  State changes are delivered   *)
(* to two listeners, the one that records them (app/build.py persist) and  *)
(* the halt journal, by the loop and by the thread that detects a stalled  *)
(* loop; halt_history rebuilds from the file when the bot was halted and   *)
(* when it recovered.  The bot may crash and restart at any point.         *)
(***************************************************************************)
EXTENDS Integers, Sequences, FiniteSets, SequencesExt

CONSTANTS
  Commands,    \* operator commands that may run (kill-switch, orders resolve)
  MaxChanges,  \* bound: state changes
  MaxRestarts  \* bound: crashes of the bot

ASSUME ConstantsOK ==
  /\ IsFiniteSet(Commands) /\ "bot" \notin Commands
  /\ {MaxChanges, MaxRestarts} \subseteq Nat

VARIABLES
  file,       \* audit.jsonl
  tail,       \* tail[p]: seq and prev of the AuditLog of process p
  state,      \* state machine of the bot, "down" without a process
  manual,     \* manual_only
  delivering, \* delivering[a]: the change thread a tells the listeners
  journal,    \* halt_journal._open, 0: none
  engaged,    \* the durable kill switch
  running,    \* commands that have opened the log and not yet written
  finished,   \* commands that have ended
  changes,    \* counter of the bound; numbers the changes
  restarts,   \* counter of the bound
  episodes,   \* history: the halts as they happened
  current,    \* history: the episode the bot has not recovered from, 0: none
  overlapped, \* history: two writers had the log open at the same time
  lost        \* history: a change was not recorded in the order it happened

processes == <<running, finished, engaged>>
machine == <<state, manual, changes>>
truth == <<episodes, current>>
flags == <<overlapped, lost>>
vars == <<file, tail, machine, delivering, journal, processes, restarts, truth, flags>>

States == {"down", "SYNCING", "TRADING", "HALTED", "KILL_SWITCH"}
HaltStates == {"HALTED", "KILL_SWITCH"}
Threads == {"loop", "stall"}

Genesis == 0
NoTail == [seq |-> 0, prev |-> Genesis]
Change(from, to) == [n |-> changes + 1, from |-> from, to |-> to]
NoChange == [n |-> 0, from |-> "down", to |-> "down"]
Idle == [change |-> NoChange, stage |-> "done", halt |-> FALSE]

Init ==
  /\ file = <<>> /\ tail = [p \in {"bot"} \union Commands |-> NoTail]
  /\ state = "down" /\ manual = FALSE /\ changes = 0
  /\ delivering = [a \in Threads |-> Idle] /\ journal = 0
  /\ engaged = FALSE /\ running = {} /\ finished = {} /\ restarts = 0
  /\ episodes = <<>> /\ current = 0
  /\ overlapped = FALSE /\ lost = FALSE
-----------------------------------------------------------------------------
(***************************************************************************)
(* AuditLog.  The digest of a record is its number in the file; a record   *)
(* torn by a crash has none.  A torn last line makes the next AuditLog     *)
(* raise.                                                                  *)
(***************************************************************************)
Readable == file # <<>> => ~file[Len(file)].torn

\* Mutant: every process begins a chain of its own.
NewChain == NoTail

LoadTail ==
  IF file = <<>> THEN NoTail ELSE [seq |-> file[Len(file)].seq, prev |-> Len(file)]

Record(p, kind, change) ==
  [seq |-> tail[p].seq + 1, prev |-> tail[p].prev, kind |-> kind, change |-> change,
   torn |-> FALSE]

Write(p, kind, change) ==
  /\ file' = Append(file, Record(p, kind, change))
  /\ tail' = [tail EXCEPT ![p] = [seq |-> @.seq + 1, prev |-> Len(file) + 1]]

\* verify_audit_log
Verified ==
  \A i \in DOMAIN file :
    /\ ~file[i].torn
    /\ file[i].prev = i - 1 /\ file[i].seq = i
-----------------------------------------------------------------------------
(***************************************************************************)
(* The state machine.  transition() tells the listeners after it has let   *)
(* go of the lock; halt() holds it while they are told.                    *)
(***************************************************************************)
Told(a) == delivering[a].stage # "done"
Locked == \E a \in Threads : Told(a) /\ delivering[a].halt

\* The halts as they are, whatever is written about them.
Witness(change) ==
  IF change.to \in HaltStates
  THEN /\ episodes' = Append(episodes, [n |-> change.n, started |-> FALSE, recovered |-> FALSE])
       /\ current' = Len(episodes) + 1
  ELSE IF current # 0 /\ change.from = "HALTED"
  THEN episodes' = [episodes EXCEPT ![current].started = TRUE] /\ UNCHANGED current
  ELSE IF current # 0 /\ change.to = "TRADING"
  THEN episodes' = [episodes EXCEPT ![current].recovered = TRUE] /\ current' = 0
  ELSE UNCHANGED truth

MovesTo(a, from, to, isManual, holdsLock) ==
  /\ changes < MaxChanges /\ ~Locked /\ ~Told(a)
  /\ state' = to /\ manual' = isManual /\ changes' = changes + 1
  /\ delivering' = [delivering EXCEPT ![a] =
       [change |-> Change(from, to), stage |-> "persist", halt |-> holdsLock]]
  /\ lost' = (lost \/ \E b \in Threads : Told(b))
  /\ Witness(Change(from, to))

(***************************************************************************)
(* Startup: the log is opened, the listeners subscribed, a persisted kill  *)
(* switch enters KILL_SWITCH, else DISABLED leads to SYNCING.              *)
(***************************************************************************)
BotStarts ==
  /\ state = "down" /\ Readable
  /\ tail' = [tail EXCEPT !["bot"] = LoadTail]
  /\ journal' = 0
  /\ MovesTo("loop", "down", IF engaged THEN "KILL_SWITCH" ELSE "SYNCING", engaged, FALSE)
  /\ overlapped' = (overlapped \/ running # {})
  /\ UNCHANGED <<file, processes, restarts>>

Goes(from, to) ==
  /\ state = from
  /\ MovesTo("loop", from, to, FALSE, FALSE)
  /\ UNCHANGED <<file, tail, journal, processes, restarts, overlapped>>

StartsTrading == Goes("SYNCING", "TRADING")
Recovers == ~manual /\ Goes("HALTED", "SYNCING")

\* halt() by the loop: an execution, reconciliation or watchdog halt.
LoopHalts ==
  /\ state \in {"SYNCING", "TRADING"}
  /\ \E m \in BOOLEAN : MovesTo("loop", state, "HALTED", m, TRUE)
  /\ UNCHANGED <<file, tail, journal, processes, restarts, overlapped>>

\* LoopStallDetector: halt() by its thread, while the loop is busy elsewhere.
StallHalts ==
  /\ state \in {"SYNCING", "TRADING"}
  /\ MovesTo("stall", state, "HALTED", TRUE, TRUE)
  /\ UNCHANGED <<file, tail, journal, processes, restarts, overlapped>>

StallEscalates ==
  /\ state = "HALTED" /\ ~Locked /\ ~manual
  /\ manual' = TRUE
  /\ UNCHANGED <<file, tail, state, changes, delivering, journal, processes, restarts, truth,
                 flags>>

\* KillSwitch.engage by the bot: flag, record, then the transition.
LoopEngages ==
  /\ state \in {"SYNCING", "TRADING", "HALTED"} /\ ~(state = "HALTED" /\ manual)
  /\ engaged' = TRUE
  /\ Write("bot", "command", NoChange)
  /\ MovesTo("loop", state, "KILL_SWITCH", TRUE, FALSE)
  /\ UNCHANGED <<journal, running, finished, restarts, overlapped>>

(***************************************************************************)
(* The listeners, in the order they subscribed.                            *)
(***************************************************************************)
Persists(a) ==
  /\ delivering[a].stage = "persist"
  /\ Write("bot", "state_change", delivering[a].change)
  /\ delivering' = [delivering EXCEPT ![a].stage = "journal"]
  /\ UNCHANGED <<machine, journal, processes, restarts, truth, flags>>

JournalKind(change) ==
  CASE change.to \in HaltStates -> "halt"
    [] change.to \notin HaltStates /\ change.from = "HALTED" /\ journal # 0 -> "recovery_started"
    [] change.from # "HALTED" /\ change.to = "TRADING" /\ journal # 0 -> "recovered"
    [] OTHER -> "none"

Journals(a) ==
  LET change == delivering[a].change
      kind == JournalKind(change)
  IN /\ delivering[a].stage = "journal"
     /\ delivering' = [delivering EXCEPT ![a] = Idle]
     /\ CASE kind = "halt" -> Write("bot", kind, change) /\ journal' = change.n
          [] kind = "recovery_started" ->
               Write("bot", kind, [change EXCEPT !.n = journal]) /\ UNCHANGED journal
          [] kind = "recovered" ->
               Write("bot", kind, [change EXCEPT !.n = journal]) /\ journal' = 0
          [] OTHER -> UNCHANGED <<file, tail, journal>>
     /\ UNCHANGED <<machine, processes, restarts, truth, flags>>

(***************************************************************************)
(* A crash loses what is not written; it may tear the line being written.  *)
(***************************************************************************)
Crash ==
  /\ state # "down" /\ restarts < MaxRestarts
  /\ restarts' = restarts + 1
  /\ state' = "down" /\ manual' = FALSE /\ journal' = 0
  /\ delivering' = [a \in Threads |-> Idle]
  /\ lost' = (lost \/ \E a \in Threads : delivering[a].stage = "persist")
  /\ \/ UNCHANGED file
     \/ \E a \in Threads :
          /\ Told(a)
          /\ file' = Append(file, [Record("bot", "state_change", NoChange) EXCEPT !.torn = TRUE])
  /\ UNCHANGED <<tail, changes, processes, truth, overlapped>>

(***************************************************************************)
(* A command opens the log when it starts and writes one record.           *)
(***************************************************************************)
CommandStarts(c) ==
  /\ c \notin running \union finished /\ Readable
  /\ running' = running \union {c}
  /\ tail' = [tail EXCEPT ![c] = LoadTail]
  /\ overlapped' = (overlapped \/ running # {} \/ state # "down")
  /\ UNCHANGED <<file, machine, delivering, journal, finished, engaged, restarts, truth, lost>>

CommandWrites(c) ==
  /\ c \in running
  /\ running' = running \ {c} /\ finished' = finished \union {c}
  /\ engaged' \in BOOLEAN  \* engage, reset, or the resolution of an order
  /\ Write(c, "command", NoChange)
  /\ UNCHANGED <<machine, delivering, journal, restarts, truth, flags>>

Next ==
  \/ BotStarts
  \/ StartsTrading
  \/ Recovers
  \/ LoopHalts
  \/ StallHalts
  \/ StallEscalates
  \/ LoopEngages
  \/ \E a \in Threads : Persists(a)
  \/ \E a \in Threads : Journals(a)
  \/ Crash
  \/ \E c \in Commands : CommandStarts(c)
  \/ \E c \in Commands : CommandWrites(c)

Spec == Init /\ [][Next]_vars
-----------------------------------------------------------------------------
(***************************************************************************)
(* halt_history: the rows rebuilt from the records, "open" the last one    *)
(* that is not closed.  A halt is known by the time and cause both of its  *)
(* records carry, here the number of the change.                           *)
(***************************************************************************)
NewRow(h, r) ==
  [rows |-> Append(h.rows, [n |-> r.change.n, started |-> FALSE, recovered |-> FALSE]),
   open |-> Len(h.rows) + 1]

Starts(h) == [h EXCEPT !.rows[h.open].started = TRUE]
Closes(h) == [rows |-> [h.rows EXCEPT ![h.open].recovered = TRUE], open |-> 0]

\* Mutant: both records of a halt make a row.
ReadHaltTwice(h, r) ==
  CASE r.kind = "halt" -> NewRow(h, r)
    [] r.kind = "recovery_started" /\ h.open # 0 -> Starts(h)
    [] r.kind = "recovered" /\ h.open # 0 -> Closes(h)
    [] r.kind = "state_change" /\ r.change.to \in HaltStates -> NewRow(h, r)
    [] r.kind = "state_change" /\ r.change.to \notin HaltStates /\ r.change.from = "HALTED"
         /\ h.open # 0 -> Starts(h)
    [] r.kind = "state_change" /\ r.change.from # "HALTED" /\ r.change.to = "TRADING"
         /\ h.open # 0 -> Closes(h)
    [] OTHER -> h

ReadRecord(h, r) ==
  CASE r.kind = "halt" ->
         IF h.open # 0 /\ h.rows[h.open].n = r.change.n THEN h ELSE NewRow(h, r)
    [] r.kind = "recovery_started" /\ h.open # 0 -> Starts(h)
    [] r.kind = "recovered" /\ h.open # 0 -> Closes(h)
    [] r.kind = "state_change" /\ r.change.to \in HaltStates -> NewRow(h, r)
    [] r.kind = "state_change" /\ r.change.to \notin HaltStates /\ r.change.from = "HALTED"
         /\ h.open # 0 -> Starts(h)
    [] r.kind = "state_change" /\ r.change.from # "HALTED" /\ r.change.to = "TRADING"
         /\ h.open # 0 -> Closes(h)
    [] OTHER -> h

Rows == FoldLeft(ReadRecord, [rows |-> <<>>, open |-> 0], file).rows
-----------------------------------------------------------------------------
(***************************************************************************)
(* While only one writer at a time has the log open and no line is torn,   *)
(* the chain verifies, over every restart.  An operator command run beside *)
(* the bot breaks it.                                                      *)
(***************************************************************************)
Torn == \E i \in DOMAIN file : file[i].torn

ChainHolds == ~overlapped /\ ~Torn => Verified

(***************************************************************************)
(* What diagnose shows is what happened: once the changes are recorded,    *)
(* halt_history lists every halt of every process of the bot, in order,    *)
(* with its recovery if and only if the bot has recovered.                 *)
(***************************************************************************)
Recorded == \A a \in Threads : delivering[a].stage # "persist"

HistoryIsTrue == Recorded /\ ~lost => Rows = episodes

(***************************************************************************)
(* "an automatic recovery never hides why the bot stopped"                 *)
(* (docs/diagnostics.md:137): a halted bot is not listed as recovered.     *)
(***************************************************************************)
HaltIsShown ==
  (state \in HaltStates /\ \A a \in Threads : ~Told(a)) => ~Last(Rows).recovered
=============================================================================
