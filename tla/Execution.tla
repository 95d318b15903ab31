------------------------------ MODULE Execution ------------------------------
(***************************************************************************)
(* The execution engine (execution/engine.py) between the write-ahead      *)
(* order table of the state database and a trading venue.                  *)
(*                                                                         *)
(* One asyncio task executes risk decisions, polls the venue and resolves  *)
(* UNKNOWN orders; pc is where that task is.  Every database transaction   *)
(* is a step of its own, and the process may crash between any two steps.  *)
(* The venue, the network and the operator act on their own.  An order is  *)
(* named by the risk decision it executes (orders.decision_id is UNIQUE),  *)
(* a trade of it by <<decision, index>>; every trade is one share.         *)
(***************************************************************************)
EXTENDS Naturals, FiniteSets, Sequences

CONSTANTS
  Decision,        \* risk decisions that may be executed
  MaxInFlight,     \* execution.max_in_flight_orders
  Size,            \* shares of an order = most trades it can have
  MaxCrashes,      \* bound on process crashes
  KeepsHistory,    \* TRUE: the venue attributes events to intents and replays
                   \* them (PaperExchange); FALSE: it lists open orders only
                   \* (PolymarketLiveVenue)
  NoDecision       \* not a decision

ASSUME ExecutionAssumption ==
  /\ MaxInFlight \in Nat \ {0}
  /\ Size \in Nat \ {0}
  /\ MaxCrashes \in Nat
  /\ KeepsHistory \in BOOLEAN
  /\ NoDecision \notin Decision
  /\ IsFiniteSet(Decision)

VARIABLES
  (* The process: lost in a crash. *)
  up,        \* the bot process runs
  orders,    \* ExecutionEngine.orders
  used,      \* ExecutionEngine._used_decisions
  violated,  \* ExecutionEngine.violations is not empty
  halted,    \* HALTED with manual_only (not restored at a restart)
  pc,        \* where the engine's task is
  cur,       \* the decision it is submitting
  batch,     \* events fetched from the venue and not applied yet
  todo,      \* orders the adapter has still to poll
  adapter,   \* the venue adapter's _Tracked records
  (* The state database and the audit log: durable. *)
  rows,      \* table orders
  fills,     \* table fills (primary key fill_id)
  audited,   \* decisions named by an invariant_violation record
  kill,      \* the persisted kill switch
  resolved,  \* orders closed by "orders resolve-no-fill"
  (* Outside the bot. *)
  net,       \* submissions on their way to the venue
  venue,     \* the venue's orders
  (* History and bounds. *)
  sent,      \* how often provider.submit was called for a decision
  checked,   \* finished orders a reconciliation has looked at
  crashes

procVars  == <<up, orders, used, violated, halted, pc, cur, batch, todo, adapter>>
storeVars == <<rows, fills, audited, kill, resolved>>
venueVars == <<net, venue>>
vars == <<procVars, storeVars, venueVars, sent, checked, crashes>>

-----------------------------------------------------------------------------
(* Statuses and records. *)

OpenStatus     == {"INTENT", "SUBMITTING", "LIVE", "PARTIALLY_FILLED", "UNKNOWN"}
TerminalStatus == {"FILLED", "CANCELLED", "REJECTED", "EXPIRED"}
Status         == OpenStatus \cup TerminalStatus \cup {"NONE"}

(* An OrderRecord: status, shares applied, exchange_order_id known. *)
OrderRecord == [status : Status, filled : Nat, xid : BOOLEAN]
NoOrder     == [status |-> "NONE", filled |-> 0, xid |-> FALSE]

FillEvent   == [type : {"fill"}, d : Decision, k : 1 .. Size]
UpdateEvent == [type : {"update"}, d : Decision, cum : 0 .. Size,
                status : OpenStatus \cup TerminalStatus]
Event       == FillEvent \cup UpdateEvent

(* A venue order: matched trades, and how many of them the venue reports   *)
(* with a status that counts as a fill; "lost" with the in-process venue.  *)
VenueOrder == [state : {"none", "open", "done", "rejected", "lost"},
               matched : 0 .. Size, counted : 0 .. Size]

(* _Tracked: trades already seen, terminal update already produced. *)
Tracked   == [on : BOOLEAN, seen : 0 .. Size, done : BOOLEAN]
Untracked == [on |-> FALSE, seen |-> 0, done |-> FALSE]

OpenOrders    == {d \in Decision : orders[d].status \in OpenStatus}
UnknownOrders == {d \in Decision : orders[d].status = "UNKNOWN"}

OpenRows      == {d \in Decision : rows[d].status \in OpenStatus}
FillsOf(d)    == {f \in fills : f[1] = d}

(* Mutant: the record changes in the database only. *)
SaveRowOnly(d, rec) ==
  /\ rows' = [rows EXCEPT ![d] = rec]
  /\ UNCHANGED orders

(* _save: the record changes in memory and in the database. *)
Save(d, rec) ==
  /\ orders' = [orders EXCEPT ![d] = rec]
  /\ rows'   = [rows EXCEPT ![d] = rec]

TypeOK ==
  /\ up \in BOOLEAN
  /\ orders \in [Decision -> OrderRecord]
  /\ used \in SUBSET Decision
  /\ violated \in BOOLEAN
  /\ halted \in BOOLEAN
  /\ pc \in {"idle", "recorded", "submitting", "polling", "applying", "filling"}
  /\ cur \in Decision \cup {NoDecision}
  /\ batch \in Seq(Event)
  /\ todo \in SUBSET Decision
  /\ adapter \in [Decision -> Tracked]
  /\ rows \in [Decision -> OrderRecord]
  /\ fills \in SUBSET (Decision \X (1 .. Size))
  /\ audited \in SUBSET Decision
  /\ kill \in BOOLEAN
  /\ resolved \in SUBSET Decision
  /\ net \in SUBSET Decision
  /\ venue \in [Decision -> VenueOrder]
  /\ sent \in [Decision -> Nat]
  /\ checked \in SUBSET Decision
  /\ crashes \in Nat

Init ==
  /\ up = TRUE
  /\ orders = [d \in Decision |-> NoOrder]
  /\ used = {}
  /\ violated = FALSE
  /\ halted = FALSE
  /\ pc = "idle"
  /\ cur = NoDecision
  /\ batch = << >>
  /\ todo = {}
  /\ adapter = [d \in Decision |-> Untracked]
  /\ rows = [d \in Decision |-> NoOrder]
  /\ fills = {}
  /\ audited = {}
  /\ kill = FALSE
  /\ resolved = {}
  /\ net = {}
  /\ venue = [d \in Decision |-> [state |-> "none", matched |-> 0, counted |-> 0]]
  /\ sent = [d \in Decision |-> 0]
  /\ checked = {}
  /\ crashes = 0

-----------------------------------------------------------------------------
(* Submission: execute(). *)

(* Mutant: UNKNOWN orders are not looked at. *)
BlindExecute(d) ==
  /\ Cardinality(OpenOrders) < MaxInFlight
  /\ d \notin used /\ rows[d] = NoOrder

(* The guards of execute() and of the insert: UNIQUE(decision_id). *)
MayExecute(d) ==
  /\ Cardinality(OpenOrders) < MaxInFlight
  /\ UnknownOrders = {}
  /\ d \notin used
  /\ rows[d] = NoOrder

(* The write-ahead transaction: the row exists before anything leaves the  *)
(* process.                                                                *)
Execute(d) ==
  /\ up /\ pc = "idle"
  /\ MayExecute(d)
  /\ rows' = [rows EXCEPT ![d] = [NoOrder EXCEPT !.status = "INTENT"]]
  /\ used' = used \cup {d}
  /\ pc' = "recorded" /\ cur' = d
  /\ UNCHANGED <<up, orders, violated, halted, batch, todo, adapter, fills, audited,
                 kill, resolved, venueVars, sent, checked, crashes>>

(* The second transaction (SUBMITTING), then the call of provider.submit. *)
Submit ==
  /\ up /\ pc = "recorded"
  /\ Save(cur, [NoOrder EXCEPT !.status = "SUBMITTING"])
  /\ net' = net \cup {cur}
  /\ sent' = [sent EXCEPT ![cur] = @ + 1]
  /\ pc' = "submitting"
  /\ UNCHANGED <<up, used, violated, halted, cur, batch, todo, adapter, fills, audited,
                 kill, resolved, venue, checked, crashes>>

SubmitReturns(rec) ==
  /\ up /\ pc = "submitting"
  /\ Save(cur, rec)
  /\ pc' = "idle" /\ cur' = NoDecision
  /\ UNCHANGED <<up, used, violated, halted, batch, todo, fills, audited, kill,
                 resolved, venueVars, sent, checked, crashes>>

AckAccepted ==
  /\ pc = "submitting" /\ venue[cur].state \in {"open", "done"}
  /\ SubmitReturns([status |-> "LIVE", filled |-> 0, xid |-> TRUE])
  /\ adapter' = [adapter EXCEPT ![cur].on = TRUE]

(* Only a venue that can be asked for the history answers ambiguously. *)
AckAmbiguous ==
  /\ pc = "submitting" /\ venue[cur].state \in {"open", "done"}
  /\ KeepsHistory
  /\ SubmitReturns([status |-> "UNKNOWN", filled |-> 0, xid |-> TRUE])
  /\ UNCHANGED adapter

AckRejected ==
  /\ pc = "submitting" /\ venue[cur].state = "rejected"
  /\ SubmitReturns([status |-> "REJECTED", filled |-> 0, xid |-> FALSE])
  /\ UNCHANGED adapter

(* Mutants: a submission that times out is sent again; it is taken for one *)
(* that never reached the venue.                                           *)
RetriedSubmit ==
  /\ up /\ pc = "submitting" /\ pc' = "recorded"
  /\ UNCHANGED <<up, orders, used, violated, halted, cur, batch, todo, adapter,
                 storeVars, venueVars, sent, checked, crashes>>
TimeoutCancels ==
  /\ SubmitReturns([status |-> "CANCELLED", filled |-> 0, xid |-> FALSE])
  /\ UNCHANGED adapter

(* Timeout, transport error or any other exception before an ack; the      *)
(* request may be lost, may have been processed, or may still arrive.      *)
SubmitFails ==
  /\ SubmitReturns([status |-> "UNKNOWN", filled |-> 0, xid |-> FALSE])
  /\ UNCHANGED adapter

-----------------------------------------------------------------------------
(* Polling: poll_events() of the adapter, then apply_events(). *)

FillEvents(d, from, to) ==
  [i \in 1 .. (to - from) |-> [type |-> "fill", d |-> d, k |-> from + i]]

TerminalEvent(d, cum) ==
  [type |-> "update", d |-> d, cum |-> cum,
   status |-> IF cum >= Size THEN "FILLED" ELSE "CANCELLED"]

PollStart ==
  /\ up /\ pc = "idle"
  /\ todo' = {d \in Decision : adapter[d].on /\ ~adapter[d].done}
  /\ todo' # {}
  /\ pc' = "polling"
  /\ UNCHANGED <<up, orders, used, violated, halted, cur, batch, adapter, storeVars,
                 venueVars, sent, checked, crashes>>

(* _poll_order: the trades not seen yet, then the terminal update once all *)
(* matched shares have been seen.                                          *)
PollOrder(d) ==
  LET ends == venue[d].state = "done" /\ venue[d].counted >= venue[d].matched
  IN /\ up /\ pc = "polling" /\ d \in todo
     /\ batch' = batch \o FillEvents(d, adapter[d].seen, venue[d].counted)
                       \o (IF ends THEN <<TerminalEvent(d, venue[d].counted)>> ELSE << >>)
     /\ adapter' = [adapter EXCEPT ![d].seen = venue[d].counted, ![d].done = ends]
     /\ todo' = todo \ {d}
     /\ UNCHANGED <<up, orders, used, violated, halted, pc, cur, storeVars, venueVars,
                    sent, checked, crashes>>

(* The venue call for d fails after n of its trades were marked as seen:   *)
(* the exception leaves poll_events(), the events collected so far are     *)
(* dropped, and the step's handler counts it: the watchdog then halts the  *)
(* bot for the operator.                                                   *)
PollFails(d) ==
  /\ up /\ pc = "polling" /\ d \in todo
  /\ ~KeepsHistory
  /\ \E n \in adapter[d].seen .. venue[d].counted :
       adapter' = [adapter EXCEPT ![d].seen = n]
  /\ batch' = << >> /\ todo' = {}
  /\ halted' = TRUE
  /\ pc' = "idle"
  /\ UNCHANGED <<up, orders, used, violated, cur, storeVars, venueVars, sent, checked,
                 crashes>>

PollDone ==
  /\ up /\ pc = "polling" /\ todo = {}
  /\ pc' = "applying"
  /\ UNCHANGED <<up, orders, used, violated, halted, cur, batch, todo, adapter,
                 storeVars, venueVars, sent, checked, crashes>>

(* What resolve_unknown() keeps of find_orders_since(): from a venue with  *)
(* history every event of the intent, else at most one LIVE update of an   *)
(* order whose exchange id is known.                                       *)
FoundEvents(d) ==
  LET v == venue[d]
      complete == v.state = "done" /\ v.counted >= v.matched
  IN IF v.state \notin {"open", "done"} THEN << >>
     ELSE IF KeepsHistory
     THEN FillEvents(d, 0, v.counted)
            \o (IF complete THEN <<TerminalEvent(d, v.counted)>> ELSE << >>)
     ELSE IF v.state = "open" /\ orders[d].xid
     THEN <<[type |-> "update", d |-> d, cum |-> v.matched, status |-> "LIVE"]>>
     ELSE << >>

ResolveUnknown(d) ==
  /\ up /\ pc = "idle" /\ d \in UnknownOrders
  /\ FoundEvents(d) # << >>
  /\ batch' = FoundEvents(d)
  /\ pc' = "applying"
  /\ UNCHANGED <<up, orders, used, violated, halted, cur, todo, adapter, storeVars,
                 venueVars, sent, checked, crashes>>

(* Mutant: the timeout of an UNKNOWN order has no consequence. *)
NeverStuck(d) == up /\ pc = "idle" /\ d \in UnknownOrders /\ UNCHANGED vars

(* The venue shows nothing of the order, or cannot be reached, until the   *)
(* timeout: _resolve_unknown of the core halts for the operator.           *)
ResolveStuck(d) ==
  /\ up /\ pc = "idle" /\ d \in UnknownOrders
  /\ ~halted
  /\ halted' = TRUE
  /\ UNCHANGED <<up, orders, used, violated, pc, cur, batch, todo, adapter, storeVars,
                 venueVars, sent, checked, crashes>>

-----------------------------------------------------------------------------
(* Applying one event. *)

(* _violation: counted in memory, written to the audit log. *)
Violation(d) ==
  /\ violated' = TRUE
  /\ audited' = audited \cup {d}

(* Mutant: the fill table's duplicate answer is ignored. *)
AnyFill(d, k) == orders[d] # NoOrder

(* The fill is of a known order and not in the table yet. *)
Fresh(d, k) == orders[d] # NoOrder /\ <<d, k>> \notin fills

(* _apply_fill up to insert_fill: an event for an order this process does  *)
(* not know is a violation, a fill id already in the table is a duplicate; *)
(* both are skipped.                                                       *)
RecordFill ==
  /\ up /\ pc = "applying" /\ batch # << >>
  /\ LET ev == Head(batch)
         fresh == Fresh(ev.d, ev.k)
     IN /\ ev.type = "fill"
        /\ fills' = IF fresh THEN fills \cup {<<ev.d, ev.k>>} ELSE fills
        /\ pc'    = IF fresh THEN "filling" ELSE "applying"
        /\ batch' = IF fresh THEN batch ELSE Tail(batch)
        /\ IF orders[ev.d] # NoOrder THEN UNCHANGED <<violated, audited>>
           ELSE Violation(ev.d)
  /\ UNCHANGED <<up, orders, used, halted, cur, todo, adapter, rows, kill, resolved,
                 venueVars, sent, checked, crashes>>

(* The rest of _apply_fill: the order's counters, saved. *)
BookFill ==
  /\ up /\ pc = "filling"
  /\ LET d == Head(batch).d
         rec == orders[d]
         awaited == rec.status \in {"UNKNOWN", "LIVE", "SUBMITTING"}
     IN Save(d, [status |-> IF awaited THEN "PARTIALLY_FILLED" ELSE rec.status,
                 filled |-> rec.filled + 1, xid |-> rec.xid])
  /\ batch' = Tail(batch)
  /\ pc' = "applying"
  /\ UNCHANGED <<up, used, violated, halted, cur, todo, adapter, fills, audited, kill,
                 resolved, venueVars, sent, checked, crashes>>

(* _apply_update: an unknown order is a violation, a terminal one ignores  *)
(* the update; a terminal update that does not agree with the applied      *)
(* shares is a violation and is saved anyway.                              *)
ApplyUpdate ==
  /\ up /\ pc = "applying" /\ batch # << >>
  /\ LET ev  == Head(batch)
         rec == orders[ev.d]
         closed == rec.status \in TerminalStatus
         mismatch == ~closed /\ ev.status \in TerminalStatus /\ ev.cum # rec.filled
         status == IF ev.status = "CANCELLED" /\ rec.filled >= Size THEN "FILLED"
                   ELSE ev.status
     IN /\ ev.type = "update"
        /\ IF rec = NoOrder \/ closed THEN UNCHANGED <<orders, rows>>
           ELSE Save(ev.d, [rec EXCEPT !.status = status, !.xid = TRUE])
        /\ IF rec = NoOrder \/ mismatch THEN Violation(ev.d)
           ELSE UNCHANGED <<violated, audited>>
  /\ batch' = Tail(batch)
  /\ UNCHANGED <<up, used, halted, pc, cur, todo, adapter, fills, kill, resolved,
                 venueVars, sent, checked, crashes>>

(* apply_events() returns; the core's _check_violations engages the kill   *)
(* switch.                                                                 *)
ApplyDone ==
  /\ up /\ pc = "applying" /\ batch = << >>
  /\ kill' = (kill \/ violated)
  /\ pc' = "idle"
  /\ UNCHANGED <<up, orders, used, violated, halted, cur, batch, todo, adapter, rows,
                 fills, audited, resolved, venueVars, sent, checked, crashes>>

(* _maybe_reconcile: never while an order is open. *)
Reconcile ==
  /\ up /\ pc = "idle"
  /\ OpenOrders = {}
  /\ checked' = {d \in Decision : venue[d].state = "done"}
  /\ UNCHANGED <<procVars, storeVars, venueVars, sent, crashes>>

-----------------------------------------------------------------------------
(* Crash, restart, operator. *)

(* The in-process venue dies with the bot: its open orders, and what it    *)
(* remembers of the orders the engine had not closed.                      *)
VenueDies ==
  /\ net' = {}
  /\ venue' = [d \in Decision |->
                 IF venue[d].state = "open" \/ (venue[d].state = "done" /\ d \in OpenRows)
                 THEN [venue[d] EXCEPT !.state = "lost"] ELSE venue[d]]

Crash ==
  /\ up /\ crashes < MaxCrashes
  /\ crashes' = crashes + 1
  /\ up' = FALSE
  /\ orders' = [d \in Decision |-> NoOrder]
  /\ used' = {}
  /\ violated' = FALSE
  /\ halted' = FALSE
  /\ pc' = "idle" /\ cur' = NoDecision /\ batch' = << >> /\ todo' = {}
  /\ adapter' = [d \in Decision |-> Untracked]
  /\ IF KeepsHistory THEN VenueDies ELSE UNCHANGED venueVars
  /\ UNCHANGED <<storeVars, sent, checked>>

(* load_open_orders(): every open row becomes UNKNOWN, on disk too; every  *)
(* decision that ever had an order counts as used.  A live session starts  *)
(* only when the venue lists no open order.                                *)
Restart ==
  /\ ~up
  /\ KeepsHistory \/ \A d \in Decision : venue[d].state # "open"
  /\ up' = TRUE
  /\ LET unknown(d) == [rows[d] EXCEPT !.status = "UNKNOWN"]
     IN /\ rows'   = [d \in Decision |-> IF d \in OpenRows THEN unknown(d) ELSE rows[d]]
        /\ orders' = [d \in Decision |-> IF d \in OpenRows THEN unknown(d) ELSE NoOrder]
  /\ used' = {d \in Decision : rows[d] # NoOrder}
  /\ UNCHANGED <<violated, halted, pc, cur, batch, todo, adapter, fills, audited, kill,
                 resolved, venueVars, sent, checked, crashes>>

(* Mutant: the operator's command deletes the row. *)
RowDeleted(d) ==
  /\ ~up /\ d \in OpenRows
  /\ d \notin net /\ venue[d].state # "open"
  /\ rows' = [rows EXCEPT ![d] = NoOrder]
  /\ resolved' = resolved \cup {d}
  /\ UNCHANGED <<procVars, fills, audited, kill, venueVars, sent, checked, crashes>>

(* "orders resolve-no-fill", with the bot stopped: the operator has seen   *)
(* that the order is not on the venue, or has flattened what it filled.    *)
OperatorResolves(d) ==
  /\ ~up /\ d \in OpenRows
  /\ d \notin net /\ venue[d].state # "open"
  /\ rows' = [rows EXCEPT ![d].status = "CANCELLED"]
  /\ resolved' = resolved \cup {d}
  /\ UNCHANGED <<procVars, fills, audited, kill, venueVars, sent, checked, crashes>>

-----------------------------------------------------------------------------
(* The venue and the network. *)

(* The in-process venue reports every order it accepted, acknowledged or   *)
(* not.                                                                    *)
VenueAccepts(d) ==
  /\ d \in net /\ venue[d].state = "none"
  /\ net' = net \ {d}
  /\ venue' = [venue EXCEPT ![d].state = "open"]
  /\ adapter' = IF KeepsHistory THEN [adapter EXCEPT ![d].on = TRUE] ELSE adapter
  /\ UNCHANGED <<up, orders, used, violated, halted, pc, cur, batch, todo, storeVars,
                 sent, checked, crashes>>

VenueRejects(d) ==
  /\ d \in net /\ venue[d].state = "none"
  /\ net' = net \ {d}
  /\ venue' = [venue EXCEPT ![d].state = "rejected"]
  /\ UNCHANGED <<procVars, storeVars, sent, checked, crashes>>

RequestLost(d) ==
  /\ d \in net
  /\ net' = net \ {d}
  /\ UNCHANGED <<procVars, storeVars, venue, sent, checked, crashes>>

Match(d) ==
  /\ venue[d].state = "open" /\ venue[d].matched < Size
  /\ venue' = [venue EXCEPT ![d].matched = @ + 1]
  /\ UNCHANGED <<procVars, storeVars, net, sent, checked, crashes>>

(* Fully matched, or the remainder of a FAK order killed, or cancelled. *)
VenueCloses(d) ==
  /\ venue[d].state = "open"
  /\ venue' = [venue EXCEPT ![d].state = "done"]
  /\ UNCHANGED <<procVars, storeVars, net, sent, checked, crashes>>

(* A matched trade is listed with a status of COUNTED_TRADE_STATUSES; one  *)
(* that stays RETRYING or FAILED never is.                                 *)
TradeCounts(d) ==
  /\ venue[d].counted < venue[d].matched
  /\ venue' = [venue EXCEPT ![d].counted = @ + 1]
  /\ UNCHANGED <<procVars, storeVars, net, sent, checked, crashes>>

-----------------------------------------------------------------------------
Engine ==
  \/ Submit \/ AckAccepted \/ AckAmbiguous \/ AckRejected \/ SubmitFails
  \/ PollStart \/ PollDone
  \/ \E d \in Decision : Execute(d)
  \/ \E d \in Decision : PollOrder(d)
  \/ \E d \in Decision : PollFails(d)
  \/ \E d \in Decision : ResolveUnknown(d)
  \/ \E d \in Decision : ResolveStuck(d)
  \/ RecordFill \/ BookFill \/ ApplyUpdate \/ ApplyDone
  \/ Reconcile

Outside ==
  \/ Crash \/ Restart
  \/ \E d \in Decision : OperatorResolves(d)
  \/ \E d \in Decision : VenueAccepts(d)
  \/ \E d \in Decision : VenueRejects(d)
  \/ \E d \in Decision : RequestLost(d)
  \/ \E d \in Decision : Match(d)
  \/ \E d \in Decision : VenueCloses(d)
  \/ \E d \in Decision : TradeCounts(d)

Next == Engine \/ Outside

Spec == Init /\ [][Next]_vars

(* The engine's task never stops while the process runs, the await on      *)
(* submit has a timeout, and every decision step polls, resolves UNKNOWN   *)
(* orders and reconciles: each of these is tried again and again, so an    *)
(* attempt that is possible infinitely often is made.                      *)
EngineFairness ==
  /\ WF_vars(Submit)
  /\ WF_vars(AckAccepted \/ AckAmbiguous \/ AckRejected \/ SubmitFails)
  /\ SF_vars(PollStart)
  /\ WF_vars(PollDone)
  /\ \A d \in Decision : WF_vars(PollOrder(d))
  /\ \A d \in Decision : SF_vars(ResolveUnknown(d) \/ ResolveStuck(d))
  /\ WF_vars(RecordFill \/ BookFill \/ ApplyUpdate \/ ApplyDone)
  /\ SF_vars(Reconcile)

(* A FAK or FOK order does not rest: the venue ends it. *)
VenueEndsOrders == \A d \in Decision : WF_vars(VenueCloses(d))

(* Every matched trade is eventually listed as a fill. *)
TradesSettle == \A d \in Decision : WF_vars(TradeCounts(d))

FairSpec == Spec /\ EngineFairness /\ VenueEndsOrders /\ TradesSettle

-----------------------------------------------------------------------------
(* Safety. *)

(* An approved decision is submitted to the venue at most once, whatever   *)
(* timeouts, lost acks, crashes and restarts happen in between.            *)
SubmittedOnce == \A d \in Decision : sent[d] <= 1

(* Whatever the venue may know of an order, the database knows too: the    *)
(* row is written before the request leaves, and no crash undoes it.       *)
WriteAhead ==
  \A d \in Decision :
    sent[d] > 0 \/ d \in net \/ venue[d].state # "none" => rows[d] # NoOrder

(* The number of orders that may still trade never exceeds the in-flight   *)
(* limit, counted in the durable table, across restarts.                   *)
InFlightBound == Cardinality(OpenRows) <= MaxInFlight

(* No share is applied to an order twice, and none the venue did not       *)
(* match, although fills are delivered by polling, by the UNKNOWN query    *)
(* and again after a restart.                                              *)
FillsAppliedOnce ==
  \A d \in Decision :
    /\ rows[d].filled <= Cardinality(FillsOf(d))
    /\ Cardinality(FillsOf(d)) <= venue[d].matched

(* A running engine and its database agree on every order that may still   *)
(* trade: nothing open is forgotten by load_open_orders or by a save.      *)
MemoryMirrorsStore ==
  up => \A d \in Decision :
          rows[d].status \in OpenStatus /\ ~(pc = "recorded" /\ cur = d)
            => orders[d] = rows[d]

(* Every event the venue delivers is for an order the running engine       *)
(* knows: _lookup never fails, so a correct venue never trips the kill     *)
(* switch, not after a lost acknowledgement and not after a restart.       *)
EventsAreKnown == \A i \in 1 .. Len(batch) : orders[batch[i].d] # NoOrder

(* An order is closed in the database only with every matched share        *)
(* applied and with the venue finished with it, unless an operator closed  *)
(* it or the audit log holds a violation for it.                           *)
ClosedComplete ==
  \A d \in Decision :
    rows[d].status \in TerminalStatus /\ d \notin resolved \cup audited
      => /\ venue[d].state \in {"done", "rejected"}
         /\ rows[d].filled = venue[d].matched
         /\ rows[d].status = "REJECTED" <=> venue[d].state = "rejected"

(* docs/architecture.md, decision step 1: an execution invariant that does *)
(* not hold engages the kill switch.  (The engine is between two batches.) *)
ViolationKills == up /\ pc = "idle" /\ audited # {} => kill

(* A submission is made only while no order is in an unknown state.        *)
NoSubmitWhileUnknown ==
  [][sent' # sent => up /\ UnknownOrders = {}]_vars

(* A closed order stays closed: no late event, restart or operator brings  *)
(* it back, and its applied shares only grow.                              *)
ClosedForever ==
  [][\A d \in Decision :
       /\ rows[d].status \in TerminalStatus => rows'[d].status = rows[d].status
       /\ rows'[d].filled >= rows[d].filled]_vars

-----------------------------------------------------------------------------
(* Refinement: the rows and the submissions behave as OrderOnce promises.  *)

Phase ==
  [d \in Decision |->
     IF rows[d] = NoOrder THEN "none"
     ELSE IF rows[d].status \in TerminalStatus THEN "closed"
     ELSE IF sent[d] = 0 THEN "recorded" ELSE "sent"]

Once == INSTANCE OrderOnce WITH phase <- Phase, sends <- sent

(* Across crashes, lost acks and operator actions every decision is        *)
(* recorded, then submitted at most once, then closed for good.            *)
ImplementsOrderOnce == Once!Spec

-----------------------------------------------------------------------------
(* Liveness. *)

Escalated == halted \/ kill \/ ~up

(* Every order of a running bot is closed in the end, or the bot is halted *)
(* for the operator.                                                       *)
EndsOrEscalates ==
  \A d \in Decision :
    (up /\ orders[d].status \in OpenStatus)
      ~> (rows[d].status \in TerminalStatus \/ Escalated)

(* polymarket_live.py:193, "RETRYING/FAILED are not fills (reconciliation  *)
(* catches reversals)": an order the venue has finished with is looked at  *)
(* by a reconciliation, or the operator is called.                         *)
FinishedIsReconciled ==
  \A d \in Decision :
    (up /\ venue[d].state = "done") ~> (d \in checked \/ Escalated)
=============================================================================
