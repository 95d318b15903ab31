--------------------------- MODULE ExecutionProofs ---------------------------
(***************************************************************************)
(* Proofs about Execution, for any finite set of decisions, any in-flight  *)
(* limit, any order size and any number of crashes.                        *)
(***************************************************************************)
EXTENDS Execution, FiniteSetTheorems, SequenceTheorems, TLAPS

(* Where the engine's task is fixes what it knows of the order it is       *)
(* working on.                                                             *)
TaskInv ==
  /\ pc # "idle" => up
  /\ pc \in {"recorded", "submitting"} => cur \in Decision
  /\ pc = "recorded" =>
       /\ rows[cur].status = "INTENT" /\ rows[cur].filled = 0
       /\ sent[cur] = 0 /\ orders[cur] = NoOrder
       /\ UnknownOrders = {}
  /\ pc = "submitting" => rows[cur].status = "SUBMITTING" /\ rows[cur].filled = 0
  /\ pc = "filling" => batch # << >> /\ orders[Head(batch).d] # NoOrder

(* What the process knows of an order is what the database says of it, and *)
(* it knows every open one.                                                *)
MirrorInv ==
  up => \A d \in Decision :
          /\ orders[d] # NoOrder => orders[d] = rows[d]
          /\ rows[d].status \in OpenStatus /\ ~(pc = "recorded" /\ cur = d)
               => orders[d] = rows[d]

(* No row: nothing was sent.  A row: it has a status, and at most one      *)
(* submission was made.                                                    *)
OnceInv ==
  \A d \in Decision :
    /\ sent[d] <= 1
    /\ rows[d].status = "NONE" => rows[d] = NoOrder
    /\ rows[d] = NoOrder => sent[d] = 0 /\ d \notin net /\ venue[d].state = "none"

IInv == TypeOK /\ TaskInv /\ MirrorInv /\ OnceInv

(* The events of one venue call are events, whichever trades they list. *)
LEMMA FillEventsType ==
  ASSUME NEW d \in Decision, NEW from \in 0 .. Size, NEW to \in 0 .. Size
  PROVE  FillEvents(d, from, to) \in Seq(Event)
<1> USE ExecutionAssumption
<1>1. CASE to < from
  <2>1. 1 .. (to - from) = {}
    BY <1>1, SMT
  <2>2. FillEvents(d, from, to) = << >>
    BY <2>1, SMT DEF FillEvents
  <2> QED BY <2>2
<1>2. CASE to >= from
  <2>1. to - from \in Nat
    BY <1>2, SMT DEF ExecutionAssumption
  <2>2. \A i \in 1 .. (to - from) :
          [type |-> "fill", d |-> d, k |-> from + i] \in Event
    BY SMT DEF Event, FillEvent, ExecutionAssumption
  <2> QED BY <2>1, <2>2, SMT DEF FillEvents
<1> QED BY <1>1, <1>2, SMT DEF ExecutionAssumption

(* The terminal update of a venue order is an event.                       *)
LEMMA TerminalEventType ==
  ASSUME NEW d \in Decision, NEW cum \in 0 .. Size
  PROVE  TerminalEvent(d, cum) \in Event
BY SMT DEF TerminalEvent, Event, UpdateEvent, OpenStatus, TerminalStatus

(* Booking a fill makes an order record out of an order record.            *)
LEMMA BookedRecord ==
  ASSUME NEW rec \in OrderRecord, NEW s \in Status
  PROVE  /\ [status |-> s, filled |-> rec.filled + 1, xid |-> rec.xid] \in OrderRecord
         /\ [status |-> s, filled |-> rec.filled + 1, xid |-> rec.xid] # NoOrder
<1>1. rec.filled \in Nat
  BY DEF OrderRecord
<1>2. [status |-> s, filled |-> rec.filled + 1, xid |-> rec.xid] \in OrderRecord
  BY <1>1 DEF OrderRecord
<1>3. [status |-> s, filled |-> rec.filled + 1, xid |-> rec.xid] # NoOrder
  BY <1>1 DEF NoOrder
<1> QED BY <1>2, <1>3

(* So does applying an update.                                             *)
LEMMA UpdatedRecord ==
  ASSUME NEW rec \in OrderRecord, NEW s \in OpenStatus \cup TerminalStatus
  PROVE  /\ [rec EXCEPT !.status = s] \in OrderRecord
         /\ [rec EXCEPT !.status = s].status = s
         /\ [rec EXCEPT !.status = s] # NoOrder
         /\ [rec EXCEPT !.status = s, !.xid = TRUE] \in OrderRecord
         /\ [rec EXCEPT !.status = s, !.xid = TRUE].status = s
         /\ [rec EXCEPT !.status = s, !.xid = TRUE] # NoOrder
<1>1. s \in Status /\ s # "NONE"
  BY DEF Status, OpenStatus, TerminalStatus
<1>2. /\ [rec EXCEPT !.status = s] \in OrderRecord
      /\ [rec EXCEPT !.status = s].status = s
  BY <1>1 DEF OrderRecord
<1>3. /\ [rec EXCEPT !.status = s, !.xid = TRUE] \in OrderRecord
      /\ [rec EXCEPT !.status = s, !.xid = TRUE].status = s
  BY <1>1 DEF OrderRecord
<1> QED BY <1>1, <1>2, <1>3 DEF NoOrder

(* Records of the venue and of the adapter keep their shape. *)
LEMMA VenueFacts ==
  /\ \A v \in VenueOrder :
       /\ v.matched \in 0 .. Size /\ v.counted \in 0 .. Size
       /\ \A s \in {"none", "open", "done", "rejected", "lost"} :
            /\ [v EXCEPT !.state = s] \in VenueOrder
            /\ [v EXCEPT !.state = s].state = s
       /\ \A n \in 0 .. Size :
            /\ [v EXCEPT !.matched = n] \in VenueOrder
            /\ [v EXCEPT !.matched = n].state = v.state
            /\ [v EXCEPT !.counted = n] \in VenueOrder
            /\ [v EXCEPT !.counted = n].state = v.state
  /\ Untracked \in Tracked
  /\ \A t \in Tracked :
       /\ t.seen \in 0 .. Size
       /\ \A n \in 0 .. Size, b \in BOOLEAN :
            /\ [t EXCEPT !.on = b] \in Tracked
            /\ [t EXCEPT !.seen = n] \in Tracked
            /\ [t EXCEPT !.seen = n, !.done = b] \in Tracked
<1>1. Size \in Nat
  BY ExecutionAssumption DEF ExecutionAssumption
<1>2. \A v \in VenueOrder : v.matched \in 0 .. Size /\ v.counted \in 0 .. Size
  BY DEF VenueOrder
<1>3. ASSUME NEW v \in VenueOrder, NEW s \in {"none", "open", "done", "rejected", "lost"}
      PROVE  [v EXCEPT !.state = s] \in VenueOrder /\ [v EXCEPT !.state = s].state = s
  BY DEF VenueOrder
<1>4. ASSUME NEW v \in VenueOrder, NEW n \in 0 .. Size
      PROVE  /\ [v EXCEPT !.matched = n] \in VenueOrder
             /\ [v EXCEPT !.matched = n].state = v.state
             /\ [v EXCEPT !.counted = n] \in VenueOrder
             /\ [v EXCEPT !.counted = n].state = v.state
  BY DEF VenueOrder
<1>5. Untracked \in Tracked
  BY <1>1 DEF Tracked, Untracked
<1>6. ASSUME NEW t \in Tracked, NEW n \in 0 .. Size, NEW b \in BOOLEAN
      PROVE  /\ [t EXCEPT !.on = b] \in Tracked
             /\ [t EXCEPT !.seen = n] \in Tracked
             /\ [t EXCEPT !.seen = n, !.done = b] \in Tracked
  BY DEF Tracked
<1>7. \A t \in Tracked : t.seen \in 0 .. Size
  BY DEF Tracked
<1> QED BY <1>2, <1>3, <1>4, <1>5, <1>6, <1>7

(* The head of a batch is an event for a decision. *)
LEMMA HeadFacts ==
  ASSUME batch \in Seq(Event), batch # << >>
  PROVE  /\ Tail(batch) \in Seq(Event)
         /\ Head(batch) \in Event
         /\ Head(batch).d \in Decision
         /\ Head(batch).type = "fill" => Head(batch).k \in 1 .. Size
         /\ Head(batch).type = "update" =>
              /\ Head(batch).status \in OpenStatus \cup TerminalStatus
              /\ Head(batch).cum \in 0 .. Size
<1>1. Head(batch) \in Event /\ Tail(batch) \in Seq(Event)
  OBVIOUS
<1> QED BY <1>1 DEF Event, FillEvent, UpdateEvent

(* What poll_events adds at the end of an order is a sequence of events.   *)
LEMMA EndingType ==
  ASSUME NEW d \in Decision, NEW cum \in 0 .. Size, NEW ends \in BOOLEAN
  PROVE  (IF ends THEN <<TerminalEvent(d, cum)>> ELSE << >>) \in Seq(Event)
BY TerminalEventType, SMT

(* What a save leaves in memory and in the database. *)
LEMMA SaveFacts ==
  ASSUME NEW d \in Decision, NEW rec, Save(d, rec),
         orders \in [Decision -> OrderRecord], rows \in [Decision -> OrderRecord]
  PROVE  /\ \A e \in Decision : orders'[e] = IF e = d THEN rec ELSE orders[e]
         /\ \A e \in Decision : rows'[e] = IF e = d THEN rec ELSE rows[e]
         /\ rec \in OrderRecord => /\ orders' \in [Decision -> OrderRecord]
                                   /\ rows' \in [Decision -> OrderRecord]
BY DEF Save

(* The records the engine saves are order records, and no NoOrder. *)
LEMMA RecordFacts ==
  /\ NoOrder \in OrderRecord /\ NoOrder.status = "NONE" /\ NoOrder.filled = 0
  /\ \A s \in OpenStatus \cup TerminalStatus :
       /\ [NoOrder EXCEPT !.status = s] \in OrderRecord
       /\ [NoOrder EXCEPT !.status = s].status = s
       /\ [NoOrder EXCEPT !.status = s].filled = 0
       /\ \A x \in BOOLEAN :
            [status |-> s, filled |-> 0, xid |-> x] \in OrderRecord
  /\ \A rec \in OrderRecord, s \in OpenStatus \cup TerminalStatus :
       /\ [rec EXCEPT !.status = s] \in OrderRecord
       /\ [rec EXCEPT !.status = s].status = s
       /\ [rec EXCEPT !.status = s].filled = rec.filled
       /\ [rec EXCEPT !.status = s, !.xid = TRUE] \in OrderRecord
       /\ [rec EXCEPT !.status = s, !.xid = TRUE].status = s
       /\ [rec EXCEPT !.status = s, !.xid = TRUE].filled = rec.filled
  /\ "NONE" \notin OpenStatus \cup TerminalStatus
  /\ OpenStatus \cap TerminalStatus = {}
BY ZenonT(40) DEF NoOrder, OrderRecord, Status, OpenStatus, TerminalStatus

(* Every step of the engine, the venue, the network and the operator keeps *)
(* the inductive invariant.                                                *)
LEMMA Inductive == IInv /\ [Next]_vars => IInv'
<1> SUFFICES ASSUME IInv, [Next]_vars PROVE IInv'
  OBVIOUS
<1> USE DEF IInv
<1>1. ASSUME NEW d \in Decision, Execute(d) PROVE IInv'
  <2>1. TypeOK'
    BY <1>1, RecordFacts DEF Execute, MayExecute, TypeOK, OpenStatus, procVars, storeVars, venueVars
  <2>2. TaskInv'
    <3>1. orders[d] = NoOrder /\ sent[d] = 0
      BY <1>1 DEF Execute, MayExecute, TypeOK, MirrorInv, OnceInv
    <3>3. rows'[d] = [NoOrder EXCEPT !.status = "INTENT"]
      BY <1>1 DEF Execute, MayExecute, TypeOK
    <3>4. rows'[d].status = "INTENT" /\ rows'[d].filled = 0
      BY <3>3 DEF NoOrder
    <3> QED BY <1>1, <3>1, <3>4 DEF Execute, MayExecute, TaskInv, UnknownOrders, procVars
  <2>3. MirrorInv'
    BY <1>1, RecordFacts DEF Execute, MayExecute, TypeOK, TaskInv, MirrorInv
  <2>4. OnceInv'
    BY ZenonT(40), <1>1, RecordFacts DEF Execute, MayExecute, TypeOK, OnceInv, OpenStatus, venueVars
  <2> QED BY <2>1, <2>2, <2>3, <2>4
<1>2. ASSUME Submit PROVE IInv'
  <2> DEFINE rec == [NoOrder EXCEPT !.status = "SUBMITTING"]
  <2>0. cur \in Decision /\ Save(cur, rec) /\ rec \in OrderRecord
        /\ rec.status = "SUBMITTING" /\ rec.filled = 0
    BY <1>2, RecordFacts DEF Submit, TaskInv, OpenStatus
  <2> HIDE DEF rec
  <2>5. /\ \A e \in Decision : orders'[e] = IF e = cur THEN rec ELSE orders[e]
        /\ \A e \in Decision : rows'[e] = IF e = cur THEN rec ELSE rows[e]
        /\ orders' \in [Decision -> OrderRecord] /\ rows' \in [Decision -> OrderRecord]
    BY <2>0, SaveFacts DEF TypeOK
  <2>6. \A e \in Decision : sent'[e] = IF e = cur THEN sent[e] + 1 ELSE sent[e]
    BY <1>2 DEF Submit, TypeOK
  <2>1. TypeOK'
    <3>1. net' \in SUBSET Decision /\ sent' \in [Decision -> Nat]
      BY <1>2, <2>0 DEF Submit, TypeOK
    <3> QED BY <1>2, <2>0, <2>5, <3>1 DEF Submit, TypeOK
  <2>2. TaskInv'
    BY <1>2, <2>0, <2>5 DEF Submit, TaskInv
  <2>3. MirrorInv'
    BY <1>2, <2>5 DEF Submit, MirrorInv
  <2>4. OnceInv'
    <3>1. rec # NoOrder
      BY <2>0 DEF NoOrder
    <3>2. sent'[cur] = 1
      BY <1>2, <2>0, <2>6 DEF Submit, TaskInv
    <3> QED BY <1>2, <2>0, <2>5, <2>6, <3>1, <3>2 DEF Submit, OnceInv
  <2> QED BY <2>1, <2>2, <2>3, <2>4
<1>3. ASSUME NEW rec \in OrderRecord, rec.status # "NONE", SubmitReturns(rec),
            adapter' \in [Decision -> Tracked]
     PROVE  IInv'
  <2>0. cur \in Decision /\ Save(cur, rec) /\ rec # NoOrder
    BY <1>3, RecordFacts DEF SubmitReturns, TaskInv
  <2>5. /\ \A e \in Decision : orders'[e] = IF e = cur THEN rec ELSE orders[e]
        /\ \A e \in Decision : rows'[e] = IF e = cur THEN rec ELSE rows[e]
        /\ orders' \in [Decision -> OrderRecord] /\ rows' \in [Decision -> OrderRecord]
    BY <2>0, SaveFacts DEF TypeOK
  <2>1. TypeOK'
    BY <1>3, <2>5 DEF SubmitReturns, TypeOK, venueVars
  <2>2. TaskInv'
    BY <1>3 DEF SubmitReturns, TaskInv
  <2>3. MirrorInv'
    BY <1>3, <2>5 DEF SubmitReturns, MirrorInv
  <2>4. OnceInv'
    BY <1>3, <2>0, <2>5 DEF SubmitReturns, TaskInv, OnceInv, venueVars
  <2> QED BY <2>1, <2>2, <2>3, <2>4
<1>4. ASSUME AckAccepted PROVE IInv'
  <2>1. \E rec \in OrderRecord : rec.status # "NONE" /\ SubmitReturns(rec)
    BY <1>4, RecordFacts DEF AckAccepted, OpenStatus, TerminalStatus
  <2>2. adapter' \in [Decision -> Tracked]
    BY <1>4, VenueFacts DEF AckAccepted, TypeOK
  <2> QED BY <1>3, <2>1, <2>2
<1>5. ASSUME AckAmbiguous PROVE IInv'
  <2>1. \E rec \in OrderRecord : rec.status # "NONE" /\ SubmitReturns(rec)
    BY <1>5, RecordFacts DEF AckAmbiguous, OpenStatus, TerminalStatus
  <2>2. adapter' \in [Decision -> Tracked]
    BY <1>5, VenueFacts DEF AckAmbiguous, TypeOK
  <2> QED BY <1>3, <2>1, <2>2
<1>6. ASSUME AckRejected PROVE IInv'
  <2>1. \E rec \in OrderRecord : rec.status # "NONE" /\ SubmitReturns(rec)
    BY <1>6, RecordFacts DEF AckRejected, OpenStatus, TerminalStatus
  <2>2. adapter' \in [Decision -> Tracked]
    BY <1>6, VenueFacts DEF AckRejected, TypeOK
  <2> QED BY <1>3, <2>1, <2>2
<1>7. ASSUME SubmitFails PROVE IInv'
  <2>1. \E rec \in OrderRecord : rec.status # "NONE" /\ SubmitReturns(rec)
    BY <1>7, RecordFacts DEF SubmitFails, OpenStatus, TerminalStatus
  <2>2. adapter' \in [Decision -> Tracked]
    BY <1>7, VenueFacts DEF SubmitFails, TypeOK
  <2> QED BY <1>3, <2>1, <2>2
<1>8. ASSUME PollStart PROVE IInv'
  <2>1. TypeOK'
    BY <1>8 DEF PollStart, TypeOK, procVars, storeVars, venueVars
  <2>2. TaskInv'
    BY <1>8, RecordFacts DEF PollStart, TypeOK, TaskInv, UnknownOrders, procVars, storeVars, venueVars
  <2>3. MirrorInv'
    BY <1>8, RecordFacts DEF PollStart, TypeOK, TaskInv, MirrorInv, procVars, storeVars, venueVars
  <2>4. OnceInv'
    BY <1>8, RecordFacts DEF PollStart, TypeOK, TaskInv, OnceInv, procVars, storeVars, venueVars
  <2> QED BY <2>1, <2>2, <2>3, <2>4
<1>9. ASSUME NEW d \in Decision, PollOrder(d) PROVE IInv'
  <2>1. TypeOK'
    <3> DEFINE ends == venue[d].state = "done" /\ venue[d].counted >= venue[d].matched
    <3>1. adapter[d].seen \in 0 .. Size /\ venue[d].counted \in 0 .. Size
      BY VenueFacts DEF TypeOK
    <3>2. adapter' \in [Decision -> Tracked]
      BY <1>9, <3>1, VenueFacts DEF PollOrder, TypeOK
    <3>3. batch' \in Seq(Event)
      <4>1. FillEvents(d, adapter[d].seen, venue[d].counted) \in Seq(Event)
        BY <3>1, FillEventsType
      <4>2. (IF ends THEN <<TerminalEvent(d, venue[d].counted)>> ELSE << >>) \in Seq(Event)
        BY <3>1, EndingType
      <4>3. batch \in Seq(Event)
        BY DEF TypeOK
      <4> QED BY <1>9, <4>1, <4>2, <4>3 DEF PollOrder
    <3> QED BY <1>9, <3>2, <3>3 DEF PollOrder, TypeOK, procVars, storeVars, venueVars
  <2>2. TaskInv'
    BY <1>9, RecordFacts DEF PollOrder, TypeOK, TaskInv, UnknownOrders, procVars, storeVars, venueVars
  <2>3. MirrorInv'
    BY <1>9, RecordFacts DEF PollOrder, TypeOK, TaskInv, MirrorInv, procVars, storeVars, venueVars
  <2>4. OnceInv'
    BY <1>9, RecordFacts DEF PollOrder, TypeOK, TaskInv, OnceInv, procVars, storeVars, venueVars
  <2> QED BY <2>1, <2>2, <2>3, <2>4
<1>10. ASSUME NEW d \in Decision, PollFails(d) PROVE IInv'
  <2>1. TypeOK'
    <3>1. PICK n \in adapter[d].seen .. venue[d].counted :
            adapter' = [adapter EXCEPT ![d].seen = n]
      BY <1>10 DEF PollFails
    <3>2. n \in 0 .. Size
      <4>1. adapter[d] \in Tracked /\ venue[d] \in VenueOrder
        BY DEF TypeOK
      <4>2. adapter[d].seen \in 0 .. Size /\ venue[d].counted \in 0 .. Size
        BY <4>1, VenueFacts
      <4> QED BY <4>2, ExecutionAssumption DEF ExecutionAssumption
    <3>3. adapter' \in [Decision -> Tracked]
      BY <3>1, <3>2, VenueFacts DEF TypeOK
    <3> QED BY <1>10, <3>3 DEF PollFails, TypeOK, procVars, storeVars, venueVars
  <2>2. TaskInv'
    BY <1>10, RecordFacts DEF PollFails, TypeOK, TaskInv, UnknownOrders, procVars, storeVars, venueVars
  <2>3. MirrorInv'
    BY <1>10, RecordFacts DEF PollFails, TypeOK, TaskInv, MirrorInv, procVars, storeVars, venueVars
  <2>4. OnceInv'
    BY <1>10, RecordFacts DEF PollFails, TypeOK, TaskInv, OnceInv, procVars, storeVars, venueVars
  <2> QED BY <2>1, <2>2, <2>3, <2>4
<1>11. ASSUME PollDone PROVE IInv'
  <2>1. TypeOK'
    BY <1>11 DEF PollDone, TypeOK, procVars, storeVars, venueVars
  <2>2. TaskInv'
    BY <1>11, RecordFacts DEF PollDone, TypeOK, TaskInv, UnknownOrders, procVars, storeVars, venueVars
  <2>3. MirrorInv'
    BY <1>11, RecordFacts DEF PollDone, TypeOK, TaskInv, MirrorInv, procVars, storeVars, venueVars
  <2>4. OnceInv'
    BY <1>11, RecordFacts DEF PollDone, TypeOK, TaskInv, OnceInv, procVars, storeVars, venueVars
  <2> QED BY <2>1, <2>2, <2>3, <2>4
<1>12. ASSUME NEW d \in Decision, ResolveUnknown(d) PROVE IInv'
  <2>1. TypeOK'
    <3>1. venue[d].counted \in 0 .. Size /\ venue[d].matched \in 0 .. Size /\ 0 \in 0 .. Size
      <4>1. venue[d] \in VenueOrder
        BY DEF TypeOK
      <4>2. Size \in Nat
        BY ExecutionAssumption DEF ExecutionAssumption
      <4>3. venue[d].counted \in 0 .. Size /\ venue[d].matched \in 0 .. Size
        BY <4>1, VenueFacts
      <4> QED BY <4>2, <4>3
    <3>2. FillEvents(d, 0, venue[d].counted) \in Seq(Event)
      BY <3>1, FillEventsType
    <3>3. (IF venue[d].state = "done" /\ venue[d].counted >= venue[d].matched
           THEN <<TerminalEvent(d, venue[d].counted)>> ELSE << >>) \in Seq(Event)
      BY <3>1, EndingType
    <3>4. [type |-> "update", d |-> d, cum |-> venue[d].matched, status |-> "LIVE"] \in Event
      BY <3>1 DEF Event, UpdateEvent, OpenStatus
    <3>5. FoundEvents(d) \in Seq(Event)
      BY <3>2, <3>3, <3>4 DEF FoundEvents
    <3> QED BY <1>12, <3>5 DEF ResolveUnknown, TypeOK, procVars, storeVars, venueVars
  <2>2. TaskInv'
    BY <1>12, RecordFacts DEF ResolveUnknown, TypeOK, TaskInv, UnknownOrders, procVars, storeVars, venueVars
  <2>3. MirrorInv'
    BY <1>12, RecordFacts DEF ResolveUnknown, TypeOK, TaskInv, MirrorInv, procVars, storeVars, venueVars
  <2>4. OnceInv'
    BY <1>12, RecordFacts DEF ResolveUnknown, TypeOK, TaskInv, OnceInv, procVars, storeVars, venueVars
  <2> QED BY <2>1, <2>2, <2>3, <2>4
<1>13. ASSUME NEW d \in Decision, ResolveStuck(d) PROVE IInv'
  <2>1. TypeOK'
    BY <1>13 DEF ResolveStuck, TypeOK, procVars, storeVars, venueVars
  <2>2. TaskInv'
    BY <1>13, RecordFacts DEF ResolveStuck, TypeOK, TaskInv, UnknownOrders, procVars, storeVars, venueVars
  <2>3. MirrorInv'
    BY <1>13, RecordFacts DEF ResolveStuck, TypeOK, TaskInv, MirrorInv, procVars, storeVars, venueVars
  <2>4. OnceInv'
    BY <1>13, RecordFacts DEF ResolveStuck, TypeOK, TaskInv, OnceInv, procVars, storeVars, venueVars
  <2> QED BY <2>1, <2>2, <2>3, <2>4
<1>14. ASSUME RecordFill PROVE IInv'
  <2>0. /\ Head(batch).d \in Decision /\ Head(batch).k \in 1 .. Size
        /\ Tail(batch) \in Seq(Event)
    BY <1>14, HeadFacts DEF RecordFill, Fresh, TypeOK
  <2>1. TypeOK'
    <3>1. /\ fills' \in SUBSET (Decision \X (1 .. Size))
          /\ batch' \in Seq(Event)
      BY <1>14, <2>0 DEF RecordFill, Fresh, TypeOK
    <3>2. violated' \in BOOLEAN /\ audited' \in SUBSET Decision
      BY <1>14, <2>0 DEF RecordFill, Fresh, Violation, TypeOK
    <3>3. pc' \in {"filling", "applying"}
      BY <1>14 DEF RecordFill, Fresh
    <3> QED BY <1>14, <3>1, <3>2, <3>3 DEF RecordFill, Fresh, TypeOK, venueVars
  <2>2. TaskInv'
    BY <1>14, RecordFacts DEF RecordFill, Fresh, Violation, TypeOK, TaskInv, UnknownOrders, procVars, storeVars, venueVars
  <2>3. MirrorInv'
    BY <1>14, RecordFacts DEF RecordFill, Fresh, Violation, TypeOK, TaskInv, MirrorInv, procVars, storeVars, venueVars
  <2>4. OnceInv'
    BY <1>14, RecordFacts DEF RecordFill, Fresh, Violation, TypeOK, TaskInv, OnceInv, procVars, storeVars, venueVars
  <2> QED BY <2>1, <2>2, <2>3, <2>4
<1>15. ASSUME BookFill PROVE IInv'
  <2> DEFINE d == Head(batch).d
             st == IF orders[d].status \in {"UNKNOWN", "LIVE", "SUBMITTING"}
                   THEN "PARTIALLY_FILLED" ELSE orders[d].status
             rec == [status |-> st, filled |-> orders[d].filled + 1, xid |-> orders[d].xid]
  <2>0. /\ batch # << >> /\ d \in Decision /\ Tail(batch) \in Seq(Event)
        /\ orders[d] # NoOrder /\ orders[d] = rows[d] /\ orders[d] \in OrderRecord
    BY <1>15, HeadFacts DEF BookFill, TypeOK, TaskInv, MirrorInv
  <2>5. /\ rec \in OrderRecord /\ rec # NoOrder /\ rec.status # "NONE"
    <3>1. st \in Status /\ st # "NONE"
      BY <2>0 DEF OrderRecord, Status, OpenStatus, OnceInv
    <3>2. rec.status = st
      OBVIOUS
    <3> HIDE DEF st, d
    <3> QED BY <2>0, <3>1, <3>2, BookedRecord
  <2>6. Save(d, rec)
    BY <1>15 DEF BookFill
  <2> HIDE DEF rec, d
  <2>7. /\ \A e \in Decision : orders'[e] = IF e = d THEN rec ELSE orders[e]
        /\ \A e \in Decision : rows'[e] = IF e = d THEN rec ELSE rows[e]
        /\ orders' \in [Decision -> OrderRecord] /\ rows' \in [Decision -> OrderRecord]
    BY <2>0, <2>5, <2>6, SaveFacts DEF TypeOK
  <2>1. TypeOK'
    BY <1>15, <2>0, <2>7 DEF BookFill, TypeOK, procVars, storeVars, venueVars
  <2>2. TaskInv'
    BY <1>15 DEF BookFill, TaskInv
  <2>3. MirrorInv'
    BY <1>15, <2>7 DEF BookFill, MirrorInv
  <2>4. OnceInv'
    BY <1>15, <2>0, <2>5, <2>7 DEF BookFill, OnceInv, procVars, storeVars, venueVars
  <2> QED BY <2>1, <2>2, <2>3, <2>4
<1>16. ASSUME ApplyUpdate PROVE IInv'
  <2> DEFINE ev == Head(batch)
             st == IF ev.status = "CANCELLED" /\ orders[ev.d].filled >= Size
                   THEN "FILLED" ELSE ev.status
             rec == [orders[ev.d] EXCEPT !.status = st, !.xid = TRUE]
  <2>0. /\ ev.d \in Decision /\ Tail(batch) \in Seq(Event)
        /\ st \in OpenStatus \cup TerminalStatus
        /\ orders[ev.d] \in OrderRecord
    BY <1>16, HeadFacts DEF ApplyUpdate, TypeOK, TerminalStatus
  <2>5. rec \in OrderRecord /\ rec # NoOrder /\ rec.status # "NONE"
    <3> HIDE DEF st, ev
    <3> QED BY <2>0, UpdatedRecord, RecordFacts
  <2>6. \/ UNCHANGED <<orders, rows>>
        \/ Save(ev.d, rec) /\ orders[ev.d] # NoOrder
    BY <1>16 DEF ApplyUpdate
  <2>7. UNCHANGED <<up, used, halted, pc, cur, todo, adapter, fills, kill, resolved,
                    venueVars, sent, checked, crashes>>
        /\ pc = "applying" /\ batch' = Tail(batch)
    BY <1>16 DEF ApplyUpdate
  <2>8. violated' \in BOOLEAN /\ audited' \in SUBSET Decision
    BY <1>16, <2>0 DEF ApplyUpdate, Violation, TypeOK
  <2> HIDE DEF rec, st, ev
  <2>9. CASE UNCHANGED <<orders, rows>>
    BY <2>0, <2>7, <2>8, <2>9 DEF TypeOK, TaskInv, MirrorInv, OnceInv, UnknownOrders, venueVars
  <2>10. CASE Save(ev.d, rec) /\ orders[ev.d] # NoOrder
    <3>1. /\ \A e \in Decision : orders'[e] = IF e = ev.d THEN rec ELSE orders[e]
          /\ \A e \in Decision : rows'[e] = IF e = ev.d THEN rec ELSE rows[e]
          /\ orders' \in [Decision -> OrderRecord] /\ rows' \in [Decision -> OrderRecord]
      BY <2>0, <2>5, <2>10, SaveFacts DEF TypeOK
    <3>2. TypeOK'
      BY <2>0, <2>7, <2>8, <3>1 DEF TypeOK, venueVars
    <3>3. TaskInv'
      BY <2>7 DEF TaskInv
    <3>4. MirrorInv'
      BY <2>7, <3>1 DEF MirrorInv
    <3>5. OnceInv'
      BY <2>0, <2>5, <2>7, <2>10, <3>1 DEF MirrorInv, TaskInv, OnceInv, venueVars
    <3> QED BY <3>2, <3>3, <3>4, <3>5
  <2> QED BY <2>6, <2>9, <2>10
<1>17. ASSUME ApplyDone PROVE IInv'
  <2>1. TypeOK'
    BY <1>17 DEF ApplyDone, TypeOK, procVars, storeVars, venueVars
  <2>2. TaskInv'
    BY <1>17, RecordFacts DEF ApplyDone, TypeOK, TaskInv, UnknownOrders, procVars, storeVars, venueVars
  <2>3. MirrorInv'
    BY <1>17, RecordFacts DEF ApplyDone, TypeOK, TaskInv, MirrorInv, procVars, storeVars, venueVars
  <2>4. OnceInv'
    BY <1>17, RecordFacts DEF ApplyDone, TypeOK, TaskInv, OnceInv, procVars, storeVars, venueVars
  <2> QED BY <2>1, <2>2, <2>3, <2>4
<1>18. ASSUME Reconcile PROVE IInv'
  <2>1. TypeOK'
    BY <1>18 DEF Reconcile, TypeOK, procVars, storeVars, venueVars
  <2>2. TaskInv'
    BY <1>18, RecordFacts DEF Reconcile, TypeOK, TaskInv, UnknownOrders, procVars, storeVars, venueVars
  <2>3. MirrorInv'
    BY <1>18, RecordFacts DEF Reconcile, TypeOK, TaskInv, MirrorInv, procVars, storeVars, venueVars
  <2>4. OnceInv'
    BY <1>18, RecordFacts DEF Reconcile, TypeOK, TaskInv, OnceInv, procVars, storeVars, venueVars
  <2> QED BY <2>1, <2>2, <2>3, <2>4
<1>19. ASSUME Crash PROVE IInv'
  <2>5. /\ venue' \in [Decision -> VenueOrder] /\ net' \in SUBSET net
        /\ \A d \in Decision : venue[d].state = "none" => venue'[d].state = "none"
    <3>1. CASE KeepsHistory
      <4>1. \A d \in Decision : [venue[d] EXCEPT !.state = "lost"] \in VenueOrder
        BY VenueFacts DEF TypeOK
      <4>2. venue \in [Decision -> VenueOrder] /\ net \in SUBSET Decision
        BY DEF TypeOK
      <4> QED BY <1>19, <3>1, <4>1, <4>2 DEF Crash, VenueDies
    <3>2. CASE ~KeepsHistory
      BY <1>19, <3>2 DEF Crash, TypeOK, venueVars
    <3> QED BY <3>1, <3>2
  <2>1. TypeOK'
    <3>1. orders' \in [Decision -> OrderRecord] /\ adapter' \in [Decision -> Tracked]
      BY <1>19, RecordFacts, VenueFacts DEF Crash
    <3>2. crashes' \in Nat
      BY <1>19 DEF Crash, TypeOK
    <3>3. batch' \in Seq(Event)
      BY <1>19 DEF Crash
    <3> QED BY <1>19, <2>5, <3>1, <3>2, <3>3 DEF Crash, TypeOK, storeVars
  <2>4. OnceInv'
    BY <1>19, <2>5 DEF Crash, TypeOK, OnceInv, storeVars
  <2>2. TaskInv'
    BY <1>19, RecordFacts DEF Crash, TypeOK, TaskInv, UnknownOrders, procVars, storeVars, venueVars
  <2>3. MirrorInv'
    BY <1>19, RecordFacts DEF Crash, TypeOK, TaskInv, MirrorInv, procVars, storeVars, venueVars
  <2> QED BY <2>1, <2>2, <2>3, <2>4
<1>20. ASSUME Restart PROVE IInv'
  <2> DEFINE unknown(d) == [rows[d] EXCEPT !.status = "UNKNOWN"]
  <2>0. \A d \in Decision :
          /\ unknown(d) \in OrderRecord
          /\ unknown(d).status = "UNKNOWN" /\ unknown(d) # NoOrder
    <3>1. "UNKNOWN" \in OpenStatus
      BY DEF OpenStatus
    <3>2. \A d \in Decision : rows[d] \in OrderRecord
      BY DEF TypeOK
    <3> QED BY <3>1, <3>2, UpdatedRecord
  <2>5. \A d \in Decision :
          /\ rows'[d] = IF d \in OpenRows THEN unknown(d) ELSE rows[d]
          /\ orders'[d] = IF d \in OpenRows THEN unknown(d) ELSE NoOrder
    BY <1>20 DEF Restart
  <2>6. pc = "idle" /\ UNCHANGED <<pc, cur, batch, sent, net, venue>>
    BY <1>20 DEF Restart, TaskInv, venueVars
  <2>7. /\ rows' \in [Decision -> OrderRecord]
        /\ orders' \in [Decision -> OrderRecord]
        /\ used' \in SUBSET Decision
    <3>1. rows \in [Decision -> OrderRecord] /\ NoOrder \in OrderRecord
      BY RecordFacts DEF TypeOK
    <3> QED BY <1>20, <2>0, <3>1 DEF Restart
  <2> HIDE DEF unknown
  <2>1. TypeOK'
    BY <1>20, <2>7 DEF Restart, TypeOK, venueVars
  <2>2. TaskInv'
    BY <2>6 DEF TaskInv
  <2>3. MirrorInv'
    BY <2>0, <2>5, <2>6 DEF MirrorInv, OpenRows
  <2>4. OnceInv'
    <3>1. \A d \in Decision :
            /\ rows'[d] = NoOrder => rows[d] = NoOrder
            /\ rows'[d].status = "NONE" => rows'[d] = rows[d]
      BY <2>0, <2>5
    <3> QED BY <2>6, <3>1 DEF OnceInv
  <2> QED BY <2>1, <2>2, <2>3, <2>4
<1>21. ASSUME NEW d \in Decision, OperatorResolves(d) PROVE IInv'
  <2>5. /\ rows' \in [Decision -> OrderRecord]
        /\ \A e \in Decision : rows'[e] = NoOrder => rows[e] = NoOrder
    <3> DEFINE rec == [rows[d] EXCEPT !.status = "CANCELLED"]
    <3>1. rows[d] \in OrderRecord /\ "CANCELLED" \in TerminalStatus
      BY DEF TypeOK, TerminalStatus
    <3>2. rec \in OrderRecord /\ rec # NoOrder
      BY ZenonT(40), <3>1, RecordFacts
    <3>3. rows' = [rows EXCEPT ![d] = rec]
      BY <1>21 DEF OperatorResolves
    <3> HIDE DEF rec
    <3> QED BY <3>2, <3>3 DEF TypeOK
  <2>1. TypeOK'
    BY <1>21, <2>5 DEF OperatorResolves, TypeOK, procVars, venueVars
  <2>4. OnceInv'
    BY <1>21, <2>5 DEF OperatorResolves, OnceInv, procVars, venueVars
  <2>2. TaskInv'
    BY <1>21, RecordFacts DEF OperatorResolves, TypeOK, TaskInv, UnknownOrders, procVars, storeVars, venueVars
  <2>3. MirrorInv'
    BY <1>21, RecordFacts DEF OperatorResolves, TypeOK, TaskInv, MirrorInv, procVars, storeVars, venueVars
  <2> QED BY <2>1, <2>2, <2>3, <2>4
<1>22. ASSUME NEW d \in Decision, VenueAccepts(d) PROVE IInv'
  <2>1. TypeOK'
    BY <1>22, VenueFacts DEF VenueAccepts, TypeOK, procVars, storeVars, venueVars
  <2>2. TaskInv'
    BY <1>22, RecordFacts DEF VenueAccepts, TypeOK, TaskInv, UnknownOrders, procVars, storeVars, venueVars
  <2>3. MirrorInv'
    BY <1>22, RecordFacts DEF VenueAccepts, TypeOK, TaskInv, MirrorInv, procVars, storeVars, venueVars
  <2>4. OnceInv'
    BY <1>22, RecordFacts DEF VenueAccepts, TypeOK, TaskInv, OnceInv, procVars, storeVars, venueVars
  <2> QED BY <2>1, <2>2, <2>3, <2>4
<1>23. ASSUME NEW d \in Decision, VenueRejects(d) PROVE IInv'
  <2>1. TypeOK'
    BY <1>23, VenueFacts DEF VenueRejects, TypeOK, procVars, storeVars, venueVars
  <2>2. TaskInv'
    BY <1>23, RecordFacts DEF VenueRejects, TypeOK, TaskInv, UnknownOrders, procVars, storeVars, venueVars
  <2>3. MirrorInv'
    BY <1>23, RecordFacts DEF VenueRejects, TypeOK, TaskInv, MirrorInv, procVars, storeVars, venueVars
  <2>4. OnceInv'
    BY <1>23, RecordFacts DEF VenueRejects, TypeOK, TaskInv, OnceInv, procVars, storeVars, venueVars
  <2> QED BY <2>1, <2>2, <2>3, <2>4
<1>24. ASSUME NEW d \in Decision, RequestLost(d) PROVE IInv'
  <2>1. TypeOK'
    BY <1>24 DEF RequestLost, TypeOK, procVars, storeVars, venueVars
  <2>2. TaskInv'
    BY <1>24, RecordFacts DEF RequestLost, TypeOK, TaskInv, UnknownOrders, procVars, storeVars, venueVars
  <2>3. MirrorInv'
    BY <1>24, RecordFacts DEF RequestLost, TypeOK, TaskInv, MirrorInv, procVars, storeVars, venueVars
  <2>4. OnceInv'
    BY <1>24, RecordFacts DEF RequestLost, TypeOK, TaskInv, OnceInv, procVars, storeVars, venueVars
  <2> QED BY <2>1, <2>2, <2>3, <2>4
<1>25. ASSUME NEW d \in Decision, Match(d) PROVE IInv'
  <2>1. TypeOK'
    <3>1. venue[d].matched + 1 \in 0 .. Size
      <4>1. /\ venue[d] \in VenueOrder /\ Size \in Nat
        BY ExecutionAssumption DEF TypeOK, ExecutionAssumption
      <4>2. venue[d].matched \in 0 .. Size /\ venue[d].counted \in 0 .. Size
        BY <4>1, VenueFacts
      <4> QED BY <1>25, <4>1, <4>2 DEF Match
    <3>2. venue' \in [Decision -> VenueOrder]
      BY <1>25, <3>1, VenueFacts DEF Match, TypeOK
    <3> QED BY <1>25, <3>2 DEF Match, TypeOK, procVars, storeVars
  <2>2. TaskInv'
    BY ZenonT(40), <1>25, RecordFacts DEF Match, TypeOK, TaskInv, UnknownOrders, procVars, storeVars, venueVars
  <2>3. MirrorInv'
    BY <1>25, RecordFacts DEF Match, TypeOK, TaskInv, MirrorInv, procVars, storeVars, venueVars
  <2>4. OnceInv'
    BY <1>25, RecordFacts DEF Match, TypeOK, TaskInv, OnceInv, procVars, storeVars, venueVars
  <2> QED BY <2>1, <2>2, <2>3, <2>4
<1>26. ASSUME NEW d \in Decision, VenueCloses(d) PROVE IInv'
  <2>1. TypeOK'
    BY <1>26, VenueFacts DEF VenueCloses, TypeOK, procVars, storeVars, venueVars
  <2>2. TaskInv'
    BY <1>26, RecordFacts DEF VenueCloses, TypeOK, TaskInv, UnknownOrders, procVars, storeVars, venueVars
  <2>3. MirrorInv'
    BY <1>26, RecordFacts DEF VenueCloses, TypeOK, TaskInv, MirrorInv, procVars, storeVars, venueVars
  <2>4. OnceInv'
    BY <1>26, RecordFacts DEF VenueCloses, TypeOK, TaskInv, OnceInv, procVars, storeVars, venueVars
  <2> QED BY <2>1, <2>2, <2>3, <2>4
<1>27. ASSUME NEW d \in Decision, TradeCounts(d) PROVE IInv'
  <2>5. venue[d].counted + 1 \in 0 .. Size
    <3>1. /\ venue[d] \in VenueOrder /\ Size \in Nat
      BY ExecutionAssumption DEF TypeOK, ExecutionAssumption
    <3>2. venue[d].matched \in 0 .. Size /\ venue[d].counted \in 0 .. Size
      BY <3>1, VenueFacts
    <3> QED BY <1>27, <3>1, <3>2 DEF TradeCounts
  <2>6. /\ venue' \in [Decision -> VenueOrder]
        /\ \A e \in Decision : venue'[e].state = venue[e].state
    <3> DEFINE v == [venue[d] EXCEPT !.counted = @ + 1]
    <3>1. v \in VenueOrder /\ v.state = venue[d].state
      BY ZenonT(40), <2>5, VenueFacts DEF TypeOK
    <3>2. venue' = [venue EXCEPT ![d] = v]
      BY <1>27 DEF TradeCounts
    <3> HIDE DEF v
    <3> QED BY <3>1, <3>2 DEF TypeOK
  <2>1. TypeOK'
    BY <1>27, <2>6 DEF TradeCounts, TypeOK, procVars, storeVars
  <2>4. OnceInv'
    BY <1>27, <2>6 DEF TradeCounts, OnceInv, procVars, storeVars
  <2>2. TaskInv'
    BY <1>27, RecordFacts DEF TradeCounts, TypeOK, TaskInv, UnknownOrders, procVars, storeVars, venueVars
  <2>3. MirrorInv'
    BY <1>27, RecordFacts DEF TradeCounts, TypeOK, TaskInv, MirrorInv, procVars, storeVars, venueVars
  <2> QED BY <2>1, <2>2, <2>3, <2>4
<1>28. CASE UNCHANGED vars
  BY <1>28 DEF vars, procVars, storeVars, venueVars, TypeOK, TaskInv, MirrorInv, OnceInv, UnknownOrders
<1> QED
  BY <1>1, <1>2, <1>4, <1>5, <1>6, <1>7, <1>8, <1>9, <1>10,
     <1>11, <1>12, <1>13, <1>14, <1>15, <1>16, <1>17, <1>18, <1>19,
     <1>20, <1>21, <1>22, <1>23, <1>24, <1>25, <1>26, <1>27, <1>28
  DEF Next, Engine, Outside
-----------------------------------------------------------------------------
(* The inductive invariant holds at the start.                             *)
LEMMA InitIInv == Init => IInv
<1> SUFFICES ASSUME Init PROVE IInv
  OBVIOUS
<1>1. TypeOK
  <2>1. \A d \in Decision :
          [state |-> "none", matched |-> 0, counted |-> 0] \in VenueOrder
    BY ExecutionAssumption DEF VenueOrder, ExecutionAssumption
  <2>2. << >> \in Seq(Event)
    OBVIOUS
  <2> QED BY <2>1, <2>2, RecordFacts, VenueFacts DEF Init, TypeOK
<1>2. TaskInv /\ MirrorInv /\ OnceInv
  <2>1. TaskInv
    BY DEF Init, TaskInv
  <2>2. \A d \in Decision : orders[d] = NoOrder /\ rows[d] = NoOrder
    BY DEF Init
  <2>3. MirrorInv
    BY <2>2, RecordFacts DEF MirrorInv
  <2>4. OnceInv
    BY <2>2 DEF Init, OnceInv
  <2> QED BY <2>1, <2>3, <2>4
<1> QED BY <1>1, <1>2 DEF IInv

(* The inductive invariant holds in every reachable state.                 *)
THEOREM Invariance == Spec => []IInv
BY InitIInv, Inductive, PTL DEF Spec

(* The state of the engine, the database and the venue has its type. *)
THEOREM TypeCorrect == Spec => []TypeOK
BY Invariance, PTL DEF IInv

(* Whatever the venue may know of an order is on record in the database.   *)
THEOREM RecordedBeforeSent == Spec => []WriteAhead
<1>1. IInv => WriteAhead
  BY DEF IInv, TypeOK, OnceInv, WriteAhead
<1> QED BY <1>1, Invariance, PTL

(* No decision is submitted to the venue twice.                            *)
THEOREM SentAtMostOnce == Spec => []SubmittedOnce
<1>1. IInv => SubmittedOnce
  BY DEF IInv, OnceInv, SubmittedOnce
<1> QED BY <1>1, Invariance, PTL

(* A running engine and its database agree on every order that may still   *)
(* trade.                                                                  *)
THEOREM MemoryIsStore == Spec => []MemoryMirrorsStore
<1>1. IInv => MemoryMirrorsStore
  BY DEF IInv, MirrorInv, MemoryMirrorsStore
<1> QED BY <1>1, Invariance, PTL

-----------------------------------------------------------------------------
(* Only Submit submits. *)
LEMMA SendingStep ==
  ASSUME IInv, [Next]_vars
  PROVE  sent' = sent \/ Submit
BY DEF Next, Engine, Outside, vars, procVars, storeVars, venueVars,
       Execute, MayExecute, AckAccepted, AckAmbiguous, AckRejected, SubmitFails, SubmitReturns,
       PollStart, PollOrder, PollFails, PollDone, ResolveUnknown, ResolveStuck,
       RecordFill, BookFill, ApplyUpdate, ApplyDone, Reconcile, Crash, Restart,
       OperatorResolves, VenueAccepts, VenueRejects, RequestLost, Match, VenueCloses,
       TradeCounts

(* Nothing is submitted while an order is in an unknown state. *)
THEOREM NoBlindSubmit == Spec => NoSubmitWhileUnknown
<1>1. IInv /\ [Next]_vars => [sent' # sent => up /\ UnknownOrders = {}]_vars
  BY SendingStep DEF IInv, TaskInv, Submit
<1> QED BY <1>1, Invariance, PTL DEF Spec, NoSubmitWhileUnknown

-----------------------------------------------------------------------------
(* What a step may do to the row of an order already on record: it stays   *)
(* on record, its applied shares do not shrink, and its status changes     *)
(* only while it is open.                                                  *)
RowMoves(d) ==
  /\ rows[d].status # "NONE" /\ rows'[d].status # "NONE"
  /\ rows'[d].filled >= rows[d].filled
  /\ rows[d].status \in OpenStatus \/ rows'[d].status = rows[d].status
  /\ rows'[d].status \in OpenStatus => rows[d].status \in OpenStatus

OthersKeep(d) == \A e \in Decision \ {d} : rows'[e] = rows[e]

(* A row is created by Execute, moved on its own by the engine or the      *)
(* operator, or marked UNKNOWN with every other open row by a restart.     *)
LEMMA RowStep ==
  ASSUME IInv, [Next]_vars
  PROVE  \/ rows' = rows
         \/ \E d \in Decision : Execute(d)
         \/ \E d \in Decision : RowMoves(d) /\ OthersKeep(d)
         \/ \A d \in Decision :
              \/ rows'[d] = rows[d]
              \/ RowMoves(d) /\ rows[d].status \in OpenStatus
                 /\ rows'[d].status \in OpenStatus
<1> USE DEF IInv
<1>1. ASSUME NEW rec \in OrderRecord, cur \in Decision, Save(cur, rec),
             rec.status # "NONE", rec.filled = 0,
             rows[cur].status \in OpenStatus, rows[cur].filled = 0
      PROVE  RowMoves(cur) /\ OthersKeep(cur)
  <2>1. rows'[cur] = rec /\ OthersKeep(cur)
    BY <1>1, SaveFacts DEF TypeOK, OthersKeep
  <2> QED BY <1>1, <2>1 DEF RowMoves, OpenStatus
<1>2. CASE Submit
  <2>1. /\ cur \in Decision /\ Save(cur, [NoOrder EXCEPT !.status = "SUBMITTING"])
        /\ rows[cur].status \in OpenStatus /\ rows[cur].filled = 0
    BY <1>2 DEF Submit, TaskInv, OpenStatus
  <2>2. /\ [NoOrder EXCEPT !.status = "SUBMITTING"] \in OrderRecord
        /\ [NoOrder EXCEPT !.status = "SUBMITTING"].status # "NONE"
        /\ [NoOrder EXCEPT !.status = "SUBMITTING"].filled = 0
    BY DEF NoOrder, OrderRecord, Status, OpenStatus
  <2> QED BY <1>1, <2>1, <2>2
<1>3. CASE AckAccepted \/ AckAmbiguous \/ AckRejected \/ SubmitFails
  <2>1. PICK rec \in OrderRecord : rec.status # "NONE" /\ rec.filled = 0 /\ SubmitReturns(rec)
    <3>1. \A st \in {"LIVE", "UNKNOWN", "REJECTED"}, x \in BOOLEAN :
            /\ [status |-> st, filled |-> 0, xid |-> x] \in OrderRecord
            /\ [status |-> st, filled |-> 0, xid |-> x].status # "NONE"
            /\ [status |-> st, filled |-> 0, xid |-> x].filled = 0
      BY DEF OrderRecord, Status, OpenStatus, TerminalStatus
    <3> QED BY <1>3, <3>1 DEF AckAccepted, AckAmbiguous, AckRejected, SubmitFails
  <2>2. /\ cur \in Decision /\ Save(cur, rec)
        /\ rows[cur].status \in OpenStatus /\ rows[cur].filled = 0
    BY <2>1 DEF SubmitReturns, TaskInv, OpenStatus
  <2> QED BY <1>1, <2>1, <2>2
<1>4. CASE BookFill
  <2> DEFINE d == Head(batch).d
             st == IF orders[d].status \in {"UNKNOWN", "LIVE", "SUBMITTING"}
                   THEN "PARTIALLY_FILLED" ELSE orders[d].status
             rec == [status |-> st, filled |-> orders[d].filled + 1, xid |-> orders[d].xid]
  <2>1. /\ d \in Decision /\ orders[d] # NoOrder /\ orders[d] = rows[d]
        /\ rows[d] \in OrderRecord /\ rows[d].status # "NONE"
    BY <1>4, HeadFacts DEF BookFill, TypeOK, TaskInv, MirrorInv, OnceInv
  <2>2. Save(d, rec)
    BY <1>4 DEF BookFill
  <2>3. rec.status = st /\ rec.filled = rows[d].filled + 1
    BY <2>1
  <2>4. /\ st # "NONE"
        /\ st \in OpenStatus => rows[d].status \in OpenStatus
        /\ rows[d].status \in OpenStatus \/ st = rows[d].status
    BY <2>1 DEF OpenStatus
  <2>5. rows[d].filled \in Nat
    BY <2>1 DEF OrderRecord
  <2> HIDE DEF d, rec, st
  <2>6. rows'[d] = rec /\ OthersKeep(d)
    BY <2>1, <2>2, SaveFacts DEF TypeOK, OthersKeep
  <2> QED BY <2>1, <2>3, <2>4, <2>5, <2>6 DEF RowMoves
<1>5. CASE ApplyUpdate
  <2> DEFINE ev == Head(batch)
             st == IF ev.status = "CANCELLED" /\ orders[ev.d].filled >= Size
                   THEN "FILLED" ELSE ev.status
             rec == [orders[ev.d] EXCEPT !.status = st, !.xid = TRUE]
  <2>1. /\ ev.d \in Decision /\ st \in OpenStatus \cup TerminalStatus
        /\ orders[ev.d] \in OrderRecord
    BY <1>5, HeadFacts DEF ApplyUpdate, TypeOK, TerminalStatus
  <2>2. \/ UNCHANGED rows
        \/ /\ Save(ev.d, rec) /\ orders[ev.d] # NoOrder
           /\ orders[ev.d].status \notin TerminalStatus
    BY <1>5 DEF ApplyUpdate
  <2>3. up
    BY <1>5 DEF ApplyUpdate
  <2> HIDE DEF st, ev
  <2>4. rec.status = st /\ st # "NONE"
    BY ZenonT(40), <2>1, UpdatedRecord, RecordFacts
  <2>5. rec.filled = orders[ev.d].filled /\ orders[ev.d].filled \in Nat
    BY <2>1 DEF OrderRecord
  <2> HIDE DEF rec
  <2>6. CASE Save(ev.d, rec) /\ orders[ev.d] # NoOrder
             /\ orders[ev.d].status \notin TerminalStatus
    <3>1. orders[ev.d] = rows[ev.d] /\ rows[ev.d].status \in OpenStatus
      BY <2>1, <2>3, <2>6 DEF MirrorInv, OnceInv, OrderRecord, Status
    <3>2. rows'[ev.d] = rec /\ OthersKeep(ev.d)
      BY <2>1, <2>6, SaveFacts DEF TypeOK, OthersKeep
    <3>3. rows'[ev.d].filled >= rows[ev.d].filled
      BY <2>5, <3>1, <3>2
    <3> QED BY <2>1, <2>4, <3>1, <3>2, <3>3 DEF RowMoves, OpenStatus
  <2> QED BY <2>2, <2>6
<1>6. CASE Restart
  <2> DEFINE unknown(d) == [rows[d] EXCEPT !.status = "UNKNOWN"]
  <2>1. \A d \in Decision : rows'[d] = IF d \in OpenRows THEN unknown(d) ELSE rows[d]
    BY <1>6 DEF Restart
  <2>2. \A d \in Decision : /\ unknown(d).status = "UNKNOWN"
                            /\ unknown(d).filled = rows[d].filled /\ rows[d].filled \in Nat
    BY DEF TypeOK, OrderRecord
  <2> HIDE DEF unknown
  <2> QED BY <2>1, <2>2 DEF OpenRows, RowMoves, OpenStatus
<1>7. ASSUME NEW d \in Decision, OperatorResolves(d)
      PROVE  RowMoves(d) /\ OthersKeep(d)
  <2> DEFINE rec == [rows[d] EXCEPT !.status = "CANCELLED"]
  <2>1. rec.status = "CANCELLED" /\ rec.filled = rows[d].filled /\ rows[d].filled \in Nat
    BY DEF TypeOK, OrderRecord
  <2>2. rows' = [rows EXCEPT ![d] = rec] /\ rows[d].status \in OpenStatus
    BY <1>7 DEF OperatorResolves, OpenRows
  <2> HIDE DEF rec
  <2>3. rows'[d] = rec /\ OthersKeep(d)
    BY <2>2 DEF TypeOK, OthersKeep
  <2> QED BY <2>1, <2>2, <2>3 DEF RowMoves, OpenStatus
<1> QED
  BY <1>2, <1>3, <1>4, <1>5, <1>6, <1>7
  DEF Next, Engine, Outside, vars, procVars, storeVars, venueVars,
      PollStart, PollOrder, PollFails, PollDone, ResolveUnknown, ResolveStuck,
      RecordFill, ApplyDone, Reconcile, Crash, VenueAccepts, VenueRejects, RequestLost,
      Match, VenueCloses, TradeCounts

(* A closed order stays closed, and the shares applied to an order only    *)
(* grow, across crashes, restarts and operator actions.                    *)
THEOREM ClosedStaysClosed == Spec => ClosedForever
<1> DEFINE Keep == \A d \in Decision :
             /\ rows[d].status \in TerminalStatus => rows'[d].status = rows[d].status
             /\ rows'[d].filled >= rows[d].filled
<1>1. ASSUME IInv, [Next]_vars PROVE Keep
  <2>1. \A d \in Decision : rows[d].filled \in Nat
    BY <1>1 DEF IInv, TypeOK, OrderRecord
  <2>2. ASSUME NEW d \in Decision, Execute(d)
        PROVE  Keep
    <3>1. rows'[d].filled = 0 /\ rows[d].filled = 0 /\ rows[d].status = "NONE"
      BY <1>1, <2>2 DEF Execute, MayExecute, IInv, TypeOK, NoOrder
    <3>2. \A e \in Decision \ {d} : rows'[e] = rows[e]
      BY <1>1, <2>2 DEF Execute, MayExecute, IInv, TypeOK
    <3>3. rows[d].status \notin TerminalStatus
      BY <3>1 DEF TerminalStatus
    <3> QED BY <2>1, <3>1, <3>2, <3>3
  <2>3. CASE rows' = rows
    BY <2>1, <2>3
  <2>4. \A d \in Decision :
          RowMoves(d) => /\ rows[d].status \in TerminalStatus => rows'[d].status = rows[d].status
                         /\ rows'[d].filled >= rows[d].filled
    BY RecordFacts DEF RowMoves
  <2> QED BY <1>1, <2>1, <2>2, <2>3, <2>4, RowStep DEF OthersKeep
<1> QED BY <1>1, Invariance, PTL DEF Spec, ClosedForever
-----------------------------------------------------------------------------
(* The in-flight limit holds in the durable table: a step other than       *)
(* Execute opens no row, and Execute finds every open row among the orders *)
(* in memory that it counts.                                               *)
THEOREM InFlightBounded == Spec => []InFlightBound
<1> USE ExecutionAssumption DEF ExecutionAssumption
<1>1. Init => InFlightBound
  <2> SUFFICES ASSUME Init PROVE InFlightBound
    OBVIOUS
  <2>1. OpenRows = {}
    <3>1. \A d \in Decision : rows[d].status = "NONE"
      BY DEF Init, NoOrder
    <3> QED BY <3>1 DEF OpenRows, OpenStatus
  <2> QED BY <2>1, FS_EmptySet DEF InFlightBound
<1>2. IInv /\ InFlightBound /\ [Next]_vars => InFlightBound'
  <2> SUFFICES ASSUME IInv, InFlightBound, [Next]_vars PROVE InFlightBound'
    OBVIOUS
  <2>1. IsFiniteSet(OpenRows) /\ IsFiniteSet(OpenOrders) /\ IsFiniteSet(OpenRows')
    BY FS_Subset DEF OpenRows, OpenOrders
  <2>2. ASSUME NEW d \in Decision, Execute(d)
        PROVE  InFlightBound'
    <3>1. OpenRows \subseteq OpenOrders
      BY <2>2 DEF Execute, MayExecute, IInv, MirrorInv, OpenRows, OpenOrders
    <3>2. Cardinality(OpenRows) <= Cardinality(OpenOrders)
      BY <2>1, <3>1, FS_Subset
    <3>3. OpenRows' \subseteq OpenRows \cup {d}
      BY <2>2 DEF Execute, MayExecute, IInv, TypeOK, OpenRows
    <3>4. /\ IsFiniteSet(OpenRows \cup {d})
          /\ Cardinality(OpenRows \cup {d}) <= Cardinality(OpenRows) + 1
      <4>1. /\ IsFiniteSet(OpenRows \cup {d})
            /\ Cardinality(OpenRows \cup {d}) = IF d \in OpenRows THEN Cardinality(OpenRows)
                                               ELSE Cardinality(OpenRows) + 1
        BY <2>1, FS_AddElement
      <4>2. Cardinality(OpenRows) \in Nat
        BY <2>1, FS_CardinalityType
      <4> QED BY <4>1, <4>2
    <3>5. Cardinality(OpenRows') <= Cardinality(OpenRows \cup {d})
      BY <3>3, <3>4, FS_Subset
    <3>6. Cardinality(OpenOrders) < MaxInFlight
      BY <2>2 DEF Execute, MayExecute
    <3>7. /\ Cardinality(OpenRows) \in Nat /\ Cardinality(OpenOrders) \in Nat
          /\ Cardinality(OpenRows \cup {d}) \in Nat /\ Cardinality(OpenRows') \in Nat
      BY <2>1, <3>4, FS_CardinalityType
    <3> HIDE DEF OpenRows, OpenOrders
    <3> QED BY <3>2, <3>4, <3>5, <3>6, <3>7 DEF InFlightBound
  <2>3. CASE OpenRows' \subseteq OpenRows
    <3>1. Cardinality(OpenRows') <= Cardinality(OpenRows)
      BY <2>1, <2>3, FS_Subset
    <3>2. Cardinality(OpenRows') \in Nat /\ Cardinality(OpenRows) \in Nat
      BY <2>1, FS_CardinalityType
    <3> QED BY <3>1, <3>2 DEF InFlightBound
  <2>4. (\E d \in Decision : Execute(d)) \/ OpenRows' \subseteq OpenRows
    BY RowStep DEF RowMoves, OthersKeep, OpenRows
  <2> QED BY <2>2, <2>3, <2>4
<1> QED BY <1>1, <1>2, Invariance, PTL DEF Spec

-----------------------------------------------------------------------------
(* The phase of an order follows from its row and its submissions. *)
LEMMA PhaseFacts ==
  ASSUME IInv
  PROVE  /\ DOMAIN Phase = Decision
         /\ \A d \in Decision :
              /\ rows[d] = NoOrder => Phase[d] = "none"
              /\ rows[d].status \in TerminalStatus => Phase[d] = "closed"
              /\ rows[d].status \in OpenStatus =>
                   Phase[d] = IF sent[d] = 0 THEN "recorded" ELSE "sent"
              /\ rows[d] = NoOrder \/ rows[d].status \in OpenStatus \cup TerminalStatus
<1>1. \A d \in Decision : rows[d].status \in Status
  BY DEF IInv, TypeOK, OrderRecord
<1>2. \A d \in Decision : rows[d].status = "NONE" => rows[d] = NoOrder
  BY DEF IInv, OnceInv
<1>3. \A d \in Decision : rows[d] = NoOrder => rows[d].status = "NONE"
  BY DEF NoOrder
<1>4. \A d \in Decision :
        rows[d].status \in OpenStatus \cup TerminalStatus => rows[d].status # "NONE"
  BY DEF OpenStatus, TerminalStatus
<1>5. \A d \in Decision : rows[d].status \in OpenStatus => rows[d].status \notin TerminalStatus
  BY DEF OpenStatus, TerminalStatus
<1> QED BY <1>1, <1>2, <1>3, <1>4, <1>5 DEF Phase, Status

(* Execution implements OrderOnce: seen through the rows and the           *)
(* submissions, every decision is recorded, then sent at most once, then   *)
(* closed for good, whatever crashes and lost answers happen on the way.   *)
THEOREM Implements == Spec => ImplementsOrderOnce
<1>1. Init => Once!Init
  <2> SUFFICES ASSUME Init PROVE Once!Init
    OBVIOUS
  <2>1. Phase = [d \in Decision |-> "none"]
    BY DEF Init, Phase
  <2> QED BY <2>1 DEF Init, Once!Init
<1>2. IInv /\ IInv' /\ [Next]_vars => [Once!Next]_<<Phase, sent>>
  <2> SUFFICES ASSUME IInv, IInv', [Next]_vars
               PROVE  Once!Next \/ (Phase' = Phase /\ sent' = sent)
    OBVIOUS
  <2>0. /\ Phase = [d \in Decision |-> Phase[d]]
        /\ Phase' = [d \in Decision |-> Phase'[d]]
    BY DEF Phase
  <2>1. ASSUME NEW d \in Decision, Execute(d)
        PROVE  Once!Record(d)
    <3>1. rows[d] = NoOrder /\ rows'[d].status = "INTENT" /\ sent[d] = 0
          /\ sent' = sent /\ \A e \in Decision \ {d} : rows'[e] = rows[e]
      BY <2>1 DEF Execute, MayExecute, IInv, TypeOK, OnceInv, NoOrder
    <3>2. Phase[d] = "none"
      BY <3>1, PhaseFacts
    <3>3. Phase'[d] = "recorded"
      BY <3>1 DEF Phase, NoOrder, TerminalStatus
    <3>4. \A e \in Decision \ {d} : Phase'[e] = Phase[e]
      BY <3>1 DEF Phase
    <3>5. Phase' = [Phase EXCEPT ![d] = "recorded"]
      BY <2>0, <3>3, <3>4
    <3> QED BY <3>1, <3>2, <3>5 DEF Once!Record
  <2>2. CASE Submit
    <3>1. /\ cur \in Decision /\ rows[cur].status = "INTENT" /\ sent[cur] = 0
          /\ Save(cur, [NoOrder EXCEPT !.status = "SUBMITTING"])
          /\ sent' = [sent EXCEPT ![cur] = 1]
      <4>1. cur \in Decision /\ sent[cur] = 0 /\ sent' = [sent EXCEPT ![cur] = sent[cur] + 1]
        BY <2>2 DEF Submit, IInv, TaskInv
      <4> QED BY <2>2, <4>1 DEF Submit, IInv, TaskInv
    <3>2. /\ rows'[cur].status = "SUBMITTING" /\ sent'[cur] = 1
          /\ \A e \in Decision \ {cur} : rows'[e] = rows[e] /\ sent'[e] = sent[e]
      <4>1. [NoOrder EXCEPT !.status = "SUBMITTING"].status = "SUBMITTING"
        BY DEF NoOrder
      <4>2. /\ rows'[cur] = [NoOrder EXCEPT !.status = "SUBMITTING"]
            /\ \A e \in Decision \ {cur} : rows'[e] = rows[e]
        BY <3>1, SaveFacts DEF IInv, TypeOK
      <4>3. sent \in [Decision -> Nat]
        BY DEF IInv, TypeOK
      <4> QED BY <3>1, <4>1, <4>2, <4>3
    <3>3. Phase[cur] = "recorded"
      BY <3>1, PhaseFacts DEF OpenStatus
    <3>4. Phase'[cur] = "sent"
      BY <3>1, <3>2 DEF Phase, NoOrder, TerminalStatus
    <3>5. \A e \in Decision \ {cur} : Phase'[e] = Phase[e]
      BY <3>2 DEF Phase
    <3>6. Phase' = [Phase EXCEPT ![cur] = "sent"]
      BY <2>0, <3>1, <3>4, <3>5
    <3> QED BY <3>1, <3>3, <3>6 DEF Once!Send, Once!Next
  <2>3. ASSUME sent' = sent, NEW d \in Decision, RowMoves(d), OthersKeep(d)
        PROVE  Once!Close(d) \/ (Phase' = Phase /\ sent' = sent)
    <3>1. \A e \in Decision \ {d} : Phase'[e] = Phase[e]
      BY <2>3 DEF Phase, OthersKeep
    <3>2. rows[d] # NoOrder /\ rows'[d] # NoOrder
      BY <2>3, RecordFacts DEF RowMoves
    <3>3. CASE rows[d].status \in OpenStatus /\ rows'[d].status \in TerminalStatus
      <4>1. Phase[d] \in {"recorded", "sent"}
        BY <3>3, PhaseFacts
      <4>2. Phase'[d] = "closed"
        BY <3>2, <3>3 DEF Phase
      <4>3. Phase' = [Phase EXCEPT ![d] = "closed"]
        BY <2>0, <3>1, <4>2
      <4> QED BY <2>3, <4>1, <4>3 DEF Once!Close
    <3>4. CASE ~(rows[d].status \in OpenStatus /\ rows'[d].status \in TerminalStatus)
      <4>1. rows'[d].status \in TerminalStatus <=> rows[d].status \in TerminalStatus
        BY <2>3, <3>4, RecordFacts DEF RowMoves
      <4>2. Phase'[d] = Phase[d]
        BY <2>3, <3>2, <4>1 DEF Phase
      <4> QED BY <2>0, <2>3, <3>1, <4>2
    <3> QED BY <3>3, <3>4
  <2>4. ASSUME sent' = sent,
               \A d \in Decision :
                 \/ rows'[d] = rows[d]
                 \/ RowMoves(d) /\ rows[d].status \in OpenStatus
                    /\ rows'[d].status \in OpenStatus
        PROVE  Phase' = Phase
    <3>1. ASSUME NEW d \in Decision PROVE Phase'[d] = Phase[d]
      <4>1. CASE rows'[d] = rows[d]
        BY <2>4, <4>1 DEF Phase
      <4>2. CASE RowMoves(d) /\ rows[d].status \in OpenStatus
                 /\ rows'[d].status \in OpenStatus
        <5>1. rows[d] # NoOrder /\ rows'[d] # NoOrder
          BY <4>2, RecordFacts DEF RowMoves
        <5>2. rows[d].status \notin TerminalStatus /\ rows'[d].status \notin TerminalStatus
          BY <4>2, RecordFacts
        <5> QED BY <2>4, <5>1, <5>2 DEF Phase
      <4> QED BY <2>4, <4>1, <4>2
    <3> QED BY <2>0, <3>1
  <2>5. CASE rows' = rows /\ sent' = sent
    BY <2>5 DEF Phase
  <2> QED BY <2>1, <2>2, <2>3, <2>4, <2>5, RowStep, SendingStep DEF Once!Next, Execute, MayExecute
<1> QED BY <1>1, <1>2, Invariance, PTL DEF Spec, ImplementsOrderOnce, Once!Spec, Once!vars

-----------------------------------------------------------------------------
(***************************************************************************)
(* The way of a trade from the venue through a batch of events into the    *)
(* tables.  No share is applied twice or invented, no event is of an order *)
(* the engine does not know, and no order is closed with a share missing.  *)
(***************************************************************************)

(* An event under way is of an order the engine knows, tells of a trade    *)
(* that was matched, and ends an order only with all its trades.           *)
GoodEvent(e) ==
  /\ orders[e.d] # NoOrder
  /\ e.type = "fill" => e.k <= venue[e.d].matched
  /\ e.type = "update" /\ e.status \in TerminalStatus =>
       /\ e.status # "REJECTED"
       /\ venue[e.d].state = "done" /\ e.cum = venue[e.d].matched
GoodEvents == {e \in Event : GoodEvent(e)}

VenueInv ==
  \A d \in Decision :
    /\ venue[d].counted <= venue[d].matched
    /\ venue[d].state \in {"none", "rejected"} => venue[d].matched = 0

(* What may bring events is known to the engine; a process that is down    *)
(* knows nothing.                                                          *)
DownInv ==
  ~up => /\ batch = << >> /\ todo = {}
         /\ \A d \in Decision : orders[d] = NoOrder /\ ~adapter[d].on
Watched(d) == (d \in net /\ KeepsHistory) \/ adapter[d].on \/ d \in todo
KnownInv == DownInv /\ \A d \in Decision : Watched(d) => orders[d] # NoOrder

BatchInv == batch \in Seq(GoodEvents)
FillsInv == \A f \in fills : f[2] <= venue[f[1]].matched

(* A fill is in the table before it is counted.                            *)
Booking(d) == pc = "filling" /\ Head(batch).d = d
Applied(d) == rows[d].filled + (IF Booking(d) THEN 1 ELSE 0)
CountInv == \A d \in Decision : Applied(d) <= Cardinality(FillsOf(d))

DeliveryInv == VenueInv /\ KnownInv /\ BatchInv /\ FillsInv /\ CountInv /\ ClosedComplete

(* What a step does to an order of the venue: trades are only added, and   *)
(* to an order that has ended none.                                        *)
VenueMoves ==
  \A d \in Decision :
    /\ venue'[d].matched >= venue[d].matched
    /\ venue'[d].matched # venue[d].matched => venue[d].state = "open"
    /\ venue[d].state \in {"done", "rejected"} =>
         \/ venue'[d].state = venue[d].state
         \/ Crash /\ venue[d].state = "done" /\ d \in OpenRows

LEMMA VenueStep ==
  ASSUME IInv, VenueInv, [Next]_vars
  PROVE  VenueMoves /\ VenueInv'
<1>0. /\ \A d \in Decision : venue[d] \in VenueOrder /\ venue[d].matched \in Nat
                             /\ venue[d].counted \in Nat
      /\ DOMAIN venue = Decision
  BY ExecutionAssumption DEF IInv, TypeOK, VenueOrder, ExecutionAssumption
<1>1. CASE venue' = venue
  BY <1>0, <1>1 DEF VenueMoves, VenueInv
<1>2. ASSUME NEW d \in Decision, NEW v, venue' = [venue EXCEPT ![d] = v],
             v.matched \in Nat, v.matched >= venue[d].matched, v.counted <= v.matched,
             v.matched # venue[d].matched => venue[d].state = "open" /\ v.state = "open",
             v.state \in {"none", "rejected"} => venue[d].state \in {"none", "rejected"},
             venue[d].state \in {"done", "rejected"} => v.state = venue[d].state
      PROVE  VenueMoves /\ VenueInv'
  <2>1. \A e \in Decision : venue'[e] = IF e = d THEN v ELSE venue[e]
    BY <1>0, <1>2
  <2>2. VenueMoves
    BY <1>0, <1>2, <2>1 DEF VenueMoves
  <2>3. \A e \in Decision : venue'[e].counted <= venue'[e].matched
    BY <1>2, <2>1 DEF VenueInv
  <2>4. \A e \in Decision :
          venue'[e].state \in {"none", "rejected"} => venue'[e].matched = 0
    BY <1>2, <2>1 DEF VenueInv
  <2> QED BY <2>2, <2>3, <2>4 DEF VenueInv
<1>3. ASSUME NEW d \in Decision, VenueAccepts(d) \/ VenueRejects(d) \/ VenueCloses(d)
      PROVE  VenueMoves /\ VenueInv'
  <2>1. PICK st \in {"open", "rejected", "done"} :
          /\ venue' = [venue EXCEPT ![d].state = st]
          /\ venue[d].state \in {"none", "open"}
          /\ st = "rejected" => venue[d].state = "none"
    BY <1>3 DEF VenueAccepts, VenueRejects, VenueCloses
  <2>0. PICK v : v = [venue[d] EXCEPT !.state = st]
    OBVIOUS
  <2>2. v.state = st /\ v.matched = venue[d].matched /\ v.counted = venue[d].counted
    BY <1>0, <2>0 DEF VenueOrder
  <2>3. venue' = [venue EXCEPT ![d] = v]
    BY <2>0, <2>1
  <2>4. v.counted <= v.matched
    BY <2>2 DEF VenueInv
  <2>5. /\ v.matched \in Nat /\ v.matched >= venue[d].matched
        /\ v.matched # venue[d].matched => venue[d].state = "open" /\ v.state = "open"
        /\ v.state \in {"none", "rejected"} => venue[d].state \in {"none", "rejected"}
        /\ venue[d].state \in {"done", "rejected"} => v.state = venue[d].state
    BY <1>0, <2>1, <2>2
  <2> QED BY <1>2, <2>3, <2>4, <2>5
<1>4. ASSUME NEW d \in Decision, Match(d)
      PROVE  VenueMoves /\ VenueInv'
  <2>0. PICK v : v = [venue[d] EXCEPT !.matched = venue[d].matched + 1]
    OBVIOUS
  <2>1. venue' = [venue EXCEPT ![d] = v] /\ venue[d].state = "open"
    BY <1>4, <2>0 DEF Match
  <2>2. v.state = "open" /\ v.matched = venue[d].matched + 1 /\ v.counted = venue[d].counted
    BY <1>0, <2>0, <2>1 DEF VenueOrder
  <2>3. v.counted <= v.matched
    BY <1>0, <2>2 DEF VenueInv
  <2>5. /\ v.matched \in Nat /\ v.matched >= venue[d].matched
        /\ v.matched # venue[d].matched => venue[d].state = "open" /\ v.state = "open"
        /\ v.state \in {"none", "rejected"} => venue[d].state \in {"none", "rejected"}
        /\ venue[d].state \in {"done", "rejected"} => v.state = venue[d].state
    BY <1>0, <2>1, <2>2
  <2> QED BY <1>2, <2>1, <2>3, <2>5
<1>5. ASSUME NEW d \in Decision, TradeCounts(d)
      PROVE  VenueMoves /\ VenueInv'
  <2>0. PICK v : v = [venue[d] EXCEPT !.counted = venue[d].counted + 1]
    OBVIOUS
  <2>1. venue' = [venue EXCEPT ![d] = v] /\ venue[d].counted < venue[d].matched
    BY <1>5, <2>0 DEF TradeCounts
  <2>2. /\ v.state = venue[d].state /\ v.matched = venue[d].matched
        /\ v.counted = venue[d].counted + 1
    BY <1>0, <2>0, <2>1 DEF VenueOrder
  <2>3. v.counted <= v.matched
    BY <1>0, <2>1, <2>2
  <2>5. /\ v.matched \in Nat /\ v.matched >= venue[d].matched
        /\ v.matched # venue[d].matched => venue[d].state = "open" /\ v.state = "open"
        /\ v.state \in {"none", "rejected"} => venue[d].state \in {"none", "rejected"}
        /\ venue[d].state \in {"done", "rejected"} => v.state = venue[d].state
    BY <1>0, <2>1, <2>2
  <2> QED BY <1>2, <2>1, <2>3, <2>5
<1>6. CASE Crash /\ VenueDies
  <2>1. \A d \in Decision :
          /\ venue'[d].matched = venue[d].matched /\ venue'[d].counted = venue[d].counted
          /\ \/ venue'[d].state = venue[d].state
             \/ venue'[d].state = "lost" /\ venue[d].state \in {"open", "done"}
          /\ venue'[d].state # venue[d].state /\ venue[d].state = "done" => d \in OpenRows
    BY <1>0, <1>6 DEF VenueDies, VenueOrder
  <2> QED BY <1>0, <1>6, <2>1 DEF VenueMoves, VenueInv
<1>7. \/ venue' = venue
      \/ Crash /\ VenueDies
      \/ \E d \in Decision : \/ VenueAccepts(d) \/ VenueRejects(d) \/ VenueCloses(d)
                             \/ Match(d) \/ TradeCounts(d)
  BY DEF Next, Engine, Outside, vars, procVars, storeVars, venueVars,
         Execute, Submit, AckAccepted, AckAmbiguous, AckRejected, SubmitFails, SubmitReturns,
         PollStart, PollOrder, PollFails, PollDone, ResolveUnknown, ResolveStuck,
         RecordFill, BookFill, ApplyUpdate, ApplyDone, Reconcile, Crash, Restart,
         OperatorResolves, RequestLost
<1> QED BY <1>1, <1>3, <1>4, <1>5, <1>6, <1>7

(* What the engine saves is a record of an order. *)
LEMMA OrdersStep ==
  ASSUME IInv, [Next]_vars
  PROVE  \/ orders' = orders
         \/ Crash
         \/ Restart
         \/ \E c \in Decision, rec \in OrderRecord :
              rec # NoOrder /\ orders' = [orders EXCEPT ![c] = rec]
<1> USE DEF IInv
<1>1. CASE Submit
  <2>1. [NoOrder EXCEPT !.status = "SUBMITTING"] # NoOrder
    BY RecordFacts DEF OpenStatus, NoOrder
  <2> QED BY <1>1, <2>1, RecordFacts DEF Submit, Save, TaskInv, OpenStatus
<1>2. CASE AckAccepted \/ AckAmbiguous \/ AckRejected \/ SubmitFails
  <2>1. PICK rec : rec \in OrderRecord /\ rec # NoOrder /\ SubmitReturns(rec)
    <3>1. \A st \in {"LIVE", "UNKNOWN", "REJECTED"}, x \in BOOLEAN :
            /\ [status |-> st, filled |-> 0, xid |-> x] \in OrderRecord
            /\ [status |-> st, filled |-> 0, xid |-> x] # NoOrder
      BY DEF OrderRecord, Status, OpenStatus, TerminalStatus, NoOrder
    <3> QED BY <1>2, <3>1 DEF AckAccepted, AckAmbiguous, AckRejected, SubmitFails
  <2> QED BY <2>1 DEF SubmitReturns, Save, TaskInv
<1>3. CASE BookFill
  <2>1. PICK d \in Decision, st \in Status :
          Save(d, [status |-> st, filled |-> orders[d].filled + 1, xid |-> orders[d].xid])
    <3>1. Head(batch).d \in Decision /\ orders[Head(batch).d].status \in Status
      BY <1>3, HeadFacts DEF BookFill, TypeOK, TaskInv, OrderRecord
    <3> QED BY <1>3, <3>1 DEF BookFill, Status, OpenStatus
  <2>2. orders[d] \in OrderRecord
    BY DEF TypeOK
  <2> QED BY <2>1, <2>2, BookedRecord DEF Save
<1>4. CASE ApplyUpdate
  <2>1. \/ orders' = orders
        \/ \E d \in Decision, st \in OpenStatus \cup TerminalStatus :
             Save(d, [orders[d] EXCEPT !.status = st, !.xid = TRUE])
    <3>1. /\ Head(batch).d \in Decision
          /\ Head(batch).type = "update" =>
               Head(batch).status \in OpenStatus \cup TerminalStatus
      BY <1>4, HeadFacts DEF ApplyUpdate, TypeOK
    <3> QED BY <1>4, <3>1 DEF ApplyUpdate, TerminalStatus
  <2>2. \A d \in Decision : orders[d] \in OrderRecord
    BY DEF TypeOK
  <2>3. CASE \E d \in Decision, st \in OpenStatus \cup TerminalStatus :
               Save(d, [orders[d] EXCEPT !.status = st, !.xid = TRUE])
    BY <2>2, <2>3, UpdatedRecord DEF Save
  <2> QED BY <2>1, <2>3
<1>5. \/ orders' = orders \/ Crash \/ Restart \/ Submit \/ BookFill \/ ApplyUpdate
      \/ AckAccepted \/ AckAmbiguous \/ AckRejected \/ SubmitFails
  BY DEF Next, Engine, Outside, vars, procVars, storeVars, venueVars,
         Execute, PollStart, PollOrder, PollFails, PollDone, ResolveUnknown, ResolveStuck,
         RecordFill, ApplyDone, Reconcile, OperatorResolves, VenueAccepts, VenueRejects,
         RequestLost, Match, VenueCloses, TradeCounts
<1> QED BY <1>1, <1>2, <1>3, <1>4, <1>5

LEMMA OrdersStay ==
  ASSUME IInv, [Next]_vars, ~Crash, ~Restart
  PROVE  \A d \in Decision : orders[d] # NoOrder => orders'[d] # NoOrder
BY OrdersStep DEF IInv, TypeOK

(* Whoever is watched after a step was watched before, or was saved by it. *)
LEMMA WatchedStep ==
  ASSUME IInv, [Next]_vars, ~Crash, ~Restart
  PROVE  \A d \in Decision : Watched(d)' => Watched(d) \/ orders'[d] # NoOrder
<1> USE DEF IInv
<1>0. \A d \in Decision : adapter[d] \in Tracked
  BY DEF TypeOK
<1>1. CASE net' \subseteq net /\ adapter' = adapter /\ todo' \subseteq todo
  BY <1>1 DEF Watched
<1>2. CASE Submit
  <2>1. orders'[cur] # NoOrder /\ cur \in Decision
    <3>1. PICK rec : rec = [NoOrder EXCEPT !.status = "SUBMITTING"]
      OBVIOUS
    <3>2. rec # NoOrder
      BY <3>1 DEF NoOrder
    <3>3. cur \in Decision /\ orders' = [orders EXCEPT ![cur] = rec]
      BY <1>2, <3>1 DEF Submit, Save, TaskInv
    <3>4. orders'[cur] = rec
      BY <3>3 DEF TypeOK
    <3> QED BY <3>2, <3>3, <3>4
  <2> QED BY <1>2, <2>1 DEF Submit, Watched
<1>3. CASE AckAccepted
  <2>1. cur \in Decision /\ Save(cur, [status |-> "LIVE", filled |-> 0, xid |-> TRUE])
    BY <1>3 DEF AckAccepted, SubmitReturns, TaskInv
  <2>2. orders'[cur] # NoOrder
    <3>1. PICK rec : rec = [status |-> "LIVE", filled |-> 0, xid |-> TRUE]
      OBVIOUS
    <3>2. rec # NoOrder
      BY <3>1 DEF NoOrder
    <3>3. orders'[cur] = rec
      BY <2>1, <3>1 DEF Save, TypeOK
    <3> QED BY <3>2, <3>3
  <2>3. \A d \in Decision : d # cur => adapter'[d] = adapter[d]
    BY <1>3 DEF AckAccepted, TypeOK
  <2> QED BY <1>3, <2>1, <2>2, <2>3 DEF AckAccepted, SubmitReturns, Watched, venueVars
<1>4. CASE PollStart
  BY <1>4 DEF PollStart, Watched, venueVars
<1>5. ASSUME NEW d \in Decision, PollOrder(d) \/ PollFails(d)
      PROVE  \A e \in Decision : Watched(e)' => Watched(e)
  <2>1. \A e \in Decision : adapter'[e].on = adapter[e].on
    <3>1. \A e \in Decision : e # d => adapter'[e] = adapter[e]
      BY <1>5 DEF PollOrder, PollFails, TypeOK
    <3>2. adapter'[d].on = adapter[d].on
      BY <1>0, <1>5 DEF PollOrder, PollFails, TypeOK, Tracked
    <3> QED BY <3>1, <3>2
  <2>2. net' = net /\ todo' \subseteq todo
    BY <1>5 DEF PollOrder, PollFails, venueVars
  <2> QED BY <2>1, <2>2 DEF Watched
<1>6. ASSUME NEW d \in Decision, VenueAccepts(d)
      PROVE  \A e \in Decision : Watched(e)' => Watched(e)
  <2>1. /\ d \in net /\ net' \subseteq net /\ todo' = todo
        /\ adapter' = adapter \/ KeepsHistory
        /\ \A e \in Decision : e # d => adapter'[e] = adapter[e]
    BY <1>6 DEF VenueAccepts, TypeOK
  <2> QED BY <2>1 DEF Watched
<1>7. \/ net' \subseteq net /\ adapter' = adapter /\ todo' \subseteq todo
      \/ Submit \/ AckAccepted \/ PollStart
      \/ \E d \in Decision : PollOrder(d) \/ PollFails(d) \/ VenueAccepts(d)
  BY DEF Next, Engine, Outside, vars, procVars, storeVars, venueVars,
         Execute, AckAmbiguous, AckRejected, SubmitFails, SubmitReturns,
         PollDone, ResolveUnknown, ResolveStuck,
         RecordFill, BookFill, ApplyUpdate, ApplyDone, Reconcile,
         OperatorResolves, VenueRejects, RequestLost, Match, VenueCloses, TradeCounts
<1> QED BY <1>1, <1>2, <1>3, <1>4, <1>5, <1>6, <1>7

LEMMA KnownKept ==
  ASSUME IInv, KnownInv, [Next]_vars
  PROVE  KnownInv'
<1>1. CASE Crash
  <2>1. /\ ~up' /\ batch' = << >> /\ todo' = {} /\ (KeepsHistory => net' = {})
        /\ orders' = [d \in Decision |-> NoOrder]
        /\ adapter' = [d \in Decision |-> Untracked]
    BY <1>1 DEF Crash, VenueDies
  <2> QED BY <2>1 DEF KnownInv, DownInv, Watched, Untracked
<1>2. CASE Restart
  <2>1. /\ ~up /\ up' /\ net' = net /\ todo' = todo /\ adapter' = adapter
    BY <1>2 DEF Restart, venueVars
  <2>2. \A d \in Decision : ~Watched(d)
    BY <2>1 DEF KnownInv, DownInv
  <2> QED BY <2>1, <2>2 DEF KnownInv, DownInv, Watched
<1>3. CASE ~Crash /\ ~Restart
  <2>1. \A d \in Decision : Watched(d)' => orders'[d] # NoOrder
    BY <1>3, WatchedStep, OrdersStay DEF KnownInv
  <2>2. up' = up
    BY <1>3 DEF Next, Engine, Outside, vars, procVars, storeVars, venueVars,
         Execute, Submit, AckAccepted, AckAmbiguous, AckRejected, SubmitFails, SubmitReturns,
         PollStart, PollOrder, PollFails, PollDone, ResolveUnknown, ResolveStuck,
         RecordFill, BookFill, ApplyUpdate, ApplyDone, Reconcile,
         OperatorResolves, VenueAccepts, VenueRejects, RequestLost, Match, VenueCloses,
         TradeCounts
  <2>3. CASE ~up
    <3>1. \A d \in Decision : ~Watched(d) /\ orders[d] = NoOrder
      BY <2>3 DEF KnownInv, DownInv
    <3>2. orders' = orders /\ batch' = batch /\ todo' = todo
          /\ (adapter' = adapter \/ \E d \in Decision : d \in net /\ KeepsHistory)
      BY <1>3, <2>3 DEF Next, Engine, Outside, vars, procVars, storeVars, venueVars,
         Execute, Submit, AckAccepted, AckAmbiguous, AckRejected, SubmitFails, SubmitReturns,
         PollStart, PollOrder, PollFails, PollDone, ResolveUnknown, ResolveStuck,
         RecordFill, BookFill, ApplyUpdate, ApplyDone, Reconcile,
         OperatorResolves, VenueAccepts, VenueRejects, RequestLost, Match, VenueCloses,
         TradeCounts
    <3>3. adapter' = adapter
      BY <3>1, <3>2 DEF Watched
    <3> QED BY <2>1, <2>3, <3>2, <3>3 DEF KnownInv, DownInv
  <2>4. CASE up
    BY <2>1, <2>2, <2>4 DEF KnownInv, DownInv
  <2> QED BY <2>3, <2>4
<1> QED BY <1>1, <1>2, <1>3

(* The trades of an order only grow. *)
LEMMA MatchedGrows ==
  ASSUME IInv, VenueInv, [Next]_vars
  PROVE  \A d \in Decision : /\ venue[d].matched \in Nat /\ venue'[d].matched \in Nat
                             /\ venue'[d].matched >= venue[d].matched
<1>1. TypeOK /\ TypeOK'
  BY Inductive DEF IInv
<1>2. \A v \in VenueOrder : v.matched \in Nat
  BY ExecutionAssumption DEF VenueOrder, ExecutionAssumption
<1>3. \A d \in Decision : venue[d] \in VenueOrder /\ venue'[d] \in VenueOrder
  BY <1>1 DEF TypeOK
<1> QED BY <1>2, <1>3, VenueStep DEF VenueMoves

(* A good event stays good while the process lives.                        *)
LEMMA GoodStays ==
  ASSUME IInv, VenueInv, [Next]_vars, ~Crash, ~Restart
  PROVE  GoodEvents \subseteq GoodEvents'
<1>1. VenueMoves
  BY VenueStep
<1>2. SUFFICES ASSUME NEW e \in Event, GoodEvent(e) PROVE GoodEvent(e)'
  BY DEF GoodEvents
<1>3. e.d \in Decision /\ (e.type = "fill" => e.k \in Nat)
  BY ExecutionAssumption DEF Event, FillEvent, UpdateEvent, ExecutionAssumption
<1>4. /\ venue[e.d].matched \in Nat /\ venue'[e.d].matched \in Nat
      /\ venue'[e.d].matched >= venue[e.d].matched
      /\ venue[e.d].state = "done" =>
           venue'[e.d].state = "done" /\ venue'[e.d].matched = venue[e.d].matched
  BY <1>1, <1>3, MatchedGrows DEF VenueMoves
<1>5. orders'[e.d] # NoOrder
  BY <1>2, <1>3, OrdersStay DEF GoodEvent
<1>6. e.type = "fill" => e.k <= venue'[e.d].matched
  BY <1>2, <1>3, <1>4 DEF GoodEvent
<1>7. e.type = "update" /\ e.status \in TerminalStatus =>
        /\ e.status # "REJECTED"
        /\ venue'[e.d].state = "done" /\ e.cum = venue'[e.d].matched
  BY <1>2, <1>4 DEF GoodEvent
<1> QED BY <1>5, <1>6, <1>7 DEF GoodEvent

(* The events of trades the venue has matched are good.                    *)
LEMMA GoodFills ==
  ASSUME NEW d \in Decision, NEW from \in 0 .. Size, NEW to \in 0 .. Size,
         to <= venue[d].matched, venue[d].matched \in Nat, orders[d] # NoOrder
  PROVE  FillEvents(d, from, to) \in Seq(GoodEvents)
<1> USE ExecutionAssumption
<1>1. CASE to < from
  <2>1. 1 .. (to - from) = {}
    BY <1>1, SMT
  <2>2. FillEvents(d, from, to) = << >>
    BY <2>1, SMT DEF FillEvents
  <2> QED BY <2>2
<1>2. CASE to >= from
  <2>1. to - from \in Nat
    BY <1>2, SMT DEF ExecutionAssumption
  <2>2. ASSUME NEW i \in 1 .. (to - from)
        PROVE  [type |-> "fill", d |-> d, k |-> from + i] \in GoodEvents
    <3>1. PICK e : e = [type |-> "fill", d |-> d, k |-> from + i]
      OBVIOUS
    <3>2. e.type = "fill" /\ e.d = d /\ e.k = from + i
      BY <3>1
    <3>3. e \in Event
      BY <3>1, SMT DEF Event, FillEvent, ExecutionAssumption
    <3>4. e.k <= venue[d].matched
      BY <3>2, SMT DEF ExecutionAssumption
    <3> QED BY <3>1, <3>2, <3>3, <3>4 DEF GoodEvents, GoodEvent
  <2> QED BY <2>1, <2>2, SMT DEF FillEvents
<1> QED BY <1>1, <1>2, SMT DEF ExecutionAssumption

(* So is the end of an order, told with all its trades.                    *)
LEMMA GoodEnding ==
  ASSUME NEW d \in Decision, NEW cum \in 0 .. Size, orders[d] # NoOrder,
         NEW ends \in BOOLEAN,
         ends => venue[d].state = "done" /\ cum = venue[d].matched
  PROVE  (IF ends THEN <<TerminalEvent(d, cum)>> ELSE << >>) \in Seq(GoodEvents)
<1>1. CASE ends
  <2>1. PICK e : e = TerminalEvent(d, cum)
    OBVIOUS
  <2>2. e \in Event
    BY <2>1, TerminalEventType
  <2>3. /\ e.type = "update" /\ e.d = d /\ e.cum = cum /\ e.status # "REJECTED"
    BY <2>1 DEF TerminalEvent
  <2>4. e \in GoodEvents
    BY <1>1, <2>2, <2>3 DEF GoodEvents, GoodEvent
  <2> QED BY <1>1, <2>1, <2>4
<1>2. CASE ~ends
  BY <1>2
<1> QED BY <1>1, <1>2

(* A step only takes events off the batch, or adds good ones.              *)
LEMMA BatchStep ==
  ASSUME IInv, VenueInv, KnownInv, BatchInv, [Next]_vars
  PROVE  batch' \in Seq(GoodEvents)
<1> USE DEF IInv
<1>0. \A d \in Decision : /\ venue[d].counted \in 0 .. Size /\ venue[d].matched \in Nat
                          /\ adapter[d].seen \in 0 .. Size
                          /\ venue[d].counted <= venue[d].matched
  BY ExecutionAssumption
     DEF TypeOK, VenueOrder, Tracked, VenueInv, ExecutionAssumption
<1>1. CASE batch' = batch
  BY <1>1 DEF BatchInv
<1>2. CASE batch' = << >>
  BY <1>2
<1>3. CASE batch # << >> /\ batch' = Tail(batch)
  BY <1>3 DEF BatchInv
<1>4. ASSUME NEW d \in Decision, PollOrder(d)
      PROVE  batch' \in Seq(GoodEvents)
  <2>1. PICK ends \in BOOLEAN :
          /\ ends = (venue[d].state = "done" /\ venue[d].counted >= venue[d].matched)
    BY Zenon
  <2>2. orders[d] # NoOrder
    BY <1>4 DEF PollOrder, KnownInv, Watched
  <2>3. FillEvents(d, adapter[d].seen, venue[d].counted) \in Seq(GoodEvents)
    BY <1>0, <2>2, GoodFills
  <2>4. ends => venue[d].state = "done" /\ venue[d].counted = venue[d].matched
    <3> SUFFICES ASSUME ends
                 PROVE  venue[d].state = "done" /\ venue[d].counted = venue[d].matched
      OBVIOUS
    <3>1. venue[d].state = "done" /\ venue[d].counted >= venue[d].matched
      BY <2>1, Zenon
    <3> QED BY <1>0, <3>1
  <2>5. (IF ends THEN <<TerminalEvent(d, venue[d].counted)>> ELSE << >>) \in Seq(GoodEvents)
    BY <1>0, <2>2, <2>4, GoodEnding
  <2>6. batch' = batch \o FillEvents(d, adapter[d].seen, venue[d].counted)
                   \o (IF ends THEN <<TerminalEvent(d, venue[d].counted)>> ELSE << >>)
    BY <1>4, <2>1, Zenon DEF PollOrder
  <2> QED BY <2>3, <2>5, <2>6 DEF BatchInv
<1>5. ASSUME NEW d \in Decision, ResolveUnknown(d)
      PROVE  batch' \in Seq(GoodEvents)
  <2>1. PICK ends \in BOOLEAN :
          /\ ends = (venue[d].state = "done" /\ venue[d].counted >= venue[d].matched)
    BY Zenon
  <2>2. orders[d] # NoOrder
    BY <1>5 DEF ResolveUnknown, UnknownOrders, NoOrder
  <2>3. FillEvents(d, 0, venue[d].counted) \in Seq(GoodEvents)
    BY <1>0, <2>2, GoodFills, ExecutionAssumption DEF ExecutionAssumption
  <2>4. ends => venue[d].state = "done" /\ venue[d].counted = venue[d].matched
    <3> SUFFICES ASSUME ends
                 PROVE  venue[d].state = "done" /\ venue[d].counted = venue[d].matched
      OBVIOUS
    <3>1. venue[d].state = "done" /\ venue[d].counted >= venue[d].matched
      BY <2>1, Zenon
    <3> QED BY <1>0, <3>1
  <2>5. (IF ends THEN <<TerminalEvent(d, venue[d].counted)>> ELSE << >>) \in Seq(GoodEvents)
    BY <1>0, <2>2, <2>4, GoodEnding
  <2>6. PICK e : e = [type |-> "update", d |-> d, cum |-> venue[d].matched, status |-> "LIVE"]
    OBVIOUS
  <2>7. e \in GoodEvents
    <3>1. e.type = "update" /\ e.d = d /\ e.status \notin TerminalStatus
      BY <2>6 DEF TerminalStatus
    <3>2. e \in Event
      BY <2>6 DEF TypeOK, VenueOrder, Event, UpdateEvent, OpenStatus
    <3> QED BY <2>2, <3>1, <3>2 DEF GoodEvents, GoodEvent
  <2>8. \/ batch' = << >> \/ batch' = <<e>>
        \/ batch' = FillEvents(d, 0, venue[d].counted)
                      \o (IF ends THEN <<TerminalEvent(d, venue[d].counted)>> ELSE << >>)
    BY <1>5, <2>1, <2>6, Zenon DEF ResolveUnknown, FoundEvents
  <2>9. PICK all : all = FillEvents(d, 0, venue[d].counted)
                      \o (IF ends THEN <<TerminalEvent(d, venue[d].counted)>> ELSE << >>)
    OBVIOUS
  <2>10. all \in Seq(GoodEvents)
    BY <2>3, <2>5, <2>9
  <2>11. batch' = << >> \/ batch' = <<e>> \/ batch' = all
    BY <2>8, <2>9
  <2>12. <<e>> \in Seq(GoodEvents)
    BY <2>7
  <2>13. CASE batch' = << >>
    BY <2>13
  <2> QED BY <2>10, <2>11, <2>12, <2>13
<1>6. \/ batch' = batch \/ batch' = << >>
      \/ batch # << >> /\ batch' = Tail(batch)
      \/ \E d \in Decision : PollOrder(d) \/ ResolveUnknown(d)
  BY DEF Next, Engine, Outside, vars, procVars, storeVars, venueVars, TaskInv,
         Execute, Submit, AckAccepted, AckAmbiguous, AckRejected, SubmitFails, SubmitReturns,
         PollStart, PollFails, PollDone, ResolveStuck,
         RecordFill, BookFill, ApplyUpdate, ApplyDone, Reconcile, Crash, Restart,
         OperatorResolves, VenueAccepts, VenueRejects, RequestLost, Match, VenueCloses,
         TradeCounts
<1> QED BY <1>1, <1>2, <1>3, <1>4, <1>5, <1>6

LEMMA BatchKept ==
  ASSUME IInv, VenueInv, KnownInv, BatchInv, [Next]_vars
  PROVE  BatchInv'
<1>1. CASE Crash
  BY <1>1 DEF Crash, BatchInv
<1>2. CASE Restart
  BY <1>2 DEF Restart, KnownInv, DownInv, BatchInv
<1>3. CASE ~Crash /\ ~Restart
  <2>1. batch' \in Seq(GoodEvents)
    BY BatchStep
  <2>2. GoodEvents \subseteq GoodEvents'
    BY <1>3, GoodStays
  <2> QED BY <2>1, <2>2, SeqMonotonic DEF BatchInv
<1> QED BY <1>1, <1>2, <1>3

(* The table of fills holds trades the venue has matched. *)
LEMMA FillsKept ==
  ASSUME IInv, VenueInv, BatchInv, FillsInv, [Next]_vars
  PROVE  FillsInv'
<1>1. \A d \in Decision : /\ venue[d].matched \in Nat /\ venue'[d].matched \in Nat
                          /\ venue'[d].matched >= venue[d].matched
  BY MatchedGrows
<1>2. \A f \in fills : f[1] \in Decision /\ f[2] \in Nat
  BY ExecutionAssumption DEF IInv, TypeOK, ExecutionAssumption
<1>3. CASE fills' = fills
  BY <1>1, <1>2, <1>3 DEF FillsInv
<1>4. CASE RecordFill
  <2>1. PICK d \in Decision, k \in Nat :
          /\ fills' = fills \/ fills' = fills \cup {<<d, k>>}
          /\ k <= venue[d].matched
    <3>1. Head(batch) \in GoodEvents /\ Head(batch).type = "fill"
      BY <1>4 DEF RecordFill, BatchInv
    <3>2. /\ Head(batch).d \in Decision /\ Head(batch).k \in Nat
          /\ Head(batch).k <= venue[Head(batch).d].matched
      BY <3>1, ExecutionAssumption
         DEF GoodEvents, GoodEvent, Event, FillEvent, UpdateEvent, ExecutionAssumption
    <3>3. \/ fills' = fills
          \/ fills' = fills \cup {<<Head(batch).d, Head(batch).k>>}
      BY <1>4 DEF RecordFill
    <3> QED BY <3>2, <3>3
  <2>2. k <= venue'[d].matched
    BY <1>1, <2>1
  <2> QED BY <1>1, <1>2, <2>1, <2>2 DEF FillsInv
<1>5. fills' = fills \/ RecordFill
  BY DEF Next, Engine, Outside, vars, procVars, storeVars, venueVars,
         Execute, Submit, AckAccepted, AckAmbiguous, AckRejected, SubmitFails, SubmitReturns,
         PollStart, PollOrder, PollFails, PollDone, ResolveUnknown, ResolveStuck,
         BookFill, ApplyUpdate, ApplyDone, Reconcile, Crash, Restart,
         OperatorResolves, VenueAccepts, VenueRejects, RequestLost, Match, VenueCloses,
         TradeCounts
<1> QED BY <1>3, <1>4, <1>5

(* How an order gets closed in a step, if it was not closed before: the    *)
(* venue has rejected it, the venue's terminal update is applied, or the   *)
(* operator closes it.                                                     *)
ClosedBy(d) ==
  \/ rows'[d].status = rows[d].status
  \/ /\ AckRejected
     /\ d = cur /\ rows'[d].status = "REJECTED" /\ rows[d].filled = 0
  \/ /\ ApplyUpdate
     /\ d = Head(batch).d /\ Head(batch).type = "update"
     /\ Head(batch).status \in TerminalStatus
     /\ rows'[d].status \in {Head(batch).status, "FILLED"}
     /\ Head(batch).cum = rows[d].filled \/ d \in audited'
  \/ d \in resolved'

Uncounted(d) ==
  /\ rows'[d].filled = rows[d].filled
  /\ rows'[d].status \in TerminalStatus => ClosedBy(d)

LEMMA OneRow ==
  ASSUME IInv, NEW c \in Decision, NEW rec \in OrderRecord,
         rows' = [rows EXCEPT ![c] = rec],
         rec.filled = rows[c].filled, rec.status \in TerminalStatus => ClosedBy(c)
  PROVE  \A d \in Decision : Uncounted(d)
<1>1. \A e \in Decision : rows'[e] = IF e = c THEN rec ELSE rows[e]
  BY DEF IInv, TypeOK
<1>2. Uncounted(c)
  BY <1>1 DEF Uncounted
<1>3. \A e \in Decision \ {c} : Uncounted(e)
  BY <1>1 DEF Uncounted, ClosedBy
<1> QED BY <1>2, <1>3

(* Only BookFill counts a share. *)
LEMMA CountStep ==
  ASSUME IInv, [Next]_vars, ~BookFill
  PROVE  \A d \in Decision : Uncounted(d)
<1> USE DEF IInv
<1>0. \A d \in Decision : rows[d] \in OrderRecord /\ orders[d] \in OrderRecord
  BY DEF TypeOK
<1>1. CASE rows' = rows
  BY <1>1 DEF Uncounted, ClosedBy
<1>2. ASSUME NEW d \in Decision, Execute(d)
      PROVE  \A e \in Decision : Uncounted(e)
  <2>1. PICK rec : rec = [NoOrder EXCEPT !.status = "INTENT"]
    OBVIOUS
  <2>2. rec \in OrderRecord /\ rec.status \notin TerminalStatus /\ rec.filled = 0
    BY <2>1, RecordFacts DEF OpenStatus
  <2>3. rows[d].filled = 0 /\ rows' = [rows EXCEPT ![d] = rec]
    BY <1>2, <2>1, RecordFacts DEF Execute, MayExecute
  <2> QED BY <2>2, <2>3, OneRow
<1>3. CASE Submit
  <2>1. PICK rec : rec = [NoOrder EXCEPT !.status = "SUBMITTING"]
    OBVIOUS
  <2>2. rec \in OrderRecord /\ rec.status \notin TerminalStatus /\ rec.filled = 0
    BY <2>1, RecordFacts DEF OpenStatus
  <2>3. cur \in Decision /\ rows[cur].filled = 0 /\ rows' = [rows EXCEPT ![cur] = rec]
    BY <1>3, <2>1 DEF Submit, Save, TaskInv
  <2> QED BY <2>2, <2>3, OneRow
<1>4. CASE AckAccepted \/ AckAmbiguous \/ AckRejected \/ SubmitFails
  <2>1. PICK st \in {"LIVE", "UNKNOWN", "REJECTED"}, x \in BOOLEAN :
          /\ SubmitReturns([status |-> st, filled |-> 0, xid |-> x])
          /\ st = "REJECTED" => AckRejected
    BY <1>4 DEF AckAccepted, AckAmbiguous, AckRejected, SubmitFails
  <2>2. PICK rec : rec = [status |-> st, filled |-> 0, xid |-> x]
    OBVIOUS
  <2>3. rec \in OrderRecord /\ rec.filled = 0 /\ rec.status = st
    BY <2>2, RecordFacts DEF OpenStatus, TerminalStatus
  <2>4. cur \in Decision /\ rows[cur].filled = 0 /\ rows' = [rows EXCEPT ![cur] = rec]
    BY <2>1, <2>2 DEF SubmitReturns, Save, TaskInv
  <2>5. rows'[cur] = rec
    BY <2>4 DEF TypeOK
  <2>6. rec.status \in TerminalStatus => ClosedBy(cur)
    <3> SUFFICES ASSUME rec.status \in TerminalStatus
                 PROVE  ClosedBy(cur)
      OBVIOUS
    <3>1. st = "REJECTED"
      BY <2>3 DEF TerminalStatus
    <3> QED BY <2>1, <2>3, <2>4, <2>5, <3>1 DEF ClosedBy
  <2> QED BY <2>3, <2>4, <2>6, OneRow
<1>5. CASE ApplyUpdate /\ rows' # rows
  <2>1. PICK ev : ev = Head(batch)
    OBVIOUS
  <2>2. PICK st : st = IF ev.status = "CANCELLED" /\ orders[ev.d].filled >= Size
                       THEN "FILLED" ELSE ev.status
    OBVIOUS
  <2>3. PICK rec : rec = [orders[ev.d] EXCEPT !.status = st, !.xid = TRUE]
    OBVIOUS
  <2>4. /\ ev.d \in Decision /\ ev.type = "update"
        /\ ev.status \in OpenStatus \cup TerminalStatus
    BY <1>5, <2>1, HeadFacts DEF ApplyUpdate, TypeOK
  <2>5. st \in {ev.status, "FILLED"} /\ (st \in TerminalStatus => ev.status \in TerminalStatus)
    BY <2>2 DEF TerminalStatus
  <2>6. /\ rec \in OrderRecord /\ rec.status = st
        /\ rec.filled = orders[ev.d].filled
    <3>1. st \in OpenStatus \cup TerminalStatus
      BY <2>4, <2>5 DEF TerminalStatus
    <3>2. PICK o \in OrderRecord : o = orders[ev.d]
      BY <1>0, <2>4
    <3>3. rec = [o EXCEPT !.status = st, !.xid = TRUE]
      BY <2>3, <3>2
    <3>4. rec \in OrderRecord /\ rec.status = st
      BY <3>1, <3>3, UpdatedRecord
    <3>5. rec.filled = o.filled
      BY <3>3 DEF OrderRecord
    <3> QED BY <3>2, <3>4, <3>5
  <2>7. /\ orders[ev.d] # NoOrder /\ orders[ev.d].status \notin TerminalStatus
        /\ rows' = [rows EXCEPT ![ev.d] = rec]
    BY <1>5, <2>1, <2>2, <2>3 DEF ApplyUpdate, Save
  <2>8. orders[ev.d] = rows[ev.d]
    BY <1>5, <2>4, <2>7 DEF ApplyUpdate, MirrorInv
  <2>9. ev.status \in TerminalStatus => ev.cum = rows[ev.d].filled \/ ev.d \in audited'
    BY <1>5, <2>1, <2>7, <2>8 DEF ApplyUpdate, Violation
  <2>10. rows'[ev.d] = rec
    BY <2>4, <2>7 DEF TypeOK
  <2>11. rec.status \in TerminalStatus => ClosedBy(ev.d)
    BY <1>5, <2>1, <2>4, <2>5, <2>6, <2>9, <2>10 DEF ClosedBy
  <2> QED BY <2>4, <2>6, <2>7, <2>8, <2>11, OneRow
<1>6. CASE Restart
  <2> DEFINE unknown(d) == [rows[d] EXCEPT !.status = "UNKNOWN"]
  <2>1. \A d \in Decision : rows'[d] = IF d \in OpenRows THEN unknown(d) ELSE rows[d]
    BY <1>6 DEF Restart
  <2>2. \A d \in Decision : unknown(d).status = "UNKNOWN" /\ unknown(d).filled = rows[d].filled
    BY <1>0 DEF OrderRecord
  <2> HIDE DEF unknown
  <2> QED BY <2>1, <2>2 DEF Uncounted, ClosedBy, TerminalStatus
<1>7. ASSUME NEW d \in Decision, OperatorResolves(d)
      PROVE  \A e \in Decision : Uncounted(e)
  <2>1. PICK rec : rec = [rows[d] EXCEPT !.status = "CANCELLED"]
    OBVIOUS
  <2>2. rec \in OrderRecord /\ rec.filled = rows[d].filled
    BY <1>0, <2>1, RecordFacts DEF TerminalStatus
  <2>3. rows' = [rows EXCEPT ![d] = rec] /\ d \in resolved'
    BY <1>7, <2>1 DEF OperatorResolves
  <2> QED BY <2>2, <2>3, OneRow DEF ClosedBy
<1>8. \/ rows' = rows \/ Submit \/ Restart \/ ApplyUpdate
      \/ AckAccepted \/ AckAmbiguous \/ AckRejected \/ SubmitFails
      \/ \E d \in Decision : Execute(d) \/ OperatorResolves(d)
  BY DEF Next, Engine, Outside, vars, procVars, storeVars, venueVars,
         PollStart, PollOrder, PollFails, PollDone, ResolveUnknown, ResolveStuck,
         RecordFill, ApplyDone, Reconcile, Crash, VenueAccepts, VenueRejects, RequestLost,
         Match, VenueCloses, TradeCounts
<1> QED BY <1>1, <1>2, <1>3, <1>4, <1>5, <1>6, <1>7, <1>8

(* What BookFill does to the row it counts a share in. *)
LEMMA BookStep ==
  ASSUME IInv, BookFill
  PROVE  /\ Head(batch).d \in Decision
         /\ rows'[Head(batch).d].filled = rows[Head(batch).d].filled + 1
         /\ rows'[Head(batch).d].status \in TerminalStatus =>
              rows[Head(batch).d].status = rows'[Head(batch).d].status
         /\ \A e \in Decision : e # Head(batch).d => rows'[e] = rows[e]
<1> USE DEF IInv
<1>1. PICK d : d = Head(batch).d
  OBVIOUS
<1>2. PICK st : st = IF orders[d].status \in {"UNKNOWN", "LIVE", "SUBMITTING"}
                     THEN "PARTIALLY_FILLED" ELSE orders[d].status
  OBVIOUS
<1>3. d \in Decision /\ orders[d] # NoOrder /\ orders[d] = rows[d]
  BY <1>1, HeadFacts DEF BookFill, TypeOK, TaskInv, MirrorInv
<1>4. PICK rec : rec = [status |-> st, filled |-> rows[d].filled + 1, xid |-> rows[d].xid]
  OBVIOUS
<1>5. rec.status = st /\ rec.filled = rows[d].filled + 1
  BY <1>4
<1>6. rows' = [rows EXCEPT ![d] = rec]
  BY <1>1, <1>2, <1>3, <1>4 DEF BookFill, Save
<1>7. st \in TerminalStatus => st = rows[d].status
  BY <1>2, <1>3 DEF TerminalStatus
<1>8. rows'[d] = rec /\ \A e \in Decision : e # d => rows'[e] = rows[e]
  BY <1>3, <1>6 DEF TypeOK
<1> QED BY <1>1, <1>3, <1>5, <1>7, <1>8

(* The table of fills is finite, and so is what it holds of an order.      *)
LEMMA FillsFinite ==
  ASSUME NEW F \in SUBSET (Decision \X (1 .. Size))
  PROVE  IsFiniteSet(F)
<1>1. IsFiniteSet(1 .. Size) /\ IsFiniteSet(Decision)
  BY FS_Interval, ExecutionAssumption DEF ExecutionAssumption
<1>2. IsFiniteSet(Decision \X (1 .. Size))
  BY <1>1, FS_Product
<1> QED BY <1>2, FS_Subset

(* An order has no more fills in the table than trades at the venue.       *)
LEMMA FillsWithinMatched ==
  ASSUME IInv, FillsInv, NEW d \in Decision
  PROVE  /\ IsFiniteSet(FillsOf(d)) /\ Cardinality(FillsOf(d)) \in Nat
         /\ Cardinality(FillsOf(d)) <= venue[d].matched
<1>1. FillsOf(d) \in SUBSET (Decision \X (1 .. Size))
  BY DEF IInv, TypeOK, FillsOf
<1>2. IsFiniteSet(FillsOf(d))
  BY <1>1, FillsFinite
<1>3. PICK m \in Nat : m = venue[d].matched
  BY ExecutionAssumption DEF IInv, TypeOK, VenueOrder, ExecutionAssumption
<1>4. FillsOf(d) \subseteq {d} \X (1 .. m)
  BY <1>1, <1>3 DEF FillsOf, FillsInv
<1>5. IsFiniteSet(1 .. m) /\ Cardinality(1 .. m) = m
  BY FS_Interval
<1>6. IsFiniteSet({d}) /\ Cardinality({d}) = 1
  BY FS_Singleton
<1>7. IsFiniteSet({d} \X (1 .. m)) /\ Cardinality({d} \X (1 .. m)) = 1 * m
  BY <1>5, <1>6, FS_Product
<1>8. Cardinality(FillsOf(d)) <= Cardinality({d} \X (1 .. m))
  BY <1>4, <1>7, FS_Subset
<1>9. Cardinality(FillsOf(d)) <= m
  BY <1>7, <1>8
<1> QED BY <1>2, <1>3, <1>9, FS_CardinalityType

(* A step that is no fill leaves the table alone and starts no booking.    *)
LEMMA IdleStep ==
  ASSUME [Next]_vars, ~RecordFill, ~BookFill
  PROVE  fills' = fills /\ (pc' = "filling" => pc = "filling" /\ batch' = batch)
BY DEF Next, Engine, Outside, vars, procVars, storeVars, venueVars,
       Execute, Submit, AckAccepted, AckAmbiguous, AckRejected, SubmitFails, SubmitReturns,
       PollStart, PollOrder, PollFails, PollDone, ResolveUnknown, ResolveStuck,
       ApplyUpdate, ApplyDone, Reconcile, Crash, Restart,
       OperatorResolves, VenueAccepts, VenueRejects, RequestLost, Match, VenueCloses,
       TradeCounts

(* What is counted is in the table of fills. *)
LEMMA CountKept ==
  ASSUME IInv, IInv', BatchInv, CountInv, [Next]_vars
  PROVE  CountInv'
<1>0. \A d \in Decision : rows[d].filled \in Nat /\ rows'[d].filled \in Nat
  <2>1. \A r \in OrderRecord : r.filled \in Nat
    BY DEF OrderRecord
  <2>2. \A d \in Decision : rows[d] \in OrderRecord /\ rows'[d] \in OrderRecord
    BY DEF IInv, TypeOK
  <2> QED BY <2>1, <2>2
<1>1. SUFFICES ASSUME NEW d \in Decision
               PROVE  Applied(d)' <= Cardinality(FillsOf(d)')
  BY DEF CountInv
<1>2. Applied(d) <= Cardinality(FillsOf(d))
  BY DEF CountInv
<1>3. IsFiniteSet(FillsOf(d)) /\ Cardinality(FillsOf(d)) \in Nat
  <2>1. FillsOf(d) \in SUBSET (Decision \X (1 .. Size))
    BY DEF IInv, TypeOK, FillsOf
  <2> QED BY <2>1, FillsFinite, FS_CardinalityType
<1>4. CASE RecordFill
  <2>1. rows' = rows /\ pc = "applying" /\ batch # << >>
    BY <1>4 DEF RecordFill
  <2>2. Applied(d) = rows[d].filled
    BY <1>0, <2>1 DEF Applied, Booking
  <2>3. PICK e \in Decision, k \in 1 .. Size : e = Head(batch).d /\ k = Head(batch).k
    <3>1. Head(batch).type = "fill"
      BY <1>4 DEF RecordFill
    <3> QED BY <2>1, <3>1, HeadFacts DEF IInv, TypeOK
  <2>4. CASE Fresh(e, k)
    <3>1. fills' = fills \cup {<<e, k>>} /\ <<e, k>> \notin fills /\ batch' = batch
      BY <1>4, <2>3, <2>4 DEF RecordFill, Fresh
    <3>2. CASE e = d
      <4>1. FillsOf(d)' = FillsOf(d) \cup {<<d, k>>} /\ <<d, k>> \notin FillsOf(d)
        BY <3>1, <3>2 DEF FillsOf
      <4>2. Cardinality(FillsOf(d)') = Cardinality(FillsOf(d)) + 1
        BY <1>3, <4>1, FS_AddElement
      <4>3. Applied(d)' <= rows[d].filled + 1 /\ Applied(d)' \in Nat
        BY <1>0, <2>1 DEF Applied
      <4>4. rows[d].filled <= Cardinality(FillsOf(d))
        BY <1>2, <2>2
      <4> HIDE DEF Applied, FillsOf
      <4> QED BY <1>0, <1>3, <4>2, <4>3, <4>4
    <3>3. CASE e # d
      <4>1. FillsOf(d)' = FillsOf(d)
        BY <3>1, <3>3 DEF FillsOf
      <4>2. ~Booking(d)'
        BY <2>3, <3>1, <3>3 DEF Booking
      <4>3. Applied(d)' = rows[d].filled
        BY <1>0, <2>1, <4>2 DEF Applied
      <4> QED BY <1>2, <2>2, <4>1, <4>3
    <3> QED BY <3>2, <3>3
  <2>5. CASE ~Fresh(e, k)
    <3>1. fills' = fills /\ pc' = "applying"
      BY <1>4, <2>3, <2>5 DEF RecordFill
    <3>2. Applied(d)' = rows[d].filled
      BY <1>0, <2>1, <3>1 DEF Applied, Booking
    <3>3. FillsOf(d)' = FillsOf(d)
      BY <3>1 DEF FillsOf
    <3> QED BY <1>2, <2>2, <3>2, <3>3
  <2> QED BY <2>4, <2>5
<1>5. CASE BookFill
  <2>1. pc = "filling" /\ pc' = "applying" /\ fills' = fills
    BY <1>5 DEF BookFill
  <2>2. Applied(d)' = rows'[d].filled
    BY <1>0, <2>1 DEF Applied, Booking
  <2>3. FillsOf(d)' = FillsOf(d)
    BY <2>1 DEF FillsOf
  <2>4. CASE d = Head(batch).d
    <3>1. Applied(d) = rows[d].filled + 1 /\ rows'[d].filled = rows[d].filled + 1
      BY <1>5, <2>1, <2>4, BookStep DEF Applied, Booking
    <3> QED BY <1>2, <2>2, <2>3, <3>1
  <2>5. CASE d # Head(batch).d
    <3>1. Applied(d) = rows[d].filled /\ rows'[d] = rows[d]
      BY <1>0, <1>5, <2>5, BookStep DEF Applied, Booking
    <3> QED BY <1>2, <2>2, <2>3, <3>1
  <2> QED BY <2>4, <2>5
<1>6. CASE ~RecordFill /\ ~BookFill
  <2>1. fills' = fills /\ (pc' = "filling" => pc = "filling" /\ batch' = batch)
    BY <1>6, IdleStep
  <2>2. rows'[d].filled = rows[d].filled
    BY <1>6, CountStep DEF Uncounted
  <2>3. Booking(d)' => Booking(d)
    BY <2>1 DEF Booking
  <2>4. Applied(d)' <= Applied(d)
    BY <1>0, <2>2, <2>3 DEF Applied
  <2>5. Applied(d)' \in Nat /\ Applied(d) \in Nat
    BY <1>0 DEF Applied
  <2>6. FillsOf(d)' = FillsOf(d)
    BY <2>1 DEF FillsOf
  <2> QED BY <1>2, <1>3, <2>4, <2>5, <2>6
<1> QED BY <1>4, <1>5, <1>6

(* What closes an order finds the venue finished with it and every share   *)
(* counted; what is closed stays as it is.                                 *)
LEMMA ClosedKept ==
  ASSUME IInv, VenueInv, BatchInv, FillsInv, CountInv, ClosedComplete, [Next]_vars
  PROVE  ClosedComplete'
<1>0. \A d \in Decision : rows[d].filled \in Nat
  BY DEF IInv, TypeOK, OrderRecord
<1>1. resolved \subseteq resolved' /\ audited \subseteq audited'
  BY DEF Next, Engine, Outside, vars, procVars, storeVars, venueVars, Violation,
         Execute, Submit, AckAccepted, AckAmbiguous, AckRejected, SubmitFails, SubmitReturns,
         PollStart, PollOrder, PollFails, PollDone, ResolveUnknown, ResolveStuck,
         RecordFill, BookFill, ApplyUpdate, ApplyDone, Reconcile, Crash, Restart,
         OperatorResolves, VenueAccepts, VenueRejects, RequestLost, Match, VenueCloses,
         TradeCounts
<1>2. SUFFICES ASSUME NEW d \in Decision, rows'[d].status \in TerminalStatus,
                      d \notin resolved', d \notin audited'
               PROVE  /\ venue'[d].state \in {"done", "rejected"}
                      /\ rows'[d].filled = venue'[d].matched
                      /\ rows'[d].status = "REJECTED" <=> venue'[d].state = "rejected"
  BY DEF ClosedComplete
<1>3. d \notin resolved \cup audited
  BY <1>1, <1>2
<1>4. CASE rows'[d].status = rows[d].status
  <2>1. /\ venue[d].state \in {"done", "rejected"}
        /\ rows[d].filled = venue[d].matched
        /\ rows[d].status = "REJECTED" <=> venue[d].state = "rejected"
    BY <1>2, <1>3, <1>4 DEF ClosedComplete
  <2>2. venue'[d].state = venue[d].state /\ venue'[d].matched = venue[d].matched
    <3>1. VenueMoves
      BY VenueStep
    <3>2. d \notin OpenRows
      BY <1>2, <1>4, RecordFacts DEF OpenRows
    <3> QED BY <2>1, <3>1, <3>2 DEF VenueMoves
  <2>3. rows'[d].filled = rows[d].filled
    <3>1. CASE BookFill
      <4>1. CASE d = Head(batch).d
        <5>1. Applied(d) = rows[d].filled + 1
          BY <3>1, <4>1 DEF BookFill, Applied, Booking
        <5>2. rows[d].filled + 1 <= Cardinality(FillsOf(d))
          BY <5>1 DEF CountInv
        <5> QED BY <1>0, <2>1, <5>2, FillsWithinMatched
      <4> QED BY <3>1, <4>1, BookStep
    <3>2. CASE ~BookFill
      BY <3>2, CountStep DEF Uncounted
    <3> QED BY <3>1, <3>2
  <2> QED BY <1>4, <2>1, <2>2, <2>3
<1>5. CASE rows'[d].status # rows[d].status
  <2>1. ~BookFill
    BY <1>2, <1>5, BookStep
  <2>2. rows'[d].filled = rows[d].filled /\ ClosedBy(d)
    BY <1>2, <2>1, CountStep DEF Uncounted
  <2>3. CASE AckRejected /\ d = cur /\ rows'[d].status = "REJECTED" /\ rows[d].filled = 0
    <3>1. venue[d].state = "rejected" /\ venue' = venue
      BY <2>3 DEF AckRejected, SubmitReturns, venueVars
    <3> QED BY <2>2, <2>3, <3>1 DEF VenueInv
  <2>4. CASE /\ ApplyUpdate
             /\ d = Head(batch).d /\ Head(batch).type = "update"
             /\ Head(batch).status \in TerminalStatus
             /\ rows'[d].status \in {Head(batch).status, "FILLED"}
             /\ Head(batch).cum = rows[d].filled \/ d \in audited'
    <3>1. venue' = venue /\ batch # << >>
      BY <2>4 DEF ApplyUpdate, venueVars
    <3>2. Head(batch) \in GoodEvents
      BY <3>1 DEF BatchInv
    <3>3. /\ Head(batch).status # "REJECTED"
          /\ venue[d].state = "done" /\ Head(batch).cum = venue[d].matched
      BY <2>4, <3>2 DEF GoodEvents, GoodEvent
    <3> QED BY <1>2, <2>2, <2>4, <3>1, <3>3
  <2> QED BY <1>2, <1>5, <2>2, <2>3, <2>4 DEF ClosedBy
<1> QED BY <1>4, <1>5

LEMMA DeliveryInit == Init => DeliveryInv
<1> SUFFICES ASSUME Init PROVE DeliveryInv
  OBVIOUS
<1>1. VenueInv
  BY DEF Init, VenueInv
<1>2. KnownInv
  BY DEF Init, KnownInv, DownInv, Watched, Untracked
<1>3. BatchInv /\ FillsInv
  BY DEF Init, BatchInv, FillsInv
<1>4. CountInv
  <2>1. \A d \in Decision : FillsOf(d) = {} /\ Applied(d) = 0
    BY DEF Init, FillsOf, Applied, Booking, NoOrder
  <2> QED BY <2>1, FS_EmptySet DEF CountInv
<1>5. ClosedComplete
  BY RecordFacts DEF Init, ClosedComplete
<1> QED BY <1>1, <1>2, <1>3, <1>4, <1>5 DEF DeliveryInv

LEMMA DeliveryStep == IInv /\ DeliveryInv /\ [Next]_vars => DeliveryInv'
<1> SUFFICES ASSUME IInv, DeliveryInv, [Next]_vars PROVE DeliveryInv'
  OBVIOUS
<1>1. /\ VenueInv /\ KnownInv /\ BatchInv /\ FillsInv /\ CountInv /\ ClosedComplete
      /\ IInv'
  BY Inductive DEF DeliveryInv
<1>2. VenueInv'
  BY <1>1, VenueStep
<1>3. KnownInv'
  BY <1>1, KnownKept
<1>4. BatchInv'
  BY <1>1, BatchKept
<1>5. FillsInv'
  BY <1>1, FillsKept
<1>6. CountInv'
  BY <1>1, CountKept
<1>7. ClosedComplete'
  BY <1>1, ClosedKept
<1> QED BY <1>2, <1>3, <1>4, <1>5, <1>6, <1>7 DEF DeliveryInv

(* Every step keeps what the delivery of trades rests on. *)
THEOREM Delivery == Spec => [](IInv /\ DeliveryInv)
<1>1. Init => IInv /\ DeliveryInv
  BY InitIInv, DeliveryInit
<1>2. IInv /\ DeliveryInv /\ [Next]_vars => (IInv /\ DeliveryInv)'
  BY Inductive, DeliveryStep
<1> QED BY <1>1, <1>2, PTL DEF Spec

(* No share is applied twice, and none the venue did not match.            *)
THEOREM AppliedOnce == Spec => []FillsAppliedOnce
<1>1. IInv /\ DeliveryInv => FillsAppliedOnce
  <2> SUFFICES ASSUME IInv, DeliveryInv, NEW d \in Decision
               PROVE  /\ rows[d].filled <= Cardinality(FillsOf(d))
                      /\ Cardinality(FillsOf(d)) <= venue[d].matched
    BY DEF FillsAppliedOnce
  <2>1. /\ Cardinality(FillsOf(d)) \in Nat
        /\ Cardinality(FillsOf(d)) <= venue[d].matched
    BY FillsWithinMatched DEF DeliveryInv
  <2>2. rows[d].filled \in Nat
    BY DEF IInv, TypeOK, OrderRecord
  <2>3. Applied(d) <= Cardinality(FillsOf(d))
    BY DEF DeliveryInv, CountInv
  <2> QED BY <2>1, <2>2, <2>3 DEF Applied
<1> QED BY <1>1, Delivery, PTL

(* Every event under way is of an order the engine knows.                  *)
THEOREM NoStrangers == Spec => []EventsAreKnown
<1>1. DeliveryInv => EventsAreKnown
  BY DEF DeliveryInv, BatchInv, GoodEvents, GoodEvent, EventsAreKnown
<1> QED BY <1>1, Delivery, PTL

(* An order is closed only with every matched share applied, or with the   *)
(* operator's word or an audited violation for it.                         *)
THEOREM ClosedWhole == Spec => []ClosedComplete
<1>1. DeliveryInv => ClosedComplete
  BY DEF DeliveryInv
<1> QED BY <1>1, Delivery, PTL
=============================================================================
