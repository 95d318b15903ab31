------------------------------ MODULE Proposals -------------------------------
(***************************************************************************)
(* Proposals of MCP clients.  Server processes, one per client, append     *)
(* them to the inbox database under a rate limit that is read before the   *)
(* insert (BotReadModel._submit); each step of the trading loop reads the  *)
(* pending ones and answers them one by one (TradingCore._proposals): it   *)
(* expires, rejects or turns one into an order and then marks it.  The     *)
(* loop may fail or crash at any point, the clock goes on during a step.   *)
(***************************************************************************)
EXTENDS Integers, Sequences, FiniteSets

CONSTANTS
  Servers,      \* MCP server processes
  Tokens,       \* tokens of the markets that trade
  PerMinute,    \* mcp.max_proposals_per_minute
  Minute,       \* MINUTE_MS
  TTL,          \* mcp.proposal_ttl_s
  MaxInFlight,  \* execution.max_in_flight_orders
  MaxTime,      \* bound: the clock
  MaxProposals, \* bound: proposals submitted
  MaxBreaks,    \* bound: exceptions between an order and its mark
  MaxRestarts   \* bound: crashes of the bot

ASSUME ConstantsOK ==
  /\ IsFiniteSet(Servers) /\ Servers # {} /\ IsFiniteSet(Tokens)
  /\ {PerMinute, Minute, TTL, MaxInFlight, MaxTime, MaxProposals, MaxBreaks,
      MaxRestarts} \subseteq Nat

VARIABLES
  now,     \* the clock
  inbox,   \* table proposals, in the order of insertion
  checked, \* checked[s]: time of the request whose rate check s has passed
  pc,      \* where the step is
  stepNow, \* the time the step read when it began
  queue,   \* pending proposals this step has still to answer
  open,    \* tokens of execution.open_orders()
  orders,  \* history: orders placed for each proposal
  breaks,  \* history: times a proposal was acted on and not marked
  restarts \* counter of the bound

rows == <<inbox, checked>>
loop == <<pc, stepNow, queue>>
history == <<orders, breaks>>
vars == <<now, rows, loop, open, history, restarts>>

NoRequest == -1
Kinds == {"trade", "close"}
Statuses == {"PENDING", "EXPIRED", "REJECTED", "ACCEPTED"}
Ids == 1..MaxProposals
Proposal == [created : Nat, kind : Kinds, status : Statuses]

Init ==
  /\ now = 0
  /\ inbox = <<>> /\ checked = [s \in Servers |-> NoRequest]
  /\ pc = "idle" /\ stepNow = 0 /\ queue = <<>>
  /\ open = {}
  /\ orders = [i \in Ids |-> 0] /\ breaks = [i \in Ids |-> 0]
  /\ restarts = 0
-----------------------------------------------------------------------------
ClockAdvances ==
  /\ now < MaxTime
  /\ now' = now + 1
  /\ UNCHANGED <<rows, loop, open, history, restarts>>

(***************************************************************************)
(* The MCP server.  count_since counts what other processes have inserted; *)
(* what they have only checked is not there yet.                           *)
(***************************************************************************)
\* Mutant: the proposals of the first instant of the minute are not counted.
CountAfter(t) == Cardinality({i \in DOMAIN inbox : inbox[i].created > t})

CountSince(t) == Cardinality({i \in DOMAIN inbox : inbox[i].created >= t})

MayPropose == CountSince(now - Minute) < PerMinute

RequestIsChecked(s) ==
  /\ checked[s] = NoRequest /\ MayPropose
  /\ now + TTL < MaxTime  \* bound: time is left for it to expire
  /\ checked' = [checked EXCEPT ![s] = now]
  /\ UNCHANGED <<now, inbox, loop, open, history, restarts>>

RequestIsStored(s) ==
  /\ checked[s] # NoRequest /\ Len(inbox) < MaxProposals
  /\ \E k \in Kinds :
       inbox' = Append(inbox, [created |-> checked[s], kind |-> k, status |-> "PENDING"])
  /\ checked' = [checked EXCEPT ![s] = NoRequest]
  /\ UNCHANGED <<now, loop, open, history, restarts>>
-----------------------------------------------------------------------------
(***************************************************************************)
(* What a step does before it reads the inbox, as far as proposals see it: *)
(* polled orders end, and the loop places entries and exits of its own.    *)
(* Which token a proposal names and which tokens are held is left open.    *)
(***************************************************************************)
StepBegins ==
  /\ pc = "idle"
  /\ pc' = "working" /\ stepNow' = now
  /\ \E ended \in SUBSET open, new \in SUBSET Tokens :
       /\ open' = (open \ ended) \union new
       /\ new # {} => Cardinality(open') <= MaxInFlight
  /\ UNCHANGED <<now, rows, queue, history, restarts>>

(***************************************************************************)
(* inbox.pending(): read once in a step, ORDER BY created_ms.              *)
(***************************************************************************)
\* Mutant: every proposal that has not expired is read.
NotExpired == {i \in DOMAIN inbox : inbox[i].status # "EXPIRED"}

Pending == {i \in DOMAIN inbox : inbox[i].status = "PENDING"}

Before(i, j) ==
  \/ inbox[i].created < inbox[j].created
  \/ inbox[i].created = inbox[j].created /\ i < j

ReadInbox ==
  /\ pc = "working"
  /\ pc' = "answering"
  /\ queue' \in [1..Cardinality(Pending) -> Pending]
  /\ \A k, l \in DOMAIN queue' : k < l => Before(queue'[k], queue'[l])
  /\ UNCHANGED <<now, rows, stepNow, open, history, restarts>>

\* inbox.mark and the next turn of the loop.
Mark(i, status) ==
  /\ inbox' = [inbox EXCEPT ![i].status = status]
  /\ queue' = Tail(queue)
  /\ UNCHANGED checked

Answering == pc = "answering" /\ queue # <<>>

\* Mutant: the time to live is taken in milliseconds twice.
ExpiredLate(i) == stepNow - inbox[i].created > 1000 * TTL

Expired(i) == stepNow - inbox[i].created > TTL

Expires ==
  /\ Answering /\ Expired(Head(queue))
  /\ Mark(Head(queue), "EXPIRED")
  /\ UNCHANGED <<now, pc, stepNow, open, history, restarts>>

(***************************************************************************)
(* _handle_proposal.  State, market, edge, review or risk engine may       *)
(* refuse any proposal; a malformed payload is refused as well.            *)
(***************************************************************************)
Rejects ==
  /\ Answering /\ ~Expired(Head(queue))
  /\ Mark(Head(queue), "REJECTED")
  /\ UNCHANGED <<now, pc, stepNow, open, history, restarts>>

\* ExecutionEngine.execute: one more order may be in flight.
MayExecute == Cardinality(open) < MaxInFlight

Places(i, token) ==
  /\ open' = open \union {token}
  /\ orders' = [orders EXCEPT ![i] = @ + 1]
  /\ pc' = "acted"
  /\ UNCHANGED <<now, rows, stepNow, queue, breaks, restarts>>

Acting(kind) == Answering /\ ~Expired(Head(queue)) /\ inbox[Head(queue)].kind = kind

PlacesEntry(token) ==
  /\ Acting("trade") /\ MayExecute
  /\ token \notin open
  /\ Places(Head(queue), token)

\* evaluate_exit: nothing of the token is in flight.
PlacesExit(token) ==
  /\ Acting("close") /\ MayExecute
  /\ token \notin open
  /\ Places(Head(queue), token)

(***************************************************************************)
(* _submit_exit returns the decision of the risk engine, which does not    *)
(* count orders in flight; that execute() refused the exit is logged.      *)
(***************************************************************************)
ExitIsRefused ==
  /\ Acting("close") /\ ~MayExecute
  /\ open # Tokens
  /\ pc' = "acted"
  /\ UNCHANGED <<now, rows, stepNow, queue, open, history, restarts>>

Accepts ==
  /\ pc = "acted"
  /\ Mark(Head(queue), "ACCEPTED")
  /\ pc' = "answering"
  /\ UNCHANGED <<now, stepNow, open, history, restarts>>

StepEnds ==
  /\ pc = "answering" /\ queue = <<>>
  /\ pc' = "idle"
  /\ UNCHANGED <<now, rows, stepNow, queue, open, history, restarts>>

Unmarked ==
  IF pc = "acted" THEN [breaks EXCEPT ![Head(queue)] = @ + 1] ELSE breaks

\* An exception that _proposals does not catch ends the step, not the loop.
StepFails ==
  /\ \/ pc = "acted" /\ breaks[Head(queue)] < MaxBreaks
     \/ Answering /\ ~Expired(Head(queue))
  /\ pc' = "idle" /\ queue' = <<>>
  /\ breaks' = Unmarked
  /\ UNCHANGED <<now, rows, stepNow, open, orders, restarts>>

\* The open orders are durable.
Crash ==
  /\ restarts < MaxRestarts
  /\ restarts' = restarts + 1
  /\ pc' = "idle" /\ queue' = <<>>
  /\ breaks' = Unmarked
  /\ UNCHANGED <<now, rows, stepNow, open, orders>>

LoopGoesOn ==
  \/ StepBegins
  \/ ReadInbox
  \/ Expires
  \/ Rejects
  \/ \E t \in Tokens : PlacesEntry(t)
  \/ \E t \in Tokens : PlacesExit(t)
  \/ ExitIsRefused
  \/ Accepts
  \/ StepEnds
  \/ StepFails

Next ==
  \/ ClockAdvances
  \/ \E s \in Servers : RequestIsChecked(s)
  \/ \E s \in Servers : RequestIsStored(s)
  \/ LoopGoesOn
  \/ Crash

Spec == Init /\ [][Next]_vars

\* The loop goes on whatever a step did, and time passes.
LoopFairness == WF_vars(LoopGoesOn) /\ WF_vars(ReadInbox) /\ WF_vars(ClockAdvances)
FairSpec == Spec /\ LoopFairness
-----------------------------------------------------------------------------
(***************************************************************************)
(* Type invariant.  Ids in the queue are pending rows, each once.          *)
(***************************************************************************)
TypeOK ==
  /\ now \in 0..MaxTime /\ stepNow \in 0..now
  /\ inbox \in Seq(Proposal) /\ Len(inbox) <= MaxProposals
  /\ checked \in [Servers -> {NoRequest} \union 0..now]
  /\ pc \in {"idle", "working", "answering", "acted"}
  /\ queue \in Seq(Pending)
  /\ \A k, l \in DOMAIN queue : k # l => queue[k] # queue[l]
  /\ pc = "acted" => queue # <<>>
  /\ open \subseteq Tokens
  /\ orders \in [Ids -> Nat] /\ breaks \in [Ids -> Nat] /\ restarts \in 0..MaxRestarts

(***************************************************************************)
(* An answer is true: a proposal answered REJECTED or EXPIRED has never    *)
(* become an order, an accepted trade has become exactly one, a proposal   *)
(* is never traded twice - unless the step broke between order and mark,   *)
(* and then once more for each such break.                                 *)
(***************************************************************************)
ActedOn(i) == pc = "acted" /\ Head(queue) = i

AnswersAreTrue ==
  \A i \in DOMAIN inbox :
    /\ orders[i] <= 1 + breaks[i]
    /\ breaks[i] = 0 =>
         /\ inbox[i].status # "ACCEPTED" /\ ~ActedOn(i) => orders[i] = 0
         /\ inbox[i].status = "ACCEPTED" /\ inbox[i].kind = "trade" => orders[i] = 1

(***************************************************************************)
(* The rate limit holds up to the processes that may pass the check        *)
(* together: a minute has at most the limit and one for each other server. *)
(***************************************************************************)
RateBounded ==
  \A t \in 0..now :
    Cardinality({i \in DOMAIN inbox : inbox[i].created \in t..(t + Minute)})
      <= PerMinute + Cardinality(Servers) - 1

(***************************************************************************)
(* Every proposal is answered, even if its handling raises every time and  *)
(* ends the step for those behind it: it expires in the end.               *)
(***************************************************************************)
EveryProposalIsAnswered ==
  \A i \in Ids :
    (i \in DOMAIN inbox /\ inbox[i].status = "PENDING")
      ~> (i \in DOMAIN inbox /\ inbox[i].status # "PENDING")

(***************************************************************************)
(* "exit submitted" (app/core.py:852) is the answer to an accepted close.  *)
(***************************************************************************)
AcceptedExitIsSubmitted ==
  \A i \in DOMAIN inbox :
    inbox[i].status = "ACCEPTED" /\ inbox[i].kind = "close" => orders[i] > 0
=============================================================================
