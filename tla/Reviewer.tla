------------------------------- MODULE Reviewer -------------------------------
(***************************************************************************)
(* The review of candidates by Claude: the verdict the decision loop looks *)
(* up (CandidateReviewer.verdict_for), the reviews it schedules as tasks   *)
(* (TradingCore._schedule_review, run_review), the budget that is read     *)
(* before a call and booked after it (LLMBudget), the answers              *)
(* (ClaudeReviewClient.review) and their effect on the entries, for paper  *)
(* and live sessions and across restarts.                                  *)
(***************************************************************************)
EXTENDS Integers, Sequences, FiniteSets

CONSTANTS
  Keys,          \* market keys: condition id and token
  Modes,         \* llm.mode a session may be started with
  WithoutReview, \* llm.allow_trading_without_llm
  Outcomes,      \* outcomes of a call
  Worst,         \* worst-case cost of one call
  Cap,           \* llm.max_spend_per_day_usd
  PerMinute,     \* llm.max_calls_per_minute
  Minute,        \* the length of that window
  PerHour,       \* llm.max_calls_per_hour
  Hour,
  Day,
  Debounce,      \* llm.debounce_per_market_s
  CacheTTL,      \* llm.cache_ttl_s
  ApprovalTTL,   \* llm.approval_ttl_s
  Prices,        \* executable prices of a candidate
  MaxMove,       \* llm.max_price_move_since_review
  MaxTime,       \* bound: the clock
  MaxCalls,      \* bound: calls of all sessions
  MaxTasks,      \* bound: reviews scheduled and not started
  MaxRestarts    \* bound: crashes of the bot

Answers == {"approve", "reject", "refusal", "noop", "timeout", "blocked"}

ASSUME ConstantsOK ==
  /\ IsFiniteSet(Keys) /\ Keys # {}
  /\ Modes \subseteq {"off", "advisory", "required"} /\ Modes # {}
  /\ WithoutReview \in BOOLEAN
  /\ Outcomes \subseteq Answers /\ Prices \subseteq Nat
  /\ {Worst, Cap, PerMinute, Minute, PerHour, Hour, Debounce, CacheTTL, ApprovalTTL,
      MaxMove, MaxTime, MaxCalls, MaxTasks,
      MaxRestarts} \subseteq Nat
  /\ Day \in Nat \ {0}

VARIABLES
  now,      \* the clock
  mode,     \* llm.mode of this session
  entries,  \* reviewer._entries
  tasks,    \* reviews scheduled and not started, in order
  inFlight, \* reviewer._in_flight
  asked,    \* asked[k]: price under review
  spent,    \* budget.spent_today_usd
  day,      \* budget._day
  calls,    \* budget._calls
  lastCall, \* budget._last_call_by_market
  booked,   \* table llm_reviews: costs by day
  billed,   \* what the calls of a day have really cost (external)
  answer,   \* history: the last completed review of k in this session
  made, restarts   \* counters of the bounds

memory == <<entries, tasks, inFlight, asked, spent, day, calls, lastCall>>
vars == <<now, mode, memory, booked, billed, answer, made, restarts>>

Days == 0..(MaxTime \div Day)
DayOf(t) == t \div Day

Kind == {"none", "approve", "reject", "not_reviewed"}
Entry == [kind : Kind, at : Nat, price : Nat]
LastAnswer == [kind : Kind \union {"blocked"}, at : Nat, price : Nat]
NoEntry == [kind |-> "none", at |-> 0, price |-> 0]
Never == -1

\* budget._roll: what is left of the day's spend and of the hour's calls at time t.
SpentAt(t) == IF DayOf(t) = day THEN spent ELSE 0
Recent(t, window) == SelectSeq(calls, LAMBDA c : t - c < window)

\* Mutant: the budget of the day is compared without the cost of the call to come.
MayCallWhileLeft(k) ==
  /\ lastCall[k] = Never \/ now - lastCall[k] >= Debounce
  /\ Len(Recent(now, Minute)) < PerMinute
  /\ Len(Recent(now, Hour)) < PerHour
  /\ SpentAt(now) <= Cap

(***************************************************************************)
(* LLMBudget.blocked_reason.  The calls in flight are not among the calls  *)
(* nor in the spend.                                                       *)
(***************************************************************************)
MayCall(k) ==
  /\ lastCall[k] = Never \/ now - lastCall[k] >= Debounce
  /\ Len(Recent(now, Minute)) < PerMinute
  /\ Len(Recent(now, Hour)) < PerHour
  /\ SpentAt(now) + Worst <= Cap

\* CandidateReviewer._classify.
Classify(o) ==
  CASE o = "approve" -> "approve"
    [] o \in {"reject", "refusal", "blocked"} -> "reject"
    [] OTHER -> "not_reviewed"   \* NO_OP, timeout, error, no client

\* A prompt that is not sent costs nothing, an unknown outcome the worst case.
Costs(o) == IF o = "blocked" THEN {0} ELSE IF o = "timeout" THEN {Worst} ELSE 0..Worst

Init ==
  /\ now = 0 /\ mode \in Modes
  /\ entries = [k \in Keys |-> NoEntry] /\ tasks = <<>> /\ inFlight = {}
  /\ asked = [k \in Keys |-> 0]
  /\ spent = 0 /\ day = 0 /\ calls = <<>> /\ lastCall = [k \in Keys |-> Never]
  /\ booked = [d \in Days |-> 0] /\ billed = [d \in Days |-> 0]
  /\ answer = [k \in Keys |-> NoEntry]
  /\ made = 0 /\ restarts = 0
-----------------------------------------------------------------------------
(***************************************************************************)
(* verdict_for, a pure lookup.  "weak": the edge is below the threshold    *)
(* for a review, or there is no client.                                    *)
(***************************************************************************)
Distance(p, q) == IF p < q THEN q - p ELSE p - q
Lives(k, kind, ttl) == entries[k].kind = kind /\ now - entries[k].at <= ttl

\* Mutant: an approval holds for every price.
ApprovalOfAnyPrice(k, p) == Lives(k, "approve", ApprovalTTL)

ApprovalLives(k, p) ==
  Lives(k, "approve", ApprovalTTL) /\ Distance(p, entries[k].price) <= MaxMove

Verdict(k, p, weak) ==
  CASE mode = "off" -> "llm_off"
    [] mode # "off" /\ k \in inFlight -> "pending"
    [] mode # "off" /\ k \notin inFlight ->
         CASE Lives(k, "reject", CacheTTL) -> "rejected"
           [] Lives(k, "not_reviewed", CacheTTL) -> "not_reviewed"
           [] ApprovalLives(k, p) -> "approved"
           [] OTHER -> IF weak THEN "not_reviewed" ELSE "needs_call"

Allows(verdict) ==
  \/ verdict \in {"llm_off", "approved"}
  \/ verdict = "not_reviewed" /\ mode = "advisory" /\ WithoutReview

\* _try_entry: the candidate goes on to the risk engine, in the same synchronous stretch.
MayTrade(k, p, weak) == Allows(Verdict(k, p, weak))

\* Scheduled from an entry and again from a proposal of the same step, perhaps.
ScheduleReview(k, p) ==
  /\ Verdict(k, p, FALSE) = "needs_call"
  /\ Len(tasks) < MaxTasks
  /\ tasks' = Append(tasks, [key |-> k, price |-> p])
  /\ UNCHANGED <<now, mode, entries, inFlight, asked, spent, day, calls, lastCall,
                 booked, billed, answer, made, restarts>>

-----------------------------------------------------------------------------
(***************************************************************************)
(* run_review: up to the await of the call, and from its answer on.        *)
(***************************************************************************)
Enters(k, kind, p) == entries' = [entries EXCEPT ![k] = [kind |-> kind, at |-> now, price |-> p]]

Roll == spent' = SpentAt(now) /\ day' = DayOf(now) /\ calls' = Recent(now, Hour)

\* record_call, the row of llm_reviews and the entry.
Completes(k, p, o, cost) ==
  /\ spent' = SpentAt(now) + cost /\ day' = DayOf(now)
  /\ calls' = Append(Recent(now, Hour), now)
  /\ lastCall' = [lastCall EXCEPT ![k] = now]
  /\ booked' = [booked EXCEPT ![DayOf(now)] = @ + cost]
  /\ billed' = [billed EXCEPT ![DayOf(now)] = @ + cost]
  /\ Enters(k, Classify(o), p)
  /\ answer' = [answer EXCEPT ![k] = [kind |-> IF o = "blocked" THEN o ELSE Classify(o),
                                       at |-> now, price |-> p]]

\* Another task of the key got there first.
ReviewSkipped ==
  /\ tasks # <<>> /\ Head(tasks).key \in inFlight
  /\ tasks' = Tail(tasks)
  /\ UNCHANGED <<now, mode, entries, inFlight, asked, spent, day, calls, lastCall,
                 booked, billed, answer, made, restarts>>

ReviewRefused ==
  /\ tasks # <<>> /\ Head(tasks).key \notin inFlight /\ ~MayCall(Head(tasks).key)
  /\ Enters(Head(tasks).key, "not_reviewed", Head(tasks).price)
  /\ Roll
  /\ tasks' = Tail(tasks)
  /\ UNCHANGED <<now, mode, inFlight, asked, lastCall, booked, billed, answer,
                 made, restarts>>

CallStarts ==
  /\ tasks # <<>> /\ Head(tasks).key \notin inFlight /\ MayCall(Head(tasks).key)
  /\ made < MaxCalls
  /\ inFlight' = inFlight \union {Head(tasks).key}
  /\ asked' = [asked EXCEPT ![Head(tasks).key] = Head(tasks).price]
  /\ Roll
  /\ made' = made + 1
  /\ tasks' = Tail(tasks)
  /\ UNCHANGED <<now, mode, entries, lastCall, booked, billed, answer, restarts>>

\* The prompt matches a secret pattern: nothing is sent and nothing awaited.
PromptBlocked ==
  /\ "blocked" \in Outcomes /\ made < MaxCalls
  /\ tasks # <<>> /\ Head(tasks).key \notin inFlight /\ MayCall(Head(tasks).key)
  /\ Completes(Head(tasks).key, Head(tasks).price, "blocked", 0)
  /\ made' = made + 1
  /\ tasks' = Tail(tasks)
  /\ UNCHANGED <<now, mode, inFlight, asked, restarts>>

\* Tasks scheduled in one step start one after the other, before any of them is answered.
CallAnswered(k) ==
  /\ k \in inFlight /\ \A i \in DOMAIN tasks : tasks[i].key # k
  /\ \E o \in Outcomes \ {"blocked"} : \E cost \in Costs(o) : Completes(k, asked[k], o, cost)
  /\ inFlight' = inFlight \ {k}
  /\ asked' = [asked EXCEPT ![k] = 0]
  /\ UNCHANGED <<now, mode, tasks, made, restarts>>

-----------------------------------------------------------------------------
ClockAdvances ==
  /\ now < MaxTime
  /\ now' = now + 1
  /\ UNCHANGED <<mode, memory, booked, billed, answer, made, restarts>>

\* The calls in flight are billed and never booked; the next session reads the day's rows.
Crash ==
  /\ restarts < MaxRestarts
  /\ restarts' = restarts + 1
  /\ mode' \in Modes
  /\ \E lost \in 0..(Worst * Cardinality(inFlight)) :
       billed' = [billed EXCEPT ![DayOf(now)] = @ + lost]
  /\ entries' = [k \in Keys |-> NoEntry] /\ tasks' = <<>> /\ inFlight' = {}
  /\ asked' = [k \in Keys |-> 0]
  /\ spent' = booked[DayOf(now)] /\ day' = DayOf(now)
  /\ calls' = <<>> /\ lastCall' = [k \in Keys |-> Never]
  /\ answer' = [k \in Keys |-> NoEntry]
  /\ UNCHANGED <<now, booked, made>>

Next ==
  \/ ClockAdvances
  \/ \E k \in Keys, p \in Prices : ScheduleReview(k, p)
  \/ ReviewSkipped \/ ReviewRefused \/ CallStarts \/ PromptBlocked
  \/ \E k \in Keys : CallAnswered(k)
  \/ Crash

Spec == Init /\ [][Next]_vars

-----------------------------------------------------------------------------
TypeOK ==
  /\ now \in 0..MaxTime /\ mode \in Modes
  /\ entries \in [Keys -> Entry] /\ answer \in [Keys -> LastAnswer]
  /\ tasks \in Seq([key : Keys, price : Prices]) /\ inFlight \subseteq Keys
  /\ asked \in [Keys -> Nat]
  /\ spent \in Nat /\ day \in Days /\ calls \in Seq(0..MaxTime)
  /\ lastCall \in [Keys -> Nat \union {Never}]
  /\ booked \in [Days -> Nat] /\ billed \in [Days -> Nat]
  /\ made \in 0..MaxCalls /\ restarts \in 0..MaxRestarts

(***************************************************************************)
(* The day's spend exceeds its cap by the worst case of the calls that     *)
(* were in flight together, and of those a crash forgot, and by no more    *)
(* (LLMBudget.blocked_reason, record_call, llm_spend_since).               *)
(***************************************************************************)
K == Cardinality(Keys)

SpendBounded ==
  \A d \in Days : billed[d] <= Cap + (K - 1) * Worst + restarts * (K * Worst)

(***************************************************************************)
(* What is traded agrees with Claude's last answer, whatever tasks, calls  *)
(* and times overtake each other: never while a review is out, never on a  *)
(* rejection that still holds, and where a review is required only on an   *)
(* approval that is young and near its price (verdict_for, run_review).    *)
(***************************************************************************)
Answered(k, kind, ttl) == answer[k].kind = kind /\ now - answer[k].at <= ttl

TradesFollowAnswers ==
  \A k \in Keys, p \in Prices, weak \in BOOLEAN : mode # "off" /\ MayTrade(k, p, weak) =>
     /\ k \notin inFlight
     /\ ~Answered(k, "reject", CacheTTL)
     /\ mode = "required" => /\ Answered(k, "approve", ApprovalTTL)
                             /\ Distance(p, answer[k].price) <= MaxMove

(***************************************************************************)
(* llm/reviewer.py: a prompt that matches a secret pattern is never sent   *)
(* and blocks the trade.                                                   *)
(***************************************************************************)
BlockedPromptBlocks ==
  \A k \in Keys, p \in Prices, weak \in BOOLEAN :
     mode # "off" /\ MayTrade(k, p, weak) => ~Answered(k, "blocked", CacheTTL)

(***************************************************************************)
(* llm/budget.py: a call is allowed only if its worst-case cost still fits *)
(* in the remaining daily budget, so the day's spend stays within it.      *)
(***************************************************************************)
SpendWithinCap == spent <= Cap
=============================================================================
