------------------------------ MODULE LossLimits ------------------------------
(***************************************************************************)
(* How much the bot can lose before its own limits stop it: the portfolio  *)
(* as it is marked (Portfolio.mark, _close), the limits the decision step  *)
(* checks (_mark, _check_loss_limits, RiskEngine.loss_limit_breaches), the *)
(* entries and exits they let through, and the kill switch they engage,    *)
(* over crashes and the operator's resets.                                 *)
(*                                                                         *)
(* One order is in flight at a time (execution.max_in_flight_orders, 1 by  *)
(* default).  A market stands for one token of it, and after a settlement  *)
(* for the next window.  Shares are left out: a position is what it cost   *)
(* and is worth between 0 and Payout.                                      *)
(***************************************************************************)
EXTENDS Integers, FiniteSets, Functions

CONSTANTS
  Markets,        \* markets that may be held at the same time
  Cash,           \* cash a process starts with
  Payout,         \* what a position that wins pays
  MaxOrder,       \* risk.max_order_size_usd
  MaxPosition,    \* risk.max_position_usd
  MaxExposure,    \* risk.max_total_exposure_usd
  MaxOpen,        \* risk.max_open_positions
  MaxDailyLoss,   \* risk.max_daily_loss_usd
  DailyLossPct,   \* risk.max_daily_loss_pct, in percent
  DrawdownPct,    \* risk.max_drawdown_pct, in percent
  MaxConsecutive, \* risk.max_consecutive_losses
  ExitsWhenKilled,\* exits.on_kill_switch = "exit_if_priced"
  NoMarket,
  MaxTrades,      \* bound: entries
  MaxDays,        \* bound: changes of the day
  MaxRestarts     \* bound: crashes of the bot

ASSUME ConstantsOK ==
  /\ IsFiniteSet(Markets) /\ NoMarket \notin Markets
  /\ {Cash, Payout, MaxOrder, MaxPosition, MaxExposure, MaxOpen, MaxDailyLoss, DailyLossPct,
      DrawdownPct, MaxConsecutive} \subseteq Nat \ {0}
  /\ {MaxTrades, MaxDays, MaxRestarts} \subseteq Nat
  /\ ExitsWhenKilled \in BOOLEAN

VARIABLES
  pc,        \* the part of the decision step to run next
  cash,      \* portfolio.cash_usd
  cost,      \* cost[m]: cost basis of the position in m, 0 without one
  marks,     \* portfolio.marks
  start,     \* portfolio.start_of_day_equity_usd
  peak,      \* portfolio.peak_equity_usd
  equity,    \* portfolio.risk_equity_usd, as of the last mark
  streak,    \* portfolio.consecutive_losses
  order,     \* the order in flight
  flag,      \* the durable kill switch
  killed,    \* the state machine is in KILL_SWITCH
  tripped,   \* history: limits were breached, and nobody has reset the switch and
             \* restarted the bot since
  trades, days, restarts   \* counters of the bounds

portfolio == <<cash, cost, marks, start, peak, equity, streak>>
bounds == <<trades, days, restarts>>
vars == <<pc, portfolio, order, flag, killed, tripped, bounds>>

NoOrder == [kind |-> "none", market |-> NoMarket, usd |-> 0, unknown |-> FALSE]
Pending == IF order.kind = "buy" THEN order.usd ELSE 0
Held == {m \in Markets : cost[m] > 0}
Sum(f) == FoldFunction(+, 0, f)
Exposure == Sum(cost) + Pending

Init ==
  /\ pc = "poll"
  /\ cash = Cash /\ start = Cash /\ peak = Cash /\ equity = Cash
  /\ cost = [m \in Markets |-> 0] /\ marks = [m \in Markets |-> 0] /\ streak = 0
  /\ order = NoOrder
  /\ flag = FALSE /\ killed = FALSE /\ tripped = FALSE
  /\ trades = 0 /\ days = 0 /\ restarts = 0
-----------------------------------------------------------------------------
(***************************************************************************)
(* Fills.  A buy fills at its notional or below; a sale sells the whole    *)
(* position; either may end without a fill.  A position settled before its *)
(* sale is found makes apply_fill raise, and the step's handler engages    *)
(* the kill switch; the order stays as it is.                              *)
(***************************************************************************)
\* Portfolio._close.
Counts(m, proceeds) == streak' = IF proceeds < cost[m] THEN streak + 1 ELSE 0

Closes(m, proceeds) ==
  /\ cash' = cash + proceeds
  /\ cost' = [cost EXCEPT ![m] = 0]
  /\ marks' = [marks EXCEPT ![m] = 0]
  /\ Counts(m, proceeds)

Fills ==
  \/ /\ order.kind = "buy"
     /\ \E usd \in 1..order.usd :
          /\ cash' = cash - usd
          /\ cost' = [cost EXCEPT ![order.market] = @ + usd]
     /\ UNCHANGED <<marks, streak>>
  \/ /\ order.kind = "sell" /\ order.market \in Held
     /\ \E proceeds \in 1..Payout : Closes(order.market, proceeds)

\* The order in flight as poll_events or the query for UNKNOWN orders finds it.
Ends == order' = NoOrder /\ (Fills \/ UNCHANGED <<cash, cost, marks, streak>>)

SoldWithoutPosition ==
  /\ order.kind = "sell" /\ order.market \notin Held
  /\ flag' = TRUE /\ killed' = TRUE
  /\ pc' = "poll"
  /\ UNCHANGED <<portfolio, order, tripped, bounds>>

Poll ==
  \/ /\ pc = "poll"
     /\ \/ order.kind # "none" /\ Ends
        \/ UNCHANGED <<order, cash, cost, marks, streak>>
     /\ pc' = "settle"
     /\ UNCHANGED <<start, peak, equity, flag, killed, tripped, bounds>>
  \/ pc = "poll" /\ SoldWithoutPosition

\* Official outcomes of held markets, in any order and number.
Settle ==
  \/ /\ pc = "settle"
     /\ \E m \in Held, payout \in {0, Payout} : Closes(m, payout)
     /\ UNCHANGED <<pc, start, peak, equity, order, flag, killed, tripped, bounds>>
  \/ /\ pc = "settle"
     /\ pc' = "mark"
     /\ UNCHANGED <<portfolio, order, flag, killed, tripped, bounds>>

-----------------------------------------------------------------------------
(***************************************************************************)
(* Portfolio.mark: gains count when realized only; a missing bid keeps the *)
(* last mark, 0 for a position that never had one.                         *)
(***************************************************************************)
Conservative(marked) == Sum([m \in Markets |-> IF marked[m] < cost[m] THEN marked[m] ELSE cost[m]])

Mark ==
  /\ pc = "mark"
  /\ \E bid \in [Held -> 0..Payout], seen \in SUBSET Held, newDay \in {0, 1} :
       LET marked == [m \in Markets |-> IF m \in seen THEN bid[m] ELSE marks[m]]
           value == cash + Conservative(marked)
       IN  /\ days + newDay <= MaxDays
           /\ \A m \in Held \ seen : bid[m] = 0
           /\ marks' = marked
           /\ equity' = value
           /\ start' = IF newDay = 1 THEN value ELSE start
           /\ peak' = IF value > peak THEN value ELSE peak
           /\ days' = days + newDay
  /\ pc' = "limits"
  /\ UNCHANGED <<cash, cost, streak, order, flag, killed, tripped, trades, restarts>>

\* Mutant: the daily loss is compared with its percentage only.
BreachInPercent ==
  \/ start > 0 /\ 100 * (start - equity) >= DailyLossPct * start
  \/ peak > 0 /\ 100 * (peak - equity) >= DrawdownPct * peak

\* RiskEngine.loss_limit_breaches.
Breach ==
  \/ start - equity >= MaxDailyLoss
  \/ start > 0 /\ 100 * (start - equity) >= DailyLossPct * start
  \/ peak > 0 /\ 100 * (peak - equity) >= DrawdownPct * peak

\* _check_loss_limits: a breach engages the kill switch, if nothing has.
CheckLimits ==
  /\ pc = "limits"
  /\ IF Breach /\ ~flag
     THEN flag' = TRUE /\ killed' = TRUE /\ tripped' = TRUE
     ELSE UNCHANGED <<flag, killed, tripped>>
  /\ pc' = "resolve"
  /\ UNCHANGED <<portfolio, order, bounds>>

\* _resolve_unknown, after the mark: what it finds is not in the equity yet.
Resolve ==
  \/ /\ pc = "resolve"
     /\ \/ order.unknown /\ Ends
        \/ /\ order.unknown
           /\ order' = [order EXCEPT !.unknown = FALSE]   \* found open on the venue
           /\ UNCHANGED <<cash, cost, marks, streak>>
        \/ UNCHANGED <<order, cash, cost, marks, streak>>
     /\ pc' = "exits"
     /\ UNCHANGED <<start, peak, equity, flag, killed, tripped, bounds>>
  \/ pc = "resolve" /\ order.unknown /\ SoldWithoutPosition

-----------------------------------------------------------------------------
(***************************************************************************)
(* Exits (ExitEngine.evaluate, RiskEngine.evaluate_exit).  Which rule asks *)
(* for one, and whether the book can price it, is left open; so are the    *)
(* other reasons for which an entry may be refused.                        *)
(***************************************************************************)
Submits(kind, m, usd) ==
  \E unknown \in BOOLEAN :
     order' = [kind |-> kind, market |-> m, usd |-> usd, unknown |-> unknown]

PolicyLetsExit == ~(flag \/ killed) \/ ExitsWhenKilled

\* ExitEngine.evaluate: with a book that prices it, some rule may ask for the sale.
Wanted(m) == m \in Held /\ PolicyLetsExit

\* evaluate_exit and execute.
MayExit(m) == PolicyLetsExit /\ m \in Held /\ order = NoOrder

Exit ==
  \/ /\ pc = "exits"
     /\ \E m \in Markets : Wanted(m) /\ MayExit(m) /\ Submits("sell", m, 0)
     /\ pc' = "entries"
     /\ UNCHANGED <<portfolio, flag, killed, tripped, bounds>>
  \/ /\ pc = "exits"
     /\ pc' = "entries"
     /\ UNCHANGED <<portfolio, order, flag, killed, tripped, bounds>>

\* Mutant: a streak of the limit's length still lets one more in.
MayEnterAtLimit(m) ==
  /\ ~flag /\ ~killed /\ order = NoOrder
  /\ ~Breach
  /\ streak <= MaxConsecutive
  /\ m \in Held \/ Cardinality(Held) < MaxOpen

\* evaluate_entry: the state of the bot and of the portfolio.
MayEnter(m) ==
  /\ ~flag /\ ~killed /\ order = NoOrder
  /\ ~Breach
  /\ streak < MaxConsecutive
  /\ m \in Held \/ Cardinality(Held) < MaxOpen

\* evaluate_entry: the caps the size is the least of.
Fits(m, usd) ==
  /\ usd <= MaxOrder
  /\ usd <= MaxPosition - cost[m]
  /\ usd <= MaxExposure - Exposure
  /\ usd <= cash - Pending

EnterMarket(m, usd) ==
  /\ pc = "entries" /\ trades < MaxTrades
  /\ MayEnter(m) /\ Fits(m, usd)
  /\ Submits("buy", m, usd)
  /\ trades' = trades + 1
  /\ pc' = "poll"
  /\ UNCHANGED <<portfolio, flag, killed, tripped, days, restarts>>

Enter == \E m \in Markets, usd \in 1..MaxOrder : EnterMarket(m, usd)

StepDone ==
  /\ pc = "entries"
  /\ pc' = "poll"
  /\ UNCHANGED <<portfolio, order, flag, killed, tripped, bounds>>

-----------------------------------------------------------------------------
\* "kill-switch reset", in a process of its own: the bot's state machine stays.
OperatorResets ==
  /\ flag
  /\ flag' = FALSE
  /\ UNCHANGED <<pc, portfolio, order, killed, tripped, bounds>>

\* Mutant: the durable switch is not read when the bot starts.
ForgetfulRestart ==
  /\ restarts < MaxRestarts
  /\ restarts' = restarts + 1
  /\ pc' = "poll"
  /\ cash' = Cash /\ start' = Cash /\ peak' = Cash /\ equity' = Cash
  /\ cost' = [m \in Markets |-> 0] /\ marks' = [m \in Markets |-> 0] /\ streak' = 0
  /\ order' = NoOrder
  /\ killed' = FALSE /\ tripped' = (tripped /\ flag)
  /\ UNCHANGED <<flag, days, trades>>

\* A crash and the start after it: a new portfolio (on paper a new exchange with it;
\* a live start demands a flat wallet), and the kill switch as it was left.
Restart ==
  /\ restarts < MaxRestarts
  /\ restarts' = restarts + 1
  /\ pc' = "poll"
  /\ cash' = Cash /\ start' = Cash /\ peak' = Cash /\ equity' = Cash
  /\ cost' = [m \in Markets |-> 0] /\ marks' = [m \in Markets |-> 0] /\ streak' = 0
  /\ order' = NoOrder
  /\ killed' = flag /\ tripped' = (tripped /\ flag)
  /\ UNCHANGED <<flag, days, trades>>

Next ==
  \/ Poll
  \/ Settle
  \/ Mark
  \/ CheckLimits
  \/ Resolve
  \/ Exit
  \/ Enter
  \/ StepDone
  \/ OperatorResets
  \/ Restart

Spec == Init /\ [][Next]_vars
-----------------------------------------------------------------------------
TypeOK ==
  /\ pc \in {"poll", "settle", "mark", "limits", "resolve", "exits", "entries"}
  /\ cash \in Nat /\ cost \in [Markets -> 0..MaxPosition] /\ marks \in [Markets -> 0..Payout]
  /\ {start, peak, equity, streak} \subseteq Nat
  /\ order \in {NoOrder} \union [kind : {"buy", "sell"}, market : Markets, usd : 0..MaxOrder,
                                 unknown : BOOLEAN]
  /\ flag \in BOOLEAN /\ killed \in BOOLEAN /\ tripped \in BOOLEAN
  /\ trades \in 0..MaxTrades /\ days \in 0..MaxDays /\ restarts \in 0..MaxRestarts

(***************************************************************************)
(* If everything held and everything in flight became worthless, the day   *)
(* would have lost no more than its limit, the exposure cap and one more   *)
(* position: the one whose sale is found after the mark of the step that   *)
(* enters again (_mark, _resolve_unknown, _entries).  The same holds for   *)
(* the drop from the peak.                                                 *)
(***************************************************************************)
Worst == cash - Pending
Slack == MaxExposure + MaxPosition

LossBounded ==
  /\ start - Worst < MaxDailyLoss + Slack
  /\ 100 * (peak - Worst) < DrawdownPct * peak + 100 * Slack

(***************************************************************************)
(* A losing streak ends the entries; what is open by then may make it      *)
(* longer by one position each, and the order in flight by one more when   *)
(* its market settles before its fill is found (Portfolio._close,          *)
(* evaluate_entry).                                                        *)
(***************************************************************************)
StreakBounded == streak <= MaxConsecutive + MaxOpen

(***************************************************************************)
(* A breach of the limits ends trading until the operator has reset the    *)
(* kill switch and the bot has been started again, whatever crashes and    *)
(* recoveries of the equity come in between (KillSwitch.engage,            *)
(* sync_from_persistence).                                                 *)
(***************************************************************************)
BreachLasts == [][Enter => ~tripped]_vars
=============================================================================
