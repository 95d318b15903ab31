------------------------------- MODULE Ledger -------------------------------
(***************************************************************************)
(* The money: the bot's Portfolio, the ledger of the venue (PaperExchange, *)
(* or the wallet of a live session), and what compares the two.            *)
(*                                                                         *)
(* pc is where DecisionCore.step is: polling the venue, applying the       *)
(* events, settling resolved markets, reading the account, trading.  The   *)
(* venue, the market data and the operator act in between.  Every trade is *)
(* one share; whether an order's events reach the engine once and in order *)
(* is the subject of module Execution, and here they do.  Time is not      *)
(* modelled: a cooldown or an interval may have passed or not.             *)
(***************************************************************************)
EXTENDS Integers, Sequences, FiniteSets, Functions

CONSTANTS
  Market,       \* market windows
  Outcome,      \* the two outcomes of each
  MaxOrders,    \* bound on the orders of a behaviour
  Modes,        \* possible values of live
  Limits,       \* possible values of limit
  Prices,       \* prices at which a share trades before the resolution
  BuyLimit,     \* limit price of entries
  SellFloor,    \* minimum price of exits
  Payout,       \* what a winning share pays
  Fee,          \* taker fee of a share (between the Prices it is nearly flat)
  Cash0,        \* cash at the start
  MaxOrderSize, MaxPosition, MaxExposure, MaxOpen, Reserve, \* risk policy
  MaxReversals  \* bound on trades that fail after they were reported

ASSUME LedgerAssumption ==
  /\ IsFiniteSet(Market)
  /\ IsFiniteSet(Outcome) /\ Cardinality(Outcome) = 2
  /\ Outcome \cap {"running", "ended"} = {}
  /\ MaxOrders \in Nat
  /\ Modes \subseteq BOOLEAN /\ Modes # {}
  /\ Limits \subseteq Nat \ {0} /\ Limits # {}
  /\ Prices \subseteq Nat \ {0} /\ IsFiniteSet(Prices)
  /\ BuyLimit \in Prices /\ SellFloor \in Prices
  /\ Payout \in Nat /\ \A p \in Prices : p < Payout
  /\ Fee \in Nat /\ Cash0 \in Nat
  /\ MaxOrderSize \in Nat /\ MaxPosition \in Nat /\ MaxExposure \in Nat
  /\ MaxOpen \in Nat \ {0} /\ Reserve \in Nat
  /\ MaxReversals \in Nat

Token    == Market \X Outcome
Mkt(t)   == t[1]
Other(t) == <<t[1], CHOOSE o \in Outcome : o # t[2]>>

VARIABLES
  live,      \* TradingMode.LIVE: the venue is a wallet, the bot cannot redeem
  limit,     \* execution.max_in_flight_orders
  (* Portfolio *)
  cash, shares, cost, realized,
  (* DecisionCore *)
  orders,    \* ExecutionEngine.orders, by order of submission
  pending,   \* _pending_redemption: token -> payout, 0 when absent
  settled,   \* markets in the settlement table
  reconOk,   \* health.last_reconciliation_ok
  failures,  \* _recon_failures
  halted,    \* account_anomaly, and HALTED with manual_only
  killed,    \* the kill switch
  pc, batch,
  balance,   \* the collateral read by account_snapshot
  (* Outside the bot *)
  phase,     \* of each window: running, ended, or its winning outcome
  venue,     \* the venue's side of each order
  vcash, vpos,
  (* History and bounds *)
  tears,     \* redemptions in the middle of an account snapshot
  odd,       \* what else happened that a comparison may stumble over
  reversals

botVars    == <<cash, shares, cost, realized>>
moneyVars  == <<vcash, vpos>>
coreVars   == <<pending, settled, reconOk, failures, halted>>
configVars == <<live, limit>>
vars == <<configVars, botVars, moneyVars, coreVars, orders, killed, pc, batch, balance,
          phase, venue, tears, odd, reversals>>

-----------------------------------------------------------------------------
Order == [side : {"buy", "sell"}, token : Token,
          amount : Nat,      \* buy: most notional to spend; sell: shares
          used : Nat,        \* of the amount, by applied fills
          open : BOOLEAN]

(* The venue's side: trades by price, what is left of the amount, whether  *)
(* the order is finished, how many events the adapter has fetched.         *)
VenueOrder == [trades : Seq(Prices), left : Nat, done : BOOLEAN, seen : Nat]

(* An event: a fill at a price, or the end of the order. *)
Event == [i : Nat, type : {"fill", "end"}, price : Nat]

Open      == {i \in DOMAIN orders : orders[i].open}
InFlight  == {orders[i].token : i \in Open}
Left(i)   == orders[i].amount - orders[i].used
OpenBuys  == {i \in Open : orders[i].side = "buy"}
PendingBuy  == SumFunction([i \in OpenBuys |-> Left(i)])
CostBasis   == SumFunction(cost)
Exposure    == CostBasis + PendingBuy
Held        == {t \in Token : shares[t] > 0}
Resolved(m) == phase[m] \in Outcome
Winner(m)   == <<m, phase[m]>>

NotRead == [cash |-> 0, clean |-> TRUE]

PortfolioType ==
  /\ cash \in Int /\ realized \in Int
  /\ shares \in [Token -> Nat] /\ cost \in [Token -> Nat]
OrdersType ==
  /\ orders \in Seq(Order) /\ Len(orders) <= MaxOrders
  /\ venue \in Seq(VenueOrder) /\ Len(venue) = Len(orders)
CoreType ==
  /\ pending \in [Token -> Nat] /\ settled \subseteq Market
  /\ reconOk \in BOOLEAN /\ failures \in 0 .. 2 /\ halted \in BOOLEAN /\ killed \in BOOLEAN
StepType ==
  /\ pc \in {"polling", "applying", "settling", "reconciling", "comparing", "trading"}
  /\ batch \in Seq(Event)
  /\ balance \in [cash : Int, clean : BOOLEAN]
OutsideType ==
  /\ live \in BOOLEAN /\ limit \in Limits
  /\ phase \in [Market -> {"running", "ended"} \cup Outcome]
  /\ vcash \in Int /\ vpos \in [Token -> Nat]
  /\ tears \in Nat /\ odd \subseteq {"late", "incomplete", "loser", "reversal"}
  /\ reversals \in 0 .. MaxReversals

TypeOK == PortfolioType /\ OrdersType /\ CoreType /\ StepType /\ OutsideType

Init ==
  /\ live \in Modes /\ limit \in Limits
  /\ cash = Cash0 /\ realized = 0
  /\ shares = [t \in Token |-> 0] /\ cost = [t \in Token |-> 0]
  /\ orders = << >> /\ venue = << >>
  /\ pending = [t \in Token |-> 0]
  /\ settled = {}
  /\ reconOk = FALSE /\ failures = 0 /\ halted = FALSE /\ killed = FALSE
  /\ pc = "polling" /\ batch = << >>
  /\ balance = NotRead
  /\ phase = [m \in Market |-> "running"]
  /\ vcash = Cash0 /\ vpos = [t \in Token |-> 0]
  /\ tears = 0 /\ odd = {} /\ reversals = 0

-----------------------------------------------------------------------------
(* Polling: poll_events().                                                 *)

(* Events of order i that the adapter has not fetched. *)
Events(i) ==
  LET v == venue[i]
      fill(k) == [i |-> i, type |-> "fill", price |-> v.trades[k]]
  IN  [k \in 1 .. Len(v.trades) |-> fill(k)]
        \o (IF v.done THEN <<[i |-> i, type |-> "end", price |-> 0]>> ELSE << >>)
Unseen(i) == SubSeq(Events(i), venue[i].seen + 1, Len(Events(i)))

(* One event of an open order; the orders are polled in turn. *)
Fetch(i) ==
  /\ pc = "polling" /\ i \in Open
  /\ \A k \in DOMAIN batch : batch[k].i <= i
  /\ Unseen(i) # << >>
  /\ batch' = Append(batch, Head(Unseen(i)))
  /\ venue' = [venue EXCEPT ![i].seen = @ + 1]
  /\ UNCHANGED <<configVars, botVars, moneyVars, coreVars, orders, killed, pc, balance,
                 phase, tears, odd, reversals>>

(* The simulated venue hands over everything; a live one may list a trade  *)
(* with a counted status only later.                                       *)
FetchDone ==
  /\ pc = "polling"
  /\ live \/ \A i \in Open : Unseen(i) = << >>
  /\ pc' = "applying"
  /\ UNCHANGED <<configVars, botVars, moneyVars, coreVars, orders, killed, batch, balance,
                 phase, venue, tears, odd, reversals>>

-----------------------------------------------------------------------------
(* Applying: apply_events(), and Portfolio.apply_fill for each fill.       *)

BuyFill(t, price) ==
  /\ cash' = cash - (price + Fee)
  /\ shares' = [shares EXCEPT ![t] = @ + 1]
  /\ cost' = [cost EXCEPT ![t] = @ + price + Fee]
  /\ UNCHANGED realized

(* The cost removed with one share: pro rata, and all of it with the last. *)
CostRemoved(t) == cost[t] \div shares[t]

SellFill(t, price) ==
  /\ cash' = cash + price - Fee
  /\ shares' = [shares EXCEPT ![t] = @ - 1]
  /\ cost' = [cost EXCEPT ![t] = @ - CostRemoved(t)]
  /\ realized' = realized + price - Fee - CostRemoved(t)

(* InvariantError: the fill costs more than the cash, or sells what the    *)
(* portfolio does not hold.                                                *)
Breaks(side, t, price) ==
  IF side = "buy" THEN price + Fee > cash ELSE shares[t] = 0

(* A fill of a market the bot has already settled. *)
NoteLate(t) == odd' = IF Mkt(t) \in settled THEN odd \cup {"late"} ELSE odd

ApplyFill ==
  /\ pc = "applying" /\ batch # << >>
  /\ LET ev == Head(batch)
         o  == orders[ev.i]
     IN /\ ev.type = "fill"
        /\ ~Breaks(o.side, o.token, ev.price)
        /\ orders' = [orders EXCEPT ![ev.i].used =
                        @ + IF o.side = "buy" THEN ev.price ELSE 1]
        /\ IF o.side = "buy" THEN BuyFill(o.token, ev.price) ELSE SellFill(o.token, ev.price)
        /\ NoteLate(o.token)
  /\ batch' = Tail(batch)
  /\ UNCHANGED <<configVars, moneyVars, coreVars, killed, pc, balance, phase, venue,
                 tears, reversals>>

(* The error ends the step: the order's counters are already saved, the    *)
(* rest of the batch is lost, the kill switch is engaged.                  *)
FillBreaks ==
  /\ pc = "applying" /\ batch # << >>
  /\ LET ev == Head(batch)
         o  == orders[ev.i]
     IN /\ ev.type = "fill"
        /\ Breaks(o.side, o.token, ev.price)
        /\ orders' = [orders EXCEPT ![ev.i].used =
                        @ + IF o.side = "buy" THEN ev.price ELSE 1]
        /\ NoteLate(o.token)
  /\ batch' = << >>
  /\ killed' = TRUE
  /\ pc' = "polling"
  /\ UNCHANGED <<configVars, botVars, moneyVars, coreVars, balance, phase, venue, tears,
                 reversals>>

ApplyEnd ==
  /\ pc = "applying" /\ batch # << >>
  /\ Head(batch).type = "end"
  /\ orders' = [orders EXCEPT ![Head(batch).i].open = FALSE]
  /\ batch' = Tail(batch)
  /\ UNCHANGED <<configVars, botVars, moneyVars, coreVars, killed, pc, balance, phase,
                 venue, tears, odd, reversals>>

ApplyDone ==
  /\ pc = "applying" /\ batch = << >>
  /\ pc' = "settling"
  /\ UNCHANGED <<configVars, botVars, moneyVars, coreVars, orders, killed, batch, balance,
                 phase, venue, tears, odd, reversals>>

-----------------------------------------------------------------------------
(* Settling: one round of the loop in _settle, for a market the bot holds. *)

ToSettle == {m \in Market : Resolved(m) /\ \E t \in Held : Mkt(t) = m}

(* Mutant: the cost basis survives the settlement. *)
SettleKeepsCost(m) ==
  LET payout == Payout * shares[Winner(m)]
  IN /\ cash' = cash + payout
     /\ realized' = realized + payout - cost[Winner(m)] - cost[Other(Winner(m))]
     /\ shares' = [t \in Token |-> IF Mkt(t) = m THEN 0 ELSE shares[t]]
     /\ UNCHANGED cost

(* Portfolio.settle: 1 per winning share, 0 per losing share. *)
SettlePortfolio(m) ==
  LET payout == Payout * shares[Winner(m)]
      removed == cost[Winner(m)] + cost[Other(Winner(m))]
  IN /\ cash' = cash + payout
     /\ realized' = realized + payout - removed
     /\ shares' = [t \in Token |-> IF Mkt(t) = m THEN 0 ELSE shares[t]]
     /\ cost'   = [t \in Token |-> IF Mkt(t) = m THEN 0 ELSE cost[t]]

(* Mutant: the two tokens are swapped. *)
SettleSwapped(m) ==
  /\ vcash' = vcash + Payout * vpos[Other(Winner(m))]
  /\ vpos' = [t \in Token |-> IF Mkt(t) = m THEN 0 ELSE vpos[t]]

(* PaperExchange.settle: both tokens are popped, the winner is paid. *)
SettleVenue(m) ==
  /\ vcash' = vcash + Payout * vpos[Winner(m)]
  /\ vpos' = [t \in Token |-> IF Mkt(t) = m THEN 0 ELSE vpos[t]]

(* Mutant: the position is looked up after it has been settled. *)
LookedUpTooLate(m) == UNCHANGED pending

(* Live: the payout waits for the operator's redemption. *)
AwaitRedemption(m) ==
  LET payout == Payout * shares[Winner(m)]
  IN  pending' = IF payout > 0 THEN [pending EXCEPT ![Winner(m)] = payout] ELSE pending

Settle(m) ==
  /\ pc = "settling" /\ m \in ToSettle
  /\ SettlePortfolio(m)
  /\ IF live THEN AwaitRedemption(m) /\ UNCHANGED moneyVars
             ELSE SettleVenue(m) /\ UNCHANGED pending
  /\ settled' = settled \cup {m}
  /\ odd' = IF live /\ shares[Other(Winner(m))] > 0 THEN odd \cup {"loser"} ELSE odd
  /\ UNCHANGED <<configVars, reconOk, failures, halted, orders, killed, pc, batch, balance,
                 phase, venue, tears, reversals>>

SettleDone ==
  /\ pc = "settling" /\ ToSettle = {}
  /\ pc' = "reconciling"
  /\ UNCHANGED <<configVars, botVars, moneyVars, coreVars, orders, killed, batch, balance,
                 phase, venue, tears, odd, reversals>>

-----------------------------------------------------------------------------
(* Reconciliation: _maybe_reconcile, account_snapshot, Reconciler.compare. *)

(* The collateral is read first, the positions after further awaits. *)
ReadBalance ==
  /\ pc = "reconciling" /\ Open = {}
  /\ balance' = [cash |-> vcash, clean |-> "reversal" \notin odd]
  /\ pc' = "comparing"
  /\ UNCHANGED <<configVars, botVars, moneyVars, coreVars, orders, killed, batch, phase,
                 venue, tears, odd, reversals>>

(* Never while an order is open; otherwise the interval may not be over.   *)
SkipReconcile ==
  /\ pc = "reconciling"
  /\ pc' = "trading"
  /\ UNCHANGED <<configVars, botVars, moneyVars, coreVars, orders, killed, batch, balance,
                 phase, venue, tears, odd, reversals>>

SnapshotFails ==
  /\ pc = "comparing" /\ live
  /\ reconOk' = FALSE
  /\ pc' = "trading" /\ balance' = NotRead
  /\ UNCHANGED <<configVars, botVars, moneyVars, pending, settled, failures, halted, orders,
                 killed, batch, phase, venue, tears, odd, reversals>>

(* A pending redemption whose token is gone counts as redeemed. *)
StillPending(remote) == [t \in Token |-> IF remote[t] > 0 THEN pending[t] ELSE 0]

(* Mutants: the money awaited is not left out; the money is not compared. *)
AllCash(remote, awaited) ==
  /\ \A t \in Token : awaited[t] = 0 => shares[t] = remote[t]
  /\ cash = balance.cash
PositionsOnly(remote, awaited) ==
  \A t \in Token : awaited[t] = 0 => shares[t] = remote[t]

(* Reconciler.compare. *)
Matches(remote, awaited) ==
  /\ \A t \in Token : awaited[t] = 0 => shares[t] = remote[t]
  /\ cash - SumFunction(awaited) = balance.cash

(* The report: two failures in a row are a confirmed mismatch (failures is *)
(* counted up to two).                                                     *)
Report(ok) ==
  /\ reconOk' = ok
  /\ failures' = IF ok THEN 0 ELSE IF failures < 2 THEN failures + 1 ELSE failures
  /\ halted' = (halted \/ (~ok /\ failures >= 1))

Compare ==
  /\ pc = "comparing"
  /\ LET awaited == StillPending(vpos)
     IN /\ pending' = awaited
        /\ Report(Matches(vpos, awaited))
  /\ pc' = "trading" /\ balance' = NotRead
  /\ UNCHANGED <<configVars, botVars, moneyVars, settled, orders, killed, batch,
                 phase, venue, tears, odd, reversals>>

(* An error in the middle of the snapshot: what was read so far is used,   *)
(* and an incomplete snapshot never passes.                                *)
CompareIncomplete ==
  /\ pc = "comparing" /\ live
  /\ \E got \in SUBSET {t \in Token : vpos[t] > 0} :
       /\ pending' = StillPending([t \in Token |-> IF t \in got THEN vpos[t] ELSE 0])
       /\ Report(FALSE)
  /\ odd' = odd \cup {"incomplete"}
  /\ pc' = "trading" /\ balance' = NotRead
  /\ UNCHANGED <<configVars, botVars, moneyVars, settled, orders, killed, batch,
                 phase, venue, tears, reversals>>

-----------------------------------------------------------------------------
(* Trading: the risk engine's sizing, the engine's guard, the submission.  *)

(* Mutants: a cap without what is already held; no reserve. *)
CapsPerOrder(t, amount) ==
  /\ amount <= MaxOrderSize /\ amount <= MaxPosition /\ amount <= MaxExposure
  /\ amount * (BuyLimit + Fee) <= (cash - PendingBuy - Reserve) * BuyLimit
CapsNoReserve(t, amount) ==
  /\ amount <= MaxOrderSize
  /\ amount <= MaxPosition - cost[t]
  /\ amount <= MaxExposure - Exposure
  /\ amount * (BuyLimit + Fee) <= (cash - PendingBuy) * BuyLimit

(* evaluate_entry: the caps on an amount at the limit price.  The cash cap *)
(* reserves the fee of the shares the amount buys at the limit price.      *)
Caps(t, amount) ==
  /\ amount <= MaxOrderSize
  /\ amount <= MaxPosition - cost[t]
  /\ amount <= MaxExposure - Exposure
  /\ amount * (BuyLimit + Fee) <= (cash - PendingBuy - Reserve) * BuyLimit

(* Mutant: only the token's own position is looked at. *)
RoomForToken(t) == t \in Held \/ Cardinality(Held) < MaxOpen

(* evaluate_entry: positions_per_market (1) and max_open_positions. *)
RoomFor(t) ==
  /\ shares[Other(t)] = 0
  /\ t \in Held \/ Cardinality(Held) < MaxOpen

Submit(order) ==
  /\ Len(orders) < MaxOrders
  /\ Cardinality(Open) < limit
  /\ orders' = Append(orders, order)
  /\ venue' = Append(venue, [trades |-> << >>, left |-> order.amount, done |-> FALSE,
                             seen |-> 0])

Enter(t, amount) ==
  /\ pc = "trading" /\ phase[Mkt(t)] = "running"
  /\ ~killed /\ ~halted /\ reconOk
  /\ t \notin InFlight /\ RoomFor(t)
  /\ amount >= BuyLimit /\ Caps(t, amount)
  /\ Submit([side |-> "buy", token |-> t, amount |-> amount, used |-> 0, open |-> TRUE])
  /\ UNCHANGED <<configVars, botVars, moneyVars, coreVars, killed, pc, batch, balance,
                 phase, tears, odd, reversals>>

(* ExitEngine.evaluate sells the whole position, in a kill switch too, but *)
(* not after an account anomaly; evaluate_exit is reduce-only.             *)
Exit(t) ==
  /\ pc = "trading" /\ phase[Mkt(t)] = "running"
  /\ ~halted
  /\ t \in Held \ InFlight /\ pending[t] = 0
  /\ Submit([side |-> "sell", token |-> t, amount |-> shares[t], used |-> 0, open |-> TRUE])
  /\ UNCHANGED <<configVars, botVars, moneyVars, coreVars, killed, pc, batch, balance,
                 phase, tears, odd, reversals>>

StepDone ==
  /\ pc = "trading"
  /\ pc' = "polling"
  /\ UNCHANGED <<configVars, botVars, moneyVars, coreVars, orders, killed, batch, balance,
                 phase, venue, tears, odd, reversals>>

-----------------------------------------------------------------------------
(* The venue, the windows, the operator.  The bot notices what happens     *)
(* outside when it polls, and in the middle of an account snapshot (no     *)
(* order is open then); at its other awaits it would make no difference.   *)

BeforePoll == pc = "polling" /\ batch = << >>
Noticed    == BeforePoll \/ pc = "comparing"

(* The simulated venue matches in poll_events and checked the balance when *)
(* the order was submitted; the exchange needs the collateral or the share *)
(* at the match.                                                           *)
Match(i, price) ==
  LET o == orders[i]
      v == venue[i]
      spend == IF o.side = "buy" THEN price ELSE 1
  IN /\ BeforePoll /\ ~v.done /\ v.left >= spend
     /\ ~Resolved(Mkt(o.token))
     /\ IF o.side = "buy"
        THEN /\ price <= BuyLimit
             /\ live => vcash >= price + Fee
             /\ vcash' = vcash - price - Fee
             /\ vpos' = [vpos EXCEPT ![o.token] = @ + 1]
        ELSE /\ price >= SellFloor
             /\ vpos[o.token] > 0
             /\ vcash' = vcash + price - Fee
             /\ vpos' = [vpos EXCEPT ![o.token] = @ - 1]
     /\ venue' = [venue EXCEPT ![i].trades = Append(@, price), ![i].left = @ - spend]
     /\ UNCHANGED <<configVars, botVars, coreVars, orders, killed, pc, batch, balance,
                    phase, tears, odd, reversals>>

(* Filled, or the remainder of a FAK order killed. *)
Finish(i) ==
  /\ BeforePoll /\ ~venue[i].done
  /\ venue' = [venue EXCEPT ![i].done = TRUE]
  /\ UNCHANGED <<configVars, botVars, moneyVars, coreVars, orders, killed, pc, batch,
                 balance, phase, tears, odd, reversals>>

WindowEnds(m) ==
  /\ BeforePoll /\ phase[m] = "running"
  /\ phase' = [phase EXCEPT ![m] = "ended"]
  /\ UNCHANGED <<configVars, botVars, moneyVars, coreVars, orders, killed, pc, batch,
                 balance, venue, tears, odd, reversals>>

Resolve(m, winner) ==
  /\ BeforePoll /\ phase[m] = "ended"
  /\ phase' = [phase EXCEPT ![m] = winner]
  /\ UNCHANGED <<configVars, botVars, moneyVars, coreVars, orders, killed, pc, batch,
                 balance, venue, tears, odd, reversals>>

(* The operator redeems what the bot lists as pending, which burns both    *)
(* tokens of the market.                                                   *)
Redeem(m) ==
  /\ Noticed /\ live /\ Resolved(m)
  /\ pending[Winner(m)] > 0 /\ vpos[Winner(m)] > 0
  /\ vcash' = vcash + Payout * vpos[Winner(m)]
  /\ vpos' = [t \in Token |-> IF Mkt(t) = m THEN 0 ELSE vpos[t]]
  /\ tears' = IF pc = "comparing" THEN tears + 1 ELSE tears
  /\ UNCHANGED <<configVars, botVars, coreVars, orders, killed, pc, batch, balance, phase,
                 venue, odd, reversals>>

(* A trade already reported as a fill fails on the chain and is undone     *)
(* before the market resolves.                                             *)
Reverse(i, k) ==
  /\ Noticed /\ live /\ reversals < MaxReversals
  /\ k <= Len(venue[i].trades) /\ k <= venue[i].seen
  /\ LET o == orders[i]
         price == venue[i].trades[k]
     IN /\ ~Resolved(Mkt(o.token))
        /\ IF o.side = "buy"
           THEN /\ vpos[o.token] > 0
                /\ vpos' = [vpos EXCEPT ![o.token] = @ - 1]
                /\ vcash' = vcash + price + Fee
           ELSE /\ vpos' = [vpos EXCEPT ![o.token] = @ + 1]
                /\ vcash' = vcash - price + Fee
  /\ reversals' = reversals + 1
  /\ odd' = odd \cup {"reversal"}
  /\ UNCHANGED <<configVars, botVars, coreVars, orders, killed, pc, batch, balance, phase,
                 venue, tears>>

-----------------------------------------------------------------------------
Step ==
  \/ \E i \in DOMAIN orders : Fetch(i)
  \/ FetchDone
  \/ ApplyFill \/ FillBreaks \/ ApplyEnd \/ ApplyDone
  \/ \E m \in Market : Settle(m)
  \/ SettleDone
  \/ ReadBalance \/ SkipReconcile \/ SnapshotFails \/ Compare \/ CompareIncomplete
  \/ \E t \in Token, amount \in 1 .. MaxOrderSize : Enter(t, amount)
  \/ \E t \in Token : Exit(t)
  \/ StepDone

Outside ==
  \/ \E i \in DOMAIN orders, price \in Prices : Match(i, price)
  \/ \E i \in DOMAIN orders : Finish(i)
  \/ \E m \in Market : WindowEnds(m)
  \/ \E m \in Market, winner \in Outcome : Resolve(m, winner)
  \/ \E m \in Market : Redeem(m)
  \/ \E i \in DOMAIN orders : \E k \in DOMAIN venue[i].trades : Reverse(i, k)

Next == Step \/ Outside

Spec == Init /\ [][Next]_vars

-----------------------------------------------------------------------------
(* Safety.                                                                 *)

(* Portfolio: whatever is bought, sold in parts at other prices, settled   *)
(* and rounded, the cash and the cost bases of open positions add up to    *)
(* the starting cash and the realized result.                              *)
CashConserved == cash + CostBasis = Cash0 + realized

(* What a share counts in either ledger once its market is resolved. *)
Worth(t) == IF Resolved(Mkt(t)) /\ t = Winner(Mkt(t)) THEN Payout ELSE 0
Wealth(money, held) == money + SumFunction([t \in Token |-> Worth(t) * held[t]])

(* paper_exchange.py:12, "its own ledger, independent from the bot's       *)
(* portfolio": with no order open, the two agree on every position of an   *)
(* unresolved market and on the money, whatever was settled, redeemed or   *)
(* reported late in between, unless a reported trade was undone.           *)
LedgersAgree ==
  Open = {} /\ ~killed /\ "reversal" \notin odd =>
    /\ \A t \in Token : ~Resolved(Mkt(t)) => shares[t] = vpos[t]
    /\ Wealth(cash, shares) = Wealth(vcash, vpos)

(* core.py:413-415: what the bot subtracts from its cash is exactly what   *)
(* the wallet still has to redeem: no redemption is forgotten and none has *)
(* a wrong amount, as long as fills come before the settlement, snapshots  *)
(* are complete, no trade is undone and no fill has broken the accounting, *)
(* which loses the rest of its batch.                                      *)
PendingIsExact ==
  live /\ Open = {} /\ ~killed /\ odd \subseteq {"loser"} =>
    \A t \in Token :
      Mkt(t) \in settled /\ vpos[t] > 0 =>
        pending[t] = (IF t = Winner(Mkt(t)) THEN Payout * vpos[t] ELSE 0)

(* A confirmed mismatch has a cause outside the bot's accounting: in paper *)
(* mode there is none, and a redemption that tears one snapshot apart is   *)
(* not enough.                                                             *)
NoFalseHalt == halted => killed \/ (live /\ (odd # {} \/ tears >= 2))

(* polymarket_live.py:193, "reconciliation catches reversals": no complete *)
(* comparison passes once a reported trade has been undone, not even after *)
(* the market is settled or redeemed.                                      *)
ReversalsCaught ==
  [][pc = "comparing" /\ pc' = "trading" /\ reconOk' /\ ~killed => balance.clean]_vars

(* docs/risk.md:21, "never both sides of a window", with the default of    *)
(* one order in flight: an entry is decided on fills that are all known.   *)
OneSideOnly == limit = 1 => \A t \in Held : shares[Other(t)] = 0

(* docs/risk.md:17-18: cost bases and in-flight buys stay within the       *)
(* policy up to the fees, which are paid on top of an order's notional,    *)
(* however many orders were approved while others were being filled.       *)
ExposureBounded ==
  /\ Exposure <= MaxExposure + Fee * MaxOrderSize * limit
  /\ \A t \in Token : cost[t] <= MaxPosition + Fee * MaxOrderSize

(* portfolio.py:12: with one order in flight and a reserve that covers the *)
(* fees, the accounting never breaks, except on a sale the venue reports   *)
(* after the bot has settled the market.                                   *)
AccountingHolds == limit = 1 /\ killed => "late" \in odd

(* progress.md:81, "Balance (incl. worst-case fee)", backtesting.md:25 and *)
(* risk/engine.py:317: an approved entry never costs more than the cash.   *)
FeesAreReserved == killed => "late" \in odd

(* reconciler.py:44, "unsettled markets only", and :48, "settled markets   *)
(* awaiting redemption": a token of a settled market that is still in the  *)
(* wallet is left out of the comparison.                                   *)
SettledTokensIgnored ==
  live /\ odd \subseteq {"loser"} =>
    \A t \in Token : Mkt(t) \in settled /\ vpos[t] # shares[t] => pending[t] > 0
=============================================================================
