---------------------------- MODULE LedgerProofs ----------------------------
(* Proofs about Ledger, for any windows, prices, amounts and limits. *)
EXTENDS Ledger, Sums, SequenceTheorems

(* The constants are numbers.                                              *)
LEMMA ConstantsType ==
  /\ Prices \subseteq Nat \ {0} /\ BuyLimit \in Nat /\ SellFloor \in Nat
  /\ Payout \in Nat /\ Fee \in Nat /\ Cash0 \in Nat /\ MaxOrders \in Nat
  /\ Limits \subseteq Nat \ {0} /\ MaxOrderSize \in Nat /\ MaxReversals \in Nat
BY LedgerAssumption

(* A market has exactly two outcomes, so a token and its other one are     *)
(* the only tokens of their market.                                        *)
LEMMA TwoOutcomes == \E a, b : a # b /\ Outcome = {a, b}
<1>1. ExistsBijection(1 .. 2, Outcome)
  BY FS_CardinalityType, LedgerAssumption
<1>2. PICK f \in Bijection(1 .. 2, Outcome) : TRUE
  BY <1>1 DEF ExistsBijection
<1>3. f[1] # f[2]
  BY <1>2 DEF Bijection, Injection, IsInjective
<1>4. Outcome = {f[1], f[2]}
  <2>1. \A o \in Outcome : \E i \in 1 .. 2 : f[i] = o
    BY <1>2 DEF Bijection, Surjection
  <2>2. f[1] \in Outcome /\ f[2] \in Outcome
    BY <1>2 DEF Bijection, Injection
  <2> QED
    BY <2>1, <2>2
<1> QED
  BY <1>3, <1>4

LEMMA OtherToken ==
  ASSUME NEW t \in Token
  PROVE  /\ Other(t) \in Token /\ Other(t) # t /\ Mkt(Other(t)) = Mkt(t)
         /\ \A u \in Token : Mkt(u) = Mkt(t) => u = t \/ u = Other(t)
         /\ Other(Other(t)) = t
<1>1. PICK m \in Market, o \in Outcome : t = <<m, o>>
  BY DEF Token
<1>2. PICK a, b : a # b /\ Outcome = {a, b}
  BY TwoOutcomes
<1>3. \A x \in Outcome : \E y \in Outcome : y # x
  BY <1>2
<1> DEFINE flip(x) == CHOOSE y \in Outcome : y # x
<1>4. \A x \in Outcome : flip(x) \in Outcome /\ flip(x) # x
  BY <1>3
<1>5. Other(t) = <<m, flip(o)>>
  BY <1>1 DEF Other
<1>6. Other(Other(t)) = <<m, flip(flip(o))>>
  BY <1>5 DEF Other
<1> HIDE DEF flip
<1>7. flip(flip(o)) = o /\ \A x \in Outcome : x = o \/ x = flip(o)
  BY <1>1, <1>2, <1>4
<1> QED
  BY <1>1, <1>4, <1>5, <1>6, <1>7 DEF Token, Mkt

(* A quotient by at least one is not larger than the dividend.             *)
LEMMA Quotient ==
  ASSUME NEW a \in Nat, NEW b \in Nat \ {0}
  PROVE  a \div b \in Nat /\ a \div b <= a
<1>1. a \div b \in Int
  OBVIOUS
<1>2. a \div b >= 0
  OBVIOUS
<1>3. a \div b <= a
  OBVIOUS
<1> QED
  BY <1>1, <1>2, <1>3

-----------------------------------------------------------------------------
(* The inductive invariant.                                                *)

(* What was fetched belongs to known orders, and is applied before the     *)
(* step goes on.                                                           *)
BatchInv ==
  /\ \A k \in DOMAIN batch : batch[k].i \in DOMAIN orders
  /\ batch # << >> => pc \in {"polling", "applying"}

(* Buying t is safe as long as nothing is held on the other side.          *)
Safe(i) == orders[i].side = "buy" => shares[Other(orders[i].token)] = 0

(* With one order in flight all fetched events are of one order, the open  *)
(* one if there is any, and filling it leaves the other side empty.        *)
SideInv ==
  limit = 1 =>
    /\ \A i, j \in Open : i = j
    /\ \A i \in Open : Safe(i)
    /\ \A k \in DOMAIN batch :
         /\ Safe(batch[k].i)
         /\ pc = "polling" => batch[k].i \in Open
         /\ \A i \in Open : batch[k].i = i
         /\ \A l \in DOMAIN batch : batch[l].i = batch[k].i
    /\ \A t \in Token : shares[t] > 0 => shares[Other(t)] = 0

IInv == TypeOK /\ BatchInv /\ SideInv

(* A group of variables that a step leaves alone keeps its type.           *)
LEMMA Carry ==
  ASSUME TypeOK
  PROVE  /\ UNCHANGED botVars => PortfolioType'
         /\ UNCHANGED <<orders, venue>> => OrdersType'
         /\ UNCHANGED coreVars /\ UNCHANGED killed => CoreType'
         /\ UNCHANGED <<pc, batch, balance>> => StepType'
         /\ UNCHANGED <<configVars, moneyVars, phase, tears, odd, reversals>> => OutsideType'
<1>1. UNCHANGED botVars => PortfolioType'
  BY DEF TypeOK, PortfolioType, botVars
<1>2. UNCHANGED <<orders, venue>> => OrdersType'
  BY DEF TypeOK, OrdersType
<1>3. UNCHANGED coreVars /\ UNCHANGED killed => CoreType'
  BY DEF TypeOK, CoreType, coreVars
<1>4. UNCHANGED <<pc, batch, balance>> => StepType'
  BY DEF TypeOK, StepType
<1>5. UNCHANGED <<configVars, moneyVars, phase, tears, odd, reversals>> => OutsideType'
  BY DEF TypeOK, OutsideType, configVars, moneyVars
<1> QED
  BY <1>1, <1>2, <1>3, <1>4, <1>5

(* The events of an order that have not been fetched are events of it.     *)
LEMMA UnseenType ==
  ASSUME OrdersType, NEW i \in DOMAIN orders
  PROVE  /\ Unseen(i) \in Seq(Event)
         /\ \A k \in DOMAIN Unseen(i) : Unseen(i)[k].i = i
<1> DEFINE v == venue[i]
           E == {e \in Event : e.i = i}
           fills == [k \in 1 .. Len(v.trades) |-> [i |-> i, type |-> "fill", price |-> v.trades[k]]]
           end == IF v.done THEN <<[i |-> i, type |-> "end", price |-> 0]>> ELSE << >>
<1>1. i \in Nat /\ i \in DOMAIN venue /\ v \in VenueOrder
  BY DEF OrdersType
<1>2. v.trades \in Seq(Prices) /\ v.seen \in Nat /\ Len(v.trades) \in Nat
  BY <1>1, LenProperties DEF VenueOrder
<1>3. fills \in Seq(E)
  <2>1. \A k \in 1 .. Len(v.trades) : v.trades[k] \in Nat
    BY <1>2, ConstantsType, ElementOfSeq
  <2>2. \A p \in Nat : [i |-> i, type |-> "fill", price |-> p] \in E
    BY <1>1 DEF Event
  <2>3. fills \in [1 .. Len(v.trades) -> E]
    BY <2>1, <2>2
  <2> HIDE DEF fills
  <2> QED
    BY <2>3, <1>2, SeqDef
<1>4. end \in Seq(E)
  <2>1. [i |-> i, type |-> "end", price |-> 0] \in E
    BY <1>1 DEF Event
  <2>2. <<[i |-> i, type |-> "end", price |-> 0]>> \in Seq(E) /\ << >> \in Seq(E)
    BY <2>1
  <2> QED
    BY <2>2
<1>5. Events(i) = fills \o end
  BY DEF Events
<1>6. Events(i) \in Seq(E)
  BY <1>3, <1>4, <1>5, ConcatProperties
<1>7. Unseen(i) \in Seq(E)
  <2> DEFINE n == Len(Events(i))
  <2>1. n \in Nat /\ \A k \in v.seen + 1 .. n : Events(i)[k] \in E
    BY <1>2, <1>6, LenProperties, ElementOfSeq
  <2> QED
    BY <1>2, <2>1, SubSeqProperties DEF Unseen
<1>8. \A k \in DOMAIN Unseen(i) : Unseen(i)[k] \in E
  BY <1>7, LenProperties, ElementOfSeq
<1>9. E \subseteq Event
  OBVIOUS
<1> QED
  BY <1>7, <1>8, <1>9, SeqMonotonic

-----------------------------------------------------------------------------
(* Type correctness.                                                       *)

LEMMA InitType == Init => TypeOK /\ BatchInv /\ SideInv
<1> SUFFICES ASSUME Init PROVE TypeOK /\ BatchInv /\ SideInv
  OBVIOUS
<1> USE ConstantsType DEF Init
<1>1. PortfolioType
  BY DEF PortfolioType
<1>2. OrdersType
  BY DEF OrdersType
<1>3. CoreType
  <2>1. pending \in [Token -> Nat] /\ settled \subseteq Market /\ failures \in 0 .. 2
    OBVIOUS
  <2>2. reconOk \in BOOLEAN /\ halted \in BOOLEAN /\ killed \in BOOLEAN
    OBVIOUS
  <2> QED
    BY <2>1, <2>2 DEF CoreType
<1>4. StepType
  BY DEF StepType, NotRead
<1>5. OutsideType
  BY LedgerAssumption DEF OutsideType
<1>6. BatchInv
  BY DEF BatchInv
<1>7. SideInv
  BY OtherToken DEF SideInv, Open
<1> QED
  BY <1>1, <1>2, <1>3, <1>4, <1>5, <1>6, <1>7 DEF TypeOK

(* An event at the head of the batch is an event of a known order.         *)
LEMMA HeadType ==
  ASSUME TypeOK, BatchInv, batch # << >>
  PROVE  /\ Head(batch) \in Event /\ Head(batch).i \in DOMAIN orders
         /\ Head(batch).price \in Nat
         /\ Tail(batch) \in Seq(Event)
         /\ 1 \in DOMAIN batch /\ Head(batch) = batch[1]
         /\ \A k \in DOMAIN Tail(batch) :
              k + 1 \in DOMAIN batch /\ Tail(batch)[k] = batch[k + 1]
         /\ Tail(batch) # << >> => 2 \in DOMAIN batch
<1>1. batch \in Seq(Event)
  BY DEF TypeOK, StepType
<1>2. Len(batch) \in Nat \ {0} /\ DOMAIN batch = 1 .. Len(batch)
  BY <1>1, EmptySeq, LenProperties
<1>3. Head(batch) = batch[1] /\ 1 \in DOMAIN batch
  BY <1>1, <1>2
<1>4. Head(batch) \in Event /\ Tail(batch) \in Seq(Event)
  BY <1>1, HeadTailProperties
<1>5. Head(batch).i \in DOMAIN orders
  BY <1>3 DEF BatchInv
<1>6. Head(batch).price \in Nat
  BY <1>4 DEF Event
<1>7. \A k \in DOMAIN Tail(batch) : k + 1 \in DOMAIN batch /\ Tail(batch)[k] = batch[k + 1]
  BY <1>1, <1>2
<1>8. Tail(batch) # << >> => 2 \in DOMAIN batch
  BY <1>1, <1>2
<1> QED
  BY <1>3, <1>4, <1>5, <1>6, <1>7, <1>8

(* A known order has the fields of an order, and so has its venue side.    *)
LEMMA OrderFields ==
  ASSUME OrdersType, NEW i \in DOMAIN orders
  PROVE  /\ orders[i] \in Order /\ i \in Nat /\ i \in DOMAIN venue
         /\ orders[i].token \in Token /\ orders[i].side \in {"buy", "sell"}
         /\ orders[i].used \in Nat /\ orders[i].amount \in Nat
         /\ venue[i] \in VenueOrder /\ venue[i].seen \in Nat /\ venue[i].left \in Nat
         /\ venue[i].trades \in Seq(Prices)
<1>1. orders[i] \in Order /\ i \in Nat /\ i \in DOMAIN venue /\ venue[i] \in VenueOrder
  BY DEF OrdersType
<1> QED
  BY <1>1 DEF Order, VenueOrder

(* Updating one order, or the venue's side of one, keeps the types.        *)
LEMMA OrderUpdate ==
  ASSUME OrdersType, NEW i \in DOMAIN orders, UNCHANGED venue,
         NEW o \in Order, orders' = [orders EXCEPT ![i] = o]
  PROVE  OrdersType' /\ DOMAIN orders' = DOMAIN orders
<1>1. orders' \in Seq(Order) /\ Len(orders') = Len(orders)
  BY ExceptSeq, LenProperties DEF OrdersType
<1> QED
  BY <1>1, LenProperties DEF OrdersType

LEMMA VenueUpdate ==
  ASSUME OrdersType, NEW i \in DOMAIN orders, UNCHANGED orders,
         NEW v \in VenueOrder, venue' = [venue EXCEPT ![i] = v]
  PROVE  OrdersType'
<1>1. venue' \in Seq(VenueOrder) /\ Len(venue') = Len(venue)
  BY ExceptSeq, LenProperties DEF OrdersType
<1> QED
  BY <1>1 DEF OrdersType

(* Booking a fill, on an order and in the portfolio.                       *)
LEMMA FillUsed ==
  ASSUME OrdersType, NEW i \in DOMAIN orders, NEW n \in Nat, UNCHANGED venue,
         orders' = [orders EXCEPT ![i].used = @ + n]
  PROVE  OrdersType' /\ DOMAIN orders' = DOMAIN orders
<1> DEFINE o == [orders[i] EXCEPT !.used = @ + n]
<1>1. o \in Order
  BY OrderFields DEF Order
<1>2. orders' = [orders EXCEPT ![i] = o]
  OBVIOUS
<1> QED
  BY <1>1, <1>2, OrderUpdate

LEMMA BuyFillType ==
  ASSUME PortfolioType, NEW t \in Token, NEW price \in Nat, BuyFill(t, price)
  PROVE  PortfolioType'
<1>1. cash' \in Int /\ realized' \in Int
  BY ConstantsType DEF PortfolioType, BuyFill
<1>2. shares[t] + 1 \in Nat /\ cost[t] + price + Fee \in Nat
  BY ConstantsType DEF PortfolioType
<1>3. shares' \in [Token -> Nat] /\ cost' \in [Token -> Nat]
  BY <1>2 DEF PortfolioType, BuyFill
<1> QED
  BY <1>1, <1>3 DEF PortfolioType

LEMMA SellFillType ==
  ASSUME PortfolioType, NEW t \in Token, NEW price \in Nat, shares[t] # 0, SellFill(t, price)
  PROVE  PortfolioType'
<1>1. shares[t] \in Nat \ {0} /\ cost[t] \in Nat
  BY DEF PortfolioType
<1>2. CostRemoved(t) \in Nat /\ CostRemoved(t) <= cost[t]
  BY <1>1, Quotient DEF CostRemoved
<1>3. cash' \in Int /\ realized' \in Int
  BY <1>2, ConstantsType DEF PortfolioType, SellFill
<1>4. shares[t] - 1 \in Nat /\ cost[t] - CostRemoved(t) \in Nat
  BY <1>1, <1>2
<1>5. shares' \in [Token -> Nat] /\ cost' \in [Token -> Nat]
  BY <1>4 DEF PortfolioType, SellFill
<1> QED
  BY <1>3, <1>5 DEF PortfolioType

(* Settling a market whose outcome is known.                               *)
LEMMA SettleType ==
  ASSUME TypeOK, NEW m \in Market, Resolved(m)
  PROVE  /\ Winner(m) \in Token /\ Other(Winner(m)) \in Token
         /\ Payout * shares[Winner(m)] \in Nat
         /\ Payout * vpos[Winner(m)] \in Nat
         /\ SettlePortfolio(m) => PortfolioType'
<1>1. Winner(m) \in Token
  BY DEF Winner, Token, Resolved
<1>2. Other(Winner(m)) \in Token
  BY <1>1, OtherToken
<1>3. shares[Winner(m)] \in Nat /\ vpos[Winner(m)] \in Nat
  BY <1>1 DEF TypeOK, PortfolioType, OutsideType
<1>4. Payout * shares[Winner(m)] \in Nat /\ Payout * vpos[Winner(m)] \in Nat
  BY <1>3, ConstantsType
<1>5. ASSUME SettlePortfolio(m) PROVE PortfolioType'
  <2>1. cost[Winner(m)] \in Nat /\ cost[Other(Winner(m))] \in Nat
    BY <1>1, <1>2 DEF TypeOK, PortfolioType
  <2>2. cash' \in Int /\ realized' \in Int
    BY <1>4, <1>5, <2>1 DEF SettlePortfolio, TypeOK, PortfolioType
  <2>3. shares' \in [Token -> Nat] /\ cost' \in [Token -> Nat]
    BY <1>5 DEF SettlePortfolio, TypeOK, PortfolioType
  <2> QED
    BY <2>2, <2>3 DEF PortfolioType
<1> QED
  BY <1>1, <1>2, <1>4, <1>5

(* Every step keeps the types.                                             *)
LEMMA NextType ==
  ASSUME TypeOK, BatchInv, [Next]_vars
  PROVE  TypeOK'
<1> USE DEF configVars, botVars, moneyVars, coreVars
<1>1. ASSUME NEW i \in DOMAIN orders, Fetch(i) PROVE TypeOK'
  <2>1. Head(Unseen(i)) \in Event
    BY <1>1, UnseenType, HeadTailProperties DEF Fetch, TypeOK
  <2>2. StepType'
    BY <1>1, <2>1 DEF Fetch, TypeOK, StepType
  <2>3. OrdersType'
    <3> DEFINE v == [venue[i] EXCEPT !.seen = @ + 1]
    <3>1. v \in VenueOrder
      BY OrderFields DEF VenueOrder, TypeOK
    <3>2. venue' = [venue EXCEPT ![i] = v] /\ UNCHANGED orders
      BY <1>1 DEF Fetch
    <3> QED
      BY <3>1, <3>2, VenueUpdate DEF TypeOK
  <2> QED
    BY <1>1, <2>2, <2>3, Carry DEF Fetch, TypeOK
<1>2. CASE FetchDone
  <2>1. StepType'
    BY <1>2 DEF FetchDone, TypeOK, StepType
  <2> QED
    BY <1>2, <2>1, Carry DEF FetchDone, TypeOK
<1>3. CASE ApplyFill
  <2> DEFINE ev == Head(batch)
             o  == orders[ev.i]
  <2>1. /\ ev.i \in DOMAIN orders /\ ev.price \in Nat /\ Tail(batch) \in Seq(Event)
        /\ o.token \in Token /\ o.side \in {"buy", "sell"}
    BY <1>3, HeadType, OrderFields DEF ApplyFill, TypeOK
  <2>2. StepType'
    BY <1>3, <2>1 DEF ApplyFill, TypeOK, StepType
  <2>3. OrdersType'
    <3>1. (IF o.side = "buy" THEN ev.price ELSE 1) \in Nat
      BY <2>1
    <3> QED
      BY <1>3, <2>1, <3>1, FillUsed DEF ApplyFill, TypeOK
  <2>4. PortfolioType'
    <3>1. CASE o.side = "buy"
      BY <1>3, <2>1, <3>1, BuyFillType DEF ApplyFill, TypeOK
    <3>2. CASE o.side # "buy"
      BY <1>3, <2>1, <3>2, SellFillType DEF ApplyFill, Breaks, TypeOK
    <3> QED
      BY <3>1, <3>2
  <2>5. OutsideType'
    BY <1>3 DEF ApplyFill, NoteLate, TypeOK, OutsideType
  <2> QED
    BY <1>3, <2>2, <2>3, <2>4, <2>5, Carry DEF ApplyFill, TypeOK
<1>4. CASE FillBreaks
  <2> DEFINE ev == Head(batch)
             o  == orders[ev.i]
  <2>1. ev.i \in DOMAIN orders /\ ev.price \in Nat
    BY <1>4, HeadType DEF FillBreaks, TypeOK
  <2>2. StepType'
    BY <1>4 DEF FillBreaks, TypeOK, StepType
  <2>3. OrdersType'
    <3>1. (IF o.side = "buy" THEN ev.price ELSE 1) \in Nat
      BY <2>1
    <3> QED
      BY <1>4, <2>1, <3>1, FillUsed DEF FillBreaks, TypeOK
  <2>4. OutsideType'
    BY <1>4 DEF FillBreaks, NoteLate, TypeOK, OutsideType
  <2>5. CoreType'
    BY <1>4, Zenon DEF FillBreaks, TypeOK, CoreType
  <2> QED
    BY <1>4, <2>2, <2>3, <2>4, <2>5, Carry DEF FillBreaks, TypeOK
<1>5. CASE ApplyEnd
  <2> DEFINE j == Head(batch).i
             o == [orders[j] EXCEPT !.open = FALSE]
  <2>1. j \in DOMAIN orders /\ Tail(batch) \in Seq(Event)
    BY <1>5, HeadType DEF ApplyEnd
  <2>2. o \in Order
    BY <2>1, OrderFields DEF Order, TypeOK
  <2>3. orders' = [orders EXCEPT ![j] = o] /\ UNCHANGED venue
    BY <1>5 DEF ApplyEnd
  <2>4. OrdersType'
    BY <2>1, <2>2, <2>3, OrderUpdate DEF TypeOK
  <2>5. StepType'
    BY <1>5, <2>1 DEF ApplyEnd, TypeOK, StepType
  <2> QED
    BY <1>5, <2>4, <2>5, Carry DEF ApplyEnd, TypeOK
<1>6. CASE ApplyDone
  <2>1. StepType'
    BY <1>6 DEF ApplyDone, TypeOK, StepType
  <2> QED
    BY <1>6, <2>1, Carry DEF ApplyDone, TypeOK
<1>7. ASSUME NEW m \in Market, Settle(m) PROVE TypeOK'
  <2>1. Resolved(m)
    BY <1>7 DEF Settle, ToSettle
  <2>2. PortfolioType'
    BY <1>7, <2>1, SettleType DEF Settle
  <2>3. pending' \in [Token -> Nat] /\ settled' \subseteq Market
    <3>1. CASE live
      BY <1>7, <2>1, <3>1, SettleType DEF Settle, AwaitRedemption, TypeOK, CoreType
    <3>2. CASE ~live
      BY <1>7, <3>2 DEF Settle, TypeOK, CoreType
    <3> QED
      BY <3>1, <3>2
  <2>4. CoreType'
    BY <1>7, <2>3, Zenon DEF Settle, TypeOK, CoreType
  <2>5. vcash' \in Int /\ vpos' \in [Token -> Nat]
    <3>1. CASE live
      BY <1>7, <3>1 DEF Settle, TypeOK, OutsideType
    <3>2. CASE ~live
      <4>1. vcash' \in Int
        BY <1>7, <2>1, <3>2, SettleType DEF Settle, SettleVenue, TypeOK, OutsideType
      <4>2. vpos' \in [Token -> Nat]
        BY <1>7, <3>2 DEF Settle, SettleVenue, TypeOK, OutsideType
      <4> QED
        BY <4>1, <4>2
    <3> QED
      BY <3>1, <3>2
  <2>6. odd' \subseteq {"late", "incomplete", "loser", "reversal"}
    BY <1>7 DEF Settle, TypeOK, OutsideType
  <2>7. OutsideType'
    BY <1>7, <2>5, <2>6 DEF Settle, TypeOK, OutsideType
  <2> QED
    BY <1>7, <2>2, <2>4, <2>7, Carry DEF Settle, TypeOK
<1>8. CASE SettleDone
  <2>1. StepType'
    BY <1>8 DEF SettleDone, TypeOK, StepType
  <2> QED
    BY <1>8, <2>1, Carry DEF SettleDone, TypeOK
<1>9. CASE ReadBalance
  <2>1. balance' \in [cash : Int, clean : BOOLEAN]
    BY <1>9 DEF ReadBalance, TypeOK, OutsideType
  <2>2. StepType'
    BY <1>9, <2>1 DEF ReadBalance, TypeOK, StepType
  <2> QED
    BY <1>9, <2>2, Carry DEF ReadBalance, TypeOK
<1>10. CASE SkipReconcile
  <2>1. StepType'
    BY <1>10 DEF SkipReconcile, TypeOK, StepType
  <2> QED
    BY <1>10, <2>1, Carry DEF SkipReconcile, TypeOK
<1>11. CASE SnapshotFails
  <2>1. StepType'
    BY <1>11 DEF SnapshotFails, NotRead, TypeOK, StepType
  <2>2. reconOk' \in BOOLEAN
    BY <1>11 DEF SnapshotFails
  <2>3. CoreType'
    BY <1>11, <2>2, Zenon DEF SnapshotFails, TypeOK, CoreType
  <2> QED
    BY <1>11, <2>1, <2>3, Carry DEF SnapshotFails, TypeOK
<1>12. ASSUME NEW ok \in BOOLEAN, Report(ok), NEW remote \in [Token -> Nat],
              pending' = StillPending(remote), UNCHANGED <<settled, killed>>
       PROVE  CoreType'
  <2>1. pending' \in [Token -> Nat]
    BY <1>12 DEF StillPending, TypeOK, CoreType
  <2>2. failures' \in 0 .. 2
    BY <1>12 DEF Report, TypeOK, CoreType
  <2>3. reconOk' \in BOOLEAN /\ halted' \in BOOLEAN
    BY <1>12, Zenon DEF Report, TypeOK, CoreType
  <2> QED
    BY <1>12, <2>1, <2>2, <2>3, Zenon DEF TypeOK, CoreType
<1>13. CASE Compare
  <2>1. StepType'
    BY <1>13 DEF Compare, NotRead, TypeOK, StepType
  <2>2. Matches(vpos, StillPending(vpos)) \in BOOLEAN
    BY Zenon DEF Matches
  <2>3. CoreType'
    BY <1>12, <1>13, <2>2 DEF Compare, TypeOK, OutsideType
  <2> QED
    BY <1>13, <2>1, <2>3, Carry DEF Compare, TypeOK
<1>14. CASE CompareIncomplete
  <2>1. StepType'
    BY <1>14 DEF CompareIncomplete, NotRead, TypeOK, StepType
  <2>2. PICK got \in SUBSET {t \in Token : vpos[t] > 0} :
          /\ pending' = StillPending([t \in Token |-> IF t \in got THEN vpos[t] ELSE 0])
          /\ Report(FALSE)
    BY <1>14 DEF CompareIncomplete
  <2>3. [t \in Token |-> IF t \in got THEN vpos[t] ELSE 0] \in [Token -> Nat]
    BY DEF TypeOK, OutsideType
  <2>4. CoreType'
    BY <1>12, <1>14, <2>2, <2>3 DEF CompareIncomplete
  <2>5. OutsideType'
    BY <1>14 DEF CompareIncomplete, TypeOK, OutsideType
  <2> QED
    BY <1>14, <2>1, <2>4, <2>5, Carry DEF CompareIncomplete, TypeOK
<1>15. ASSUME NEW order \in Order, Submit(order), StepType, UNCHANGED <<pc, batch, balance>>
       PROVE  OrdersType'
  <2> DEFINE v == [trades |-> << >>, left |-> order.amount, done |-> FALSE, seen |-> 0]
  <2>1. v \in VenueOrder
    BY DEF Order, VenueOrder
  <2>2. orders' = Append(orders, order) /\ venue' = Append(venue, v) /\ Len(orders) < MaxOrders
    BY <1>15 DEF Submit
  <2> HIDE DEF v
  <2>3. orders' \in Seq(Order) /\ Len(orders') = Len(orders) + 1
    BY <1>15, <2>2 DEF TypeOK, OrdersType
  <2>4. venue' \in Seq(VenueOrder) /\ Len(venue') = Len(venue) + 1
    BY <2>1, <2>2 DEF TypeOK, OrdersType
  <2>5. Len(orders) \in Nat
    BY LenProperties DEF TypeOK, OrdersType
  <2> QED
    BY <2>2, <2>3, <2>4, <2>5, ConstantsType DEF TypeOK, OrdersType
<1>16. ASSUME NEW t \in Token, NEW amount \in 1 .. MaxOrderSize, Enter(t, amount)
       PROVE  TypeOK'
  <2>1. [side |-> "buy", token |-> t, amount |-> amount, used |-> 0, open |-> TRUE] \in Order
    BY ConstantsType DEF Order
  <2>2. OrdersType'
    BY <1>15, <1>16, <2>1 DEF Enter, TypeOK
  <2> QED
    BY <1>16, <2>2, Carry DEF Enter, TypeOK
<1>17. ASSUME NEW t \in Token, Exit(t) PROVE TypeOK'
  <2>1. shares[t] \in Nat
    BY DEF TypeOK, PortfolioType
  <2>2. [side |-> "sell", token |-> t, amount |-> shares[t], used |-> 0, open |-> TRUE] \in Order
    BY <2>1 DEF Order
  <2>3. OrdersType'
    BY <1>15, <1>17, <2>2 DEF Exit, TypeOK
  <2> QED
    BY <1>17, <2>3, Carry DEF Exit, TypeOK
<1>18. CASE StepDone
  <2>1. StepType'
    BY <1>18 DEF StepDone, TypeOK, StepType
  <2> QED
    BY <1>18, <2>1, Carry DEF StepDone, TypeOK
<1>19. ASSUME NEW i \in DOMAIN orders, NEW price \in Prices, Match(i, price) PROVE TypeOK'
  <2> DEFINE o == orders[i]
             spend == IF o.side = "buy" THEN price ELSE 1
             v == [venue[i] EXCEPT !.trades = Append(@, price), !.left = @ - spend]
  <2>1. price \in Nat /\ spend \in Nat /\ o.token \in Token
    BY ConstantsType, OrderFields DEF TypeOK
  <2>2. venue' = [venue EXCEPT ![i] = v] /\ UNCHANGED orders /\ venue[i].left >= spend
    BY <1>19 DEF Match
  <2>3. v \in VenueOrder
    <3>1. Append(venue[i].trades, price) \in Seq(Prices) /\ venue[i].left - spend \in Nat
      BY <2>1, <2>2, OrderFields DEF TypeOK
    <3> QED
      BY <3>1, OrderFields DEF VenueOrder, TypeOK
  <2> HIDE DEF v
  <2>4. OrdersType'
    BY <2>2, <2>3, VenueUpdate DEF TypeOK
  <2>5. vcash' \in Int
    BY SMTT(30), <1>19, <2>1, ConstantsType DEF Match, TypeOK, OutsideType
  <2>6. vpos' \in [Token -> Nat]
    <3>1. vpos[o.token] \in Nat
      BY <2>1 DEF TypeOK, OutsideType
    <3>2. CASE o.side = "buy"
      BY <1>19, <3>1, <3>2 DEF Match, TypeOK, OutsideType
    <3>3. CASE o.side # "buy"
      <4>1. vpos' = [vpos EXCEPT ![o.token] = @ - 1] /\ vpos[o.token] > 0
        BY <1>19, <3>3 DEF Match
      <4>2. vpos[o.token] - 1 \in Nat
        BY <3>1, <4>1
      <4> QED
        BY <4>1, <4>2 DEF TypeOK, OutsideType
    <3> QED
      BY <3>2, <3>3
  <2>7. OutsideType'
    BY <1>19, <2>5, <2>6 DEF Match, TypeOK, OutsideType
  <2> QED
    BY <1>19, <2>4, <2>7, Carry DEF Match, TypeOK
<1>20. ASSUME NEW i \in DOMAIN orders, Finish(i) PROVE TypeOK'
  <2> DEFINE v == [venue[i] EXCEPT !.done = TRUE]
  <2>1. v \in VenueOrder
    BY OrderFields DEF VenueOrder, TypeOK
  <2>2. venue' = [venue EXCEPT ![i] = v] /\ UNCHANGED orders
    BY <1>20 DEF Finish
  <2>3. OrdersType'
    BY <2>1, <2>2, VenueUpdate DEF TypeOK
  <2> QED
    BY <1>20, <2>3, Carry DEF Finish, TypeOK
<1>21. ASSUME NEW m \in Market, WindowEnds(m) PROVE TypeOK'
  <2>1. OutsideType'
    BY <1>21 DEF WindowEnds, TypeOK, OutsideType
  <2> QED
    BY <1>21, <2>1, Carry DEF WindowEnds, TypeOK
<1>22. ASSUME NEW m \in Market, NEW winner \in Outcome, Resolve(m, winner) PROVE TypeOK'
  <2>1. OutsideType'
    BY <1>22 DEF Resolve, TypeOK, OutsideType
  <2> QED
    BY <1>22, <2>1, Carry DEF Resolve, TypeOK
<1>23. ASSUME NEW m \in Market, Redeem(m) PROVE TypeOK'
  <2>1. vcash' \in Int
    BY <1>23, SettleType DEF Redeem, TypeOK, OutsideType
  <2>2. vpos' \in [Token -> Nat] /\ tears' \in Nat
    BY <1>23 DEF Redeem, TypeOK, OutsideType
  <2>3. OutsideType'
    BY <1>23, <2>1, <2>2 DEF Redeem, TypeOK, OutsideType
  <2> QED
    BY <1>23, <2>3, Carry DEF Redeem, TypeOK
<1>24. ASSUME NEW i \in DOMAIN orders, NEW k \in DOMAIN venue[i].trades, Reverse(i, k)
       PROVE  TypeOK'
  <2> DEFINE o == orders[i]
             price == venue[i].trades[k]
  <2>1. price \in Nat /\ o.token \in Token /\ vpos[o.token] \in Nat
    <3>1. venue[i].trades \in Seq(Prices) /\ o.token \in Token
      BY OrderFields DEF TypeOK
    <3>2. price \in Prices
      BY <3>1, LenProperties, ElementOfSeq
    <3> QED
      BY <3>1, <3>2, ConstantsType DEF TypeOK, OutsideType
  <2>2. vcash' \in Int
    BY <1>24, <2>1, ConstantsType DEF Reverse, TypeOK, OutsideType
  <2>3. vpos' \in [Token -> Nat]
    <3>1. CASE o.side = "buy"
      <4>1. vpos' = [vpos EXCEPT ![o.token] = @ - 1] /\ vpos[o.token] > 0
        BY <1>24, <3>1 DEF Reverse
      <4>2. vpos[o.token] - 1 \in Nat
        BY <2>1, <4>1
      <4> QED
        BY <4>1, <4>2 DEF TypeOK, OutsideType
    <3>2. CASE o.side # "buy"
      <4>1. vpos' = [vpos EXCEPT ![o.token] = @ + 1]
        BY <1>24, <3>2 DEF Reverse
      <4> QED
        BY <2>1, <4>1 DEF TypeOK, OutsideType
    <3> QED
      BY <3>1, <3>2
  <2>4. reversals' \in 0 .. MaxReversals /\ odd' \subseteq {"late", "incomplete", "loser", "reversal"}
    BY <1>24, ConstantsType DEF Reverse, TypeOK, OutsideType
  <2>5. OutsideType'
    BY <1>24, <2>2, <2>3, <2>4 DEF Reverse, TypeOK, OutsideType
  <2> QED
    BY <1>24, <2>5, Carry DEF Reverse, TypeOK
<1>25. CASE UNCHANGED vars
  BY <1>25, Carry DEF vars, TypeOK
<1> QED
  BY <1>1, <1>2, <1>3, <1>4, <1>5, <1>6, <1>7, <1>8, <1>9, <1>10, <1>11, <1>13, <1>14, <1>16,
     <1>17, <1>18, <1>19, <1>20, <1>21, <1>22, <1>23, <1>24, <1>25
  DEF Next, Step, Outside

(* Every step keeps the batch within known orders.                         *)
LEMMA BatchStep ==
  ASSUME TypeOK, BatchInv, [Next]_vars
  PROVE  BatchInv'
<1> USE DEF configVars, botVars, moneyVars, coreVars
<1>1. ASSUME UNCHANGED <<orders, batch>>, batch # << >> => pc' \in {"polling", "applying"}
      PROVE  BatchInv'
  BY <1>1 DEF BatchInv
<1>2. ASSUME NEW i \in DOMAIN orders, Fetch(i) PROVE BatchInv'
  <2>1. Unseen(i) \in Seq(Event) /\ Unseen(i) # << >>
    BY <1>2, UnseenType DEF Fetch, TypeOK
  <2>2. Head(Unseen(i)) = Unseen(i)[1] /\ 1 \in DOMAIN Unseen(i)
    BY <2>1, EmptySeq, LenProperties
  <2>3. Head(Unseen(i)).i = i
    BY <2>2, UnseenType DEF TypeOK
  <2>4. batch' = Append(batch, Head(Unseen(i))) /\ batch \in Seq(Event)
    BY <1>2 DEF Fetch, TypeOK, StepType
  <2>5. \A k \in DOMAIN batch' : \/ k \in DOMAIN batch /\ batch'[k] = batch[k]
                                 \/ batch'[k] = Head(Unseen(i))
    BY <2>4
  <2> QED
    BY <1>2, <2>3, <2>5 DEF BatchInv, Fetch
<1>3. ASSUME batch # << >>, batch' = Tail(batch), DOMAIN orders' = DOMAIN orders,
             pc = "applying", UNCHANGED pc
      PROVE  BatchInv'
  BY <1>3, HeadType DEF BatchInv
<1>4. CASE ApplyFill
  <2>1. DOMAIN orders' = DOMAIN orders
    BY <1>4 DEF ApplyFill
  <2> QED
    BY <1>3, <1>4, <2>1 DEF ApplyFill
<1>5. CASE ApplyEnd
  <2>1. DOMAIN orders' = DOMAIN orders
    BY <1>5 DEF ApplyEnd
  <2> QED
    BY <1>3, <1>5, <2>1 DEF ApplyEnd
<1>6. CASE FillBreaks
  BY <1>6 DEF FillBreaks, BatchInv
<1>7. CASE \/ FetchDone \/ ApplyDone \/ SettleDone \/ ReadBalance \/ SkipReconcile
           \/ SnapshotFails \/ Compare \/ CompareIncomplete \/ StepDone
  BY <1>1, <1>7 DEF FetchDone, ApplyDone, SettleDone, ReadBalance, SkipReconcile,
     SnapshotFails, Compare, CompareIncomplete, StepDone, BatchInv
<1>8. ASSUME NEW m \in Market, Settle(m) PROVE BatchInv'
  BY <1>1, <1>8 DEF Settle, BatchInv
<1>9. ASSUME NEW order, Submit(order), pc = "trading", UNCHANGED <<pc, batch>>
      PROVE  BatchInv'
  BY <1>9 DEF BatchInv
<1>10. ASSUME NEW t \in Token, NEW amount \in 1 .. MaxOrderSize, Enter(t, amount)
       PROVE  BatchInv'
  BY <1>9, <1>10 DEF Enter
<1>11. ASSUME NEW t \in Token, Exit(t) PROVE BatchInv'
  BY <1>9, <1>11 DEF Exit
<1>12. CASE Outside
  <2>1. UNCHANGED <<orders, batch, pc>>
    BY <1>12 DEF Outside, Match, Finish, WindowEnds, Resolve, Redeem, Reverse
  <2> QED
    BY <1>1, <2>1 DEF BatchInv
<1>13. CASE UNCHANGED vars
  BY <1>1, <1>13 DEF vars, BatchInv
<1> QED
  BY <1>2, <1>4, <1>5, <1>6, <1>7, <1>8, <1>10, <1>11, <1>12, <1>13 DEF Next, Step

(* A step that leaves orders, shares and the batch alone.                  *)
LEMMA SideCarry ==
  ASSUME SideInv, UNCHANGED <<limit, shares, orders, batch>>,
         batch # << >> => (pc' = "polling" => pc = "polling")
  PROVE  SideInv'
<1>1. Open' = Open /\ \A i : Safe(i)' <=> Safe(i)
  BY DEF Open, Safe
<1>2. batch = << >> => DOMAIN batch = {}
  OBVIOUS
<1> QED
  BY <1>1, <1>2 DEF SideInv

(* With a limit of one and room for an order, none is open.                *)
LEMMA NoneOpen ==
  ASSUME TypeOK, limit = 1, Cardinality(Open) < limit
  PROVE  Open = {}
<1>1. DOMAIN orders = 1 .. Len(orders) /\ Len(orders) \in Nat
  BY LenProperties DEF TypeOK, OrdersType
<1>2. IsFiniteSet(1 .. Len(orders))
  BY <1>1, FS_Interval
<1>3. IsFiniteSet(Open)
  BY <1>1, <1>2, FS_Subset DEF Open
<1>4. Cardinality(Open) \in Nat
  BY <1>3, FS_CardinalityType
<1>5. Cardinality(Open) = 0
  BY <1>4
<1> QED
  BY <1>3, <1>5, FS_EmptySet

(* A new order: nothing is fetched or open when it is submitted.           *)
LEMMA SideSubmit ==
  ASSUME TypeOK, BatchInv, SideInv, NEW order \in Order, Submit(order),
         pc = "trading", UNCHANGED <<limit, shares, batch, pc>>,
         order.side = "buy" => shares[Other(order.token)] = 0
  PROVE  SideInv'
<1> SUFFICES ASSUME limit = 1 PROVE SideInv'
  BY DEF SideInv
<1>1. Open = {} /\ batch = << >>
  BY NoneOpen DEF Submit, BatchInv
<1>2. orders \in Seq(Order) /\ orders' = Append(orders, order)
  BY DEF TypeOK, OrdersType, Submit
<1>0. PICK n : n = Len(orders) + 1
  OBVIOUS
<1>3. orders'[n] = order /\ \A i \in DOMAIN orders' : i # n => i \in DOMAIN orders /\ orders'[i] = orders[i]
  BY <1>0, <1>2
<1>4. \A i \in Open' : i = n
  BY <1>1, <1>3 DEF Open
<1>5. Safe(n)'
  BY <1>3 DEF Safe
<1>6. DOMAIN batch' = {}
  BY <1>1
<1> QED
  BY <1>4, <1>5, <1>6 DEF SideInv

(* Every step keeps the sides of a window apart.                           *)
LEMMA SideStep ==
  ASSUME TypeOK, BatchInv, SideInv, [Next]_vars
  PROVE  SideInv'
<1> USE DEF configVars, botVars, moneyVars, coreVars
<1>1. ASSUME NEW i \in DOMAIN orders, Fetch(i) PROVE SideInv'
  <2> SUFFICES ASSUME limit = 1 PROVE SideInv'
    BY <1>1 DEF SideInv, Fetch
  <2>1. Unseen(i) \in Seq(Event) /\ Unseen(i) # << >>
    BY <1>1, UnseenType DEF Fetch, TypeOK
  <2>2. Head(Unseen(i)) = Unseen(i)[1] /\ 1 \in DOMAIN Unseen(i)
    BY <2>1, EmptySeq, LenProperties
  <2>3. Head(Unseen(i)).i = i
    BY <2>2, UnseenType DEF TypeOK
  <2>4. batch' = Append(batch, Head(Unseen(i))) /\ batch \in Seq(Event)
    BY <1>1 DEF Fetch, TypeOK, StepType
  <2>5. \A k \in DOMAIN batch' : \/ k \in DOMAIN batch /\ batch'[k] = batch[k]
                                 \/ batch'[k] = Head(Unseen(i))
    BY <2>4
  <2>6. i \in Open /\ pc = "polling"
    BY <1>1 DEF Fetch
  <2>7. \A k \in DOMAIN batch' : batch'[k].i = i
    BY <2>3, <2>5, <2>6 DEF SideInv
  <2>8. Open' = Open /\ \A j : Safe(j)' <=> Safe(j)
    BY <1>1 DEF Fetch, Open, Safe
  <2>9. UNCHANGED <<limit, shares, pc>>
    BY <1>1 DEF Fetch
  <2> QED
    BY <2>6, <2>7, <2>8, <2>9 DEF SideInv
<1>2. ASSUME batch # << >>, batch' = Tail(batch) \/ batch' = << >>, pc = "applying", limit = 1,
             UNCHANGED limit, Open' \subseteq Open,
             pc' = "polling" => batch' = << >>,
             \A j \in DOMAIN orders : /\ orders'[j].side = orders[j].side
                                      /\ orders'[j].token = orders[j].token,
             \A t \in Token : shares'[t] > 0 => shares'[Other(t)] = 0,
             \A j \in DOMAIN orders :
               j = Head(batch).i /\ Safe(j) /\ orders[j].side = "buy"
                 => shares'[Other(orders[j].token)] = 0
      PROVE  SideInv'
  <2>0. PICK n : n = Head(batch).i
    OBVIOUS
  <2>1. \A k \in DOMAIN batch' : \E l \in DOMAIN batch : batch'[k] = batch[l]
    BY <1>2, HeadType
  <2>2. \A k \in DOMAIN batch : batch[k].i = n
    BY <1>2, <2>0, HeadType DEF SideInv
  <2>3. Safe(n) /\ n \in DOMAIN orders
    BY <1>2, <2>0, HeadType DEF SideInv
  <2>4. Safe(n)'
    BY <1>2, <2>0, <2>3 DEF Safe
  <2>5. \A k \in DOMAIN batch' : batch'[k].i = n
    BY <2>1, <2>2
  <2>6. \A i \in Open' : i = n
    BY <1>2, <2>0, HeadType DEF SideInv
  <2>7. batch' = << >> => DOMAIN batch' = {}
    OBVIOUS
  <2> QED
    BY <1>2, <2>4, <2>5, <2>6, <2>7 DEF SideInv
<1>3. CASE ApplyFill
  <2> SUFFICES ASSUME limit = 1 PROVE SideInv'
    BY <1>3 DEF SideInv, ApplyFill
  <2> DEFINE i == Head(batch).i
             o == orders[i]
             t == o.token
  <2>1. batch # << >>
    BY <1>3 DEF ApplyFill
  <2>2. i \in DOMAIN orders /\ t \in Token /\ o.side \in {"buy", "sell"} /\ Safe(i)
    BY <2>1, HeadType, OrderFields DEF TypeOK, SideInv
  <2>3. /\ \A j \in DOMAIN orders : /\ orders'[j].side = orders[j].side
                                     /\ orders'[j].token = orders[j].token
                                     /\ orders'[j].open = orders[j].open
        /\ DOMAIN orders' = DOMAIN orders
    BY <1>3, <2>2 DEF ApplyFill, TypeOK, OrdersType, Order
  <2>4. Open' \subseteq Open
    BY <2>3 DEF Open
  <2>5. shares \in [Token -> Nat]
    BY DEF TypeOK, PortfolioType
  <2>6. \A u \in Token : u # t => shares'[u] = shares[u]
    BY <1>3, <2>2, <2>5 DEF ApplyFill, BuyFill, SellFill
  <2>7. shares'[Other(t)] = shares[Other(t)]
    BY <2>2, <2>6, OtherToken
  <2>8. \A u \in Token : shares[u] > 0 => shares[Other(u)] = 0
    BY DEF SideInv
  <2>9. \A u \in Token : shares'[u] > 0 => shares'[Other(u)] = 0
    <3> SUFFICES ASSUME NEW u \in Token, shares'[u] > 0 PROVE shares'[Other(u)] = 0
      OBVIOUS
    <3>1. CASE o.side = "buy"
      <4>1. shares[Other(t)] = 0
        BY <2>2, <3>1 DEF Safe
      <4>2. CASE u = t
        BY <2>7, <4>1, <4>2
      <4>3. CASE u # t
        <5>1. shares[u] > 0
          BY <2>6, <4>3
        <5>2. Other(u) # t
          BY <2>2, <4>1, <5>1, OtherToken
        <5> QED
          BY <2>6, <2>8, <5>1, <5>2, OtherToken
      <4> QED
        BY <4>2, <4>3
    <3>2. CASE o.side = "sell"
      <4>1. shares' = [shares EXCEPT ![t] = @ - 1] /\ shares[t] # 0
        BY <1>3, <2>2, <3>2 DEF ApplyFill, SellFill, Breaks
      <4>2. CASE u = t
        BY <2>2, <2>5, <2>7, <2>8, <4>1, <4>2
      <4>3. CASE u # t
        <5>1. shares[u] > 0 /\ shares[Other(u)] = 0
          BY <2>6, <2>8, <4>3
        <5>2. Other(u) # t
          BY <4>1, <5>1
        <5> QED
          BY <2>6, <5>1, <5>2, OtherToken
      <4> QED
        BY <4>2, <4>3
    <3> QED
      BY <2>2, <3>1, <3>2
  <2>10. \A j \in DOMAIN orders :
           j = i /\ Safe(j) /\ orders[j].side = "buy" => shares'[Other(orders[j].token)] = 0
    BY <2>7 DEF Safe
  <2> QED
    BY <1>2, <1>3, <2>1, <2>3, <2>4, <2>9, <2>10 DEF ApplyFill
<1>4. CASE FillBreaks
  <2> SUFFICES ASSUME limit = 1 PROVE SideInv'
    BY <1>4 DEF SideInv, FillBreaks
  <2>1. batch # << >> /\ Head(batch).i \in DOMAIN orders
    BY <1>4, HeadType DEF FillBreaks
  <2>2. /\ \A j \in DOMAIN orders : /\ orders'[j].side = orders[j].side
                                     /\ orders'[j].token = orders[j].token
                                     /\ orders'[j].open = orders[j].open
        /\ DOMAIN orders' = DOMAIN orders
    BY <1>4, <2>1 DEF FillBreaks, TypeOK, OrdersType, Order
  <2>3. Open' \subseteq Open
    BY <2>2 DEF Open
  <2>4. UNCHANGED shares
    BY <1>4 DEF FillBreaks
  <2>5. \A u \in Token : shares'[u] > 0 => shares'[Other(u)] = 0
    BY <2>4 DEF SideInv
  <2> QED
    BY <1>2, <1>4, <2>1, <2>2, <2>3, <2>4, <2>5 DEF FillBreaks, Safe
<1>5. CASE ApplyEnd
  <2> SUFFICES ASSUME limit = 1 PROVE SideInv'
    BY <1>5 DEF SideInv, ApplyEnd
  <2>1. batch # << >> /\ Head(batch).i \in DOMAIN orders
    BY <1>5, HeadType DEF ApplyEnd
  <2>2. /\ \A j \in DOMAIN orders : /\ orders'[j].side = orders[j].side
                                     /\ orders'[j].token = orders[j].token
                                     /\ orders'[j].open \in {orders[j].open, FALSE}
        /\ DOMAIN orders' = DOMAIN orders
    BY <1>5, <2>1 DEF ApplyEnd, TypeOK, OrdersType, Order
  <2>3. Open' \subseteq Open
    BY <2>2, Zenon DEF Open
  <2>4. UNCHANGED shares
    BY <1>5 DEF ApplyEnd
  <2>5. \A u \in Token : shares'[u] > 0 => shares'[Other(u)] = 0
    BY <2>4 DEF SideInv
  <2> QED
    BY <1>2, <1>5, <2>1, <2>2, <2>3, <2>4, <2>5 DEF ApplyEnd, Safe
<1>6. CASE \/ FetchDone \/ ApplyDone \/ SettleDone \/ ReadBalance \/ SkipReconcile
           \/ SnapshotFails \/ Compare \/ CompareIncomplete \/ StepDone
  BY <1>6, SideCarry DEF FetchDone, ApplyDone, SettleDone, ReadBalance, SkipReconcile,
     SnapshotFails, Compare, CompareIncomplete, StepDone, BatchInv
<1>7. ASSUME NEW m \in Market, Settle(m) PROVE SideInv'
  <2> SUFFICES ASSUME limit = 1 PROVE SideInv'
    BY <1>7 DEF SideInv, Settle
  <2>1. batch = << >> /\ batch' = << >> /\ Open' = Open /\ UNCHANGED <<orders, limit>>
    BY <1>7 DEF Settle, BatchInv, Open
  <2>2. shares \in [Token -> Nat]
    BY DEF TypeOK, PortfolioType
  <2>3. \A t \in Token : shares'[t] = shares[t] \/ shares'[t] = 0
    BY <1>7 DEF Settle, SettlePortfolio
  <2>4. \A t \in Token : shares[Other(t)] = 0 => shares'[Other(t)] = 0
    BY <2>3, OtherToken
  <2>5. \A t \in Token : shares'[t] > 0 => shares'[Other(t)] = 0
    BY <2>2, <2>3, <2>4 DEF SideInv
  <2>6. \A i \in Open : Safe(i)'
    <3>1. \A i \in Open : Safe(i) /\ orders[i].token \in Token
      BY OrderFields DEF SideInv, Open, TypeOK
    <3> QED
      BY <2>1, <2>4, <3>1 DEF Safe
  <2>7. DOMAIN batch' = {}
    BY <2>1
  <2> QED
    BY <2>1, <2>5, <2>6, <2>7 DEF SideInv
<1>8. ASSUME NEW t \in Token, NEW amount \in 1 .. MaxOrderSize, Enter(t, amount)
      PROVE  SideInv'
  <2>1. [side |-> "buy", token |-> t, amount |-> amount, used |-> 0, open |-> TRUE] \in Order
    BY ConstantsType DEF Order
  <2> QED
    BY <1>8, <2>1, SideSubmit DEF Enter, RoomFor
<1>9. ASSUME NEW t \in Token, Exit(t) PROVE SideInv'
  <2>1. shares[t] \in Nat
    BY DEF TypeOK, PortfolioType
  <2>2. [side |-> "sell", token |-> t, amount |-> shares[t], used |-> 0, open |-> TRUE] \in Order
    BY <2>1 DEF Order
  <2> QED
    BY <1>9, <2>2, SideSubmit DEF Exit
<1>10. CASE Outside
  <2>1. UNCHANGED <<limit, shares, orders, batch, pc>>
    BY <1>10 DEF Outside, Match, Finish, WindowEnds, Resolve, Redeem, Reverse
  <2> QED
    BY <2>1, SideCarry
<1>11. CASE UNCHANGED vars
  BY <1>11, SideCarry DEF vars
<1> QED
  BY <1>1, <1>3, <1>4, <1>5, <1>6, <1>7, <1>8, <1>9, <1>10, <1>11 DEF Next, Step

-----------------------------------------------------------------------------
(* The theorems. *)

(* The types, known batches and separate sides hold in every state.        *)
LEMMA Invariance == Spec => []IInv
<1>1. Init => IInv
  BY InitType DEF IInv
<1>2. IInv /\ [Next]_vars => IInv'
  BY NextType, BatchStep, SideStep DEF IInv
<1> QED
  BY <1>1, <1>2, PTL DEF Spec

(* Portfolio, orders, venue and wallet keep their types: in particular no  *)
(* cost basis and no position ever becomes negative, however a position is *)
(* bought, sold in parts, settled, redeemed or reversed.                   *)
THEOREM TypeCorrect == Spec => []TypeOK
<1>1. IInv => TypeOK
  BY DEF IInv
<1> QED
  BY <1>1, Invariance, PTL

(* With one order in flight the bot never holds both sides of a window,    *)
(* for any number of windows and orders and whatever is filled when.       *)
THEOREM NeverBothSides == Spec => []OneSideOnly
<1>1. IInv => OneSideOnly
  <2> SUFFICES ASSUME IInv, limit = 1, NEW t \in Held PROVE shares[Other(t)] = 0
    BY DEF OneSideOnly
  <2> QED
    BY DEF IInv, SideInv, Held
<1> QED
  BY <1>1, Invariance, PTL
-----------------------------------------------------------------------------
(* The money.                                                              *)

LEMMA TokenFinite == IsFiniteSet(Token)
BY LedgerAssumption, FS_Product DEF Token

(* The cost bases add up to a natural number that bounds each of them, and *)
(* their sum follows one of them as it changes.                            *)
LEMMA CostSum ==
  ASSUME NEW c \in [Token -> Nat]
  PROVE  /\ SumFunction(c) \in Nat
         /\ \A t \in Token : c[t] <= SumFunction(c)
         /\ \A t \in Token, v \in Nat :
              SumFunction([c EXCEPT ![t] = v]) = SumFunction(c) - c[t] + v
<1>1. \A d \in [Token -> Nat] : SumFunction(d) = SumFunctionOnSet(d, Token)
  BY DEF SumFunction
<1>2. \A t \in Token : c[t] \in Nat /\ c[t] \in Int
  OBVIOUS
<1>3. SumFunction(c) \in Nat /\ \A t \in Token : c[t] <= SumFunction(c)
  BY <1>1, <1>2, TokenFinite, SumNat
<1>4. ASSUME NEW t \in Token, NEW v \in Nat
      PROVE  SumFunction([c EXCEPT ![t] = v]) = SumFunction(c) - c[t] + v
  <2> DEFINE d == [c EXCEPT ![t] = v]
  <2>1. d \in [Token -> Nat] /\ (\A x \in Token \ {t} : d[x] = c[x]) /\ d[t] = v /\ d[t] \in Int
    OBVIOUS
  <2> HIDE DEF d
  <2>2. SumFunctionOnSet(d, Token) = SumFunctionOnSet(c, Token) - c[t] + d[t]
    BY <1>2, <2>1, TokenFinite, SumChange
  <2>3. SumFunction(d) = SumFunction(c) - c[t] + v
    BY <1>1, <2>1, <2>2
  <2> QED BY <2>3 DEF d
<1> QED BY <1>3, <1>4

(* What a settlement leaves of the cost bases. *)
LEMMA CostSettled ==
  ASSUME NEW c \in [Token -> Nat], NEW t \in Token
  PROVE  SumFunction([u \in Token |-> IF Mkt(u) = Mkt(t) THEN 0 ELSE c[u]])
           = SumFunction(c) - c[t] - c[Other(t)]
<1> DEFINE d == [c EXCEPT ![t] = 0]
           e == [d EXCEPT ![Other(t)] = 0]
<1>1. Other(t) \in Token /\ Other(t) # t
  BY OtherToken
<1>2. d \in [Token -> Nat] /\ d[Other(t)] = c[Other(t)]
  BY <1>1
<1>3. SumFunction(d) = SumFunction(c) - c[t]
  <2>1. SumFunction(c) \in Nat /\ c[t] \in Nat
    BY CostSum
  <2>2. SumFunction(d) = SumFunction(c) - c[t] + 0
    BY CostSum
  <2> HIDE DEF d
  <2> QED BY <2>1, <2>2
<1>4. SumFunction(e) = SumFunction(d) - d[Other(t)]
  <2> HIDE DEF d
  <2>1. SumFunction(d) \in Nat /\ d[Other(t)] \in Nat
    BY <1>1, <1>2, CostSum
  <2>2. SumFunction(e) = SumFunction(d) - d[Other(t)] + 0
    BY <1>1, <1>2, CostSum
  <2> HIDE DEF e
  <2> QED BY <2>1, <2>2
<1>5. [u \in Token |-> IF Mkt(u) = Mkt(t) THEN 0 ELSE c[u]] = e
  BY OtherToken
<1> HIDE DEF e, d
<1> QED BY <1>2, <1>3, <1>4, <1>5

LEMMA CashStep ==
  ASSUME TypeOK, BatchInv, CashConserved, [Next]_vars
  PROVE  CashConserved'
<1>0. cash \in Int /\ realized \in Int /\ cost \in [Token -> Nat] /\ CostBasis \in Nat
  BY CostSum DEF TypeOK, PortfolioType, CostBasis
<1>1. ASSUME UNCHANGED botVars PROVE CashConserved'
  BY <1>1 DEF CashConserved, CostBasis, botVars
<1>2. CASE ApplyFill
  <2> DEFINE ev == Head(batch)
             o == orders[ev.i]
             t == o.token
  <2>1. t \in Token /\ o.side \in {"buy", "sell"} /\ ev.price \in Nat /\ Fee \in Nat
    BY <1>2, HeadType, OrderFields, ConstantsType DEF ApplyFill, TypeOK
  <2>2. cost[t] \in Nat /\ shares[t] \in Nat
    BY <2>1 DEF TypeOK, PortfolioType
  <2>3. CASE o.side = "buy"
    <3>1. BuyFill(t, ev.price)
      BY <1>2, <2>3 DEF ApplyFill
    <3>2. CostBasis' = CostBasis - cost[t] + (cost[t] + ev.price + Fee)
      <4>1. cost' = [cost EXCEPT ![t] = cost[t] + ev.price + Fee]
        BY <3>1 DEF BuyFill
      <4>2. cost[t] + ev.price + Fee \in Nat
        BY <2>1, <2>2
      <4> HIDE DEF ev, o, t
      <4> QED BY <1>0, <2>1, <4>1, <4>2, CostSum DEF CostBasis
    <3>3. cash' = cash - (ev.price + Fee) /\ realized' = realized
      BY <3>1 DEF BuyFill
    <3> QED BY <1>0, <2>1, <2>2, <3>2, <3>3 DEF CashConserved
  <2>4. CASE o.side = "sell"
    <3>1. SellFill(t, ev.price) /\ shares[t] # 0
      BY <1>2, <2>4 DEF ApplyFill, Breaks
    <3>2. CostRemoved(t) \in Nat /\ CostRemoved(t) <= cost[t]
      BY <2>2, <3>1, Quotient DEF CostRemoved
    <3>3. CostBasis' = CostBasis - cost[t] + (cost[t] - CostRemoved(t))
      <4>1. cost' = [cost EXCEPT ![t] = cost[t] - CostRemoved(t)]
        BY <3>1 DEF SellFill
      <4>2. cost[t] - CostRemoved(t) \in Nat
        BY <2>2, <3>2
      <4> HIDE DEF ev, o, t
      <4> QED BY <1>0, <2>1, <4>1, <4>2, CostSum DEF CostBasis
    <3>4. cash' = cash + ev.price - Fee /\ realized' = realized + ev.price - Fee - CostRemoved(t)
      BY <3>1 DEF SellFill
    <3> HIDE DEF ev, o, t
    <3>5. Cash0 \in Int
      BY ConstantsType
    <3> QED BY <1>0, <2>1, <2>2, <3>2, <3>3, <3>4, <3>5 DEF CashConserved
  <2> QED BY <2>1, <2>3, <2>4
<1>3. ASSUME NEW m \in Market, Settle(m) PROVE CashConserved'
  <2> DEFINE w == Winner(m)
             payout == Payout * shares[w]
  <2>1. SettlePortfolio(m) /\ Resolved(m)
    BY <1>3 DEF Settle, ToSettle
  <2>2. w \in Token /\ Other(w) \in Token /\ payout \in Nat /\ Mkt(w) = m
    BY <2>1, SettleType DEF Winner, Mkt
  <2>3. CostBasis' = CostBasis - cost[w] - cost[Other(w)]
    <3>1. cost' = [u \in Token |-> IF Mkt(u) = Mkt(w) THEN 0 ELSE cost[u]]
      BY <2>1, <2>2 DEF SettlePortfolio
    <3> HIDE DEF w
    <3> QED BY <1>0, <2>2, <3>1, CostSettled DEF CostBasis
  <2>4. cost[w] \in Nat /\ cost[Other(w)] \in Nat
    BY <1>0, <2>2
  <2>5. cash' = cash + payout /\ realized' = realized + payout - (cost[w] + cost[Other(w)])
    BY <2>1 DEF SettlePortfolio
  <2> HIDE DEF w, payout
  <2> QED BY <1>0, <2>2, <2>3, <2>4, <2>5, ConstantsType DEF CashConserved
<1>4. CASE UNCHANGED vars
  BY <1>1, <1>4 DEF vars
<1>5. CASE Outside
  BY <1>1, <1>5 DEF Outside, Match, Finish, WindowEnds, Resolve, Redeem, Reverse
<1>6. CASE Step /\ ~ApplyFill /\ ~\E m \in Market : Settle(m)
  BY <1>1, <1>6 DEF Step, Fetch, FetchDone, FillBreaks, ApplyEnd, ApplyDone, SettleDone,
     ReadBalance, SkipReconcile, SnapshotFails, Compare, CompareIncomplete, Enter, Exit, StepDone
<1> QED BY <1>2, <1>3, <1>4, <1>5, <1>6 DEF Next

(* Cash and cost bases always add up to the starting cash and the realized *)
(* result, for any windows, prices, fees and orders: no money is lost in a *)
(* partial sale, a rounding or a settlement.                               *)
THEOREM NoMoneyLost == Spec => []CashConserved
<1>1. Init => CashConserved
  <2> SUFFICES ASSUME Init PROVE CashConserved
    OBVIOUS
  <2>1. cost = [t \in Token |-> 0] /\ cash = Cash0 /\ realized = 0
    BY DEF Init
  <2>2. CostBasis = 0
    BY <2>1, TokenFinite, SumZero DEF CostBasis, SumFunction
  <2> QED BY <2>1, <2>2, ConstantsType DEF CashConserved
<1>2. IInv /\ CashConserved /\ [Next]_vars => CashConserved'
  BY CashStep DEF IInv
<1> QED BY <1>1, <1>2, Invariance, PTL DEF Spec
-----------------------------------------------------------------------------
(* What an order may still spend.                                          *)

(* What the first n trades of an order use of its amount.                  *)
Spent(side, trades, n) == IF side = "buy" THEN SumFunctionOnSet(trades, 1 .. n) ELSE n
Using(i, n) == Spent(orders[i].side, venue[i].trades, n)

(* The trades of order i the adapter has fetched. *)
Fetched(i) == IF venue[i].seen <= Len(venue[i].trades) THEN venue[i].seen
                                                        ELSE Len(venue[i].trades)

(* The venue never trades more than the amount, and of what was traded the *)
(* bot has booked no more than it has fetched.                             *)
Accounted(i) ==
  /\ Using(i, Len(venue[i].trades)) + venue[i].left = orders[i].amount
  /\ venue[i].seen <= Len(venue[i].trades) + (IF venue[i].done THEN 1 ELSE 0)
  /\ orders[i].used <= Using(i, Fetched(i))
AmountInv == \A i \in DOMAIN orders : Accounted(i)

(* Event k of the batch is event n of its open order, and only what comes  *)
(* before it is booked.                                                    *)
Numbered(k, n) ==
  LET i == batch[k].i
  IN  /\ i \in Open
      /\ n <= venue[i].seen
      /\ batch[k].type = "fill" => /\ n <= Len(venue[i].trades)
                                   /\ batch[k].price = venue[i].trades[n]
      /\ batch[k].type = "end" => n = Len(venue[i].trades) + 1
      /\ orders[i].used <= Using(i, n - 1)

(* The events of an order are applied in its order. *)
InOrder(nth) ==
  \A k, l \in DOMAIN batch : k < l /\ batch[k].i = batch[l].i => nth[k] < nth[l]

BatchOrderInv ==
  \E nth \in [DOMAIN batch -> Nat \ {0}] :
    /\ \A k \in DOMAIN batch : Numbered(k, nth[k])
    /\ InOrder(nth)

LEMMA SpentStep ==
  ASSUME NEW trades \in Seq(Prices), NEW side
  PROVE  /\ Spent(side, trades, 0) = 0
         /\ \A n \in 0 .. Len(trades) : Spent(side, trades, n) \in Nat
         /\ \A n \in 1 .. Len(trades) :
              Spent(side, trades, n)
                = Spent(side, trades, n - 1) + IF side = "buy" THEN trades[n] ELSE 1
         /\ \A m, n \in 0 .. Len(trades) :
              m <= n => Spent(side, trades, m) <= Spent(side, trades, n)
<1>1. Len(trades) \in Nat /\ \A x \in 1 .. Len(trades) : trades[x] \in Nat /\ trades[x] \in Int
  <2>1. \A p \in Prices : p \in Nat /\ p \in Int
    BY ConstantsType
  <2> QED BY <2>1, LenProperties, ElementOfSeq
<1>2. \A n \in 0 .. Len(trades) :
        IsFiniteSet(1 .. n) /\ \A x \in 1 .. n : trades[x] \in Nat /\ trades[x] \in Int
  BY <1>1, FS_Interval
<1>3. SumFunctionOnSet(trades, 1 .. 0) = 0
  <2>1. 1 .. 0 = {} /\ IsFiniteSet(1 .. 0)
    BY FS_Interval
  <2> QED BY <2>1, SumStep
<1>4. \A n \in 0 .. Len(trades) : SumFunctionOnSet(trades, 1 .. n) \in Nat
  BY <1>2, SumNat
<1>5. ASSUME NEW n \in 1 .. Len(trades)
      PROVE  SumFunctionOnSet(trades, 1 .. n) = trades[n] + SumFunctionOnSet(trades, 1 .. n - 1)
  <2>1. n \in 1 .. n /\ (1 .. n) \ {n} = 1 .. n - 1 /\ n \in 0 .. Len(trades)
    BY <1>1
  <2>2. SumFunctionOnSet(trades, 1 .. n) = trades[n] + SumFunctionOnSet(trades, (1 .. n) \ {n})
    BY <1>2, <2>1, SumRemove
  <2> QED BY <2>1, <2>2
<1>6. ASSUME NEW m \in 0 .. Len(trades), NEW n \in 0 .. Len(trades), m <= n
      PROVE  SumFunctionOnSet(trades, 1 .. m) <= SumFunctionOnSet(trades, 1 .. n)
  <2>1. 1 .. m \subseteq 1 .. n
    BY <1>6, <1>1
  <2> QED BY <1>2, <2>1, SumSubset
<1>7. \A n \in 1 .. Len(trades) :
        trades[n] \in Nat /\ n - 1 \in 0 .. Len(trades)
  BY <1>1
<1>8. CASE side = "buy"
  BY <1>3, <1>4, <1>5, <1>6, <1>7, <1>8 DEF Spent
<1>9. CASE side # "buy"
  BY <1>1, <1>9 DEF Spent
<1> QED BY <1>8, <1>9

(* One more trade. *)
LEMMA SpentAppend ==
  ASSUME NEW trades \in Seq(Prices), NEW side, NEW p \in Prices
  PROVE  /\ Append(trades, p) \in Seq(Prices) /\ Len(Append(trades, p)) = Len(trades) + 1
         /\ \A n \in 0 .. Len(trades) : Spent(side, Append(trades, p), n) = Spent(side, trades, n)
         /\ Spent(side, Append(trades, p), Len(trades) + 1)
              = Spent(side, trades, Len(trades)) + IF side = "buy" THEN p ELSE 1
<1> DEFINE more == Append(trades, p)
<1>1. more \in Seq(Prices) /\ Len(more) = Len(trades) + 1 /\ Len(trades) \in Nat
      /\ more[Len(trades) + 1] = p /\ \A x \in 1 .. Len(trades) : more[x] = trades[x]
  BY AppendProperties, LenProperties
<1> HIDE DEF more
<1>2. ASSUME NEW n \in 0 .. Len(trades) PROVE Spent(side, more, n) = Spent(side, trades, n)
  <2>1. IsFiniteSet(1 .. n) /\ \A x \in 1 .. n : more[x] = trades[x]
    BY <1>1, FS_Interval
  <2>2. SumFunctionOnSet(more, 1 .. n) = SumFunctionOnSet(trades, 1 .. n)
    BY <2>1, SumSame
  <2> QED BY <2>2 DEF Spent
<1>3. Spent(side, more, Len(trades) + 1)
        = Spent(side, more, Len(trades)) + IF side = "buy" THEN p ELSE 1
  <2>1. Len(trades) + 1 \in 1 .. Len(more) /\ (Len(trades) + 1) - 1 = Len(trades)
    BY <1>1
  <2>2. Spent(side, more, Len(trades) + 1)
          = Spent(side, more, (Len(trades) + 1) - 1) + IF side = "buy" THEN more[Len(trades) + 1] ELSE 1
    BY <1>1, <2>1, SpentStep
  <2> QED BY <1>1, <2>1, <2>2
<1>4. Len(trades) \in 0 .. Len(trades)
  BY <1>1
<1> QED BY <1>1, <1>2, <1>3, <1>4 DEF more

(* The event the adapter fetches next. *)
LEMMA NextEvent ==
  ASSUME OrdersType, NEW i \in DOMAIN orders, Unseen(i) # << >>, Accounted(i)
  PROVE  \E e \in Event, n \in Nat \ {0} :
           /\ e = Head(Unseen(i)) /\ e.i = i /\ n = venue[i].seen + 1
           /\ \/ e.type = "fill" /\ n <= Len(venue[i].trades) /\ e.price = venue[i].trades[n]
              \/ e.type = "end" /\ venue[i].done /\ n = Len(venue[i].trades) + 1
<1> DEFINE v == venue[i]
           n == v.seen + 1
           fills == [k \in 1 .. Len(v.trades) |-> [i |-> i, type |-> "fill", price |-> v.trades[k]]]
           end == IF v.done THEN <<[i |-> i, type |-> "end", price |-> 0]>> ELSE << >>
           e == Head(Unseen(i))
<1>1. /\ v.trades \in Seq(Prices) /\ v.seen \in Nat /\ Len(v.trades) \in Nat
      /\ n \in Nat \ {0} /\ i \in Nat
  BY OrderFields, LenProperties
<1>2. Unseen(i) \in Seq(Event) /\ e \in Event
  BY UnseenType, HeadTailProperties
<1>3. fills \in Seq(Event) /\ Len(fills) = Len(v.trades)
      /\ \A k \in 1 .. Len(v.trades) : fills[k] = [i |-> i, type |-> "fill", price |-> v.trades[k]]
  <2>1. \A k \in 1 .. Len(v.trades) : v.trades[k] \in Nat
    BY <1>1, ConstantsType, ElementOfSeq
  <2>2. \A p \in Nat : [i |-> i, type |-> "fill", price |-> p] \in Event
    BY <1>1 DEF Event
  <2>3. fills \in [1 .. Len(v.trades) -> Event]
    BY <2>1, <2>2
  <2>4. \A k \in 1 .. Len(v.trades) : fills[k] = [i |-> i, type |-> "fill", price |-> v.trades[k]]
    OBVIOUS
  <2> HIDE DEF fills
  <2> QED BY <2>3, <2>4, <1>1, SeqDef, LenProperties
<1>4. [i |-> i, type |-> "end", price |-> 0] \in Event
  BY <1>1 DEF Event
<1>5. /\ end \in Seq(Event)
      /\ v.done => Len(end) = 1 /\ end[1] = [i |-> i, type |-> "end", price |-> 0]
      /\ ~v.done => Len(end) = 0
  BY <1>4
<1>6. Events(i) = fills \o end
  BY DEF Events
<1> HIDE DEF fills, end
<1>7. /\ Events(i) \in Seq(Event) /\ Len(Events(i)) = Len(fills) + Len(end)
      /\ \A k \in 1 .. Len(fills) + Len(end) :
           Events(i)[k] = IF k <= Len(fills) THEN fills[k] ELSE end[k - Len(fills)]
  <2>1. fills \in Seq(Event) /\ end \in Seq(Event)
    BY <1>3, <1>5
  <2> QED BY ONLY <2>1, <1>6, ConcatProperties, SMTT(40)
<1>8. n <= Len(Events(i)) /\ e = Events(i)[n]
  <2> DEFINE E == Events(i)
             L == Len(Events(i))
  <2>1. E \in Seq(Event) /\ L \in Nat /\ Unseen(i) = SubSeq(E, n, L)
    BY <1>7, LenProperties DEF Unseen
  <2>2. n <= L
    <3> SUFFICES ASSUME n > L PROVE FALSE
      BY <1>1, <2>1
    <3>1. SubSeq(E, n, L) = << >>
      <4> HIDE DEF E, L, n
      <4> QED BY <1>1, <2>1
    <3> QED BY <2>1, <3>1
  <2>3. Unseen(i) = SubSeq(E, n, L) /\ n \in 1 .. L /\ L <= Len(E) /\ n \in Nat /\ 1 \in 1 .. L - n + 1
    BY <1>1, <2>1, <2>2
  <2>4. Len(SubSeq(E, n, L)) = L - n + 1 /\ SubSeq(E, n, L)[1] = E[n]
    <3> HIDE DEF E, L, n
    <3> QED BY <2>1, <2>3, SubSeqProperties
  <2>5. Head(Unseen(i)) = Unseen(i)[1]
    BY <1>2
  <2> QED BY <2>2, <2>1, <2>4, <2>5
<1>9. CASE n <= Len(v.trades)
  <2>1. e = [i |-> i, type |-> "fill", price |-> v.trades[n]]
    <3>1. n \in 1 .. Len(v.trades) /\ n \in 1 .. Len(fills) + Len(end) /\ n <= Len(fills)
      BY <1>1, <1>3, <1>5, <1>7, <1>8, <1>9, LenProperties
    <3> HIDE DEF n, e, v
    <3> QED BY <1>3, <1>7, <1>8, <3>1
  <2>2. e.i = i /\ e.type = "fill" /\ e.price = v.trades[n]
    BY <2>1
  <2> HIDE DEF e, n, v
  <2> QED BY <1>1, <1>2, <1>9, <2>2 DEF e, n, v
<1>10. CASE n > Len(v.trades)
  <2>1. v.done /\ n = Len(v.trades) + 1
    <3>1. v.done => Len(end) = 1
      BY <1>5
    <3>2. ~v.done => Len(end) = 0
      BY <1>5
    <3>3. n <= Len(v.trades) + Len(end)
      BY <1>3, <1>7, <1>8
    <3>4. v.done
      BY <1>1, <1>10, <3>2, <3>3
    <3>5. Len(end) = 1
      BY <3>1, <3>4
    <3> HIDE DEF v, n
    <3> QED BY <1>1, <1>10, <3>3, <3>4, <3>5
  <2>2. e = end[1]
    BY <1>1, <1>3, <1>5, <1>7, <1>8, <1>10, <2>1
  <2>3. e.i = i /\ e.type = "end"
    BY <1>5, <2>1, <2>2
  <2> HIDE DEF e, n
  <2> QED BY <1>1, <1>2, <2>1, <2>3 DEF e, n
<1> QED BY <1>1, <1>9, <1>10
LEMMA UsingStep ==
  ASSUME OrdersType, NEW i \in DOMAIN orders
  PROVE  /\ Len(venue[i].trades) \in Nat
         /\ Using(i, 0) = 0
         /\ \A n \in 0 .. Len(venue[i].trades) : Using(i, n) \in Nat
         /\ \A n \in 1 .. Len(venue[i].trades) :
              Using(i, n) = Using(i, n - 1) + IF orders[i].side = "buy" THEN venue[i].trades[n] ELSE 1
         /\ \A m, n \in 0 .. Len(venue[i].trades) : m <= n => Using(i, m) <= Using(i, n)
         /\ Fetched(i) \in 0 .. Len(venue[i].trades)
<1>1. venue[i].trades \in Seq(Prices) /\ venue[i].seen \in Nat
  BY OrderFields
<1>2. Len(venue[i].trades) \in Nat
  BY <1>1, LenProperties
<1>3. Fetched(i) \in 0 .. Len(venue[i].trades)
  BY <1>1, <1>2 DEF Fetched
<1> QED BY <1>1, <1>2, <1>3, SpentStep DEF Using

LEMMA OrdersCarry ==
  ASSUME AmountInv, BatchOrderInv, UNCHANGED <<orders, venue, batch>>
  PROVE  AmountInv' /\ BatchOrderInv'
<1>1. AmountInv'
  BY DEF AmountInv, Accounted, Using, Fetched
<1>2. BatchOrderInv'
  BY DEF BatchOrderInv, Numbered, InOrder, Using, Open
<1> QED BY <1>1, <1>2

(* An empty batch is in order. *)
LEMMA NothingFetched ==
  ASSUME batch' = << >>
  PROVE  BatchOrderInv'
<1> DEFINE nth == [k \in {} |-> 1]
<1>1. DOMAIN batch' = {}
  OBVIOUS
<1>2. nth \in [DOMAIN batch' -> Nat \ {0}]
  BY <1>1
<1>3. (\A k \in DOMAIN batch : Numbered(k, nth[k]))' /\ InOrder(nth)'
  BY <1>1 DEF InOrder
<1> HIDE DEF nth
<1> QED BY <1>2, <1>3 DEF BatchOrderInv

(* The head of the batch fits into what its order has left. *)
LEMMA FillFits ==
  ASSUME TypeOK, BatchInv, AmountInv, BatchOrderInv, batch # << >>, Head(batch).type = "fill"
  PROVE  LET i == Head(batch).i
             spend == IF orders[i].side = "buy" THEN Head(batch).price ELSE 1
         IN  /\ i \in Open /\ i \in DOMAIN orders
             /\ Head(batch).price \in Prices
             /\ spend \in Nat \ {0}
             /\ spend <= Left(i)
             /\ Left(i) \in Nat
<1>0. PICK i : i = Head(batch).i
  OBVIOUS
<1> DEFINE spend == IF orders[i].side = "buy" THEN Head(batch).price ELSE 1
<1>1. i \in DOMAIN orders /\ 1 \in DOMAIN batch /\ Head(batch) = batch[1] /\ OrdersType
  BY <1>0, HeadType DEF TypeOK
<1>2. PICK nth \in [DOMAIN batch -> Nat \ {0}] : \A k \in DOMAIN batch : Numbered(k, nth[k])
  BY DEF BatchOrderInv
<1>3. PICK n \in Nat \ {0} : n = nth[1] /\ Numbered(1, n)
  BY <1>1, <1>2
<1>4. /\ i \in Open /\ n <= Len(venue[i].trades)
      /\ Head(batch).price = venue[i].trades[n]
      /\ orders[i].used <= Using(i, n - 1)
  BY <1>0, <1>1, <1>3 DEF Numbered
<1>5. Len(venue[i].trades) \in Nat /\ n \in 1 .. Len(venue[i].trades)
  BY <1>1, <1>4, UsingStep
<1>6. Head(batch).price \in Prices /\ Head(batch).price \in Nat \ {0}
  <2>1. venue[i].trades \in Seq(Prices)
    BY <1>1, OrderFields
  <2>2. venue[i].trades[n] \in Prices
    BY <1>5, <2>1, ElementOfSeq
  <2> QED BY <1>4, <2>2, ConstantsType
<1>7. spend \in Nat \ {0}
  BY <1>6
<1>8. /\ Using(i, n) = Using(i, n - 1) + spend
      /\ Using(i, n) <= Using(i, Len(venue[i].trades))
      /\ Using(i, n) \in Nat /\ Using(i, n - 1) \in Nat
      /\ Using(i, Len(venue[i].trades)) \in Nat
  <2>1. spend = IF orders[i].side = "buy" THEN venue[i].trades[n] ELSE 1
    BY <1>4
  <2>2. /\ n \in 0 .. Len(venue[i].trades) /\ n - 1 \in 0 .. Len(venue[i].trades)
        /\ Len(venue[i].trades) \in 0 .. Len(venue[i].trades)
    BY <1>5
  <2> HIDE DEF spend
  <2> QED BY <1>1, <1>4, <1>5, <2>1, <2>2, UsingStep
<1>9. /\ Using(i, Len(venue[i].trades)) + venue[i].left = orders[i].amount
      /\ venue[i].left \in Nat /\ orders[i].amount \in Nat /\ orders[i].used \in Nat
  BY <1>1, OrderFields DEF AmountInv, Accounted
<1>10. spend <= Left(i) /\ Left(i) \in Nat
  <2> DEFINE before == Using(i, n - 1)
             all == Using(i, Len(venue[i].trades))
             rest == venue[i].left
             amount == orders[i].amount
             used == orders[i].used
  <2> HIDE DEF spend
  <2>1. before + spend <= all /\ all + rest = amount /\ used <= before
    BY <1>4, <1>8, <1>9
  <2>2. spend \in Nat /\ before \in Nat /\ all \in Nat /\ rest \in Nat /\ amount \in Nat /\ used \in Nat
    BY <1>7, <1>8, <1>9
  <2>3. Left(i) = amount - used
    BY DEF Left
  <2> HIDE DEF before, all, rest, amount, used
  <2> QED BY <2>1, <2>2, <2>3
<1> QED BY <1>0, <1>1, <1>4, <1>6, <1>7, <1>10

(* What is left of any order is not negative. *)
LEMMA LeftType ==
  ASSUME OrdersType, AmountInv, NEW i \in DOMAIN orders
  PROVE  Left(i) \in Nat
<1>1. /\ Using(i, Fetched(i)) <= Using(i, Len(venue[i].trades))
      /\ Using(i, Fetched(i)) \in Nat /\ Using(i, Len(venue[i].trades)) \in Nat
  BY UsingStep
<1>2. /\ Using(i, Len(venue[i].trades)) + venue[i].left = orders[i].amount
      /\ orders[i].used <= Using(i, Fetched(i))
      /\ venue[i].left \in Nat /\ orders[i].amount \in Nat /\ orders[i].used \in Nat
  BY OrderFields DEF AmountInv, Accounted
<1> QED BY <1>1, <1>2 DEF Left

(* Booking the head of the batch. *)
LEMMA FillOrder ==
  ASSUME TypeOK, BatchInv, AmountInv, BatchOrderInv, batch # << >>, Head(batch).type = "fill",
         orders' = [orders EXCEPT ![Head(batch).i].used =
                      @ + IF orders[Head(batch).i].side = "buy" THEN Head(batch).price ELSE 1],
         UNCHANGED venue
  PROVE  /\ AmountInv'
         /\ batch' = Tail(batch) => BatchOrderInv'
         /\ Open' = Open /\ DOMAIN orders' = DOMAIN orders
         /\ \A j \in DOMAIN orders : /\ orders'[j].side = orders[j].side
                                     /\ orders'[j].token = orders[j].token
                                     /\ orders'[j].amount = orders[j].amount
                                     /\ j # Head(batch).i => orders'[j] = orders[j]
         /\ \A i : i = Head(batch).i =>
              Left(i)' = Left(i) - IF orders[i].side = "buy" THEN Head(batch).price ELSE 1
<1>0. PICK i : i = Head(batch).i
  OBVIOUS
<1>1. i \in DOMAIN orders /\ 1 \in DOMAIN batch /\ Head(batch) = batch[1] /\ OrdersType
  BY <1>0, HeadType DEF TypeOK
<1>2. PICK spend : spend = IF orders[i].side = "buy" THEN Head(batch).price ELSE 1
  OBVIOUS
<1>3. /\ DOMAIN orders' = DOMAIN orders
      /\ \A j \in DOMAIN orders : /\ orders'[j].side = orders[j].side
                                  /\ orders'[j].token = orders[j].token
                                  /\ orders'[j].amount = orders[j].amount
                                  /\ orders'[j].open = orders[j].open
                                  /\ j # i => orders'[j] = orders[j]
      /\ orders'[i].used = orders[i].used + spend
  <2>1. PICK o : o = [orders[i] EXCEPT !.used = @ + spend]
    OBVIOUS
  <2>2. orders' = [orders EXCEPT ![i] = o]
    BY <1>0, <1>2, <2>1
  <2>3. orders[i] \in Order /\ orders \in Seq(Order)
    BY <1>1, OrderFields DEF OrdersType
  <2>4. /\ o.side = orders[i].side /\ o.token = orders[i].token /\ o.amount = orders[i].amount
        /\ o.used = orders[i].used + spend
    BY <2>1, <2>3 DEF Order
  <2>5. o.open = orders[i].open
    BY <2>1, <2>3 DEF Order
  <2>6. DOMAIN orders' = DOMAIN orders /\ orders'[i] = o
        /\ \A j \in DOMAIN orders : j # i => orders'[j] = orders[j]
    BY <1>1, <2>2, <2>3
  <2> QED BY <2>4, <2>5, <2>6
<1>4. Open' = Open
  BY <1>3 DEF Open
<1>5. PICK nth \in [DOMAIN batch -> Nat \ {0}] :
        (\A k \in DOMAIN batch : Numbered(k, nth[k])) /\ InOrder(nth)
  BY DEF BatchOrderInv
<1>6. PICK n \in Nat \ {0} : n = nth[1] /\ Numbered(1, n)
  BY <1>1, <1>5
<1>7. /\ n <= Len(venue[i].trades) /\ n <= venue[i].seen
      /\ Head(batch).price = venue[i].trades[n]
      /\ orders[i].used <= Using(i, n - 1)
  BY <1>0, <1>1, <1>6 DEF Numbered
<1>8. Len(venue[i].trades) \in Nat /\ n \in 1 .. Len(venue[i].trades) /\ venue[i].seen \in Nat
      /\ orders[i].used \in Nat /\ orders[i].amount \in Nat
  BY <1>1, <1>7, UsingStep, OrderFields
<1>9. /\ Using(i, n) = Using(i, n - 1) + spend
      /\ Using(i, n) \in Nat /\ Using(i, n - 1) \in Nat /\ spend \in Nat
  <2>1. spend = IF orders[i].side = "buy" THEN venue[i].trades[n] ELSE 1
    BY <1>0, <1>2, <1>7
  <2>2. n \in 0 .. Len(venue[i].trades) /\ n - 1 \in 0 .. Len(venue[i].trades)
    BY <1>8
  <2>3. spend \in Nat
    BY <1>0, <1>2, FillFits
  <2> QED BY <1>1, <1>8, <2>1, <2>2, <2>3, UsingStep
<1>10. orders'[i].used <= Using(i, n)
  BY <1>3, <1>7, <1>8, <1>9
<1>11. \A j \in DOMAIN orders, m \in Nat : Using(j, m)' = Using(j, m) /\ Fetched(j)' = Fetched(j)
  BY <1>3 DEF Using, Fetched
<1>12. AmountInv'
  <2> SUFFICES ASSUME NEW j \in DOMAIN orders PROVE Accounted(j)'
    BY <1>3 DEF AmountInv
  <2>1. CASE j # i
    BY <1>3, <2>1 DEF AmountInv, Accounted, Using, Fetched
  <2>2. CASE j = i
    <3>1. n <= Fetched(i) /\ Fetched(i) \in 0 .. Len(venue[i].trades)
      BY <1>1, <1>7, UsingStep DEF Fetched
    <3>2. Using(i, n) <= Using(i, Fetched(i)) /\ Using(i, Fetched(i)) \in Nat
      BY <1>1, <1>8, <3>1, UsingStep
    <3>3. orders'[i].used <= Using(i, Fetched(i))
      BY <1>3, <1>8, <1>9, <1>10, <3>2
    <3>4. Using(i, Fetched(i))' = Using(i, Fetched(i))
      BY <1>3, <1>1 DEF Using, Fetched
    <3>5. Using(i, Len(venue[i].trades))' = Using(i, Len(venue[i].trades))
      BY <1>3, <1>1 DEF Using
    <3>6. Accounted(i) /\ UNCHANGED venue
      BY <1>1 DEF AmountInv
    <3>7. (orders[i].used <= Using(i, Fetched(i)))'
      BY <3>3, <3>4
    <3>8. (Using(i, Len(venue[i].trades)) + venue[i].left = orders[i].amount)'
      BY <1>1, <1>3, <3>5, <3>6 DEF Accounted
    <3>9. (venue[i].seen <= Len(venue[i].trades) + (IF venue[i].done THEN 1 ELSE 0))'
      BY <3>6 DEF Accounted
    <3> QED BY <2>2, <3>7, <3>8, <3>9 DEF Accounted
  <2> QED BY <2>1, <2>2
<1>13. ASSUME batch' = Tail(batch) PROVE BatchOrderInv'
  <2>0. PICK mth : mth = [k \in DOMAIN batch' |-> nth[k + 1]]
    OBVIOUS
  <2>1. \A k \in DOMAIN batch' : k \in Nat /\ k + 1 \in DOMAIN batch /\ batch'[k] = batch[k + 1]
                                 /\ 1 < k + 1
    BY <1>13, HeadType
  <2>2. mth \in [DOMAIN batch' -> Nat \ {0}]
    BY <2>0, <2>1
  <2>3. ASSUME NEW k \in DOMAIN batch' PROVE Numbered(k, mth[k])'
    <3>1. PICK m \in Nat \ {0} : m = nth[k + 1]
      BY <2>1, <2>3
    <3>2. PICK j : j = batch[k + 1].i
      OBVIOUS
    <3>3. /\ j \in Open /\ m <= venue[j].seen
          /\ batch[k + 1].type = "fill" => /\ m <= Len(venue[j].trades)
                                           /\ batch[k + 1].price = venue[j].trades[m]
          /\ batch[k + 1].type = "end" => m = Len(venue[j].trades) + 1
          /\ orders[j].used <= Using(j, m - 1)
      BY <1>5, <2>1, <2>3, <3>1, <3>2 DEF Numbered
    <3>4. j \in DOMAIN orders
      BY <3>3 DEF Open
    <3>5. orders'[j].used <= Using(j, m - 1)
      <4>1. CASE j # i
        BY <1>3, <3>3, <3>4, <4>1
      <4>2. CASE j = i
        <5>1. n < m
          BY <1>0, <1>1, <1>5, <1>6, <2>1, <2>3, <3>1, <3>2, <4>2 DEF InOrder
        <5>2. m <= Len(venue[i].trades) + 1
          <6>1. PICK x \in {0, 1} : venue[i].seen <= Len(venue[i].trades) + x
            BY <1>1 DEF AmountInv, Accounted
          <6> QED BY <1>8, <3>3, <4>2, <6>1
        <5>3. m - 1 \in 0 .. Len(venue[i].trades) /\ n <= m - 1
          BY <1>8, <5>1, <5>2
        <5>4. Using(i, n) <= Using(i, m - 1) /\ Using(i, m - 1) \in Nat
          BY <1>1, <1>8, <5>3, UsingStep
        <5> QED BY <1>3, <1>8, <1>9, <1>10, <4>2, <5>4
      <4> QED BY <4>1, <4>2
    <3>6. Using(j, m - 1)' = Using(j, m - 1)
      BY <1>3, <3>4 DEF Using
    <3>7. batch'[k] = batch[k + 1] /\ mth[k] = m
      BY <2>0, <2>1, <2>3, <3>1
    <3> QED BY <1>4, <3>2, <3>3, <3>5, <3>6, <3>7 DEF Numbered
  <2>4. InOrder(mth)'
    <3> SUFFICES ASSUME NEW k \in DOMAIN batch', NEW l \in DOMAIN batch', k < l,
                        batch'[k].i = batch'[l].i
                 PROVE  mth[k] < mth[l]
      BY DEF InOrder
    <3>1. k + 1 < l + 1 /\ batch[k + 1].i = batch[l + 1].i
      BY <2>1
    <3> QED BY <1>5, <2>0, <2>1, <3>1 DEF InOrder
  <2> QED BY <2>2, <2>3, <2>4 DEF BatchOrderInv
<1>14. Left(i)' = Left(i) - spend
  BY <1>1, <1>3, <1>8, <1>9 DEF Left
<1> QED BY <1>0, <1>2, <1>3, <1>4, <1>12, <1>13, <1>14
(* The end of an order closes it, and nothing of it is left in the batch. *)
LEMMA EndOrder ==
  ASSUME TypeOK, BatchInv, AmountInv, BatchOrderInv, ApplyEnd
  PROVE  /\ AmountInv' /\ BatchOrderInv'
         /\ Open' = Open \ {Head(batch).i} /\ DOMAIN orders' = DOMAIN orders
         /\ \A j \in DOMAIN orders : /\ orders'[j].side = orders[j].side
                                     /\ orders'[j].token = orders[j].token
                                     /\ orders'[j].amount = orders[j].amount
                                     /\ orders'[j].used = orders[j].used
<1>0. PICK i : i = Head(batch).i
  OBVIOUS
<1>1. i \in DOMAIN orders /\ 1 \in DOMAIN batch /\ Head(batch) = batch[1] /\ OrdersType
      /\ batch' = Tail(batch) /\ Head(batch).type = "end" /\ UNCHANGED venue
  BY <1>0, HeadType DEF TypeOK, ApplyEnd
<1>2. PICK o : o = [orders[i] EXCEPT !.open = FALSE]
  OBVIOUS
<1>3. orders[i] \in Order /\ orders \in Seq(Order) /\ orders' = [orders EXCEPT ![i] = o]
  BY <1>0, <1>1, <1>2, OrderFields DEF OrdersType, ApplyEnd
<1>4. /\ o.side = orders[i].side /\ o.token = orders[i].token /\ o.amount = orders[i].amount
      /\ o.used = orders[i].used
  BY <1>2, <1>3 DEF Order
<1>5. ~o.open
  BY <1>2, <1>3 DEF Order
<1>6. DOMAIN orders' = DOMAIN orders /\ orders'[i] = o
      /\ \A j \in DOMAIN orders : j # i => orders'[j] = orders[j]
  BY <1>1, <1>3
<1>7. \A j \in DOMAIN orders : /\ orders'[j].side = orders[j].side
                               /\ orders'[j].token = orders[j].token
                               /\ orders'[j].amount = orders[j].amount
                               /\ orders'[j].used = orders[j].used
  BY <1>4, <1>6
<1>8. Open' = Open \ {i}
  BY <1>5, <1>6, Zenon DEF Open
<1>9. AmountInv'
  BY <1>1, <1>6, <1>7 DEF AmountInv, Accounted, Using, Fetched
<1>10. PICK nth \in [DOMAIN batch -> Nat \ {0}] :
        (\A k \in DOMAIN batch : Numbered(k, nth[k])) /\ InOrder(nth)
  BY DEF BatchOrderInv
<1>11. PICK mth : mth = [k \in DOMAIN batch' |-> nth[k + 1]]
  OBVIOUS
<1>12. \A k \in DOMAIN batch' : k \in Nat /\ k + 1 \in DOMAIN batch /\ batch'[k] = batch[k + 1]
                                /\ 1 < k + 1
  BY <1>1, HeadType
<1>13. mth \in [DOMAIN batch' -> Nat \ {0}]
  BY <1>11, <1>12
<1>14. ASSUME NEW k \in DOMAIN batch' PROVE Numbered(k, mth[k])'
  <2>1. PICK m \in Nat \ {0} : m = nth[k + 1]
    BY <1>12
  <2>2. PICK j : j = batch[k + 1].i
    OBVIOUS
  <2>3. /\ j \in Open /\ m <= venue[j].seen
        /\ batch[k + 1].type = "fill" => /\ m <= Len(venue[j].trades)
                                         /\ batch[k + 1].price = venue[j].trades[m]
        /\ batch[k + 1].type = "end" => m = Len(venue[j].trades) + 1
        /\ orders[j].used <= Using(j, m - 1)
    BY <1>10, <1>12, <2>1, <2>2 DEF Numbered
  <2>4. j \in DOMAIN orders
    BY <2>3 DEF Open
  <2>5. j # i
    <3> SUFFICES ASSUME j = i PROVE FALSE
      OBVIOUS
    <3>1. PICK n \in Nat \ {0} : n = nth[1] /\ Numbered(1, n)
      BY <1>1, <1>10
    <3>2. n = Len(venue[i].trades) + 1
      BY <1>0, <1>1, <3>1 DEF Numbered
    <3>3. n < m
      BY <1>0, <1>1, <1>10, <1>12, <2>1, <2>2, <3>1 DEF InOrder
    <3>4. Len(venue[i].trades) \in Nat /\ venue[i].seen \in Nat
      BY <1>1, UsingStep, OrderFields
    <3>5. PICK x \in {0, 1} : venue[i].seen <= Len(venue[i].trades) + x
      BY <1>1 DEF AmountInv, Accounted
    <3> QED BY <2>3, <3>2, <3>3, <3>4, <3>5
  <2>6. Using(j, m - 1)' = Using(j, m - 1)
    BY <1>1, <1>7, <2>4 DEF Using
  <2>7. batch'[k] = batch[k + 1] /\ mth[k] = m
    BY <1>11, <1>12, <2>1
  <2> QED BY <1>1, <1>7, <1>8, <2>2, <2>3, <2>4, <2>5, <2>6, <2>7 DEF Numbered
<1>15. InOrder(mth)'
  <2> SUFFICES ASSUME NEW k \in DOMAIN batch', NEW l \in DOMAIN batch', k < l,
                      batch'[k].i = batch'[l].i
               PROVE  mth[k] < mth[l]
    BY DEF InOrder
  <2>1. k + 1 < l + 1 /\ batch[k + 1].i = batch[l + 1].i
    BY <1>12
  <2> QED BY <1>10, <1>11, <1>12, <2>1 DEF InOrder
<1>16. BatchOrderInv'
  BY <1>13, <1>14, <1>15 DEF BatchOrderInv
<1> QED BY <1>0, <1>6, <1>7, <1>8, <1>9, <1>16

(* Fetching the next event of an order. *)
LEMMA FetchOrder ==
  ASSUME TypeOK, BatchInv, AmountInv, BatchOrderInv, NEW i \in DOMAIN orders, Fetch(i)
  PROVE  AmountInv' /\ BatchOrderInv'
<1>1. OrdersType /\ batch \in Seq(Event) /\ UNCHANGED orders /\ i \in Open
  BY DEF TypeOK, StepType, Fetch
<1>2. PICK e \in Event, n \in Nat \ {0} :
           /\ e = Head(Unseen(i)) /\ e.i = i /\ n = venue[i].seen + 1
           /\ \/ e.type = "fill" /\ n <= Len(venue[i].trades) /\ e.price = venue[i].trades[n]
              \/ e.type = "end" /\ venue[i].done /\ n = Len(venue[i].trades) + 1
  BY <1>1, NextEvent DEF Fetch, AmountInv
<1>3. batch' = Append(batch, e)
  BY <1>2 DEF Fetch
<1>4. PICK v : v = [venue[i] EXCEPT !.seen = @ + 1]
  OBVIOUS
<1>5. venue' = [venue EXCEPT ![i] = v] /\ venue[i] \in VenueOrder /\ venue \in Seq(VenueOrder)
      /\ i \in DOMAIN venue
  BY <1>1, <1>4, OrderFields DEF Fetch, OrdersType
<1>6. v.trades = venue[i].trades /\ v.left = venue[i].left /\ v.seen = n
  BY <1>2, <1>4, <1>5 DEF VenueOrder
<1>7. v.done = venue[i].done
  BY <1>4, <1>5 DEF VenueOrder
<1>8. venue'[i] = v /\ \A j \in DOMAIN orders : j # i => venue'[j] = venue[j]
  BY <1>5
<1>9. \A j \in DOMAIN orders : /\ venue'[j].trades = venue[j].trades
                               /\ venue'[j].left = venue[j].left
                               /\ venue'[j].done = venue[j].done
  BY <1>6, <1>7, <1>8
<1>10. \A j \in DOMAIN orders : \A m : Using(j, m)' = Using(j, m)
  BY <1>1, <1>9 DEF Using
<1>11. Len(venue[i].trades) \in Nat /\ venue[i].seen \in Nat /\ orders[i].used \in Nat
       /\ Fetched(i) \in 0 .. Len(venue[i].trades) /\ n - 1 = venue[i].seen
  <2>1. /\ Len(venue[i].trades) \in Nat /\ venue[i].seen \in Nat /\ orders[i].used \in Nat
        /\ Fetched(i) \in 0 .. Len(venue[i].trades)
    BY <1>1, UsingStep, OrderFields
  <2>2. n = venue[i].seen + 1
    BY <1>2
  <2> QED BY <2>1, <2>2
<1>12. n - 1 <= Len(venue[i].trades) /\ Fetched(i) = n - 1
  BY <1>2, <1>11 DEF Fetched
<1>13. AmountInv'
  <2> SUFFICES ASSUME NEW j \in DOMAIN orders PROVE Accounted(j)'
    BY <1>1 DEF AmountInv
  <2>1. Accounted(j)
    BY DEF AmountInv
  <2>2. CASE j # i
    <3>1. UNCHANGED <<venue[j], orders[j]>>
      BY <1>1, <1>8, <2>2
    <3> QED BY <2>1, <3>1 DEF Accounted, Using, Fetched
  <2>3. CASE j = i
    <3>1. (Using(i, Len(venue[i].trades)) + venue[i].left = orders[i].amount)'
      BY <1>1, <1>9, <1>10, <2>1, <2>3 DEF Accounted
    <3>2. (venue[i].seen <= Len(venue[i].trades) + (IF venue[i].done THEN 1 ELSE 0))'
      <4>1. venue'[i].seen = n /\ venue'[i].trades = venue[i].trades
        BY <1>6, <1>8
      <4>2. CASE n <= Len(venue[i].trades)
        <5>1. PICK x \in {0, 1} : x = (IF venue[i].done THEN 1 ELSE 0)'
          OBVIOUS
        <5>2. n <= Len(venue[i].trades) + x
          BY <1>2, <1>11, <4>2
        <5> QED BY <4>1, <5>1, <5>2
      <4>3. CASE venue[i].done /\ n = Len(venue[i].trades) + 1
        <5>1. venue'[i].done
          BY <1>9, <4>3
        <5>2. (IF venue[i].done THEN 1 ELSE 0)' = 1
          BY <5>1
        <5>3. (venue[i].seen)' = Len(venue[i].trades)' + 1
          BY <4>1, <4>3
        <5>4. Len(venue[i].trades)' \in Nat
          BY <1>11, <4>1
        <5> QED BY <5>2, <5>3, <5>4
      <4> QED BY <1>2, <4>2, <4>3
    <3>3. (orders[i].used <= Using(i, Fetched(i)))'
      <4>1. PICK f : f = Fetched(i)'
        OBVIOUS
      <4>2. f \in 0 .. Len(venue[i].trades) /\ Fetched(i) <= f
        BY <1>6, <1>8, <1>9, <1>11, <1>12, <4>1 DEF Fetched
      <4>3. Using(i, Fetched(i)) <= Using(i, f) /\ Using(i, f) \in Nat /\ Using(i, Fetched(i)) \in Nat
        BY <1>1, <1>11, <4>2, UsingStep
      <4>4. orders[i].used <= Using(i, f)
        BY <1>11, <2>1, <2>3, <4>3 DEF Accounted
      <4>5. Using(i, f)' = Using(i, f)
        BY <1>10
      <4> QED BY <1>1, <4>1, <4>4, <4>5
    <3> QED BY <2>3, <3>1, <3>2, <3>3 DEF Accounted
  <2> QED BY <2>2, <2>3
<1>14. PICK nth \in [DOMAIN batch -> Nat \ {0}] :
        (\A k \in DOMAIN batch : Numbered(k, nth[k])) /\ InOrder(nth)
  BY DEF BatchOrderInv
<1>15. PICK last : last = Len(batch) + 1
  OBVIOUS
<1>16. /\ DOMAIN batch' = DOMAIN batch \union {last} /\ last \notin DOMAIN batch
       /\ batch'[last] = e /\ \A k \in DOMAIN batch : k < last /\ batch'[k] = batch[k]
       /\ \A k \in DOMAIN batch' : ~(last < k)
  BY <1>1, <1>3, <1>15
<1>17. PICK mth : mth = [k \in DOMAIN batch' |-> IF k = last THEN n ELSE nth[k]]
  OBVIOUS
<1>18. mth \in [DOMAIN batch' -> Nat \ {0}]
  BY <1>16, <1>17
<1>19. Open' = Open
  BY <1>1 DEF Open
<1>20. \A j \in DOMAIN orders : venue[j].seen \in Nat /\ venue'[j].seen \in Nat
                                 /\ venue[j].seen <= venue'[j].seen
  BY <1>1, <1>6, <1>8, <1>11, OrderFields
<1>21. ASSUME NEW k \in DOMAIN batch' PROVE Numbered(k, mth[k])'
  <2>1. CASE k # last
    <3>1. PICK m \in Nat \ {0} : m = nth[k] /\ mth[k] = m /\ Numbered(k, m)
      BY <1>14, <1>16, <1>17, <2>1
    <3>2. PICK j : j = batch[k].i /\ j = batch'[k].i
      BY <1>16, <2>1
    <3>3. j \in Open /\ j \in DOMAIN orders /\ m <= venue[j].seen
      BY <3>1, <3>2 DEF Numbered, Open
    <3>4. m <= venue'[j].seen
      BY <1>20, <3>3
    <3>5. batch'[k] = batch[k]
      BY <1>16, <2>1
    <3> QED BY <1>1, <1>9, <1>10, <1>19, <3>1, <3>2, <3>3, <3>4, <3>5 DEF Numbered
  <2>2. CASE k = last
    <3>1. mth[k] = n /\ batch'[k] = e
      BY <1>16, <1>17, <2>2
    <3>2. orders[i].used <= Using(i, n - 1)
      BY <1>12 DEF AmountInv, Accounted
    <3>3. n <= venue'[i].seen
      BY <1>6, <1>8
    <3>4. (e.type = "fill" => n <= Len(venue[i].trades) /\ e.price = venue[i].trades[n])
          /\ (e.type = "end" => n = Len(venue[i].trades) + 1)
      BY <1>2
    <3> QED BY <1>1, <1>2, <1>9, <1>10, <1>19, <3>1, <3>2, <3>3, <3>4 DEF Numbered
  <2> QED BY <2>1, <2>2
<1>22. InOrder(mth)'
  <2> SUFFICES ASSUME NEW k \in DOMAIN batch', NEW l \in DOMAIN batch', k < l,
                      batch'[k].i = batch'[l].i
               PROVE  mth[k] < mth[l]
    BY DEF InOrder
  <2>1. k \in DOMAIN batch /\ mth[k] = nth[k] /\ batch'[k] = batch[k]
    BY <1>16, <1>17
  <2>2. CASE l # last
    BY <1>14, <1>16, <1>17, <2>1, <2>2 DEF InOrder
  <2>3. CASE l = last
    <3>1. Numbered(k, nth[k]) /\ batch[k].i = i /\ nth[k] \in Nat
      BY <1>2, <1>14, <1>16, <2>1, <2>3
    <3>2. nth[k] <= venue[i].seen
      BY <3>1 DEF Numbered
    <3> QED BY <1>2, <1>11, <1>16, <1>17, <2>1, <2>3, <3>1, <3>2
  <2> QED BY <2>2, <2>3
<1>23. BatchOrderInv'
  BY <1>18, <1>21, <1>22 DEF BatchOrderInv
<1> QED BY <1>13, <1>23
(* A new order has traded nothing. *)
LEMMA NewOrder ==
  ASSUME TypeOK, BatchInv, AmountInv, NEW order \in Order, Submit(order), order.used = 0,
         order.open = TRUE, pc = "trading", UNCHANGED batch
  PROVE  /\ AmountInv' /\ BatchOrderInv' /\ batch = << >>
         /\ \E n : /\ n \notin DOMAIN orders /\ DOMAIN orders' = DOMAIN orders \union {n}
                   /\ orders'[n] = order /\ Open' = Open \union {n}
                   /\ \A j \in DOMAIN orders : orders'[j] = orders[j]
<1>1. orders \in Seq(Order) /\ venue \in Seq(VenueOrder) /\ Len(venue) = Len(orders)
  BY DEF TypeOK, OrdersType
<1>2. PICK n : n = Len(orders) + 1
  OBVIOUS
<1>3. PICK v : v = [trades |-> << >>, left |-> order.amount, done |-> FALSE, seen |-> 0]
  OBVIOUS
<1>4. orders' = Append(orders, order) /\ venue' = Append(venue, v)
  BY <1>3 DEF Submit
<1>5. /\ n \notin DOMAIN orders /\ DOMAIN orders' = DOMAIN orders \union {n}
      /\ orders'[n] = order /\ \A j \in DOMAIN orders : orders'[j] = orders[j]
  BY <1>1, <1>2, <1>4
<1>6. venue'[n] = v /\ \A j \in DOMAIN orders : venue'[j] = venue[j]
  BY <1>1, <1>2, <1>4
<1>7. Open' = Open \union {n}
  BY <1>5, Zenon DEF Open
<1>8. batch = << >>
  BY DEF BatchInv
<1>9. v.trades = << >> /\ v.left = order.amount /\ v.seen = 0
  BY <1>3
<1>10. Accounted(n)'
  <2>0. << >> \in Seq(Prices) /\ order.amount \in Nat /\ Len(<< >>) = 0
    BY DEF Order
  <2>1. Spent(order.side, << >>, 0) = 0
    BY <2>0, SpentStep
  <2>2. Using(n, 0)' = 0 /\ Len(venue[n].trades)' = 0
    BY <1>5, <1>6, <1>9, <2>0, <2>1 DEF Using
  <2>3. Fetched(n)' = 0
    BY <1>6, <1>9, <2>2 DEF Fetched
  <2>4. PICK x \in {0, 1} : x = (IF venue[n].done THEN 1 ELSE 0)'
    OBVIOUS
  <2>5. (Using(n, Len(venue[n].trades)) + venue[n].left = orders[n].amount)'
    BY <1>5, <1>6, <1>9, <2>0, <2>2
  <2>6. (venue[n].seen <= Len(venue[n].trades) + (IF venue[n].done THEN 1 ELSE 0))'
    BY <1>6, <1>9, <2>2, <2>4
  <2>7. (orders[n].used <= Using(n, Fetched(n)))'
    BY <1>5, <2>2, <2>3
  <2> QED BY <2>5, <2>6, <2>7 DEF Accounted
<1>11. ASSUME NEW j \in DOMAIN orders PROVE Accounted(j)'
  <2>1. Accounted(j) /\ UNCHANGED <<orders[j], venue[j]>>
    BY <1>5, <1>6 DEF AmountInv
  <2> QED BY <2>1 DEF Accounted, Using, Fetched
<1>12. AmountInv'
  BY <1>5, <1>10, <1>11 DEF AmountInv
<1> QED BY <1>5, <1>7, <1>8, <1>12, NothingFetched

(* A trade at the venue, which comes before the next poll. *)
LEMMA MatchOrder ==
  ASSUME TypeOK, AmountInv, NEW i \in DOMAIN orders, NEW price \in Prices, Match(i, price)
  PROVE  AmountInv' /\ BatchOrderInv'
<1>1. batch' = << >> /\ UNCHANGED orders /\ OrdersType /\ ~venue[i].done
  BY DEF Match, BeforePoll, TypeOK
<1>2. PICK spend : spend = IF orders[i].side = "buy" THEN price ELSE 1
  OBVIOUS
<1>3. spend \in Nat /\ venue[i].left >= spend
  BY <1>2, ConstantsType DEF Match
<1>4. PICK v : v = [venue[i] EXCEPT !.trades = Append(@, price), !.left = @ - spend]
  OBVIOUS
<1>5. venue' = [venue EXCEPT ![i] = v] /\ venue[i] \in VenueOrder /\ i \in DOMAIN venue
  BY <1>1, <1>2, <1>4, OrderFields DEF Match
<1>6. /\ v.trades = Append(venue[i].trades, price) /\ v.left = venue[i].left - spend
      /\ v.seen = venue[i].seen
  BY <1>4, <1>5 DEF VenueOrder
<1>7. v.done = venue[i].done
  BY <1>4, <1>5 DEF VenueOrder
<1>8. venue'[i] = v /\ \A j \in DOMAIN orders : j # i => venue'[j] = venue[j]
  BY <1>5
<1>9. PICK L : L = Len(venue[i].trades)
  OBVIOUS
<1>10. /\ L \in Nat /\ Len(v.trades) = L + 1
       /\ \A n \in 0 .. L : Spent(orders[i].side, v.trades, n) = Using(i, n)
       /\ Spent(orders[i].side, v.trades, L + 1) = Using(i, L) + spend
  <2>1. venue[i].trades \in Seq(Prices)
    BY <1>1, OrderFields
  <2>2. \A n : Using(i, n) = Spent(orders[i].side, venue[i].trades, n)
    BY DEF Using
  <2>3. L \in Nat
    BY <1>9, <2>1, LenProperties
  <2>4. /\ Len(v.trades) = L + 1
        /\ \A n \in 0 .. L : Spent(orders[i].side, v.trades, n)
                             = Spent(orders[i].side, venue[i].trades, n)
        /\ Spent(orders[i].side, v.trades, L + 1)
             = Spent(orders[i].side, venue[i].trades, L) + IF orders[i].side = "buy" THEN price ELSE 1
    <3>1. PICK ts : ts = venue[i].trades
      OBVIOUS
    <3>2. /\ Len(Append(ts, price)) = Len(ts) + 1
          /\ \A n \in 0 .. Len(ts) : Spent(orders[i].side, Append(ts, price), n)
                                    = Spent(orders[i].side, ts, n)
          /\ Spent(orders[i].side, Append(ts, price), Len(ts) + 1)
               = Spent(orders[i].side, ts, Len(ts)) + IF orders[i].side = "buy" THEN price ELSE 1
      BY <2>1, <3>1, SpentAppend
    <3> QED BY <1>6, <1>9, <3>1, <3>2
  <2> QED BY <1>2, <2>2, <2>3, <2>4
<1>11. /\ Using(i, L) + venue[i].left = orders[i].amount
       /\ venue[i].seen <= L
       /\ orders[i].used <= Using(i, Fetched(i))
       /\ venue[i].seen \in Nat /\ Fetched(i) = venue[i].seen
       /\ Using(i, L) \in Nat /\ venue[i].left \in Nat
  <2>1. PICK x : x = (IF venue[i].done THEN 1 ELSE 0) /\ x = 0
    BY <1>1
  <2>2. venue[i].seen \in Nat /\ venue[i].left \in Nat
    BY <1>1, OrderFields
  <2>3. Using(i, L) + venue[i].left = orders[i].amount /\ orders[i].used <= Using(i, Fetched(i))
    BY <1>9 DEF AmountInv, Accounted
  <2>4. venue[i].seen <= L
    <3>1. venue[i].seen <= L + x
      BY <1>9, <2>1 DEF AmountInv, Accounted
    <3> QED BY <1>10, <2>1, <2>2, <3>1
  <2>5. Fetched(i) = venue[i].seen
    BY <1>9, <2>4 DEF Fetched
  <2>6. Using(i, L) \in Nat
    BY <1>1, <1>9, <1>10, UsingStep
  <2> QED BY <2>2, <2>3, <2>4, <2>5, <2>6
<1>12. Accounted(i)'
  <2>1. \A n : Using(i, n)' = Spent(orders[i].side, v.trades, n)
    BY <1>1, <1>8 DEF Using
  <2>2. Len(venue[i].trades)' = L + 1 /\ (venue[i].seen)' = venue[i].seen
        /\ (venue[i].left)' = venue[i].left - spend
    BY <1>6, <1>8, <1>10
  <2>3. PICK x \in {0, 1} : x = (IF venue[i].done THEN 1 ELSE 0)'
    OBVIOUS
  <2>4. (Using(i, Len(venue[i].trades)) + venue[i].left = orders[i].amount)'
    <3>1. Using(i, L + 1)' = Using(i, L) + spend
      BY <1>10, <2>1
    <3> QED BY <1>1, <1>3, <1>11, <2>2, <3>1
  <2>5. (venue[i].seen <= Len(venue[i].trades) + (IF venue[i].done THEN 1 ELSE 0))'
    BY <1>10, <1>11, <2>2, <2>3
  <2>6. (orders[i].used <= Using(i, Fetched(i)))'
    <3>1. Fetched(i)' = venue[i].seen
      BY <1>10, <1>11, <2>2 DEF Fetched
    <3>2. venue[i].seen \in 0 .. L
      BY <1>10, <1>11
    <3>3. Using(i, venue[i].seen) = Spent(orders[i].side, v.trades, venue[i].seen)
      BY <1>10, <3>2
    <3>4. Using(i, Fetched(i))' = Using(i, venue[i].seen)
      BY <1>1, <1>8, <3>1, <3>3 DEF Using
    <3> QED BY <1>1, <1>11, <3>4
  <2> QED BY <2>4, <2>5, <2>6 DEF Accounted
<1>13. ASSUME NEW j \in DOMAIN orders, j # i PROVE Accounted(j)'
  <2>1. Accounted(j) /\ UNCHANGED <<orders[j], venue[j]>>
    BY <1>1, <1>8, <1>13 DEF AmountInv
  <2> QED BY <2>1 DEF Accounted, Using, Fetched
<1> QED BY <1>1, <1>12, <1>13, NothingFetched DEF AmountInv

(* The venue ends an order. *)
LEMMA FinishOrder ==
  ASSUME TypeOK, AmountInv, NEW i \in DOMAIN orders, Finish(i)
  PROVE  AmountInv' /\ BatchOrderInv'
<1>1. batch' = << >> /\ UNCHANGED orders /\ OrdersType /\ ~venue[i].done
  BY DEF Finish, BeforePoll, TypeOK
<1>2. PICK v : v = [venue[i] EXCEPT !.done = TRUE]
  OBVIOUS
<1>3. venue' = [venue EXCEPT ![i] = v] /\ venue[i] \in VenueOrder /\ i \in DOMAIN venue
  BY <1>1, <1>2, OrderFields DEF Finish
<1>4. v.trades = venue[i].trades /\ v.left = venue[i].left /\ v.seen = venue[i].seen
  BY <1>2, <1>3 DEF VenueOrder
<1>5. venue'[i] = v /\ \A j \in DOMAIN orders : j # i => venue'[j] = venue[j]
  BY <1>3
<1>6. Accounted(i)'
  <2>0. PICK L : L = Len(venue[i].trades)
    OBVIOUS
  <2>1. Accounted(i) /\ Len(venue[i].trades) \in Nat /\ venue[i].seen \in Nat
    BY <1>1, UsingStep, OrderFields DEF AmountInv
  <2>2. PICK y : y = (IF venue[i].done THEN 1 ELSE 0) /\ y = 0
    BY <1>1
  <2>3. venue[i].seen <= Len(venue[i].trades)
    <3>1. venue[i].seen <= L + y
      BY <2>0, <2>1, <2>2 DEF Accounted
    <3>2. L \in Nat /\ venue[i].seen \in Nat /\ y = 0
      BY <2>0, <2>1, <2>2
    <3>3. venue[i].seen <= L
      BY <3>1, <3>2
    <3> QED BY <2>0, <3>3
  <2>4. PICK x \in {0, 1} : x = (IF venue[i].done THEN 1 ELSE 0)'
    OBVIOUS
  <2>5. (venue[i].seen <= Len(venue[i].trades) + (IF venue[i].done THEN 1 ELSE 0))'
    <3>1. (venue[i].seen)' = venue[i].seen /\ Len(venue[i].trades)' = Len(venue[i].trades)
      BY <1>4, <1>5
    <3>0. L \in Nat /\ venue[i].seen \in Nat /\ venue[i].seen <= L /\ x \in {0, 1}
      BY <2>0, <2>1, <2>3, <2>4
    <3>2. venue[i].seen <= L + x
      BY <3>0
    <3> QED BY <2>0, <2>4, <3>1, <3>2
  <2>6. Fetched(i)' = Fetched(i) /\ \A n : Using(i, n)' = Using(i, n)
    BY <1>1, <1>4, <1>5 DEF Fetched, Using
  <2> QED BY <1>1, <1>4, <1>5, <2>1, <2>5, <2>6 DEF Accounted
<1>7. ASSUME NEW j \in DOMAIN orders, j # i PROVE Accounted(j)'
  <2>1. Accounted(j) /\ UNCHANGED <<orders[j], venue[j]>>
    BY <1>1, <1>5, <1>7 DEF AmountInv
  <2> QED BY <2>1 DEF Accounted, Using, Fetched
<1> QED BY <1>1, <1>6, <1>7, NothingFetched DEF AmountInv

(* Every step keeps the amounts and the order of the batch. *)
LEMMA OrderStep ==
  ASSUME TypeOK, BatchInv, AmountInv, BatchOrderInv, [Next]_vars
  PROVE  AmountInv' /\ BatchOrderInv'
<1>1. CASE \/ FetchDone \/ ApplyDone \/ SettleDone \/ ReadBalance \/ SkipReconcile
           \/ SnapshotFails \/ Compare \/ CompareIncomplete \/ StepDone
           \/ \E m \in Market : Settle(m)
  BY <1>1, OrdersCarry DEF FetchDone, ApplyDone, SettleDone, ReadBalance, SkipReconcile,
     SnapshotFails, Compare, CompareIncomplete, StepDone, Settle
<1>2. ASSUME NEW i \in DOMAIN orders, Fetch(i) PROVE AmountInv' /\ BatchOrderInv'
  BY <1>2, FetchOrder
<1>3. CASE ApplyFill
  <2>1. batch' = Tail(batch) /\ batch # << >> /\ Head(batch).type = "fill" /\ UNCHANGED venue
    BY <1>3 DEF ApplyFill
  <2>2. orders' = [orders EXCEPT ![Head(batch).i].used =
                      @ + IF orders[Head(batch).i].side = "buy" THEN Head(batch).price ELSE 1]
    BY <1>3 DEF ApplyFill
  <2> QED BY <2>1, <2>2, FillOrder
<1>4. CASE FillBreaks
  <2>1. batch' = << >> /\ batch # << >> /\ Head(batch).type = "fill" /\ UNCHANGED venue
    BY <1>4 DEF FillBreaks
  <2>2. orders' = [orders EXCEPT ![Head(batch).i].used =
                      @ + IF orders[Head(batch).i].side = "buy" THEN Head(batch).price ELSE 1]
    BY <1>4 DEF FillBreaks
  <2> QED BY <2>1, <2>2, FillOrder, NothingFetched
<1>5. CASE ApplyEnd
  BY <1>5, EndOrder
<1>6. ASSUME NEW t \in Token, NEW amount \in 1 .. MaxOrderSize, Enter(t, amount)
      PROVE  AmountInv' /\ BatchOrderInv'
  <2>1. PICK o : o = [side |-> "buy", token |-> t, amount |-> amount, used |-> 0, open |-> TRUE]
    OBVIOUS
  <2>2. o \in Order /\ o.used = 0 /\ o.open = TRUE
    BY <2>1, ConstantsType DEF Order
  <2>3. Submit(o) /\ pc = "trading" /\ UNCHANGED batch
    BY <1>6, <2>1 DEF Enter
  <2> QED BY <2>2, <2>3, NewOrder
<1>7. ASSUME NEW t \in Token, Exit(t) PROVE AmountInv' /\ BatchOrderInv'
  <2>1. PICK o : o = [side |-> "sell", token |-> t, amount |-> shares[t], used |-> 0, open |-> TRUE]
    OBVIOUS
  <2>2. o \in Order /\ o.used = 0 /\ o.open = TRUE
    BY <2>1 DEF Order, TypeOK, PortfolioType
  <2>3. Submit(o) /\ pc = "trading" /\ UNCHANGED batch
    BY <1>7, <2>1 DEF Exit
  <2> QED BY <2>2, <2>3, NewOrder
<1>8. ASSUME NEW i \in DOMAIN orders, NEW price \in Prices, Match(i, price)
      PROVE  AmountInv' /\ BatchOrderInv'
  BY <1>8, MatchOrder
<1>9. ASSUME NEW i \in DOMAIN orders, Finish(i) PROVE AmountInv' /\ BatchOrderInv'
  BY <1>9, FinishOrder
<1>10. ASSUME UNCHANGED <<orders, venue, batch>> PROVE AmountInv' /\ BatchOrderInv'
  BY <1>10, OrdersCarry
<1>11. CASE Outside
  BY <1>8, <1>9, <1>10, <1>11 DEF Outside, WindowEnds, Resolve, Redeem, Reverse
<1>12. CASE UNCHANGED vars
  BY <1>10, <1>12 DEF vars
<1> QED BY <1>1, <1>2, <1>3, <1>4, <1>5, <1>6, <1>7, <1>11, <1>12 DEF Next, Step
-----------------------------------------------------------------------------
(* The exposure.                                                           *)

LEMMA Times ==
  ASSUME NEW f \in Nat, NEW a \in Nat, NEW b \in Nat
  PROVE  /\ f * a \in Nat
         /\ a <= b => f * a <= f * b
         /\ a <= b => f * (b - a) = f * b - f * a
         /\ a >= 1 => f <= f * a
         /\ f * (a + b) = f * a + f * b
<1>1. f * a \in Nat
  OBVIOUS
<1>2. ASSUME a <= b PROVE f * a <= f * b
  <2>1. PICK c \in Nat : b = a + c
    <3>1. b - a \in Nat /\ b = a + (b - a)
      BY <1>2
    <3> QED BY <3>1
  <2>2. f * b = f * a + f * c /\ f * c \in Nat
    BY <2>1
  <2> QED BY <1>1, <2>2
<1>3. a <= b => f * (b - a) = f * b - f * a
  OBVIOUS
<1>4. ASSUME a >= 1 PROVE f <= f * a
  <2>1. PICK c \in Nat : a = c + 1
    <3>1. a - 1 \in Nat /\ a = (a - 1) + 1
      BY <1>4
    <3> QED BY <3>1
  <2>2. f * a = f * c + f /\ f * c \in Nat
    BY <2>1
  <2> QED BY <2>2
<1>5. f * (a + b) = f * a + f * b
  OBVIOUS
<1> QED BY <1>1, <1>2, <1>3, <1>4, <1>5

LEMMA OpenFinite ==
  ASSUME OrdersType
  PROVE  IsFiniteSet(Open) /\ IsFiniteSet(OpenBuys) /\ OpenBuys \subseteq Open
         /\ Open \subseteq DOMAIN orders
         /\ Cardinality(Open) \in Nat /\ Cardinality(OpenBuys) \in Nat
         /\ Cardinality(OpenBuys) <= Cardinality(Open)
<1>1. DOMAIN orders = 1 .. Len(orders) /\ Len(orders) \in Nat
  BY LenProperties DEF OrdersType
<1>2. IsFiniteSet(DOMAIN orders)
  BY <1>1, FS_Interval
<1>3. Open \subseteq DOMAIN orders /\ OpenBuys \subseteq Open
  BY DEF Open, OpenBuys
<1>4. IsFiniteSet(Open) /\ IsFiniteSet(OpenBuys)
  BY <1>2, <1>3, FS_Subset
<1> QED BY <1>3, <1>4, FS_CardinalityType, FS_Subset

(* What is pending, as a sum over what is left of every order. *)
Lefts == [i \in DOMAIN orders |-> Left(i)]

LEMMA PendingSum ==
  ASSUME OrdersType, AmountInv
  PROVE  /\ PendingBuy = SumFunctionOnSet(Lefts, OpenBuys) /\ PendingBuy \in Nat
         /\ Lefts \in [DOMAIN orders -> Nat]
<1>1. Lefts \in [DOMAIN orders -> Nat]
  BY LeftType DEF Lefts
<1>2. PendingBuy = SumFunctionOnSet([i \in OpenBuys |-> Left(i)], OpenBuys)
  BY DEF PendingBuy, SumFunction
<1>3. OpenBuys \subseteq DOMAIN orders /\ IsFiniteSet(OpenBuys)
  BY OpenFinite
<1>4. PendingBuy = SumFunctionOnSet(Lefts, OpenBuys)
  <2>1. PICK f : f = [i \in OpenBuys |-> Left(i)]
    OBVIOUS
  <2>2. \A i \in OpenBuys : f[i] = Lefts[i]
    BY <1>3, <2>1 DEF Lefts
  <2> QED BY <1>2, <1>3, <2>1, <2>2, SumSame
<1>5. SumFunctionOnSet(Lefts, OpenBuys) \in Nat
  <2>1. \A i \in OpenBuys : Lefts[i] \in Nat
    BY <1>1, <1>3
  <2> QED BY <1>3, <2>1, SumNat
<1> QED BY <1>1, <1>4, <1>5

(* How the sum follows the orders. *)
LEMMA PendingStep ==
  ASSUME OrdersType, AmountInv, OrdersType', AmountInv'
  PROVE  /\ UNCHANGED orders => PendingBuy' = PendingBuy
         /\ \A i \in Open :
              /\ Open' = Open /\ DOMAIN orders' = DOMAIN orders
              /\ \A j \in DOMAIN orders : /\ orders'[j].side = orders[j].side
                                          /\ j # i => Left(j)' = Left(j)
              => PendingBuy' = PendingBuy
                   + IF orders[i].side = "buy" THEN Left(i)' - Left(i) ELSE 0
         /\ \A i \in Open :
              /\ Open' = Open \ {i} /\ DOMAIN orders' = DOMAIN orders
              /\ \A j \in DOMAIN orders : orders'[j].side = orders[j].side /\ Left(j)' = Left(j)
              => PendingBuy' <= PendingBuy
         /\ \A n :
              /\ n \notin DOMAIN orders /\ DOMAIN orders' = DOMAIN orders \union {n}
              /\ Open' = Open \union {n} /\ \A j \in DOMAIN orders : orders'[j] = orders[j]
              => PendingBuy' = PendingBuy
                   + IF orders'[n].side = "buy" THEN Left(n)' ELSE 0
<1>1. PICK l : l = Lefts
  OBVIOUS
<1>2. PICK m : m = Lefts'
  OBVIOUS
<1>3. PendingBuy = SumFunctionOnSet(l, OpenBuys) /\ l \in [DOMAIN orders -> Nat]
      /\ IsFiniteSet(OpenBuys) /\ OpenBuys \subseteq DOMAIN orders /\ PendingBuy \in Nat
  BY <1>1, PendingSum, OpenFinite
<1>4. PICK ob : ob = OpenBuys'
  OBVIOUS
<1>5. PendingBuy' = SumFunctionOnSet(m, ob) /\ m \in [DOMAIN orders' -> Nat]
      /\ ob \subseteq DOMAIN orders' /\ PendingBuy' \in Nat
  <2>1. (OrdersType /\ AmountInv => /\ PendingBuy = SumFunctionOnSet(Lefts, OpenBuys)
                                    /\ PendingBuy \in Nat
                                    /\ Lefts \in [DOMAIN orders -> Nat])'
    BY PendingSum, PTL
  <2>2. (OpenBuys \subseteq DOMAIN orders)'
    BY DEF OpenBuys, Open
  <2> QED BY <1>2, <1>4, <2>1, <2>2
<1>6. (\A i \in DOMAIN orders : l[i] = Left(i)) /\ \A i \in DOMAIN orders' : m[i] = Left(i)'
  BY <1>1, <1>2 DEF Lefts
<1>7. \A j \in DOMAIN orders : j \in OpenBuys <=> j \in Open /\ orders[j].side = "buy"
  BY DEF OpenBuys
<1>8. \A j : j \in ob <=> j \in Open' /\ orders'[j].side = "buy"
  BY <1>4 DEF OpenBuys
<1>9. ASSUME UNCHANGED orders PROVE PendingBuy' = PendingBuy
  BY <1>9 DEF PendingBuy, OpenBuys, Open, Left
<1>10. ASSUME NEW i \in Open, Open' = Open, DOMAIN orders' = DOMAIN orders,
              \A j \in DOMAIN orders : /\ orders'[j].side = orders[j].side
                                       /\ j # i => Left(j)' = Left(j)
       PROVE  PendingBuy' = PendingBuy + IF orders[i].side = "buy" THEN Left(i)' - Left(i) ELSE 0
  <2>1. ob = OpenBuys /\ i \in DOMAIN orders
    BY <1>3, <1>7, <1>8, <1>10 DEF OpenBuys, Open
  <2>2. \A j \in OpenBuys : l[j] \in Int /\ m[j] \in Int /\ (j # i => m[j] = l[j])
    BY <1>3, <1>5, <1>6, <1>10, <2>1
  <2>3. CASE orders[i].side = "buy"
    <3>1. i \in OpenBuys
      BY <1>7, <1>10, <2>1, <2>3
    <3>2. SumFunctionOnSet(m, OpenBuys) = SumFunctionOnSet(l, OpenBuys) - l[i] + m[i]
      BY <1>3, <2>2, <3>1, SumChange
    <3>3. l[i] = Left(i) /\ m[i] = Left(i)' /\ l[i] \in Int /\ m[i] \in Int
      BY <1>6, <1>10, <2>1, <2>2, <3>1
    <3>4. PendingBuy' = PendingBuy - l[i] + m[i]
      BY <1>3, <1>5, <2>1, <3>2
    <3>5. PendingBuy' = PendingBuy + (m[i] - l[i])
      BY <1>3, <3>3, <3>4
    <3> QED BY <2>3, <3>3, <3>5
  <2>4. CASE orders[i].side # "buy"
    <3>1. \A j \in OpenBuys : m[j] = l[j]
      BY <1>3, <1>7, <2>2, <2>4
    <3>2. SumFunctionOnSet(m, OpenBuys) = SumFunctionOnSet(l, OpenBuys)
      BY <1>3, <3>1, SumSame
    <3> QED BY <1>3, <1>5, <2>1, <2>4, <3>2
  <2> QED BY <2>3, <2>4
<1>11. ASSUME NEW i \in Open, Open' = Open \ {i}, DOMAIN orders' = DOMAIN orders,
              \A j \in DOMAIN orders : orders'[j].side = orders[j].side /\ Left(j)' = Left(j)
       PROVE  PendingBuy' <= PendingBuy
  <2>1. ob = OpenBuys \ {i}
    BY <1>3, <1>5, <1>7, <1>8, <1>11
  <2>2. \A j \in OpenBuys : l[j] \in Nat /\ m[j] = l[j]
    BY <1>3, <1>5, <1>6, <1>11
  <2>3. ob \subseteq OpenBuys /\ IsFiniteSet(ob)
    BY <1>3, <2>1, FS_Subset
  <2>4. SumFunctionOnSet(m, ob) = SumFunctionOnSet(l, ob)
    BY <2>2, <2>3, SumSame
  <2>5. SumFunctionOnSet(l, ob) <= SumFunctionOnSet(l, OpenBuys)
    BY <1>3, <2>2, <2>3, SumSubset
  <2> QED BY <1>3, <1>5, <2>4, <2>5
<1>12. ASSUME NEW n, n \notin DOMAIN orders, DOMAIN orders' = DOMAIN orders \union {n},
              Open' = Open \union {n}, \A j \in DOMAIN orders : orders'[j] = orders[j]
       PROVE  PendingBuy' = PendingBuy + IF orders'[n].side = "buy" THEN Left(n)' ELSE 0
  <2>1. \A j \in OpenBuys : l[j] \in Int /\ m[j] = l[j]
    <3>1. \A j \in DOMAIN orders : Left(j)' = Left(j)
      BY <1>12 DEF Left
    <3> QED BY <1>3, <1>5, <1>6, <1>12, <3>1
  <2>2. SumFunctionOnSet(m, OpenBuys) = SumFunctionOnSet(l, OpenBuys)
    BY <1>3, <2>1, SumSame
  <2>3. n \notin OpenBuys /\ Open \subseteq DOMAIN orders
    BY <1>3, <1>12 DEF Open
  <2>4. CASE orders'[n].side = "buy"
    <3>1. ob = OpenBuys \union {n}
      BY <1>3, <1>5, <1>7, <1>8, <1>12, <2>3, <2>4
    <3>2. IsFiniteSet(ob) /\ n \in ob /\ ob \ {n} = OpenBuys
      BY <1>3, <2>3, <3>1, FS_AddElement
    <3>3. \A j \in ob : m[j] \in Int
      BY <1>5
    <3>4. SumFunctionOnSet(m, ob) = m[n] + SumFunctionOnSet(m, OpenBuys)
      BY <3>2, <3>3, SumRemove
    <3>5. m[n] = Left(n)' /\ m[n] \in Int
      BY <1>6, <1>12, <3>2, <3>3
    <3> QED BY <1>3, <1>5, <2>2, <2>4, <3>4, <3>5
  <2>5. CASE orders'[n].side # "buy"
    <3>1. ob = OpenBuys
      BY <1>3, <1>5, <1>7, <1>8, <1>12, <2>3, <2>5
    <3> QED BY <1>3, <1>5, <2>2, <2>5, <3>1
  <2> QED BY <2>4, <2>5
<1> QED BY <1>9, <1>10, <1>11, <1>12
(* A fill still to come costs at most the fee of what is left, so the sum  *)
(* that no fill increases counts that fee with the exposure.               *)
FeeCap == Fee * (MaxOrderSize * limit)
PositionCap == MaxPosition + Fee * MaxOrderSize
ExposureInv ==
  /\ Cardinality(Open) <= limit
  /\ \A i, j \in Open : orders[i].token = orders[j].token => i = j
  /\ \A i \in OpenBuys : orders[i].amount <= MaxOrderSize
  /\ Exposure + Fee * PendingBuy <= MaxExposure + FeeCap
  /\ \A i \in OpenBuys : cost[orders[i].token] + Left(i) + Fee * Left(i) <= PositionCap
  /\ \A t \in Token : cost[t] <= PositionCap

LEMMA CapsType ==
  ASSUME TypeOK
  PROVE  /\ limit \in Nat \ {0} /\ MaxExposure \in Nat /\ MaxPosition \in Nat
         /\ Fee \in Nat /\ MaxOrderSize \in Nat /\ MaxOrderSize * limit \in Nat
         /\ FeeCap \in Nat /\ PositionCap \in Nat
<1>1. /\ limit \in Nat \ {0} /\ MaxExposure \in Nat /\ MaxPosition \in Nat
      /\ Fee \in Nat /\ MaxOrderSize \in Nat
  BY LedgerAssumption DEF TypeOK, OutsideType
<1>2. MaxOrderSize * limit \in Nat /\ Fee * MaxOrderSize \in Nat
  BY <1>1
<1>3. FeeCap \in Nat
  BY <1>1, <1>2 DEF FeeCap
<1> QED BY <1>1, <1>2, <1>3 DEF PositionCap

(* What a purchase adds at its price q and fee f is taken from what is     *)
(* left (b) and from the fee counted for it (x, of which y for q).         *)
LEMMA BoughtFits ==
  ASSUME NEW c \in Nat, NEW b \in Nat, NEW x \in Nat, NEW y \in Nat, NEW q \in Nat,
         NEW f \in Nat, NEW cap \in Nat, c + b + x <= cap, f <= y, y <= x, q <= b
  PROVE  /\ (c + q + f) + (b - q) + (x - y) <= cap
         /\ c + q + f <= cap
OBVIOUS

(* A step that leaves the orders alone and spends nothing. *)
LEMMA ExposureCarry ==
  ASSUME TypeOK, AmountInv, TypeOK', AmountInv', ExposureInv,
         UNCHANGED <<limit, orders>>,
         CostBasis' <= CostBasis, \A t \in Token : cost'[t] <= cost[t]
  PROVE  ExposureInv'
<1>1. Open' = Open /\ OpenBuys' = OpenBuys /\ PendingBuy' = PendingBuy /\ FeeCap' = FeeCap
      /\ PositionCap' = PositionCap /\ \A i \in DOMAIN orders : Left(i)' = Left(i)
  BY DEF Open, OpenBuys, PendingBuy, Left, FeeCap, PositionCap
<1>2. PendingBuy \in Nat /\ Fee * PendingBuy \in Nat /\ FeeCap \in Nat /\ MaxExposure \in Nat
      /\ CostBasis \in Nat /\ CostBasis' \in Nat /\ Fee \in Nat /\ PositionCap \in Nat
  BY PendingSum, CapsType, CostSum DEF TypeOK, PortfolioType, CostBasis
<1>3. Exposure' + Fee * PendingBuy' <= MaxExposure + FeeCap
  <2>1. PICK c \in Nat, d \in Nat, b \in Nat, x \in Nat, cap \in Nat :
          /\ c = CostBasis /\ d = CostBasis' /\ d <= c /\ b = PendingBuy
          /\ x = Fee * PendingBuy /\ cap = MaxExposure + FeeCap
    BY <1>2
  <2>2. c + b + x <= cap
    BY <2>1 DEF ExposureInv, Exposure
  <2>3. d + b + x <= cap
    BY <2>1, <2>2
  <2>4. Exposure' = d + b
    BY <1>1, <2>1 DEF Exposure
  <2> QED BY <1>1, <2>1, <2>3, <2>4
<1>4. \A t \in Token : cost[t] \in Nat /\ cost'[t] \in Nat /\ cost'[t] <= PositionCap
  BY <1>2 DEF ExposureInv, TypeOK, PortfolioType
<1>5. ASSUME NEW i \in OpenBuys
      PROVE  cost'[orders[i].token] + Left(i) + Fee * Left(i) <= PositionCap
  <2>1. i \in DOMAIN orders /\ orders[i].token \in Token /\ Left(i) \in Nat
    BY OrderFields, LeftType DEF OpenBuys, Open, TypeOK
  <2>2. Fee * Left(i) \in Nat
    BY <1>2, <2>1
  <2>3. cost[orders[i].token] + Left(i) + Fee * Left(i) <= PositionCap
    BY DEF ExposureInv
  <2> QED BY <1>2, <1>4, <2>1, <2>2, <2>3
<1>6. \A i \in OpenBuys : i \in DOMAIN orders
  BY DEF OpenBuys, Open
<1> QED BY <1>1, <1>3, <1>4, <1>5, <1>6 DEF ExposureInv

(* Booking a fill: of a purchase the sum grows by nothing, as the fee of a *)
(* share was counted; a sale removes cost.                                 *)
LEMMA ExposureFill ==
  ASSUME TypeOK, BatchInv, AmountInv, BatchOrderInv, TypeOK', AmountInv', ExposureInv,
         batch # << >>, Head(batch).type = "fill",
         orders' = [orders EXCEPT ![Head(batch).i].used =
                      @ + IF orders[Head(batch).i].side = "buy" THEN Head(batch).price ELSE 1],
         UNCHANGED <<limit, venue>>,
         \/ UNCHANGED cost
         \/ LET o == orders[Head(batch).i]
            IN  IF o.side = "buy"
                THEN cost' = [cost EXCEPT ![o.token] = @ + Head(batch).price + Fee]
                ELSE CostBasis' <= CostBasis /\ \A t \in Token : cost'[t] <= cost[t]
  PROVE  ExposureInv'
<1>0. PICK i, p, spend : i = Head(batch).i /\ p = Head(batch).price
                         /\ spend = IF orders[i].side = "buy" THEN p ELSE 1
  OBVIOUS
<1> DEFINE t == orders[i].token
<1>1. /\ i \in Open /\ i \in DOMAIN orders /\ p \in Prices /\ p \in Nat \ {0}
      /\ spend \in Nat \ {0} /\ spend <= Left(i) /\ Left(i) \in Nat
  BY <1>0, FillFits, ConstantsType
<1>2. /\ Open' = Open /\ DOMAIN orders' = DOMAIN orders
      /\ \A j \in DOMAIN orders : /\ orders'[j].side = orders[j].side
                                  /\ orders'[j].token = orders[j].token
                                  /\ orders'[j].amount = orders[j].amount
                                  /\ j # i => orders'[j] = orders[j]
      /\ Left(i)' = Left(i) - spend
  BY <1>0, FillOrder
<1>3. OrdersType /\ OrdersType' /\ \A j \in DOMAIN orders : j # i => Left(j)' = Left(j)
  BY <1>2 DEF Left, TypeOK
<1>4. OpenBuys' = OpenBuys /\ OpenBuys \subseteq Open /\ Open \subseteq DOMAIN orders
  BY <1>2, SMTT(40) DEF OpenBuys, Open
<1>5. PendingBuy' = PendingBuy + IF orders[i].side = "buy" THEN Left(i)' - Left(i) ELSE 0
  BY <1>1, <1>2, <1>3, PendingStep
<1>6. /\ PendingBuy \in Nat /\ PendingBuy' \in Nat /\ Fee \in Nat /\ FeeCap \in Nat
      /\ MaxExposure \in Nat /\ PositionCap \in Nat /\ CostBasis \in Nat /\ CostBasis' \in Nat
      /\ FeeCap' = FeeCap /\ PositionCap' = PositionCap
      /\ cost \in [Token -> Nat] /\ cost' \in [Token -> Nat] /\ t \in Token
  <2>1. PendingBuy \in Nat
    BY <1>3, PendingSum
  <2>2. (OrdersType /\ AmountInv => PendingBuy \in Nat)'
    BY PendingSum, PTL
  <2>3. cost \in [Token -> Nat] /\ cost' \in [Token -> Nat] /\ t \in Token
    BY <1>1, <1>3, OrderFields DEF TypeOK, PortfolioType
  <2>4. CostBasis \in Nat /\ CostBasis' \in Nat
    BY <2>3, CostSum DEF CostBasis
  <2>5. FeeCap' = FeeCap /\ PositionCap' = PositionCap
    BY DEF FeeCap, PositionCap
  <2> QED BY <1>3, <2>1, <2>2, <2>3, <2>4, <2>5, CapsType
<1>7. CASE orders[i].side = "buy" /\ cost' = [cost EXCEPT ![t] = @ + p + Fee]
  <2>1. i \in OpenBuys /\ spend = p
    BY <1>0, <1>1, <1>7 DEF OpenBuys
  <2>2. PendingBuy' = PendingBuy - p
    BY <1>1, <1>2, <1>5, <1>6, <1>7, <2>1
  <2>3. CostBasis' = CostBasis + p + Fee
    <3>1. PICK c \in Nat : c = cost[t] /\ c + p + Fee \in Nat
      <4>1. cost[t] \in Nat /\ p \in Nat /\ Fee \in Nat
        BY <1>1, <1>6
      <4> QED BY ONLY <4>1
    <3>2. cost' = [cost EXCEPT ![t] = c + p + Fee]
      BY <1>7, <3>1
    <3>3. CostBasis' = CostBasis - c + (c + p + Fee)
      <4> HIDE DEF t
      <4>1. PICK v \in Nat : v = c + p + Fee
        BY <3>1
      <4>2. SumFunction([cost EXCEPT ![t] = v]) = SumFunction(cost) - cost[t] + v
        BY <1>6, CostSum
      <4>3. CostBasis' = SumFunction(cost')
        BY DEF CostBasis
      <4>4. CostBasis' = SumFunction(cost) - cost[t] + v
        BY <3>2, <4>1, <4>2, <4>3
      <4> QED BY <3>1, <4>1, <4>4 DEF CostBasis
    <3>4. PICK b \in Nat, q \in Nat, f \in Nat : b = CostBasis /\ q = p /\ f = Fee
      BY <1>1, <1>6
    <3> QED BY <3>1, <3>3, <3>4
  <2>4. Exposure' + Fee * PendingBuy' <= MaxExposure + FeeCap
    <3>1. Exposure + Fee * PendingBuy <= MaxExposure + FeeCap
      BY DEF ExposureInv
    <3>2. /\ Fee * PendingBuy' = Fee * PendingBuy - Fee * p /\ Fee <= Fee * p
          /\ Fee * p \in Nat /\ Fee * PendingBuy \in Nat /\ Fee * PendingBuy' \in Nat
      <4>1. PICK b \in Nat, q \in Nat, f \in Nat :
              b = PendingBuy /\ q = p /\ f = Fee /\ q >= 1 /\ q <= b /\ PendingBuy' = b - q
        BY <1>1, <1>6, <2>2
      <4>2. b - q \in Nat
        BY <4>1
      <4>3. f * (b - q) = f * b - f * q
        BY <4>1, Times
      <4>4. f <= f * q /\ f * q \in Nat
        BY <4>1, Times
      <4>5. f * b \in Nat /\ f * (b - q) \in Nat
        BY <4>1, <4>2, Times
      <4> QED BY <4>1, <4>3, <4>4, <4>5
    <3>3. Exposure = CostBasis + PendingBuy /\ Exposure' = CostBasis' + PendingBuy'
      BY DEF Exposure
    <3>4. PICK c, b, x, y, q, cap, f :
            /\ c = CostBasis /\ b = PendingBuy /\ x = Fee * PendingBuy /\ y = Fee * p
            /\ q = p /\ cap = MaxExposure + FeeCap /\ f = Fee
      OBVIOUS
    <3>5. /\ c \in Nat /\ b \in Nat /\ x \in Nat /\ y \in Nat /\ q \in Nat
          /\ cap \in Nat /\ f \in Nat
      <4>1. x \in Nat /\ y \in Nat
        BY <3>2, <3>4
      <4>2. c \in Nat /\ b \in Nat /\ f \in Nat /\ q \in Nat
        BY <1>1, <1>6, <3>4
      <4>3. MaxExposure \in Nat /\ FeeCap \in Nat
        BY <1>6
      <4>4. cap \in Nat
        BY <3>4, <4>3
      <4> QED BY <4>1, <4>2, <4>4
    <3>6. CostBasis' = c + q + f /\ PendingBuy' = b - q /\ Fee * PendingBuy' = x - y
      BY <2>2, <2>3, <3>2, <3>4
    <3>8. c + b + x <= cap /\ f <= y
      BY <3>1, <3>2, <3>3, <3>4
    <3>9. q <= b /\ y <= x
      <4>1. b - q \in Nat /\ x - y \in Nat
        BY <1>6, <3>2, <3>6
      <4> QED BY <3>5, <4>1
    <3>7. (c + q + f) + (b - q) + (x - y) <= cap
      BY <3>5, <3>8, <3>9, BoughtFits
    <3> QED BY <3>3, <3>4, <3>6, <3>7
  <2>5. cost[t] + Left(i) + Fee * Left(i) <= PositionCap
    BY <2>1 DEF ExposureInv
  <2>6. cost'[t] + Left(i)' + Fee * Left(i)' <= PositionCap /\ cost'[t] <= PositionCap
    <3>1. PICK c \in Nat, l \in Nat, m \in Nat :
            c = cost[t] /\ l = Left(i) /\ m = Left(i)' /\ m = l - p /\ p <= l
      BY <1>1, <1>2, <1>6, <2>1
    <3>2. cost'[t] = c + p + Fee
      BY <1>6, <1>7, <3>1
    <3>3. PICK q \in Nat, f \in Nat, cap \in Nat :
            q = p /\ f = Fee /\ cap = PositionCap /\ q >= 1 /\ q <= l /\ m = l - q
      BY <1>1, <1>6, <3>1
    <3>4. f * (l - q) = f * l - f * q
      BY <3>3, Times
    <3>5. f <= f * q /\ f * q \in Nat /\ f * l \in Nat /\ f * m \in Nat
      BY <3>3, Times
    <3>6. PICK x \in Nat, y \in Nat, z \in Nat :
            x = f * l /\ y = f * q /\ z = f * m /\ z = x - y /\ f <= y
      BY <3>3, <3>4, <3>5
    <3>7. c + l + x <= cap
      BY <2>5, <3>1, <3>3, <3>6
    <3>9. f <= y /\ y <= x
      BY <3>6
    <3>10. (c + q + f) + (l - q) + (x - y) <= cap /\ c + q + f <= cap
      BY <3>3, <3>7, <3>9, BoughtFits
    <3>8. c + q + f + m + z <= cap /\ c + q + f <= cap
      BY <3>3, <3>6, <3>10
    <3> QED BY <3>1, <3>2, <3>3, <3>6, <3>8
  <2>7. \A u \in Token : u # t => cost'[u] = cost[u]
    BY <1>6, <1>7
  <2>8. \A j \in OpenBuys : cost'[orders[j].token] + Left(j)' + Fee * Left(j)' <= PositionCap
    <3> SUFFICES ASSUME NEW j \in OpenBuys, j # i
                 PROVE  cost'[orders[j].token] + Left(j)' + Fee * Left(j)' <= PositionCap
      BY <2>6
    <3>1. orders[j].token # t /\ orders[j].token \in Token /\ Left(j)' = Left(j)
      BY <1>1, <1>3, <1>4, OrderFields DEF ExposureInv
    <3>2. cost[orders[j].token] + Left(j) + Fee * Left(j) <= PositionCap
      BY DEF ExposureInv
    <3>3. cost'[orders[j].token] = cost[orders[j].token]
      BY <2>7, <3>1
    <3>4. PICK u, k : u = orders[j].token /\ k = Left(j)
      OBVIOUS
    <3>5. cost[u] + k + Fee * k <= PositionCap /\ cost'[u] = cost[u] /\ Left(j)' = k
      BY <3>1, <3>2, <3>3, <3>4
    <3>6. cost'[u] + k + Fee * k <= PositionCap
      BY <3>5
    <3>7. cost'[orders[j].token] = cost'[u] /\ Fee * Left(j)' = Fee * k
      BY <3>4, <3>5
    <3> QED BY <3>5, <3>6, <3>7
  <2>9. \A u \in Token : cost'[u] <= PositionCap
    BY <2>6, <2>7 DEF ExposureInv
  <2> HIDE DEF t
  <2> QED BY <1>2, <1>4, <1>6, <2>4, <2>8, <2>9 DEF ExposureInv
<1>8. CASE CostBasis' <= CostBasis /\ \A u \in Token : cost'[u] <= cost[u]
  <2>1. PendingBuy' <= PendingBuy
    BY <1>1, <1>2, <1>5, <1>6
  <2>2. Exposure' + Fee * PendingBuy' <= MaxExposure + FeeCap
    <3>1. Exposure + Fee * PendingBuy <= MaxExposure + FeeCap
      BY DEF ExposureInv
    <3>2. /\ Fee * PendingBuy' <= Fee * PendingBuy
          /\ Fee * PendingBuy \in Nat /\ Fee * PendingBuy' \in Nat
      BY <1>6, <2>1, Times
    <3>3. Exposure = CostBasis + PendingBuy /\ Exposure' = CostBasis' + PendingBuy'
      BY DEF Exposure
    <3>4. PICK c \in Int, d \in Int, x \in Int, y \in Int :
            c = CostBasis /\ d = CostBasis' /\ x = PendingBuy /\ y = PendingBuy'
      BY <1>6
    <3>5. PICK v \in Int, w \in Int, cap \in Int :
            v = Fee * PendingBuy /\ w = Fee * PendingBuy' /\ cap = MaxExposure + FeeCap
      BY <1>6, <3>2
    <3>6. d <= c /\ y <= x /\ w <= v
      BY <1>8, <2>1, <3>2, <3>4, <3>5
    <3>7. c + x + v <= cap
      BY <3>1, <3>3, <3>4, <3>5
    <3>8. d + y + w <= cap
      BY ONLY <3>6, <3>7
    <3> QED BY <3>3, <3>4, <3>5, <3>8
  <2>3. ASSUME NEW j \in OpenBuys
        PROVE  cost'[orders[j].token] + Left(j)' + Fee * Left(j)' <= PositionCap
    <3>1. orders[j].token \in Token /\ Left(j) \in Nat
      BY <1>3, <1>4, OrderFields, LeftType
    <3>2. Left(j)' \in Nat /\ Left(j)' <= Left(j)
      <4>1. CASE j = i
        BY <1>1, <1>2, <4>1
      <4>2. CASE j # i
        BY <1>3, <1>4, <3>1, <4>2
      <4> QED BY <4>1, <4>2
    <3>3. PICK c \in Nat, d \in Nat, l \in Nat, m \in Nat :
            /\ c = cost[orders[j].token] /\ d = cost'[orders[j].token] /\ d <= c
            /\ l = Left(j) /\ m = Left(j)' /\ m <= l
      BY <1>6, <1>8, <3>1, <3>2
    <3>4. Fee * m <= Fee * l /\ Fee * m \in Nat /\ Fee * l \in Nat
      BY <1>6, <3>3, Times
    <3>5. c + l + Fee * l <= PositionCap
      BY <3>3 DEF ExposureInv
    <3>6. PICK x \in Nat, y \in Nat, cap \in Nat :
            x = Fee * l /\ y = Fee * m /\ cap = PositionCap /\ y <= x
      BY <1>6, <3>4
    <3>7. c + l + x <= cap
      BY <3>5, <3>6
    <3>8. d + m + y <= cap
      BY <3>3, <3>6, <3>7
    <3> QED BY <3>3, <3>6, <3>8
  <2>4. ASSUME NEW u \in Token PROVE cost'[u] <= PositionCap
    <3>1. cost[u] <= PositionCap /\ cost'[u] <= cost[u]
      BY <1>8 DEF ExposureInv
    <3>2. cost[u] \in Nat /\ cost'[u] \in Nat
      BY <1>6
    <3> QED BY <1>6, <3>1, <3>2
  <2> HIDE DEF t
  <2> QED BY <1>2, <1>4, <1>6, <2>2, <2>3, <2>4 DEF ExposureInv
<1>9. CASE UNCHANGED cost
  <2>1. CostBasis' = CostBasis
    BY <1>9 DEF CostBasis
  <2>2. \A u \in Token : cost'[u] = cost[u] /\ cost[u] \in Nat
    BY <1>6, <1>9
  <2>3. CostBasis' <= CostBasis /\ \A u \in Token : cost'[u] <= cost[u]
    BY <1>6, <2>1, <2>2
  <2> QED BY <1>8, <2>3
<1> QED BY <1>0, <1>7, <1>8, <1>9
(* The open purchases of a policy that bounds their number and their size. *)
LEMMA PendingCapped ==
  ASSUME TypeOK, AmountInv, Cardinality(Open) <= limit,
         \A i \in OpenBuys : orders[i].amount <= MaxOrderSize
  PROVE  PendingBuy \in Nat /\ Fee * PendingBuy \in Nat /\ Fee * PendingBuy <= FeeCap
<1>1. OrdersType /\ PendingBuy = SumFunctionOnSet(Lefts, OpenBuys) /\ PendingBuy \in Nat
  BY PendingSum DEF TypeOK
<1>2. /\ IsFiniteSet(OpenBuys) /\ OpenBuys \subseteq DOMAIN orders
      /\ Cardinality(Open) \in Nat /\ Cardinality(OpenBuys) \in Nat
      /\ Cardinality(OpenBuys) <= Cardinality(Open)
  BY <1>1, OpenFinite
<1>3. ASSUME NEW i \in OpenBuys PROVE Lefts[i] \in Int /\ Lefts[i] <= MaxOrderSize
  <2>1. i \in DOMAIN orders /\ Lefts[i] = Left(i) /\ Left(i) \in Nat
    BY <1>1, <1>2, LeftType DEF Lefts
  <2>2. Left(i) = orders[i].amount - orders[i].used /\ orders[i].amount <= MaxOrderSize
        /\ orders[i].amount \in Nat /\ orders[i].used \in Nat
    BY <1>1, <2>1, OrderFields DEF Left
  <2> QED BY <2>1, <2>2, CapsType
<1>4. PendingBuy <= MaxOrderSize * Cardinality(OpenBuys)
  BY <1>1, <1>2, <1>3, CapsType, SumBounded
<1>5. MaxOrderSize * Cardinality(OpenBuys) <= MaxOrderSize * limit
  <2>1. Cardinality(OpenBuys) <= limit /\ limit \in Nat /\ MaxOrderSize \in Nat
    BY <1>2, CapsType
  <2> QED BY <1>2, <2>1, Times
<1>6. PICK k \in Nat : k = MaxOrderSize * limit /\ PendingBuy <= k
  <2>1. MaxOrderSize * limit \in Nat /\ MaxOrderSize * Cardinality(OpenBuys) \in Nat
    BY <1>2, CapsType, Times
  <2> QED BY <1>1, <1>4, <1>5, <2>1
<1>7. Fee * PendingBuy \in Nat /\ Fee * PendingBuy <= Fee * k
  BY <1>1, <1>6, CapsType, Times
<1> QED BY <1>1, <1>6, <1>7 DEF FeeCap

(* The end of an order releases what was left of it. *)
LEMMA ExposureEnd ==
  ASSUME TypeOK, BatchInv, AmountInv, BatchOrderInv, TypeOK', AmountInv', ExposureInv, ApplyEnd
  PROVE  ExposureInv'
<1>0. PICK i : i = Head(batch).i
  OBVIOUS
<1>1. /\ Open' = Open \ {i} /\ DOMAIN orders' = DOMAIN orders
      /\ \A j \in DOMAIN orders : /\ orders'[j].side = orders[j].side
                                  /\ orders'[j].token = orders[j].token
                                  /\ orders'[j].amount = orders[j].amount
                                  /\ orders'[j].used = orders[j].used
  BY <1>0, EndOrder
<1>2. UNCHANGED <<limit, cost>>
  BY DEF ApplyEnd, configVars, botVars
<1>3. OrdersType /\ OrdersType' /\ \A j \in DOMAIN orders : Left(j)' = Left(j)
  BY <1>1 DEF Left, TypeOK
<1>4. /\ Open \subseteq DOMAIN orders /\ Open' \subseteq Open
      /\ IsFiniteSet(Open) /\ Cardinality(Open) \in Nat
  BY <1>1, <1>3, OpenFinite
<1>5. \A j \in OpenBuys' : j \in OpenBuys
  BY <1>1, <1>4 DEF OpenBuys
<1>6. PendingBuy' <= PendingBuy
  <2>1. CASE i \in Open
    BY <1>1, <1>3, <2>1, PendingStep
  <2>2. CASE i \notin Open
    <3>1. Open' = Open
      BY <1>1, <2>2
    <3>2. OpenBuys' = OpenBuys
      BY <1>1, <1>4, <3>1 DEF OpenBuys
    <3>3. \A j \in OpenBuys : Lefts[j] = Lefts'[j]
      BY <1>1, <1>3, <1>4 DEF Lefts, OpenBuys
    <3>4. SumFunctionOnSet(Lefts, OpenBuys) = SumFunctionOnSet(Lefts', OpenBuys)
      BY <1>3, <3>3, OpenFinite, SumSame
    <3>5. PendingBuy = SumFunctionOnSet(Lefts, OpenBuys) /\ PendingBuy \in Nat
      BY <1>3, PendingSum
    <3>6. (OrdersType /\ AmountInv => PendingBuy = SumFunctionOnSet(Lefts, OpenBuys))'
      BY PendingSum, PTL
    <3> QED BY <1>3, <3>2, <3>4, <3>5, <3>6
  <2> QED BY <2>1, <2>2
<1>7. PendingBuy \in Nat /\ PendingBuy' \in Nat
  <2>1. (OrdersType /\ AmountInv => PendingBuy \in Nat)'
    BY PendingSum, PTL
  <2> QED BY <1>3, <2>1, PendingSum
<1>8. FeeCap' = FeeCap /\ PositionCap' = PositionCap /\ CostBasis' = CostBasis
  BY <1>2 DEF FeeCap, PositionCap, CostBasis
<1>9. Cardinality(Open') <= limit'
  <2>1. Cardinality(Open') <= Cardinality(Open) /\ Cardinality(Open') \in Nat
    BY <1>4, FS_Subset, FS_CardinalityType
  <2>2. Cardinality(Open) <= limit /\ limit \in Nat
    BY CapsType DEF ExposureInv
  <2> QED BY <1>2, <1>4, <2>1, <2>2
<1>10. Exposure' + Fee * PendingBuy' <= MaxExposure + FeeCap
  <2>1. Fee * PendingBuy' <= Fee * PendingBuy /\ Fee * PendingBuy' \in Nat /\ Fee * PendingBuy \in Nat
    BY <1>6, <1>7, CapsType, Times
  <2>2. CostBasis \in Nat /\ MaxExposure + FeeCap \in Nat
    <3>1. MaxExposure \in Nat /\ FeeCap \in Nat
      BY CapsType
    <3>2. CostBasis \in Nat
      BY CostSum DEF TypeOK, PortfolioType, CostBasis
    <3> QED BY <3>1, <3>2
  <2>3. PICK c \in Nat, b \in Nat, d \in Nat, x \in Nat, y \in Nat, cap \in Nat :
          /\ c = CostBasis /\ b = PendingBuy /\ d = PendingBuy' /\ d <= b
          /\ x = Fee * PendingBuy /\ y = Fee * PendingBuy' /\ y <= x /\ cap = MaxExposure + FeeCap
    BY <1>6, <1>7, <2>1, <2>2
  <2>4. c + b + x <= cap
    BY <2>3 DEF ExposureInv, Exposure
  <2>5. c + d + y <= cap
    BY <2>3, <2>4
  <2>6. Exposure' = c + d
    BY <1>8, <2>3 DEF Exposure
  <2> QED BY <2>3, <2>5, <2>6
<1>11. ASSUME NEW j \in OpenBuys'
       PROVE  /\ j \in DOMAIN orders /\ orders'[j].amount <= MaxOrderSize
              /\ cost'[orders'[j].token] + Left(j)' + Fee * Left(j)' <= PositionCap'
  <2>1. j \in OpenBuys /\ j \in DOMAIN orders
    BY <1>4, <1>5, <1>11 DEF OpenBuys
  <2>2. cost[orders[j].token] + Left(j) + Fee * Left(j) <= PositionCap
        /\ orders[j].amount <= MaxOrderSize
    BY <2>1 DEF ExposureInv
  <2> QED BY <1>1, <1>2, <1>3, <1>8, <2>1, <2>2
<1>12. \A j, k \in Open' : orders'[j].token = orders'[k].token => j = k
  BY <1>1, <1>4 DEF ExposureInv
<1>13. \A t \in Token : cost'[t] <= PositionCap'
  BY <1>2, <1>8 DEF ExposureInv
<1> QED BY <1>8, <1>9, <1>10, <1>11, <1>12, <1>13 DEF ExposureInv
(* What any accepted order leaves of the conjuncts about the open orders.  *)
LEMMA ExposureSubmit ==
  ASSUME TypeOK, BatchInv, AmountInv, TypeOK', AmountInv', ExposureInv, NEW order \in Order,
         Submit(order), order.used = 0, order.open = TRUE, pc = "trading",
         UNCHANGED <<limit, cost, batch>>, order.token \notin InFlight,
         order.side = "buy" => /\ order.amount <= MaxOrderSize
                               /\ order.amount <= MaxPosition - cost[order.token]
                               /\ order.amount <= MaxExposure - Exposure
  PROVE  ExposureInv'
<1>1. PICK n : /\ n \notin DOMAIN orders /\ DOMAIN orders' = DOMAIN orders \union {n}
               /\ orders'[n] = order /\ Open' = Open \union {n}
               /\ \A j \in DOMAIN orders : orders'[j] = orders[j]
  BY NewOrder
<1>2. OrdersType /\ OrdersType' /\ Open \subseteq DOMAIN orders /\ n \notin Open
      /\ IsFiniteSet(Open) /\ Cardinality(Open) \in Nat
  BY <1>1, OpenFinite DEF TypeOK
<1>3. Cardinality(Open') <= limit'
  <2>1. Cardinality(Open') = Cardinality(Open) + 1
    BY <1>1, <1>2, FS_AddElement
  <2>2. Cardinality(Open) < limit /\ limit \in Nat
    BY CapsType DEF Submit
  <2> QED BY <1>2, <2>1, <2>2
<1>4. \A j \in DOMAIN orders : Left(j)' = Left(j)
  BY <1>1 DEF Left
<1>5. Left(n)' = order.amount /\ order.amount \in Nat
  <2>1. Left(n)' = orders'[n].amount - orders'[n].used
    BY DEF Left
  <2>2. order.amount \in Nat
    BY DEF Order
  <2> QED BY <1>1, <2>1, <2>2
<1>6. PendingBuy' = PendingBuy + IF order.side = "buy" THEN order.amount ELSE 0
  BY <1>1, <1>2, <1>5, PendingStep
<1>7. FeeCap' = FeeCap /\ PositionCap' = PositionCap /\ CostBasis' = CostBasis
  BY DEF FeeCap, PositionCap, CostBasis
<1>8. \A j \in OpenBuys' : \/ j \in OpenBuys /\ j \in DOMAIN orders
                           \/ j = n /\ order.side = "buy"
  BY <1>1, <1>2 DEF OpenBuys
<1>9. \A j \in OpenBuys' : orders'[j].amount <= MaxOrderSize
  BY <1>1, <1>8 DEF ExposureInv
<1>10. \A j, k \in Open' : orders'[j].token = orders'[k].token => j = k
  <2>1. \A j \in Open : orders[j].token # order.token
    BY DEF InFlight
  <2> QED BY <1>1, <1>2, <2>1 DEF ExposureInv
<1>11. Exposure' + Fee * PendingBuy' <= MaxExposure + FeeCap
  <2>1. PendingBuy' \in Nat /\ Fee * PendingBuy' \in Nat /\ Fee * PendingBuy' <= FeeCap'
    <3>1. (TypeOK /\ AmountInv /\ Cardinality(Open) <= limit
             /\ (\A i \in OpenBuys : orders[i].amount <= MaxOrderSize)
             => PendingBuy \in Nat /\ Fee * PendingBuy \in Nat /\ Fee * PendingBuy <= FeeCap)'
      BY PendingCapped, PTL
    <3> QED BY <1>3, <1>9, <3>1
  <2>2. PendingBuy \in Nat /\ CostBasis \in Nat /\ MaxExposure \in Nat /\ FeeCap \in Nat
    BY <1>2, PendingSum, CapsType, CostSum DEF TypeOK, PortfolioType, CostBasis
  <2>3. Exposure = CostBasis + PendingBuy /\ Exposure' = CostBasis + PendingBuy'
    BY <1>7 DEF Exposure
  <2>4. CASE order.side = "buy"
    <3>1. Exposure' <= MaxExposure
      BY <1>5, <1>6, <2>2, <2>3, <2>4
    <3>2. PICK e \in Nat, x \in Nat, m \in Nat, f \in Nat :
            e = Exposure' /\ x = Fee * PendingBuy' /\ m = MaxExposure /\ f = FeeCap
      <4>1. Exposure' \in Nat
        <5>1. PICK c \in Nat, b \in Nat : c = CostBasis /\ b = PendingBuy'
          BY <2>1, <2>2
        <5>2. c + b \in Nat
          OBVIOUS
        <5> QED BY <2>3, <5>1, <5>2
      <4> QED BY <2>1, <2>2, <4>1
    <3>3. e <= m /\ x <= f
      BY <1>7, <2>1, <3>1, <3>2
    <3>4. e + x <= m + f
      BY <3>2, <3>3
    <3> QED BY <3>2, <3>4
  <2>5. CASE order.side # "buy"
    <3>1. PendingBuy' = PendingBuy
      BY <1>6, <2>2, <2>5
    <3> QED BY <2>3, <3>1 DEF ExposureInv
  <2> QED BY <2>4, <2>5
<1>12. ASSUME NEW j \in OpenBuys'
       PROVE  cost'[orders'[j].token] + Left(j)' + Fee * Left(j)' <= PositionCap'
  <2>1. CASE j \in OpenBuys /\ j \in DOMAIN orders
    <3>1. cost[orders[j].token] + Left(j) + Fee * Left(j) <= PositionCap
      BY <2>1 DEF ExposureInv
    <3> QED BY <1>1, <1>4, <1>7, <2>1, <3>1
  <2>2. CASE j = n /\ order.side = "buy"
    <3>1. cost[order.token] \in Nat /\ MaxPosition \in Nat /\ MaxOrderSize \in Nat /\ Fee \in Nat
      BY CapsType DEF TypeOK, PortfolioType, Order
    <3>2. PICK c \in Nat, a \in Nat, mp \in Nat, x \in Nat, y \in Nat :
            /\ c = cost[order.token] /\ a = order.amount /\ mp = MaxPosition
            /\ x = Fee * order.amount /\ y = Fee * MaxOrderSize
      BY <1>5, <3>1, Times
    <3>3. x <= y
      BY <1>5, <2>2, <3>1, <3>2, Times
    <3>4. a <= mp - c
      BY <2>2, <3>2
    <3>5. c + a + x <= mp + y
      BY <3>2, <3>3, <3>4
    <3>6. orders'[j].token = order.token /\ Left(j)' = a /\ cost'[order.token] = c
          /\ PositionCap' = mp + y
      BY <1>1, <1>5, <1>7, <2>2, <3>2 DEF PositionCap
    <3> QED BY <3>2, <3>5, <3>6
  <2> QED BY <1>8, <2>1, <2>2
<1>13. \A t \in Token : cost'[t] <= PositionCap'
  BY <1>7 DEF ExposureInv
<1> QED BY <1>3, <1>7, <1>9, <1>10, <1>11, <1>12, <1>13 DEF ExposureInv

(* Every step keeps the exposure within the policy and the fees. *)
LEMMA ExposureStep ==
  ASSUME TypeOK, BatchInv, AmountInv, BatchOrderInv, TypeOK', AmountInv', ExposureInv, [Next]_vars
  PROVE  ExposureInv'
<1>0. cost \in [Token -> Nat] /\ cost' \in [Token -> Nat] /\ CostBasis \in Nat
  BY CostSum DEF TypeOK, PortfolioType, CostBasis
<1>1. ASSUME UNCHANGED <<limit, orders, cost>> PROVE ExposureInv'
  <2>1. CostBasis' = CostBasis
    BY <1>1 DEF CostBasis
  <2>2. CostBasis' <= CostBasis /\ \A t \in Token : cost'[t] <= cost[t]
    BY <1>0, <1>1, <2>1
  <2> QED BY <1>1, <2>2, ExposureCarry
<1>2. CASE ApplyFill
  <2>1. /\ batch # << >> /\ Head(batch).type = "fill" /\ UNCHANGED <<limit, venue>>
        /\ orders' = [orders EXCEPT ![Head(batch).i].used =
                        @ + IF orders[Head(batch).i].side = "buy" THEN Head(batch).price ELSE 1]
    BY <1>2 DEF ApplyFill, configVars
  <2>2. PICK o, p : o = orders[Head(batch).i] /\ p = Head(batch).price
    OBVIOUS
  <2>3. o.token \in Token
    BY <2>1, <2>2, HeadType, OrderFields DEF TypeOK
  <2>4. /\ o.side = "buy" => BuyFill(o.token, p)
        /\ o.side # "buy" => SellFill(o.token, p) /\ shares[o.token] # 0
    BY <1>2, <2>2 DEF ApplyFill, Breaks
  <2>5. CASE o.side = "buy"
    <3>1. cost' = [cost EXCEPT ![o.token] = @ + p + Fee]
      BY <2>4, <2>5 DEF BuyFill
    <3> QED BY <2>1, <2>2, <2>5, <3>1, ExposureFill
  <2>6. CASE o.side # "buy"
    <3> DEFINE u == o.token
    <3>1. PICK r \in Nat : r = CostRemoved(u) /\ r <= cost[u]
      <4>1. shares[u] \in Nat \ {0} /\ cost[u] \in Nat
        BY <2>3, <2>4, <2>6 DEF TypeOK, PortfolioType
      <4> QED BY <4>1, Quotient DEF CostRemoved
    <3>2. PICK v \in Nat : v = cost[u] - r /\ v <= cost[u]
      <4>1. cost[u] \in Nat
        BY <1>0, <2>3
      <4> QED BY <3>1, <4>1
    <3>3. cost' = [cost EXCEPT ![u] = v]
      BY <2>4, <2>6, <3>1, <3>2 DEF SellFill
    <3>4. CostBasis' = CostBasis - cost[u] + v
      <4> HIDE DEF u
      <4>1. u \in Token
        BY <2>3 DEF u
      <4>2. SumFunction([cost EXCEPT ![u] = v]) = SumFunction(cost) - cost[u] + v
        BY <1>0, <4>1, CostSum
      <4>3. CostBasis' = SumFunction(cost')
        BY DEF CostBasis
      <4> QED BY <3>3, <4>2, <4>3 DEF CostBasis
    <3>5. CostBasis' <= CostBasis
      <4>1. cost[u] \in Nat
        BY <1>0, <2>3
      <4> QED BY <1>0, <3>2, <3>4, <4>1
    <3>6. \A t \in Token : cost'[t] <= cost[t]
      BY <1>0, <2>3, <3>2, <3>3
    <3> QED BY <2>1, <2>2, <2>6, <3>5, <3>6, ExposureFill
  <2> QED BY <2>5, <2>6
<1>3. CASE FillBreaks
  <2>1. /\ batch # << >> /\ Head(batch).type = "fill" /\ UNCHANGED <<limit, venue, cost>>
        /\ orders' = [orders EXCEPT ![Head(batch).i].used =
                        @ + IF orders[Head(batch).i].side = "buy" THEN Head(batch).price ELSE 1]
    BY <1>3 DEF FillBreaks, configVars, botVars
  <2> QED BY <2>1, ExposureFill
<1>4. CASE ApplyEnd
  BY <1>4, ExposureEnd
<1>5. ASSUME NEW m \in Market, Settle(m) PROVE ExposureInv'
  <2> DEFINE w == Winner(m)
  <2>1. SettlePortfolio(m) /\ Resolved(m) /\ UNCHANGED <<limit, orders>>
    BY <1>5 DEF Settle, ToSettle, configVars
  <2>2. w \in Token /\ Other(w) \in Token /\ Mkt(w) = m
    BY <2>1, SettleType DEF Winner, Mkt
  <2>3. cost' = [u \in Token |-> IF Mkt(u) = m THEN 0 ELSE cost[u]]
    BY <2>1 DEF SettlePortfolio
  <2>4. CostBasis' = CostBasis - cost[w] - cost[Other(w)]
    <3> HIDE DEF w
    <3> QED BY <1>0, <2>2, <2>3, CostSettled DEF CostBasis
  <2>5. CostBasis' <= CostBasis
    <3>1. cost[w] \in Nat /\ cost[Other(w)] \in Nat
      BY <1>0, <2>2
    <3> HIDE DEF w
    <3> QED BY <1>0, <2>4, <3>1
  <2>6. \A t \in Token : cost'[t] <= cost[t]
    BY <1>0, <2>3
  <2> QED BY <2>1, <2>5, <2>6, ExposureCarry
<1>6. ASSUME NEW t \in Token, NEW amount \in 1 .. MaxOrderSize, Enter(t, amount)
      PROVE  ExposureInv'
  <2>1. PICK o : o = [side |-> "buy", token |-> t, amount |-> amount, used |-> 0, open |-> TRUE]
    OBVIOUS
  <2>2. o \in Order /\ o.used = 0 /\ o.open = TRUE
    BY <2>1, ConstantsType DEF Order
  <2>3. Submit(o) /\ pc = "trading" /\ UNCHANGED <<limit, cost, batch>>
    BY <1>6, <2>1 DEF Enter, configVars, botVars
  <2>4. o.token = t /\ o.amount = amount /\ t \notin InFlight
    BY <1>6, <2>1 DEF Enter
  <2>5. /\ amount <= MaxOrderSize /\ amount <= MaxPosition - cost[t]
        /\ amount <= MaxExposure - Exposure
    BY <1>6 DEF Enter, Caps
  <2> QED BY <2>2, <2>3, <2>4, <2>5, ExposureSubmit
<1>7. ASSUME NEW t \in Token, Exit(t) PROVE ExposureInv'
  <2>1. PICK o : o = [side |-> "sell", token |-> t, amount |-> shares[t], used |-> 0, open |-> TRUE]
    OBVIOUS
  <2>2. o \in Order /\ o.used = 0 /\ o.open = TRUE
    BY <2>1 DEF Order, TypeOK, PortfolioType
  <2>3. Submit(o) /\ pc = "trading" /\ UNCHANGED <<limit, cost, batch>>
    BY <1>7, <2>1 DEF Exit, configVars, botVars
  <2>4. o.token = t /\ o.side = "sell" /\ t \notin InFlight
    BY <1>7, <2>1 DEF Exit
  <2> QED BY <2>2, <2>3, <2>4, ExposureSubmit
<1>8. CASE UNCHANGED vars
  BY <1>1, <1>8 DEF vars, configVars, botVars
<1>9. CASE Outside
  BY <1>1, <1>9 DEF Outside, Match, Finish, WindowEnds, Resolve, Redeem, Reverse, configVars, botVars
<1>10. CASE \/ FetchDone \/ ApplyDone \/ SettleDone \/ ReadBalance \/ SkipReconcile
            \/ SnapshotFails \/ Compare \/ CompareIncomplete \/ StepDone
            \/ \E i \in DOMAIN orders : Fetch(i)
  BY <1>1, <1>10 DEF FetchDone, ApplyDone, SettleDone, ReadBalance, SkipReconcile,
     SnapshotFails, Compare, CompareIncomplete, StepDone, Fetch, configVars, botVars
<1> QED BY <1>2, <1>3, <1>4, <1>5, <1>6, <1>7, <1>8, <1>9, <1>10 DEF Next, Step
LEMMA InitExposure ==
  ASSUME Init
  PROVE  AmountInv /\ BatchOrderInv /\ ExposureInv
<1>1. orders = << >> /\ batch = << >> /\ cost = [t \in Token |-> 0] /\ TypeOK
  BY InitType DEF Init
<1>2. DOMAIN orders = {} /\ DOMAIN batch = {}
  BY <1>1
<1>3. AmountInv
  BY <1>2 DEF AmountInv
<1>4. BatchOrderInv
  <2>1. [k \in {} |-> 1] \in [DOMAIN batch -> Nat \ {0}]
    BY <1>2
  <2>2. /\ \A k \in DOMAIN batch : Numbered(k, [l \in {} |-> 1][k])
        /\ InOrder([l \in {} |-> 1])
    BY <1>2 DEF InOrder
  <2> QED BY <2>1, <2>2 DEF BatchOrderInv
<1>5. Open = {} /\ OpenBuys = {}
  BY <1>2 DEF Open, OpenBuys
<1>6. Cardinality(Open) = 0 /\ IsFiniteSet({})
  BY <1>5, FS_EmptySet
<1>7. PendingBuy = 0
  <2>1. PendingBuy = SumFunctionOnSet(Lefts, OpenBuys)
    BY <1>1, <1>3, PendingSum DEF TypeOK
  <2> QED BY <1>5, <1>6, <2>1, SumZero
<1>8. CostBasis = 0
  BY <1>1, TokenFinite, SumZero DEF CostBasis, SumFunction
<1>9. Exposure = 0 /\ Fee * PendingBuy = 0
  <2>1. Fee \in Nat
    BY ConstantsType
  <2> QED BY <1>7, <1>8, <2>1 DEF Exposure
<1>10. /\ limit \in Nat \ {0} /\ MaxExposure \in Nat /\ FeeCap \in Nat /\ PositionCap \in Nat
  BY <1>1, CapsType
<1>11. \A t \in Token : cost[t] = 0
  BY <1>1
<1> QED BY <1>3, <1>4, <1>5, <1>6, <1>9, <1>10, <1>11 DEF ExposureInv

(* What is in flight and what it may still cost. *)
FlightInv == AmountInv /\ BatchOrderInv /\ ExposureInv

LEMMA FlightInvariance == Spec => [](IInv /\ FlightInv)
<1>1. Init => FlightInv
  BY InitExposure DEF FlightInv
<1>2. IInv /\ IInv' /\ FlightInv /\ [Next]_vars => FlightInv'
  BY OrderStep, ExposureStep DEF IInv, FlightInv
<1> QED BY <1>1, <1>2, Invariance, PTL DEF Spec

(* Cost bases and in-flight buys stay within the policy up to the fees,    *)
(* for any number of windows, prices and orders in flight, in whatever     *)
(* order fills, ends, settlements and new approvals are interleaved.       *)
THEOREM ExposureStaysBounded == Spec => []ExposureBounded
<1>1. IInv /\ FlightInv => ExposureBounded
  <2> SUFFICES ASSUME IInv, FlightInv PROVE ExposureBounded
    OBVIOUS
  <2>1. TypeOK /\ AmountInv /\ ExposureInv
    BY DEF IInv, FlightInv
  <2>2. /\ limit \in Nat /\ Fee \in Nat /\ MaxOrderSize \in Nat /\ MaxExposure \in Nat
        /\ FeeCap \in Nat
    BY <2>1, CapsType
  <2>3. Fee * MaxOrderSize * limit = FeeCap
    BY <2>2 DEF FeeCap
  <2>4. PendingBuy \in Nat /\ Fee * PendingBuy \in Nat /\ Exposure \in Nat
    <3>1. PendingBuy \in Nat /\ CostBasis \in Nat
      BY <2>1, PendingSum, CostSum DEF TypeOK, PortfolioType, CostBasis
    <3> QED BY <2>2, <3>1 DEF Exposure
  <2>5. PICK e \in Nat, x \in Nat, m \in Nat, f \in Nat :
          e = Exposure /\ x = Fee * PendingBuy /\ m = MaxExposure /\ f = FeeCap
    BY <2>2, <2>4
  <2>6. e + x <= m + f
    BY <2>1, <2>5 DEF ExposureInv
  <2>7. Exposure <= MaxExposure + Fee * MaxOrderSize * limit
    <3>1. e <= m + f
      BY <2>5, <2>6
    <3> QED BY <2>3, <2>5, <3>1
  <2>8. \A t \in Token : cost[t] <= MaxPosition + Fee * MaxOrderSize
    BY <2>1 DEF ExposureInv, PositionCap
  <2> QED BY <2>7, <2>8 DEF ExposureBounded
<1> QED BY <1>1, FlightInvariance, PTL

-----------------------------------------------------------------------------
(* The funds of an open order.                                             *)

(* What an entry is approved for spends the cash at the limit price; at a  *)
(* lower price there are more shares, and a fee for each.                  *)
ReserveCoversFees == Fee * MaxOrderSize * (BuyLimit - 1) <= Reserve * BuyLimit

(* With one order in flight, the cash covers what the order may still cost *)
(* at any price, or the portfolio has what it may still sell, unless the   *)
(* market was settled under it.                                            *)
Covered(i) ==
  LET o == orders[i]
  IN  IF o.side = "buy" THEN Left(i) + Fee * Left(i) <= cash
      ELSE Mkt(o.token) \in settled \/ Left(i) <= shares[o.token]
FundsInv ==
  limit = 1 => /\ \A i \in Open : Covered(i)
               /\ killed => "late" \in odd

(* The fee counted for the limit price and the reserve cover the amount at *)
(* every price.                                                            *)
LEMMA ReserveArithmetic ==
  ASSUME NEW a \in Nat, NEW s \in Nat, a <= s, NEW b \in Nat \ {0}, NEW f \in Nat,
         NEW r \in Nat, NEW c \in Int,
         f * s * (b - 1) <= r * b, a * (b + f) <= (c - r) * b
  PROVE  a + f * a <= c
<1>1. PICK k \in Nat : k = b - 1 /\ b = k + 1
  OBVIOUS
<1>2. PICK x \in Nat, y \in Nat : x = f * a /\ y = f * s /\ x <= y
  BY Times
<1>3. x * k <= y * k /\ x * k \in Nat /\ y * k \in Nat
  <2>1. k * x <= k * y /\ k * x \in Nat /\ k * y \in Nat
    BY <1>1, <1>2, Times
  <2>2. k * x = x * k /\ k * y = y * k
    BY <1>1, <1>2
  <2> QED BY <2>1, <2>2
<1>4. x * k <= r * b
  <2>1. y * k <= r * b /\ r * b \in Nat
    BY <1>1, <1>2
  <2> QED BY <1>3, <2>1
<1>5. a * b + x <= c * b - r * b
  <2>1. a * (b + f) = a * b + x
    BY <1>2
  <2>2. (c - r) * b = c * b - r * b
    OBVIOUS
  <2> QED BY <2>1, <2>2
<1>6. (a + x) * b = a * b + x + x * k
  BY <1>1, <1>2
<1>7. (a + x) * b <= c * b
  <2>1. PICK p \in Int, q \in Int, u \in Int, v \in Int :
          p = a * b /\ q = c * b /\ u = r * b /\ v = x * k
    BY <1>2, <1>3
  <2>2. v <= u /\ p + x <= q - u
    BY <1>4, <1>5, <2>1
  <2>3. p + x + v <= q
    BY <1>2, <2>1, <2>2
  <2> QED BY <1>6, <2>1, <2>3
<1>8. ~ (c + 1 <= a + x)
  <2> SUFFICES ASSUME c + 1 <= a + x PROVE FALSE
    OBVIOUS
  <2>1. PICK d \in Nat : a + x = c + 1 + d
    <3>1. a + x - (c + 1) \in Nat /\ a + x = c + 1 + (a + x - (c + 1))
      BY <1>2
    <3> QED BY <3>1
  <2>2. (c + 1 + d) * b = c * b + b + d * b
    BY <2>1
  <2>3. d * b \in Nat /\ c * b \in Int
    BY <2>1
  <2>4. c * b + b + d * b <= c * b
    BY <1>7, <2>1, <2>2
  <2>5. PICK q \in Int, z \in Nat : q = c * b /\ z = d * b
    BY <2>3
  <2>6. q + b + z <= q
    BY <2>4, <2>5
  <2> QED BY <2>5, <2>6
<1>9. a + x <= c
  BY <1>2, <1>8
<1> QED BY <1>2, <1>9

LEMMA FundsCarry ==
  ASSUME FundsInv, UNCHANGED <<limit, shares, cash, settled>>, Open' \subseteq Open,
         \A i \in Open' : /\ orders'[i].side = orders[i].side
                          /\ orders'[i].token = orders[i].token
                          /\ Left(i)' = Left(i),
         UNCHANGED killed, odd \subseteq odd'
  PROVE  FundsInv'
<1> SUFFICES ASSUME limit = 1 PROVE (\A i \in Open' : Covered(i)') /\ (killed' => "late" \in odd')
  BY DEF FundsInv
<1>1. ASSUME NEW i \in Open' PROVE Covered(i)'
  <2>1. Covered(i)
    BY DEF FundsInv
  <2> QED BY <2>1 DEF Covered
<1> QED BY <1>1 DEF FundsInv
(* The next fill of the batch, at price p, is of the only open order i,    *)
(* for token t with l left: at least the amount of the fill.               *)
FillOf(i, t, p, l) ==
  /\ i = Head(batch).i /\ t = orders[i].token /\ p = Head(batch).price /\ l = Left(i)
  /\ i \in Open /\ t \in Token /\ p \in Nat \ {0} /\ l \in Nat \ {0}
  /\ Open' = {i} /\ Covered(i) /\ cash \in Int /\ Fee \in Nat /\ shares[t] \in Nat
  /\ orders'[i].side = orders[i].side /\ orders'[i].token = t
  /\ orders[i].side = "buy" =>
       /\ p <= l /\ Left(i)' = l - p
       /\ l + Fee * l <= cash /\ Fee * p \in Nat /\ Fee * l \in Nat /\ Fee <= Fee * p
       /\ Fee * p <= Fee * l /\ Fee * (l - p) = Fee * l - Fee * p
  /\ orders[i].side # "buy" => Left(i)' = l - 1

LEMMA FundsFill ==
  ASSUME TypeOK, BatchInv, AmountInv, BatchOrderInv, SideInv, FundsInv, limit = 1,
         batch # << >>, Head(batch).type = "fill",
         orders' = [orders EXCEPT ![Head(batch).i].used =
                      @ + IF orders[Head(batch).i].side = "buy" THEN Head(batch).price ELSE 1],
         UNCHANGED <<venue, settled>>
  PROVE  \E i, t, p, l : FillOf(i, t, p, l)
<1>1. PICK i, t, p, l, spend :
        /\ i = Head(batch).i /\ t = orders[i].token /\ p = Head(batch).price /\ l = Left(i)
        /\ spend = IF orders[i].side = "buy" THEN p ELSE 1
  OBVIOUS
<1>2. /\ i \in Open /\ i \in DOMAIN orders /\ p \in Prices /\ p \in Nat \ {0}
      /\ spend \in Nat \ {0} /\ spend <= l /\ l \in Nat
  BY <1>1, FillFits, ConstantsType
<1>3. /\ Open' = Open /\ orders'[i].side = orders[i].side /\ orders'[i].token = orders[i].token
      /\ Left(i)' = l - spend
  BY <1>1, <1>2, FillOrder
<1>4. Open' = {i}
  BY <1>2, <1>3 DEF SideInv
<1>5. t \in Token /\ cash \in Int /\ Fee \in Nat /\ shares[t] \in Nat
  <2>1. t \in Token
    BY <1>1, <1>2, OrderFields DEF TypeOK
  <2> QED BY <2>1, ConstantsType DEF TypeOK, PortfolioType
<1>6. Covered(i)
  BY <1>2 DEF FundsInv
<1>7. l # 0
  BY <1>2
<1>8. ASSUME orders[i].side = "buy"
      PROVE  /\ p <= l /\ Left(i)' = l - p /\ l + Fee * l <= cash
             /\ Fee * p \in Nat /\ Fee * l \in Nat /\ Fee <= Fee * p
             /\ Fee * p <= Fee * l /\ Fee * (l - p) = Fee * l - Fee * p
  <2>1. p <= l /\ Left(i)' = l - p
    BY <1>1, <1>2, <1>3, <1>8
  <2>2. l + Fee * l <= cash
    BY <1>1, <1>6, <1>8 DEF Covered
  <2>3. p \in Nat /\ p >= 1
    BY <1>2
  <2> QED BY <1>2, <1>5, <2>1, <2>2, <2>3, Times
<1>9. ASSUME orders[i].side # "buy" PROVE Left(i)' = l - 1
  BY <1>1, <1>3, <1>9
<1> QED
  BY <1>1, <1>2, <1>3, <1>4, <1>5, <1>6, <1>7, <1>8, <1>9, SMTT(40) DEF FillOf

(* An accepted order is the only one, and it was sized to the funds. *)
LEMMA FundsSubmit ==
  ASSUME TypeOK, BatchInv, AmountInv, FundsInv, limit = 1, NEW order \in Order,
         Submit(order), order.used = 0, order.open = TRUE, pc = "trading",
         UNCHANGED <<limit, shares, cash, settled, batch, killed, odd>>,
         order.side = "buy" => order.amount + Fee * order.amount <= cash,
         order.side # "buy" => order.amount <= shares[order.token]
  PROVE  FundsInv'
<1>1. PICK n : orders'[n] = order /\ Open' = Open \union {n}
  BY NewOrder
<1>2. Open' = {n}
  BY <1>1, NoneOpen DEF Submit
<1>3. Left(n)' = order.amount
  <2>1. Left(n)' = orders'[n].amount - orders'[n].used
    BY DEF Left
  <2>2. order.amount \in Nat
    BY DEF Order
  <2> QED BY <1>1, <2>1, <2>2
<1>4. Covered(n)'
  <2>1. CASE order.side = "buy"
    BY <1>1, <1>3, <2>1 DEF Covered
  <2>2. CASE order.side # "buy"
    BY <1>1, <1>3, <2>2 DEF Covered
  <2> QED BY <2>1, <2>2
<1> QED BY <1>2, <1>4 DEF FundsInv

(* Every step keeps the funds of the open order. *)
LEMMA FundsStep ==
  ASSUME ReserveCoversFees, TypeOK, BatchInv, SideInv, AmountInv, BatchOrderInv, FundsInv,
         [Next]_vars
  PROVE  FundsInv'
<1> SUFFICES ASSUME limit' = 1 PROVE FundsInv'
  BY DEF FundsInv
<1>0. limit = 1 /\ UNCHANGED limit
  BY DEF Next, Step, Outside, vars, configVars, Fetch, FetchDone, ApplyFill, FillBreaks, ApplyEnd,
     ApplyDone, Settle, SettleDone, ReadBalance, SkipReconcile, SnapshotFails, Compare,
     CompareIncomplete, Enter, Exit, StepDone, Match, Finish, WindowEnds, Resolve, Redeem, Reverse
<1>1. ASSUME UNCHANGED <<orders, shares, cash, settled, killed>>, odd \subseteq odd' PROVE FundsInv'
  <2>1. Open' = Open /\ \A i \in Open : Left(i)' = Left(i)
    BY <1>1 DEF Open, Left
  <2> QED BY <1>0, <1>1, <2>1, FundsCarry
<1>2. CASE ApplyFill
  <2>1. /\ batch # << >> /\ Head(batch).type = "fill" /\ UNCHANGED <<venue, settled, killed>>
        /\ orders' = [orders EXCEPT ![Head(batch).i].used =
                        @ + IF orders[Head(batch).i].side = "buy" THEN Head(batch).price ELSE 1]
    BY <1>2 DEF ApplyFill, coreVars
  <2>2. PICK i, t, p, l : FillOf(i, t, p, l)
    BY <1>0, <2>1, FundsFill
  <2>0. Open' = {i}
    BY <2>2 DEF FillOf
  <2> USE DEF FillOf
  <2>3. /\ orders[i].side = "buy" => BuyFill(t, p)
        /\ orders[i].side # "buy" => SellFill(t, p) /\ shares[t] # 0
        /\ NoteLate(t)
    BY <1>2, <2>2 DEF ApplyFill, Breaks
  <2>4. ASSUME orders[i].side = "buy" PROVE Covered(i)'
    <3>1. cash' = cash - (p + Fee)
      BY <2>3, <2>4 DEF BuyFill
    <3>2. PICK m \in Int, x \in Nat, y \in Nat, f \in Nat :
            m = l - p /\ x = Fee * l /\ y = Fee * p /\ f = Fee
      BY <2>2, <2>4
    <3>3. Fee * m = x - y /\ l + x <= cash /\ f <= y
      BY <2>2, <2>4, <3>2
    <3>4. m + (x - y) <= cash - (p + f)
      BY <2>2, <3>2, <3>3
    <3>5. Left(i)' + Fee * Left(i)' <= cash'
      BY <2>2, <2>4, <3>1, <3>2, <3>3, <3>4
    <3> QED BY <2>2, <2>4, <3>5 DEF Covered
  <2>5. ASSUME orders[i].side # "buy" PROVE Covered(i)'
    <3>1. shares'[t] = shares[t] - 1
      BY <2>2, <2>3, <2>5 DEF SellFill, TypeOK, PortfolioType
    <3>2. Mkt(t) \in settled \/ l <= shares[t]
      BY <2>2, <2>5 DEF Covered
    <3>3. Mkt(t) \in settled \/ Left(i)' <= shares'[t]
      BY <2>2, <2>5, <3>1, <3>2
    <3> QED BY <2>1, <2>2, <2>5, <3>3 DEF Covered
  <2>6. Covered(i)'
    BY <2>4, <2>5
  <2>7. killed' => "late" \in odd'
    BY <1>0, <2>1, <2>3 DEF FundsInv, NoteLate
  <2> QED BY <2>0, <2>6, <2>7 DEF FundsInv
<1>3. CASE FillBreaks
  <2>1. /\ batch # << >> /\ Head(batch).type = "fill"
        /\ UNCHANGED <<venue, settled, cash, shares>>
        /\ orders' = [orders EXCEPT ![Head(batch).i].used =
                        @ + IF orders[Head(batch).i].side = "buy" THEN Head(batch).price ELSE 1]
    BY <1>3 DEF FillBreaks, coreVars, botVars
  <2>2. PICK i, t, p, l : FillOf(i, t, p, l)
    BY <1>0, <2>1, FundsFill
  <2>0. Open' = {i}
    BY <2>2 DEF FillOf
  <2> USE DEF FillOf
  <2>3. /\ orders[i].side = "buy" => p + Fee > cash
        /\ orders[i].side # "buy" => shares[t] = 0
        /\ NoteLate(t)
    BY <1>3, <2>2 DEF FillBreaks, Breaks
  <2>4. orders[i].side # "buy"
    <3> SUFFICES ASSUME orders[i].side = "buy" PROVE FALSE
      OBVIOUS
    <3>1. PICK x \in Nat, y \in Nat, f \in Nat : x = Fee * l /\ y = Fee * p /\ f = Fee
      BY <2>2
    <3>2. l + x <= cash /\ f <= y /\ y <= x /\ p <= l /\ p + f > cash
      BY <2>2, <2>3, <3>1
    <3> QED BY <2>2, <3>1, <3>2
  <2>5. Mkt(t) \in settled
    BY <2>2, <2>3, <2>4 DEF Covered
  <2>6. Covered(i)'
    BY <2>1, <2>2, <2>4, <2>5 DEF Covered
  <2>7. "late" \in odd'
    BY <2>3, <2>5 DEF NoteLate
  <2> QED BY <2>0, <2>6, <2>7 DEF FundsInv
<1>4. CASE ApplyEnd
  <2>1. UNCHANGED <<shares, cash, settled, killed, odd>>
    BY <1>4 DEF ApplyEnd, botVars, coreVars
  <2>2. /\ Open' \subseteq Open
        /\ \A j \in DOMAIN orders : /\ orders'[j].side = orders[j].side
                                    /\ orders'[j].token = orders[j].token
                                    /\ orders'[j].amount = orders[j].amount
                                    /\ orders'[j].used = orders[j].used
    BY <1>4, EndOrder
  <2>3. \A j \in DOMAIN orders : Left(j)' = Left(j)
    BY <2>2 DEF Left
  <2>4. \A j \in Open : j \in DOMAIN orders
    BY DEF Open
  <2> QED BY <1>0, <2>1, <2>2, <2>3, <2>4, FundsCarry
<1>5. ASSUME NEW m \in Market, Settle(m) PROVE FundsInv'
  <2>1. /\ SettlePortfolio(m) /\ Resolved(m) /\ UNCHANGED <<orders, killed>>
        /\ settled' = settled \union {m} /\ odd \subseteq odd'
    BY <1>5 DEF Settle, ToSettle
  <2>2. PICK payout \in Nat : payout = Payout * shares[Winner(m)]
    BY <2>1, SettleType
  <2>3. cash' = cash + payout /\ cash \in Int /\ cash <= cash'
    BY <2>1, <2>2 DEF SettlePortfolio, TypeOK, PortfolioType
  <2>4. \A t \in Token : shares'[t] = IF Mkt(t) = m THEN 0 ELSE shares[t]
    BY <2>1 DEF SettlePortfolio
  <2>5. Open' = Open /\ \A i \in Open : i \in DOMAIN orders /\ Left(i)' = Left(i)
    BY <2>1 DEF Open, Left
  <2>6. ASSUME NEW i \in Open PROVE Covered(i)'
    <3>1. Covered(i) /\ Left(i)' = Left(i) /\ orders' = orders
      BY <1>0, <2>1, <2>5 DEF FundsInv
    <3>2. orders[i].token \in Token /\ Left(i) \in Nat /\ Fee * Left(i) \in Nat
      <4>1. OrdersType
        BY DEF TypeOK
      <4>2. orders[i].token \in Token /\ Left(i) \in Nat
        BY <2>5, <4>1, OrderFields, LeftType
      <4> QED BY <4>2, ConstantsType, Times
    <3>3. CASE orders[i].side = "buy"
      <4>1. PICK l \in Nat, x \in Nat : l = Left(i) /\ x = Fee * Left(i)
        BY <3>2
      <4>2. l + x <= cash
        BY <3>1, <3>3, <4>1 DEF Covered
      <4>3. cash' \in Int
        BY <2>2, <2>3
      <4>4. l + x <= cash'
        BY <2>3, <4>1, <4>2, <4>3
      <4> QED BY <3>1, <3>3, <4>1, <4>4 DEF Covered
    <3>4. CASE orders[i].side # "buy"
      BY <2>1, <2>4, <3>1, <3>2, <3>4 DEF Covered
    <3> QED BY <3>3, <3>4
  <2> QED BY <1>0, <2>1, <2>5, <2>6 DEF FundsInv
<1>6. ASSUME NEW t \in Token, NEW amount \in 1 .. MaxOrderSize, Enter(t, amount)
      PROVE  FundsInv'
  <2>1. PICK o : o = [side |-> "buy", token |-> t, amount |-> amount, used |-> 0, open |-> TRUE]
    OBVIOUS
  <2>2. o \in Order /\ o.used = 0 /\ o.open = TRUE /\ o.side = "buy" /\ o.amount = amount
    BY <2>1, ConstantsType DEF Order
  <2>3. /\ Submit(o) /\ pc = "trading"
        /\ UNCHANGED <<limit, shares, cash, settled, batch, killed, odd>>
    BY <1>6, <2>1 DEF Enter, configVars, botVars, coreVars
  <2>4. PendingBuy = 0
    <3>1. Open = {}
      BY <1>0, <2>3, NoneOpen DEF Submit
    <3>2. OpenBuys = {}
      BY <3>1 DEF OpenBuys
    <3>3. PendingBuy = SumFunctionOnSet(Lefts, OpenBuys)
      BY PendingSum DEF TypeOK
    <3> QED BY <3>2, <3>3, SumZero, FS_EmptySet
  <2>5. amount + Fee * amount <= cash
    <3>1. amount * (BuyLimit + Fee) <= (cash - PendingBuy - Reserve) * BuyLimit
      BY <1>6 DEF Enter, Caps
    <3>2. /\ cash \in Int /\ Reserve \in Nat /\ BuyLimit \in Nat \ {0} /\ Fee \in Nat
          /\ MaxOrderSize \in Nat /\ amount \in Nat /\ amount <= MaxOrderSize
      BY LedgerAssumption DEF TypeOK, PortfolioType
    <3>3. cash - PendingBuy - Reserve = cash - Reserve
      BY <2>4, <3>2
    <3>4. amount * (BuyLimit + Fee) <= (cash - Reserve) * BuyLimit
      BY <3>1, <3>3
    <3> QED BY <3>2, <3>4, ReserveArithmetic DEF ReserveCoversFees
  <2> QED BY <1>0, <2>2, <2>3, <2>5, FundsSubmit
<1>7. ASSUME NEW t \in Token, Exit(t) PROVE FundsInv'
  <2>1. PICK o : o = [side |-> "sell", token |-> t, amount |-> shares[t], used |-> 0, open |-> TRUE]
    OBVIOUS
  <2>2. o \in Order /\ o.used = 0 /\ o.open = TRUE
    BY <2>1 DEF Order, TypeOK, PortfolioType
  <2>3. /\ Submit(o) /\ pc = "trading"
        /\ UNCHANGED <<limit, shares, cash, settled, batch, killed, odd>>
    BY <1>7, <2>1 DEF Exit, configVars, botVars, coreVars
  <2>4. o.side # "buy" /\ o.amount <= shares[o.token]
    BY <2>1 DEF TypeOK, PortfolioType
  <2> QED BY <1>0, <2>2, <2>3, <2>4, FundsSubmit
<1>8. CASE UNCHANGED vars
  BY <1>1, <1>8 DEF vars, botVars, coreVars
<1>9. CASE Outside
  BY <1>1, <1>9 DEF Outside, Match, Finish, WindowEnds, Resolve, Redeem, Reverse, botVars, coreVars
<1>10. CASE \/ FetchDone \/ ApplyDone \/ SettleDone \/ ReadBalance \/ SkipReconcile
            \/ SnapshotFails \/ Compare \/ CompareIncomplete \/ StepDone
            \/ \E i \in DOMAIN orders : Fetch(i)
  BY <1>1, <1>10 DEF FetchDone, ApplyDone, SettleDone, ReadBalance, SkipReconcile,
     SnapshotFails, Compare, CompareIncomplete, StepDone, Fetch, botVars, coreVars
<1> QED BY <1>2, <1>3, <1>4, <1>5, <1>6, <1>7, <1>8, <1>9, <1>10 DEF Next, Step

(* With one order in flight and a reserve that covers the fees, the        *)
(* accounting never breaks, whatever is filled at which price, settled,    *)
(* redeemed or undone, except on a sale reported after the settlement.     *)
THEOREM AccountingStands == ReserveCoversFees => (Spec => []AccountingHolds)
<1> SUFFICES ASSUME ReserveCoversFees PROVE Spec => []AccountingHolds
  OBVIOUS
<1>1. Init => FundsInv
  BY DEF Init, FundsInv, Open
<1>2. IInv /\ FlightInv /\ FundsInv /\ [Next]_vars => FundsInv'
  BY FundsStep DEF IInv, FlightInv
<1>3. FundsInv => AccountingHolds
  BY DEF FundsInv, AccountingHolds
<1> QED BY <1>1, <1>2, <1>3, FlightInvariance, PTL DEF Spec

-----------------------------------------------------------------------------
(* What the bot has not booked yet of what the venue has traded.           *)

(* The money a share brings or costs. *)
Flow(side, price) == IF side = "buy" THEN 0 - price - Fee ELSE price - Fee
Sign(side) == IF side = "buy" THEN 1 ELSE -1

(* Of an open order o with n trades booked, of those the venue's side v    *)
(* has: the shares and the money still to be booked.                       *)
DueShares(o, v, n) ==
  IF ~o.open THEN 0 ELSE IF o.side = "buy" THEN Len(v.trades) - n ELSE n - Len(v.trades)
Flows(o, v) == [k \in DOMAIN v.trades |-> Flow(o.side, v.trades[k])]
DueCash(o, v, n) ==
  IF ~o.open THEN 0 ELSE SumFunctionOnSet(Flows(o, v), n + 1 .. Len(v.trades))

LEMMA DueOf ==
  ASSUME NEW o \in Order, NEW v \in VenueOrder, NEW n \in 0 .. Len(v.trades)
  PROVE  /\ Len(v.trades) \in Nat /\ DOMAIN v.trades = 1 .. Len(v.trades)
         /\ \A k \in 1 .. Len(v.trades) : v.trades[k] \in Prices /\ Flow(o.side, v.trades[k]) \in Int
         /\ Flows(o, v) = [k \in 1 .. Len(v.trades) |-> Flow(o.side, v.trades[k])]
         /\ IsFiniteSet(n + 1 .. Len(v.trades))
         /\ DueShares(o, v, n) \in Int /\ DueCash(o, v, n) \in Int
         /\ n = Len(v.trades) => DueShares(o, v, n) = 0 /\ DueCash(o, v, n) = 0
<1>1. v.trades \in Seq(Prices)
  BY DEF VenueOrder
<1>2. Len(v.trades) \in Nat /\ DOMAIN v.trades = 1 .. Len(v.trades) /\ n \in Nat
  BY <1>1, LenProperties
<1>3. ASSUME NEW k \in 1 .. Len(v.trades)
      PROVE  v.trades[k] \in Prices /\ Flow(o.side, v.trades[k]) \in Int
  <2>1. v.trades[k] \in Prices
    BY <1>1, ElementOfSeq
  <2>2. v.trades[k] \in Nat /\ Fee \in Nat
    BY <2>1, ConstantsType
  <2> QED BY <2>1, <2>2 DEF Flow
<1>4. Flows(o, v) = [k \in 1 .. Len(v.trades) |-> Flow(o.side, v.trades[k])]
  BY <1>2 DEF Flows
<1>5. IsFiniteSet(n + 1 .. Len(v.trades))
  BY <1>2, FS_Interval
<1>6. DueShares(o, v, n) \in Int /\ (n = Len(v.trades) => DueShares(o, v, n) = 0)
  BY <1>2 DEF DueShares
<1>7. SumFunctionOnSet(Flows(o, v), n + 1 .. Len(v.trades)) \in Int
  <2>1. \A k \in n + 1 .. Len(v.trades) : Flows(o, v)[k] \in Int
    BY <1>2, <1>3, <1>4
  <2> QED BY <1>5, <2>1, SumType
<1>8. n = Len(v.trades) => DueCash(o, v, n) = 0
  <2> SUFFICES ASSUME n = Len(v.trades) PROVE DueCash(o, v, n) = 0
    OBVIOUS
  <2>1. n + 1 .. Len(v.trades) = {}
    BY <1>2
  <2>2. SumFunctionOnSet(Flows(o, v), {}) = 0
    BY FS_EmptySet, SumZero
  <2> QED BY <2>1, <2>2 DEF DueCash
<1>9. DueCash(o, v, n) \in Int
  BY <1>7 DEF DueCash
<1> QED BY <1>2, <1>3, <1>4, <1>5, <1>6, <1>8, <1>9

(* One more trade of the venue. *)
LEMMA DueMore ==
  ASSUME NEW o \in Order, NEW v \in VenueOrder, NEW n \in 0 .. Len(v.trades), o.open,
         NEW w \in VenueOrder, NEW p \in Prices, w.trades = Append(v.trades, p)
  PROVE  /\ DueShares(o, w, n) = DueShares(o, v, n) + Sign(o.side)
         /\ DueCash(o, w, n) = DueCash(o, v, n) + Flow(o.side, p)
         /\ n \in 0 .. Len(w.trades)
<1> DEFINE l == Len(v.trades)
<1>1. v.trades \in Seq(Prices)
  BY DEF VenueOrder
<1>2. /\ Len(w.trades) = l + 1 /\ l \in Nat /\ n \in Nat /\ n <= l
      /\ w.trades[l + 1] = p /\ \A k \in 1 .. l : w.trades[k] = v.trades[k]
  BY <1>1, AppendProperties, LenProperties
<1>3. n \in 0 .. Len(w.trades)
  BY <1>2
<1>4. DueShares(o, w, n) = DueShares(o, v, n) + Sign(o.side)
  BY <1>2 DEF DueShares, Sign
<1>5. PICK S : S = n + 1 .. l + 1
  OBVIOUS
<1>6. PICK T : T = n + 1 .. l
  OBVIOUS
<1>7. S \ {l + 1} = T /\ l + 1 \in S /\ IsFiniteSet(S) /\ IsFiniteSet(T)
  <2>1. l \in Int /\ l + 1 \in Int /\ n + 1 \in Int
    BY <1>2
  <2>2. IsFiniteSet(n + 1 .. l + 1) /\ IsFiniteSet(n + 1 .. l)
    BY <2>1, FS_Interval
  <2>3. (n + 1 .. l + 1) \ {l + 1} = n + 1 .. l /\ l + 1 \in n + 1 .. l + 1
    <3> HIDE DEF l
    <3> QED BY <1>2
  <2> QED BY <1>5, <1>6, <2>2, <2>3
<1>8. PICK f : f = Flows(o, w)
  OBVIOUS
<1>9. PICK g : g = Flows(o, v)
  OBVIOUS
<1>10. \A k \in S : f[k] \in Int
  <2> SUFFICES ASSUME NEW k \in S PROVE f[k] \in Int
    OBVIOUS
  <2>1. k \in 1 .. Len(w.trades)
    BY <1>2, <1>5
  <2>2. f = [x \in 1 .. Len(w.trades) |-> Flow(o.side, w.trades[x])]
    BY <1>3, <1>8, DueOf
  <2>3. Flow(o.side, w.trades[k]) \in Int
    BY <1>3, <2>1, DueOf
  <2> QED BY <2>1, <2>2, <2>3
<1>11. \A k \in T : f[k] = g[k]
  <2> SUFFICES ASSUME NEW k \in T PROVE f[k] = g[k]
    OBVIOUS
  <2>1. k \in 1 .. l /\ k \in 1 .. Len(w.trades)
    BY <1>2, <1>6
  <2>2. f[k] = Flow(o.side, w.trades[k]) /\ g[k] = Flow(o.side, v.trades[k])
    BY <1>3, <1>8, <1>9, <2>1, DueOf
  <2> QED BY <1>2, <2>1, <2>2
<1>12. SumFunctionOnSet(f, S) = f[l + 1] + SumFunctionOnSet(f, T)
  BY <1>7, <1>10, SumRemove
<1>13. SumFunctionOnSet(f, T) = SumFunctionOnSet(g, T)
  BY <1>7, <1>11, SumSame
<1>14. f[l + 1] = Flow(o.side, p)
  <2>1. l + 1 \in 1 .. Len(w.trades)
    BY <1>2
  <2> QED BY <1>2, <1>3, <1>8, <2>1, DueOf
<1>15. DueCash(o, w, n) = SumFunctionOnSet(f, S) /\ DueCash(o, v, n) = SumFunctionOnSet(g, T)
  BY <1>2, <1>5, <1>6, <1>8, <1>9 DEF DueCash
<1>16. DueCash(o, v, n) \in Int /\ f[l + 1] \in Int
  BY <1>7, <1>10, DueOf
<1> HIDE DEF l
<1> QED BY <1>3, <1>4, <1>12, <1>13, <1>14, <1>15, <1>16

(* One more trade booked. *)
LEMMA DueLess ==
  ASSUME NEW o \in Order, NEW v \in VenueOrder, NEW n \in 0 .. Len(v.trades), o.open,
         n < Len(v.trades)
  PROVE  /\ n + 1 \in 0 .. Len(v.trades) /\ v.trades[n + 1] \in Prices
         /\ DueShares(o, v, n + 1) = DueShares(o, v, n) - Sign(o.side)
         /\ DueCash(o, v, n + 1) = DueCash(o, v, n) - Flow(o.side, v.trades[n + 1])
<1> DEFINE l == Len(v.trades)
<1>1. l \in Nat /\ n \in Nat /\ n + 1 \in 1 .. l /\ n + 1 \in 0 .. l
  BY DueOf
<1>2. DueShares(o, v, n + 1) = DueShares(o, v, n) - Sign(o.side)
  BY <1>1 DEF DueShares, Sign
<1>3. PICK S : S = n + 1 .. l
  OBVIOUS
<1>4. PICK T : T = (n + 1) + 1 .. l
  OBVIOUS
<1>5. S \ {n + 1} = T /\ n + 1 \in S /\ IsFiniteSet(S)
  <2>1. IsFiniteSet(n + 1 .. l)
    BY DueOf
  <2>2. (n + 1 .. l) \ {n + 1} = (n + 1) + 1 .. l /\ n + 1 \in n + 1 .. l
    <3> HIDE DEF l
    <3> QED BY <1>1
  <2> QED BY <1>3, <1>4, <2>1, <2>2
<1>6. PICK f : f = Flows(o, v)
  OBVIOUS
<1>7. /\ \A k \in S : f[k] \in Int
      /\ f[n + 1] = Flow(o.side, v.trades[n + 1]) /\ v.trades[n + 1] \in Prices
  <2>1. /\ f = [k \in 1 .. l |-> Flow(o.side, v.trades[k])]
        /\ \A k \in 1 .. l : v.trades[k] \in Prices /\ Flow(o.side, v.trades[k]) \in Int
    BY <1>6, DueOf
  <2>2. S \subseteq 1 .. l
    <3> HIDE DEF l
    <3> QED BY <1>1, <1>3
  <2> QED BY <1>1, <2>1, <2>2
<1>8. SumFunctionOnSet(f, S) = f[n + 1] + SumFunctionOnSet(f, T)
  BY <1>5, <1>7, SumRemove
<1>9. DueCash(o, v, n) = SumFunctionOnSet(f, S) /\ DueCash(o, v, n + 1) = SumFunctionOnSet(f, T)
  BY <1>3, <1>4, <1>6 DEF DueCash
<1>10. DueCash(o, v, n) \in Int /\ DueCash(o, v, n + 1) \in Int /\ f[n + 1] \in Int
  BY <1>1, <1>5, <1>7, DueOf
<1> HIDE DEF l
<1> QED BY <1>1, <1>2, <1>7, <1>8, <1>9, <1>10

(* Over all orders, when n[i] trades of order i are booked. *)
TotalShares(os, vs, n, t) ==
  SumFunctionOnSet([i \in DOMAIN os |->
                      IF os[i].token = t THEN DueShares(os[i], vs[i], n[i]) ELSE 0], DOMAIN os)
TotalCash(os, vs, n) ==
  SumFunctionOnSet([i \in DOMAIN os |-> DueCash(os[i], vs[i], n[i])], DOMAIN os)

(* The totals follow the one order that changes.                           *)
OneMoves(os, vs, n, os2, vs2, n2, i, x, y) ==
  /\ IsFiniteSet(DOMAIN os) /\ DOMAIN os2 = DOMAIN os /\ i \in DOMAIN os /\ x \in Int /\ y \in Int
  /\ \A j \in DOMAIN os : /\ os2[j].token = os[j].token
                          /\ DueShares(os[j], vs[j], n[j]) \in Int
                          /\ DueCash(os[j], vs[j], n[j]) \in Int
  /\ \A j \in DOMAIN os \ {i} :
        /\ DueShares(os2[j], vs2[j], n2[j]) = DueShares(os[j], vs[j], n[j])
        /\ DueCash(os2[j], vs2[j], n2[j]) = DueCash(os[j], vs[j], n[j])
  /\ DueShares(os2[i], vs2[i], n2[i]) = DueShares(os[i], vs[i], n[i]) + x
  /\ DueCash(os2[i], vs2[i], n2[i]) = DueCash(os[i], vs[i], n[i]) + y
TotalsMove(os, vs, n, os2, vs2, n2, i, x, y) ==
  /\ \A t : /\ TotalShares(os, vs, n, t) \in Int
            /\ TotalShares(os2, vs2, n2, t)
                 = TotalShares(os, vs, n, t) + IF os[i].token = t THEN x ELSE 0
  /\ TotalCash(os, vs, n) \in Int
  /\ TotalCash(os2, vs2, n2) = TotalCash(os, vs, n) + y

LEMMA TotalsStep ==
  ASSUME NEW os, NEW vs, NEW n, NEW os2, NEW vs2, NEW n2, NEW i, NEW x, NEW y,
         OneMoves(os, vs, n, os2, vs2, n2, i, x, y)
  PROVE  TotalsMove(os, vs, n, os2, vs2, n2, i, x, y)
<1>0. PICK S : S = DOMAIN os /\ S = DOMAIN os2 /\ IsFiniteSet(S) /\ i \in S
  BY DEF OneMoves
<1> USE <1>0 DEF OneMoves
<1>1. ASSUME NEW t
      PROVE  /\ TotalShares(os, vs, n, t) \in Int
             /\ TotalShares(os2, vs2, n2, t)
                  = TotalShares(os, vs, n, t) + IF os[i].token = t THEN x ELSE 0
  <2>1. PICK f : f = [j \in S |-> IF os[j].token = t THEN DueShares(os[j], vs[j], n[j]) ELSE 0]
    OBVIOUS
  <2>2. PICK g : g = [j \in S |-> IF os2[j].token = t THEN DueShares(os2[j], vs2[j], n2[j]) ELSE 0]
    OBVIOUS
  <2>3. PICK z \in Int : z = IF os[i].token = t THEN x ELSE 0
    OBVIOUS
  <2>4. \A j \in S : f[j] \in Int
    BY <2>1
  <2>5. \A j \in S \ {i} : g[j] = f[j]
    BY <2>1, <2>2
  <2>6. g[i] = f[i] + z /\ f[i] \in Int /\ g[i] \in Int
    BY <2>1, <2>2, <2>3, <2>4
  <2>7. SumFunctionOnSet(g, S) = SumFunctionOnSet(f, S) - f[i] + g[i]
    BY <2>4, <2>5, <2>6, SumChange
  <2>8. SumFunctionOnSet(f, S) \in Int
    BY <2>4, SumType
  <2>9. SumFunctionOnSet(g, S) = SumFunctionOnSet(f, S) + z
    BY <2>6, <2>7, <2>8
  <2>10. TotalShares(os2, vs2, n2, t) = SumFunctionOnSet(g, S)
         /\ TotalShares(os, vs, n, t) = SumFunctionOnSet(f, S)
    BY <2>1, <2>2 DEF TotalShares
  <2> QED BY <2>3, <2>8, <2>9, <2>10
<1>2. TotalCash(os, vs, n) \in Int /\ TotalCash(os2, vs2, n2) = TotalCash(os, vs, n) + y
  <2>1. PICK f : f = [j \in S |-> DueCash(os[j], vs[j], n[j])]
    OBVIOUS
  <2>2. PICK g : g = [j \in S |-> DueCash(os2[j], vs2[j], n2[j])]
    OBVIOUS
  <2>4. \A j \in S : f[j] \in Int
    BY <2>1
  <2>5. \A j \in S \ {i} : g[j] = f[j]
    BY <2>1, <2>2
  <2>6. g[i] = f[i] + y /\ f[i] \in Int /\ g[i] \in Int
    BY <2>1, <2>2, <2>4
  <2>7. SumFunctionOnSet(g, S) = SumFunctionOnSet(f, S) - f[i] + g[i]
    BY <2>4, <2>5, <2>6, SumChange
  <2>8. SumFunctionOnSet(f, S) \in Int
    BY <2>4, SumType
  <2>9. SumFunctionOnSet(g, S) = SumFunctionOnSet(f, S) + y
    BY <2>6, <2>7, <2>8
  <2>10. TotalCash(os2, vs2, n2) = SumFunctionOnSet(g, S)
         /\ TotalCash(os, vs, n) = SumFunctionOnSet(f, S)
    BY <2>1, <2>2 DEF TotalCash
  <2> QED BY <2>8, <2>9, <2>10
<1> QED BY <1>1, <1>2 DEF TotalsMove

(* A new order has nothing to be booked.                                   *)
LEMMA TotalsNew ==
  ASSUME NEW os, NEW vs, NEW n, NEW os2, NEW vs2, NEW n2, NEW S, IsFiniteSet(S),
         S = DOMAIN os, NEW m, m \notin S, DOMAIN os2 = S \union {m},
         \A j \in S : /\ os2[j].token = os[j].token
                      /\ DueShares(os[j], vs[j], n[j]) \in Int
                      /\ DueCash(os[j], vs[j], n[j]) \in Int
                      /\ DueShares(os2[j], vs2[j], n2[j]) = DueShares(os[j], vs[j], n[j])
                      /\ DueCash(os2[j], vs2[j], n2[j]) = DueCash(os[j], vs[j], n[j]),
         DueShares(os2[m], vs2[m], n2[m]) = 0, DueCash(os2[m], vs2[m], n2[m]) = 0
  PROVE  /\ \A t : TotalShares(os2, vs2, n2, t) = TotalShares(os, vs, n, t)
         /\ TotalCash(os2, vs2, n2) = TotalCash(os, vs, n)
<1>1. PICK R : R = S \union {m}
  OBVIOUS
<1>2. IsFiniteSet(R) /\ m \in R /\ R \ {m} = S
  BY <1>1, FS_AddElement
<1>3. ASSUME NEW t PROVE TotalShares(os2, vs2, n2, t) = TotalShares(os, vs, n, t)
  <2>1. PICK f : f = [j \in S |-> IF os[j].token = t THEN DueShares(os[j], vs[j], n[j]) ELSE 0]
    OBVIOUS
  <2>2. PICK g : g = [j \in R |-> IF os2[j].token = t THEN DueShares(os2[j], vs2[j], n2[j]) ELSE 0]
    OBVIOUS
  <2>3. \A j \in S : f[j] \in Int /\ g[j] = f[j]
    BY <1>1, <2>1, <2>2
  <2>4. g[m] = 0 /\ \A j \in R : g[j] \in Int
    BY <1>1, <2>2, <2>3
  <2>5. SumFunctionOnSet(g, R) = g[m] + SumFunctionOnSet(g, S)
    BY <1>2, <2>4, SumRemove
  <2>6. SumFunctionOnSet(g, S) = SumFunctionOnSet(f, S) /\ SumFunctionOnSet(f, S) \in Int
    BY <2>3, SumSame, SumType
  <2>7. TotalShares(os2, vs2, n2, t) = SumFunctionOnSet(g, R)
        /\ TotalShares(os, vs, n, t) = SumFunctionOnSet(f, S)
    BY <1>1, <2>1, <2>2 DEF TotalShares
  <2> QED BY <2>4, <2>5, <2>6, <2>7
<1>4. TotalCash(os2, vs2, n2) = TotalCash(os, vs, n)
  <2>1. PICK f : f = [j \in S |-> DueCash(os[j], vs[j], n[j])]
    OBVIOUS
  <2>2. PICK g : g = [j \in R |-> DueCash(os2[j], vs2[j], n2[j])]
    OBVIOUS
  <2>3. \A j \in S : f[j] \in Int /\ g[j] = f[j]
    BY <1>1, <2>1, <2>2
  <2>4. g[m] = 0 /\ \A j \in R : g[j] \in Int
    BY <1>1, <2>2, <2>3
  <2>5. SumFunctionOnSet(g, R) = g[m] + SumFunctionOnSet(g, S)
    BY <1>2, <2>4, SumRemove
  <2>6. SumFunctionOnSet(g, S) = SumFunctionOnSet(f, S) /\ SumFunctionOnSet(f, S) \in Int
    BY <2>3, SumSame, SumType
  <2>7. TotalCash(os2, vs2, n2) = SumFunctionOnSet(g, R)
        /\ TotalCash(os, vs, n) = SumFunctionOnSet(f, S)
    BY <1>1, <2>1, <2>2 DEF TotalCash
  <2> QED BY <2>4, <2>5, <2>6, <2>7
<1> QED BY <1>3, <1>4

(* Event k of the batch is event x of its open order, and not booked yet.  *)
Queued(n, k, x) ==
  LET i == batch[k].i
  IN  /\ i \in Open /\ n[i] < x /\ x <= venue[i].seen
      /\ IF batch[k].type = "fill"
         THEN x <= Len(venue[i].trades) /\ batch[k].price = venue[i].trades[x]
         ELSE x = Len(venue[i].trades) + 1
Covers(n, nth, i) ==
  \A x \in n[i] + 1 .. venue[i].seen : \E k \in DOMAIN batch : batch[k].i = i /\ nth[k] = x

(* The batch has what was fetched and not booked, no more and no less.     *)
InBatch(n, nth) ==
  /\ nth \in [DOMAIN batch -> Nat \ {0}]
  /\ \A k \in DOMAIN batch : Queued(n, k, nth[k])
  /\ InOrder(nth)
  /\ \A i \in Open : Covers(n, nth, i)

(* n[i] trades of order i are booked.                                      *)
BookedOrder(n, i) ==
  /\ n[i] \in 0 .. Len(venue[i].trades) /\ n[i] <= venue[i].seen
  /\ i \notin Open => venue[i].done
Booked(n) ==
  /\ n \in [DOMAIN orders -> Nat]
  /\ \A i \in DOMAIN orders : BookedOrder(n, i)
  /\ \E nth : InBatch(n, nth)

Due(e, c) ==
  \E n : /\ Booked(n)
         /\ \A t \in Token : e[t] = TotalShares(orders, venue, n, t)
         /\ c = TotalCash(orders, venue, n)

LEMMA BookedType ==
  ASSUME OrdersType, NEW n, Booked(n)
  PROVE  /\ IsFiniteSet(DOMAIN orders)
         /\ \A i \in DOMAIN orders :
              /\ orders[i] \in Order /\ venue[i] \in VenueOrder
              /\ n[i] \in 0 .. Len(venue[i].trades)
              /\ DueShares(orders[i], venue[i], n[i]) \in Int
              /\ DueCash(orders[i], venue[i], n[i]) \in Int
<1>1. \A i \in DOMAIN orders : /\ orders[i] \in Order /\ venue[i] \in VenueOrder
                               /\ n[i] \in 0 .. Len(venue[i].trades)
  BY OrderFields DEF Booked, BookedOrder
<1>2. IsFiniteSet(DOMAIN orders)
  BY LenProperties, FS_Interval DEF OrdersType
<1> QED BY <1>1, <1>2, DueOf

(* A step that leaves the trades and the open orders alone changes nothing *)
(* that is due.                                                            *)
LEMMA DueSame ==
  ASSUME OrdersType, NEW n, Booked(n), DOMAIN orders' = DOMAIN orders,
         NEW i \in DOMAIN orders,
         \A j \in DOMAIN orders :
           /\ orders'[j].token = orders[j].token
           /\ j # i => DueShares(orders'[j], venue'[j], n[j]) = DueShares(orders[j], venue[j], n[j])
           /\ j # i => DueCash(orders'[j], venue'[j], n[j]) = DueCash(orders[j], venue[j], n[j]),
         DueShares(orders'[i], venue'[i], n[i]) = DueShares(orders[i], venue[i], n[i]),
         DueCash(orders'[i], venue'[i], n[i]) = DueCash(orders[i], venue[i], n[i])
  PROVE  /\ \A t : TotalShares(orders, venue, n, t)' = TotalShares(orders, venue, n, t)
         /\ TotalCash(orders, venue, n)' = TotalCash(orders, venue, n)
<1>1. PICK os : os = orders
  OBVIOUS
<1>2. PICK vs : vs = venue
  OBVIOUS
<1>3. PICK os2 : os2 = orders'
  OBVIOUS
<1>4. PICK vs2 : vs2 = venue'
  OBVIOUS
<1>5. DOMAIN os2 = DOMAIN os /\ IsFiniteSet(DOMAIN os) /\ i \in DOMAIN os
  BY <1>1, <1>3, BookedType
<1>6. \A j \in DOMAIN os : /\ os2[j].token = os[j].token
                           /\ DueShares(os[j], vs[j], n[j]) \in Int
                           /\ DueCash(os[j], vs[j], n[j]) \in Int
  BY <1>1, <1>2, <1>3, <1>5, BookedType
<1>7. \A j \in DOMAIN os : /\ DueShares(os2[j], vs2[j], n[j]) = DueShares(os[j], vs[j], n[j])
                           /\ DueCash(os2[j], vs2[j], n[j]) = DueCash(os[j], vs[j], n[j])
  BY <1>1, <1>2, <1>3, <1>4, <1>5
<1>8. OneMoves(os, vs, n, os2, vs2, n, i, 0, 0)
  BY <1>5, <1>6, <1>7 DEF OneMoves
<1>9. TotalsMove(os, vs, n, os2, vs2, n, i, 0, 0)
  BY <1>8, TotalsStep
<1>10. /\ \A t : TotalShares(os2, vs2, n, t) = TotalShares(os, vs, n, t)
       /\ TotalCash(os2, vs2, n) = TotalCash(os, vs, n)
  BY <1>9 DEF TotalsMove
<1> QED BY <1>1, <1>2, <1>3, <1>4, <1>10

(* Fetching an event books nothing.                                        *)
LEMMA FetchDue ==
  ASSUME TypeOK, BatchInv, AmountInv, NEW i \in DOMAIN orders, Fetch(i), NEW e, NEW c, Due(e, c)
  PROVE  Due(e, c)'
<1>1. OrdersType /\ batch \in Seq(Event) /\ UNCHANGED orders /\ i \in Open
  BY DEF TypeOK, StepType, Fetch
<1>2. PICK ev \in Event, x \in Nat \ {0} :
           /\ ev = Head(Unseen(i)) /\ ev.i = i /\ x = venue[i].seen + 1
           /\ \/ ev.type = "fill" /\ x <= Len(venue[i].trades) /\ ev.price = venue[i].trades[x]
              \/ ev.type = "end" /\ venue[i].done /\ x = Len(venue[i].trades) + 1
  BY <1>1, NextEvent DEF Fetch, AmountInv
<1>3. batch' = Append(batch, ev)
  BY <1>2 DEF Fetch
<1>4. PICK v : v = [venue[i] EXCEPT !.seen = @ + 1]
  OBVIOUS
<1>5. venue' = [venue EXCEPT ![i] = v] /\ venue[i] \in VenueOrder /\ venue \in Seq(VenueOrder)
      /\ i \in DOMAIN venue
  BY <1>1, <1>4, OrderFields DEF Fetch, OrdersType
<1>6. v.trades = venue[i].trades /\ v.left = venue[i].left /\ v.seen = x
  BY <1>2, <1>4, <1>5 DEF VenueOrder
<1>7. v.done = venue[i].done
  BY <1>4, <1>5 DEF VenueOrder
<1>8. venue'[i] = v /\ \A j \in DOMAIN orders : j # i => venue'[j] = venue[j]
  BY <1>5
<1>9. \A j \in DOMAIN orders : /\ venue'[j].trades = venue[j].trades
                               /\ venue'[j].done = venue[j].done
                               /\ j # i => venue'[j].seen = venue[j].seen
  BY <1>6, <1>7, <1>8
<1>10. venue[i].seen \in Nat /\ venue'[i].seen = x /\ x = venue[i].seen + 1
  BY <1>1, <1>2, <1>6, <1>8, OrderFields
<1>11. Open' = Open
  BY <1>1 DEF Open
<1>12. PICK n : /\ Booked(n)
                /\ \A t \in Token : e[t] = TotalShares(orders, venue, n, t)
                /\ c = TotalCash(orders, venue, n)
  BY DEF Due
<1>13. PICK nth : InBatch(n, nth)
  BY <1>12 DEF Booked
<1>14. PICK last : last = Len(batch) + 1
  OBVIOUS
<1>15. /\ DOMAIN batch' = DOMAIN batch \union {last} /\ last \notin DOMAIN batch
       /\ batch'[last] = ev /\ \A k \in DOMAIN batch : k < last /\ batch'[k] = batch[k]
       /\ \A k \in DOMAIN batch' : ~(last < k)
  BY <1>1, <1>3, <1>14
<1>16. PICK mth : mth = [k \in DOMAIN batch' |-> IF k = last THEN x ELSE nth[k]]
  OBVIOUS
<1>17. mth \in [DOMAIN batch' -> Nat \ {0}]
  BY <1>13, <1>15, <1>16 DEF InBatch
<1>18. \A j \in DOMAIN orders : BookedOrder(n, j)
  BY <1>12 DEF Booked
<1>19. ASSUME NEW k \in DOMAIN batch' PROVE Queued(n, k, mth[k])'
  <2>1. CASE k # last
    <3>1. PICK m \in Nat \ {0} : m = nth[k] /\ mth[k] = m /\ Queued(n, k, m)
      BY <1>13, <1>15, <1>16, <2>1 DEF InBatch
    <3>2. PICK j : j = batch[k].i /\ j = batch'[k].i
      BY <1>15, <2>1
    <3>3. j \in Open /\ j \in DOMAIN orders /\ m <= venue[j].seen
      BY <3>1, <3>2 DEF Queued, Open
    <3>4. m <= venue'[j].seen
      BY <1>9, <1>10, <3>3
    <3>5. batch'[k] = batch[k]
      BY <1>15, <2>1
    <3>6. venue'[j].trades = venue[j].trades
      BY <1>9, <3>3
    <3> QED BY <1>11, <3>1, <3>2, <3>3, <3>4, <3>5, <3>6 DEF Queued
  <2>2. CASE k = last
    <3>1. mth[k] = x /\ batch'[k] = ev
      BY <1>15, <1>16, <2>2
    <3>2. n[i] < x
      BY <1>10, <1>18 DEF BookedOrder
    <3>3. venue'[i].trades = venue[i].trades
      BY <1>9
    <3>4. x <= venue'[i].seen
      BY <1>10
    <3> QED BY <1>1, <1>2, <1>11, <3>1, <3>2, <3>3, <3>4 DEF Queued
  <2> QED BY <2>1, <2>2
<1>20. InOrder(mth)'
  <2> SUFFICES ASSUME NEW k \in DOMAIN batch', NEW l \in DOMAIN batch', k < l,
                      batch'[k].i = batch'[l].i
               PROVE  mth[k] < mth[l]
    BY DEF InOrder
  <2>1. k \in DOMAIN batch /\ mth[k] = nth[k] /\ batch'[k] = batch[k]
    BY <1>15, <1>16
  <2>2. CASE l # last
    BY <1>13, <1>15, <1>16, <2>1, <2>2 DEF InOrder, InBatch
  <2>3. CASE l = last
    <3>1. Queued(n, k, nth[k]) /\ batch[k].i = i /\ nth[k] \in Nat
      BY <1>2, <1>13, <1>15, <2>1, <2>3 DEF InBatch
    <3>2. nth[k] <= venue[i].seen
      BY <3>1 DEF Queued
    <3> QED BY <1>10, <1>15, <1>16, <2>1, <2>3, <3>1, <3>2
  <2> QED BY <2>2, <2>3
<1>21. ASSUME NEW j \in Open PROVE Covers(n, mth, j)'
  <2>0. j \in DOMAIN orders /\ Covers(n, nth, j) /\ n[j] \in Nat /\ venue[j].seen \in Nat
    <3>1. j \in DOMAIN orders
      BY DEF Open
    <3> QED BY <3>1, <1>1, <1>12, <1>13, OrderFields DEF InBatch, Booked
  <2> SUFFICES ASSUME NEW y \in n[j] + 1 .. venue'[j].seen
               PROVE  \E k \in DOMAIN batch' : batch'[k].i = j /\ mth[k] = y
    BY DEF Covers
  <2>1. CASE y \in n[j] + 1 .. venue[j].seen
    <3>1. PICK k \in DOMAIN batch : batch[k].i = j /\ nth[k] = y
      BY <2>0, <2>1 DEF Covers
    <3>2. k \in DOMAIN batch' /\ batch'[k] = batch[k] /\ mth[k] = nth[k]
      BY <1>15, <1>16
    <3> QED BY <3>1, <3>2
  <2>2. CASE y \notin n[j] + 1 .. venue[j].seen
    <3>1. j = i
      BY <1>9, <2>0, <2>2
    <3>2. y = x
      BY <1>10, <2>0, <2>2, <3>1
    <3> QED BY <1>2, <1>15, <1>16, <3>1, <3>2
  <2> QED BY <2>1, <2>2
<1>22. InBatch(n, mth)'
  BY <1>11, <1>17, <1>19, <1>20, <1>21 DEF InBatch
<1>23. ASSUME NEW j \in DOMAIN orders PROVE BookedOrder(n, j)'
  <2>1. BookedOrder(n, j) /\ venue[j].seen \in Nat /\ n[j] \in Nat
    BY <1>1, <1>12, <1>18, OrderFields DEF Booked
  <2>2. n[j] <= venue'[j].seen
    BY <1>9, <1>10, <2>1 DEF BookedOrder
  <2>3. venue'[j].trades = venue[j].trades /\ venue'[j].done = venue[j].done
    BY <1>9
  <2> QED BY <1>11, <2>1, <2>2, <2>3 DEF BookedOrder
<1>24. Booked(n)'
  BY <1>1, <1>12, <1>22, <1>23 DEF Booked
<1>25. ASSUME NEW j \in DOMAIN orders
       PROVE  /\ orders'[j].token = orders[j].token
              /\ DueShares(orders'[j], venue'[j], n[j]) = DueShares(orders[j], venue[j], n[j])
              /\ DueCash(orders'[j], venue'[j], n[j]) = DueCash(orders[j], venue[j], n[j])
  <2>1. PICK o : o = orders[j] /\ o = orders'[j]
    BY <1>1
  <2>2. PICK a : a = venue[j]
    OBVIOUS
  <2>3. PICK b : b = venue'[j] /\ b.trades = a.trades
    BY <1>9, <2>2
  <2>4. DueShares(o, b, n[j]) = DueShares(o, a, n[j])
    BY <2>3 DEF DueShares
  <2>5. DueCash(o, b, n[j]) = DueCash(o, a, n[j])
    BY <2>3 DEF DueCash, Flows
  <2> QED BY <2>1, <2>2, <2>3, <2>4, <2>5
<1>26. /\ \A t : TotalShares(orders, venue, n, t)' = TotalShares(orders, venue, n, t)
       /\ TotalCash(orders, venue, n)' = TotalCash(orders, venue, n)
  BY <1>1, <1>12, <1>25, DueSame
<1> QED BY <1>12, <1>24, <1>26 DEF Due

(* What is due of an order depends on its side, its trades and whether it  *)
(* is open.                                                                *)
LEMMA DueFields ==
  ASSUME NEW o, NEW o2, NEW v, NEW v2, NEW n,
         o2.open = o.open, o2.side = o.side, v2.trades = v.trades
  PROVE  DueShares(o2, v2, n) = DueShares(o, v, n) /\ DueCash(o2, v2, n) = DueCash(o, v, n)
<1>1. DueShares(o2, v2, n) = DueShares(o, v, n)
  BY DEF DueShares
<1>2. Flows(o2, v2) = Flows(o, v)
  BY DEF Flows
<1>3. DueCash(o2, v2, n) = DueCash(o, v, n)
  BY <1>2 DEF DueCash
<1> QED BY <1>1, <1>3

(* The head of the batch is the first event of its order that is not       *)
(* booked yet.                                                             *)
LEMMA HeadNumber ==
  ASSUME TypeOK, BatchInv, batch # << >>, NEW n, Booked(n), NEW nth, InBatch(n, nth),
         NEW i, i = Head(batch).i
  PROVE  /\ i \in Open /\ i \in DOMAIN orders /\ n[i] \in Nat /\ venue[i].seen \in Nat
         /\ nth[1] = n[i] + 1 /\ nth[1] <= venue[i].seen
         /\ IF Head(batch).type = "fill"
            THEN n[i] + 1 <= Len(venue[i].trades) /\ Head(batch).price = venue[i].trades[n[i] + 1]
            ELSE n[i] = Len(venue[i].trades)
         /\ \A k \in DOMAIN Tail(batch) :
              /\ k + 1 \in DOMAIN batch /\ Tail(batch)[k] = batch[k + 1]
              /\ nth[k + 1] \in Nat \ {0}
              /\ Queued(n, k + 1, nth[k + 1])
              /\ Tail(batch)[k].i = i => n[i] + 1 < nth[k + 1]
         /\ \A k \in DOMAIN batch : k # 1 => k - 1 \in DOMAIN Tail(batch)
<1>1. 1 \in DOMAIN batch /\ Head(batch) = batch[1] /\ OrdersType
      /\ batch \in Seq(Event)
  BY HeadType DEF TypeOK, StepType
<1>2. Queued(n, 1, nth[1]) /\ nth[1] \in Nat
  BY <1>1 DEF InBatch
<1>3. i \in Open /\ i \in DOMAIN orders
  BY <1>1, <1>2 DEF Queued, Open
<1>4. n[i] \in Nat /\ venue[i].seen \in Nat /\ Len(venue[i].trades) \in Nat
  BY <1>1, <1>3, OrderFields, LenProperties DEF Booked
<1>5. n[i] < nth[1] /\ nth[1] <= venue[i].seen
  BY <1>1, <1>2 DEF Queued
<1>6. nth[1] = n[i] + 1
  <2>1. n[i] + 1 \in n[i] + 1 .. venue[i].seen
    BY <1>2, <1>4, <1>5
  <2>2. PICK k \in DOMAIN batch : batch[k].i = i /\ nth[k] = n[i] + 1
    BY <1>3, <2>1 DEF InBatch, Covers
  <2>3. k = 1
    <3>1. SUFFICES ASSUME k # 1 PROVE FALSE
      OBVIOUS
    <3>2. 1 < k
      BY <1>1, <3>1
    <3>3. nth[1] < nth[k]
      BY <1>1, <2>2, <3>2 DEF InBatch, InOrder
    <3> QED BY <1>2, <1>4, <1>5, <2>2, <3>3
  <2> QED BY <2>2, <2>3
<1>7. IF Head(batch).type = "fill"
      THEN n[i] + 1 <= Len(venue[i].trades) /\ Head(batch).price = venue[i].trades[n[i] + 1]
      ELSE n[i] = Len(venue[i].trades)
  <2>1. CASE Head(batch).type = "fill"
    BY <1>1, <1>2, <1>6, <2>1 DEF Queued
  <2>2. CASE Head(batch).type # "fill"
    <3>1. nth[1] = Len(venue[i].trades) + 1
      BY <1>1, <1>2, <2>2 DEF Queued
    <3> QED BY <1>4, <1>6, <2>2, <3>1
  <2> QED BY <2>1, <2>2
<1>8. ASSUME NEW k \in DOMAIN Tail(batch)
      PROVE  /\ k + 1 \in DOMAIN batch /\ Tail(batch)[k] = batch[k + 1]
             /\ nth[k + 1] \in Nat \ {0}
             /\ Queued(n, k + 1, nth[k + 1])
             /\ Tail(batch)[k].i = i => n[i] + 1 < nth[k + 1]
  <2>1. k + 1 \in DOMAIN batch /\ Tail(batch)[k] = batch[k + 1]
    BY HeadType
  <2>2. nth[k + 1] \in Nat \ {0} /\ Queued(n, k + 1, nth[k + 1])
    BY <2>1 DEF InBatch
  <2>3. ASSUME Tail(batch)[k].i = i PROVE n[i] + 1 < nth[k + 1]
    <3>1. 1 < k + 1
      BY <1>1
    <3>2. nth[1] < nth[k + 1]
      BY <1>1, <2>1, <2>3, <3>1 DEF InBatch, InOrder
    <3> QED BY <1>6, <3>2
  <2> QED BY <2>1, <2>2, <2>3
<1>9. \A k \in DOMAIN batch : k # 1 => k - 1 \in DOMAIN Tail(batch)
  BY <1>1
<1> QED BY <1>3, <1>4, <1>5, <1>6, <1>7, <1>8, <1>9

(* The rest of the batch, once its head is booked.                         *)
LEMMA RestInBatch ==
  ASSUME TypeOK, BatchInv, batch # << >>, NEW n, Booked(n), NEW nth, InBatch(n, nth),
         NEW i, i = Head(batch).i, batch' = Tail(batch), UNCHANGED venue,
         NEW n2, \A j \in DOMAIN orders : j # i => n2[j] = n[j],
         \/ Open' = Open /\ n2[i] = n[i] + 1
         \/ Open' = Open \ {i} /\ n2 = n /\ Head(batch).type # "fill"
  PROVE  \E mth : InBatch(n2, mth)'
<1>1. PICK mth : mth = [k \in DOMAIN Tail(batch) |-> nth[k + 1]]
  OBVIOUS
<1>2. /\ i \in Open /\ i \in DOMAIN orders /\ n[i] \in Nat /\ venue[i].seen \in Nat
      /\ nth[1] = n[i] + 1
      /\ \A k \in DOMAIN Tail(batch) :
           /\ k + 1 \in DOMAIN batch /\ Tail(batch)[k] = batch[k + 1]
           /\ nth[k + 1] \in Nat \ {0}
           /\ Queued(n, k + 1, nth[k + 1])
           /\ Tail(batch)[k].i = i => n[i] + 1 < nth[k + 1]
      /\ \A k \in DOMAIN batch : k # 1 => k - 1 \in DOMAIN Tail(batch)
  BY HeadNumber
<1>3. mth \in [DOMAIN batch' -> Nat \ {0}]
  BY <1>1, <1>2
<1>4. batch \in Seq(Event) /\ OrdersType /\ Open \subseteq DOMAIN orders
  BY DEF TypeOK, StepType, Open
<1>5. ASSUME NEW k \in DOMAIN batch' PROVE Queued(n2, k, mth[k])'
  <2>1. PICK x, j : x \in Nat /\ x = nth[k + 1] /\ x = mth[k] /\ j = batch[k + 1].i /\ j = batch'[k].i
    BY <1>1, <1>2
  <2>2. Queued(n, k + 1, x) /\ batch'[k] = batch[k + 1]
    BY <1>2, <2>1
  <2>3. j \in Open /\ j \in DOMAIN orders
    BY <1>4, <2>1, <2>2 DEF Queued
  <2>4. CASE j # i
    <3>1. n2[j] = n[j] /\ j \in Open'
      BY <2>3, <2>4
    <3> QED BY <2>1, <2>2, <3>1 DEF Queued
  <2>5. CASE j = i
    <3>1. n[i] + 1 < x
      BY <1>2, <2>1, <2>2, <2>5
    <3>2. CASE Open' = Open /\ n2[i] = n[i] + 1
      BY <2>1, <2>2, <2>3, <2>5, <3>1, <3>2 DEF Queued
    <3>3. CASE Head(batch).type # "fill"
      <4>1. n[i] = Len(venue[i].trades) /\ Len(venue[i].trades) \in Nat
        BY <1>2, <3>3, HeadNumber
      <4>2. PICK l \in Nat : l = Len(venue[i].trades)
        BY <4>1
      <4>3. x <= l \/ x = l + 1
        BY <2>1, <2>2, <2>5, <4>2 DEF Queued
      <4>4. l + 1 < x /\ x \in Nat
        BY <2>1, <3>1, <4>1, <4>2
      <4> QED BY ONLY <4>2, <4>3, <4>4
    <3> QED BY <3>2, <3>3
  <2> QED BY <2>4, <2>5
<1>6. InOrder(mth)'
  <2> SUFFICES ASSUME NEW k \in DOMAIN batch', NEW l \in DOMAIN batch', k < l,
                      batch'[k].i = batch'[l].i
               PROVE  mth[k] < mth[l]
    BY DEF InOrder
  <2>1. /\ k + 1 \in DOMAIN batch /\ l + 1 \in DOMAIN batch
        /\ batch'[k] = batch[k + 1] /\ batch'[l] = batch[l + 1]
        /\ mth[k] = nth[k + 1] /\ mth[l] = nth[l + 1]
    BY <1>1, <1>2
  <2>2. k + 1 < l + 1
    BY <1>4
  <2> QED BY <2>1, <2>2 DEF InBatch, InOrder
<1>7. ASSUME NEW j \in Open' PROVE Covers(n2, mth, j)'
  <2>1. j \in Open /\ j \in DOMAIN orders
    BY <1>4
  <2>2. n[j] \in Nat /\ venue[j].seen \in Nat /\ Covers(n, nth, j)
    BY <1>4, <2>1, OrderFields DEF Booked, InBatch
  <2> SUFFICES ASSUME NEW x \in n2[j] + 1 .. venue[j].seen
               PROVE  \E k \in DOMAIN batch' : batch'[k].i = j /\ mth[k] = x
    BY DEF Covers
  <2>3. x \in n[j] + 1 .. venue[j].seen /\ (j = i => x # nth[1])
    <3>1. CASE j # i
      BY <2>1, <3>1
    <3>2. CASE j = i
      <4>1. n2[i] = n[i] + 1
        BY <3>2
      <4> QED BY <1>2, <2>2, <3>2, <4>1
    <3> QED BY <3>1, <3>2
  <2>4. PICK k \in DOMAIN batch : batch[k].i = j /\ nth[k] = x
    BY <2>2, <2>3 DEF Covers
  <2>5. k # 1
    <3>1. Head(batch) = batch[1]
      BY HeadType
    <3> QED BY <2>3, <2>4, <3>1
  <2>6. PICK l : l = k - 1 /\ l + 1 = k
    BY <1>4
  <2>7. l \in DOMAIN batch' /\ batch'[l] = batch[k] /\ mth[l] = nth[k]
    BY <1>1, <1>2, <2>5, <2>6
  <2> QED BY <2>4, <2>7
<1>8. InBatch(n2, mth)'
  BY <1>3, <1>5, <1>6, <1>7 DEF InBatch
<1> QED BY <1>8

(* A fill moves its share and its money from what is due into the books.   *)
LEMMA FillDue ==
  ASSUME TypeOK, BatchInv, AmountInv, BatchOrderInv, ApplyFill, NEW e \in [Token -> Int],
         NEW c \in Int, Due(e, c), NEW i, i = Head(batch).i, NEW t, t = orders[i].token,
         NEW p, p = Head(batch).price, NEW s, s = orders[i].side
  PROVE  /\ i \in DOMAIN orders /\ t \in Token /\ p \in Prices /\ s \in {"buy", "sell"}
         /\ Due([e EXCEPT ![t] = @ - Sign(s)], c - Flow(s, p))'
<1>1. /\ batch # << >> /\ Head(batch).type = "fill" /\ batch' = Tail(batch) /\ UNCHANGED venue
      /\ OrdersType
  BY DEF ApplyFill, TypeOK
<1>2. orders' = [orders EXCEPT ![Head(batch).i].used =
                   @ + IF orders[Head(batch).i].side = "buy" THEN Head(batch).price ELSE 1]
  BY DEF ApplyFill
<1>3. /\ Open' = Open /\ DOMAIN orders' = DOMAIN orders
      /\ \A j \in DOMAIN orders : /\ orders'[j].side = orders[j].side
                                  /\ orders'[j].token = orders[j].token
  BY <1>1, <1>2, FillOrder
<1>4. \A j \in DOMAIN orders : orders'[j].open = orders[j].open
  <2> SUFFICES ASSUME NEW j \in DOMAIN orders PROVE orders'[j].open = orders[j].open
    OBVIOUS
  <2>1. orders[j] \in Order
    BY <1>1, OrderFields
  <2> QED BY <1>2, <2>1 DEF Order
<1>5. PICK n : /\ Booked(n)
               /\ \A u \in Token : e[u] = TotalShares(orders, venue, n, u)
               /\ c = TotalCash(orders, venue, n)
  BY DEF Due
<1>6. PICK nth : InBatch(n, nth)
  BY <1>5 DEF Booked
<1>7. /\ i \in Open /\ i \in DOMAIN orders /\ n[i] \in Nat /\ venue[i].seen \in Nat
      /\ n[i] + 1 <= venue[i].seen /\ n[i] + 1 <= Len(venue[i].trades)
      /\ p = venue[i].trades[n[i] + 1]
  BY <1>1, <1>5, <1>6, HeadNumber
<1>8. PICK n2 : n2 = [n EXCEPT ![i] = n[i] + 1]
  OBVIOUS
<1>9. /\ n \in [DOMAIN orders -> Nat] /\ n2 \in [DOMAIN orders -> Nat]
      /\ n2[i] = n[i] + 1 /\ \A j \in DOMAIN orders : j # i => n2[j] = n[j]
  BY <1>5, <1>7, <1>8 DEF Booked
<1>10. \E mth : InBatch(n2, mth)'
  <2>1. Open' = Open /\ n2[i] = n[i] + 1
    BY <1>3, <1>9
  <2>2. \A j \in DOMAIN orders : j # i => n2[j] = n[j]
    BY <1>9
  <2>3. batch # << >> /\ batch' = Tail(batch) /\ UNCHANGED venue
    BY <1>1
  <2> QED BY <1>5, <1>6, <2>1, <2>2, <2>3, RestInBatch
<1>11. Booked(n2)'
  <2>1. ASSUME NEW j \in DOMAIN orders PROVE BookedOrder(n2, j)'
    <3>1. BookedOrder(n, j) /\ Len(venue[j].trades) \in Nat
      BY <1>1, <1>5, OrderFields, LenProperties DEF Booked
    <3>2. CASE j # i
      BY <1>1, <1>3, <1>9, <3>1, <3>2 DEF BookedOrder
    <3>3. CASE j = i
      BY <1>1, <1>3, <1>7, <1>9, <3>1, <3>3 DEF BookedOrder
    <3> QED BY <3>2, <3>3
  <2> QED BY <1>3, <1>9, <1>10, <2>1 DEF Booked
<1>12. PICK o \in Order : o = orders[i]
  BY <1>1, <1>7, OrderFields
<1>13. PICK v \in VenueOrder : v = venue[i]
  BY <1>1, <1>7, OrderFields
<1>14. PICK m \in 0 .. Len(v.trades) : m = n[i] /\ m < Len(v.trades) /\ o.open
  BY <1>5, <1>7, <1>12, <1>13 DEF Booked, BookedOrder, Open
<1>15. /\ p \in Prices
       /\ DueShares(o, v, m + 1) = DueShares(o, v, m) - Sign(o.side)
       /\ DueCash(o, v, m + 1) = DueCash(o, v, m) - Flow(o.side, p)
  BY <1>7, <1>13, <1>14, DueLess
<1>16. t \in Token /\ s \in {"buy", "sell"}
  BY <1>1, <1>7, OrderFields
<1>17. Sign(s) \in Int /\ Flow(s, p) \in Int
  BY <1>15, ConstantsType DEF Sign, Flow
<1>18. PICK x \in Int, y \in Int : x = 0 - Sign(s) /\ y = 0 - Flow(s, p)
  BY <1>17
<1>19. OneMoves(orders, venue, n, orders', venue', n2, i, x, y)
  <2>1. IsFiniteSet(DOMAIN orders)
    BY <1>1, <1>5, BookedType
  <2>2. \A j \in DOMAIN orders : /\ orders'[j].token = orders[j].token
                                 /\ DueShares(orders[j], venue[j], n[j]) \in Int
                                 /\ DueCash(orders[j], venue[j], n[j]) \in Int
    BY <1>1, <1>3, <1>5, BookedType
  <2>3. \A j \in DOMAIN orders : \A k :
           /\ DueShares(orders'[j], venue'[j], k) = DueShares(orders[j], venue[j], k)
           /\ DueCash(orders'[j], venue'[j], k) = DueCash(orders[j], venue[j], k)
    BY <1>1, <1>3, <1>4, DueFields
  <2>4. DueShares(orders'[i], venue'[i], n2[i]) = DueShares(orders[i], venue[i], n[i]) + x
    <3>0. PICK k : k = n2[i] /\ k = m + 1
      BY <1>9, <1>14
    <3>2. DueShares(orders'[i], venue'[i], k) = DueShares(orders[i], venue[i], k)
      BY <1>7, <2>3
    <3>1. DueShares(orders'[i], venue'[i], n2[i]) = DueShares(o, v, m + 1)
      BY <1>12, <1>13, <3>0, <3>2
    <3> QED BY <1>7, <1>12, <1>13, <1>14, <1>15, <1>17, <1>18, <2>2, <3>1
  <2>5. DueCash(orders'[i], venue'[i], n2[i]) = DueCash(orders[i], venue[i], n[i]) + y
    <3>0. PICK k : k = n2[i] /\ k = m + 1
      BY <1>9, <1>14
    <3>2. DueCash(orders'[i], venue'[i], k) = DueCash(orders[i], venue[i], k)
      BY <1>7, <2>3
    <3>1. DueCash(orders'[i], venue'[i], n2[i]) = DueCash(o, v, m + 1)
      BY <1>12, <1>13, <3>0, <3>2
    <3>3. PICK a \in Int, b \in Int, f \in Int :
            a = DueCash(orders[i], venue[i], n[i]) /\ b = DueCash(o, v, m + 1) /\ f = Flow(s, p)
            /\ b = a - f
      BY <1>7, <1>12, <1>13, <1>14, <1>15, <1>17, <2>2
    <3>4. b = a + y
      BY <1>18, <3>3
    <3> QED BY <3>1, <3>3, <3>4
  <2>6. \A j \in DOMAIN orders \ {i} :
           /\ DueShares(orders'[j], venue'[j], n2[j]) = DueShares(orders[j], venue[j], n[j])
           /\ DueCash(orders'[j], venue'[j], n2[j]) = DueCash(orders[j], venue[j], n[j])
    BY <1>9, <2>3
  <2> QED BY <1>3, <1>7, <2>1, <2>2, <2>4, <2>5, <2>6 DEF OneMoves
<1>20. TotalsMove(orders, venue, n, orders', venue', n2, i, x, y)
  BY <1>19, TotalsStep
<1>21. PICK e2 : e2 = [e EXCEPT ![t] = @ - Sign(s)]
  OBVIOUS
<1>22. \A u \in Token : e2[u] = TotalShares(orders', venue', n2, u)
  <2> SUFFICES ASSUME NEW u \in Token PROVE e2[u] = TotalShares(orders', venue', n2, u)
    OBVIOUS
  <2>1. PICK a \in Int : a = e[u] /\ a = TotalShares(orders, venue, n, u)
    BY <1>5
  <2>2. TotalShares(orders', venue', n2, u) = a + IF t = u THEN x ELSE 0
    BY <1>20, <2>1 DEF TotalsMove
  <2>3. e2[u] = IF t = u THEN a - Sign(s) ELSE a
    BY <1>16, <1>21, <2>1
  <2> QED BY <1>17, <1>18, <2>1, <2>2, <2>3
<1>23. c - Flow(s, p) = TotalCash(orders', venue', n2)
  <2>1. TotalCash(orders', venue', n2) = c + y
    BY <1>5, <1>20 DEF TotalsMove
  <2> QED BY <1>17, <1>18, <2>1
<1>24. Due(e2, c - Flow(s, p))'
  <2>1. PICK d : d = c - Flow(s, p)
    OBVIOUS
  <2>2. Due(e2, d)'
    BY <1>11, <1>22, <1>23, <2>1 DEF Due
  <2> QED BY <2>1, <2>2
<1> QED BY <1>7, <1>15, <1>16, <1>21, <1>24

(* An order ends with nothing left to be booked.                           *)
LEMMA EndDue ==
  ASSUME TypeOK, BatchInv, AmountInv, BatchOrderInv, ApplyEnd, NEW e, NEW c, Due(e, c)
  PROVE  Due(e, c)'
<1>1. /\ batch # << >> /\ Head(batch).type = "end" /\ batch' = Tail(batch) /\ UNCHANGED venue
      /\ OrdersType /\ orders' = [orders EXCEPT ![Head(batch).i].open = FALSE]
  BY DEF ApplyEnd, TypeOK
<1>2. PICK i : i = Head(batch).i
  OBVIOUS
<1>3. PICK n : /\ Booked(n)
               /\ \A u \in Token : e[u] = TotalShares(orders, venue, n, u)
               /\ c = TotalCash(orders, venue, n)
  BY DEF Due
<1>4. PICK nth : InBatch(n, nth)
  BY <1>3 DEF Booked
<1>5. /\ i \in Open /\ i \in DOMAIN orders /\ n[i] = Len(venue[i].trades)
      /\ n[i] + 1 <= venue[i].seen /\ n[i] \in Nat /\ venue[i].seen \in Nat
  <2>1. Head(batch).type # "fill"
    BY <1>1
  <2> QED BY <1>1, <1>2, <1>3, <1>4, <2>1, HeadNumber
<1>6. /\ Open' = Open \ {i} /\ DOMAIN orders' = DOMAIN orders
      /\ \A j \in DOMAIN orders : /\ orders'[j].side = orders[j].side
                                  /\ orders'[j].token = orders[j].token
  BY <1>2, EndOrder
<1>7. \A j \in DOMAIN orders : j # i => orders'[j] = orders[j]
  BY <1>1, <1>2
<1>8. ~orders'[i].open
  <2>1. orders[i] \in Order
    BY <1>1, <1>5, OrderFields
  <2>2. PICK o : o = [orders[i] EXCEPT !.open = FALSE]
    OBVIOUS
  <2>3. ~o.open
    BY <2>1, <2>2 DEF Order
  <2>4. orders'[i] = o
    BY <1>1, <1>2, <1>5, <2>2
  <2> QED BY <2>3, <2>4
<1>9. venue[i].done
  <2>1. PICK x \in {0, 1} : x = (IF venue[i].done THEN 1 ELSE 0)
    OBVIOUS
  <2>2. venue[i].seen <= Len(venue[i].trades) + x
    BY <1>5, <2>1 DEF AmountInv, Accounted
  <2>3. x = 1
    <3>1. PICK l \in Nat, q \in Nat :
            l = Len(venue[i].trades) /\ q = venue[i].seen /\ l + 1 <= q /\ q <= l + x
      BY <1>5, <2>2
    <3>2. PICK w \in {0, 1} : w = x
      OBVIOUS
    <3>3. w = 1
      <4>1. l \in Nat /\ q \in Nat /\ w \in {0, 1} /\ l + 1 <= q /\ q <= l + w
        BY <3>1, <3>2
      <4> QED BY ONLY <4>1
    <3> QED BY <3>2, <3>3
  <2> QED BY <2>1, <2>3
<1>10. \E mth : InBatch(n, mth)'
  <2>1. Open' = Open \ {i} /\ n = n /\ Head(batch).type # "fill"
    BY <1>1, <1>6
  <2>2. \A j \in DOMAIN orders : j # i => n[j] = n[j]
    OBVIOUS
  <2> QED BY <1>1, <1>2, <1>3, <1>4, <2>1, <2>2, RestInBatch
<1>11. Booked(n)'
  <2>1. ASSUME NEW j \in DOMAIN orders PROVE BookedOrder(n, j)'
    <3>1. BookedOrder(n, j)
      BY <1>3 DEF Booked
    <3>2. CASE j # i
      BY <1>1, <1>6, <3>1, <3>2 DEF BookedOrder
    <3>3. CASE j = i
      BY <1>1, <1>9, <3>1, <3>3 DEF BookedOrder
    <3> QED BY <3>2, <3>3
  <2> QED BY <1>3, <1>6, <1>10, <2>1 DEF Booked
<1>12. ASSUME NEW j \in DOMAIN orders
       PROVE  /\ orders'[j].token = orders[j].token
              /\ DueShares(orders'[j], venue'[j], n[j]) = DueShares(orders[j], venue[j], n[j])
              /\ DueCash(orders'[j], venue'[j], n[j]) = DueCash(orders[j], venue[j], n[j])
  <2>1. CASE j # i
    BY <1>1, <1>7, <2>1
  <2>2. CASE j = i
    <3>1. PICK o \in Order, v \in VenueOrder : o = orders[i] /\ v = venue[i]
      BY <1>1, <1>5, OrderFields
    <3>2. n[i] \in 0 .. Len(v.trades) /\ n[i] = Len(v.trades)
      BY <1>5, <3>1
    <3>3. DueShares(o, v, n[i]) = 0 /\ DueCash(o, v, n[i]) = 0
      BY <3>2, DueOf
    <3>4. PICK q : q = orders'[i] /\ ~q.open
      BY <1>8
    <3>5. DueShares(q, v, n[i]) = 0 /\ DueCash(q, v, n[i]) = 0
      BY <3>4 DEF DueShares, DueCash
    <3> QED BY <1>1, <1>6, <2>2, <3>1, <3>3, <3>4, <3>5
  <2> QED BY <2>1, <2>2
<1>13. /\ \A t : TotalShares(orders, venue, n, t)' = TotalShares(orders, venue, n, t)
       /\ TotalCash(orders, venue, n)' = TotalCash(orders, venue, n)
  BY <1>1, <1>3, <1>5, <1>6, <1>12, DueSame
<1> QED BY <1>3, <1>11, <1>13 DEF Due

(* Nothing fetched and not booked.                                         *)
LEMMA EmptyBatch ==
  ASSUME NEW n
  PROVE  /\ batch = << >> /\ Booked(n) => \A i \in Open : ~(n[i] + 1 \in n[i] + 1 .. venue[i].seen)
         /\ batch' = << >> /\ (\A i \in Open' : n[i] + 1 .. venue'[i].seen = {})
              => (\E nth : InBatch(n, nth)')
<1>1. ASSUME batch = << >>, Booked(n), NEW i \in Open
      PROVE  ~(n[i] + 1 \in n[i] + 1 .. venue[i].seen)
  <2>1. DOMAIN batch = {}
    BY <1>1
  <2>2. PICK nth : InBatch(n, nth)
    BY <1>1 DEF Booked
  <2> QED BY <2>1, <2>2 DEF InBatch, Covers
<1>2. ASSUME batch' = << >>, \A i \in Open' : n[i] + 1 .. venue'[i].seen = {}
      PROVE  \E nth : InBatch(n, nth)'
  <2> DEFINE nth == [k \in {} |-> 1]
  <2>1. DOMAIN batch' = {}
    BY <1>2
  <2>2. nth \in [DOMAIN batch' -> Nat \ {0}]
    BY <2>1
  <2>3. (\A k \in DOMAIN batch : Queued(n, k, nth[k]))' /\ InOrder(nth)'
    BY <2>1 DEF InOrder
  <2>4. (\A i \in Open : Covers(n, nth, i))'
    BY <1>2 DEF Covers
  <2> HIDE DEF nth
  <2>5. InBatch(n, nth)'
    BY <2>2, <2>3, <2>4 DEF InBatch
  <2> QED BY <2>5
<1> QED BY <1>1, <1>2

(* With an empty batch, all that was fetched is booked.                    *)
LEMMA AllBooked ==
  ASSUME OrdersType, batch = << >>, NEW n, Booked(n), NEW i \in Open
  PROVE  n[i] = venue[i].seen
<1>1. i \in DOMAIN orders
  BY DEF Open
<1>2. n[i] \in Nat /\ venue[i].seen \in Nat /\ n[i] <= venue[i].seen
  BY <1>1, OrderFields DEF Booked, BookedOrder
<1>3. ~(n[i] + 1 \in n[i] + 1 .. venue[i].seen)
  BY EmptyBatch
<1> QED BY <1>2, <1>3

(* A new order has nothing to be booked.                                   *)
LEMMA NewDue ==
  ASSUME TypeOK, BatchInv, AmountInv, NEW order \in Order, Submit(order), order.used = 0,
         order.open = TRUE, pc = "trading", UNCHANGED batch, NEW e, NEW c, Due(e, c)
  PROVE  Due(e, c)'
<1>1. orders \in Seq(Order) /\ venue \in Seq(VenueOrder) /\ Len(venue) = Len(orders) /\ OrdersType
  BY DEF TypeOK, OrdersType
<1>2. PICK m : m = Len(orders) + 1
  OBVIOUS
<1>3. PICK v : v = [trades |-> << >>, left |-> order.amount, done |-> FALSE, seen |-> 0]
  OBVIOUS
<1>4. orders' = Append(orders, order) /\ venue' = Append(venue, v)
  BY <1>3 DEF Submit
<1>5. /\ m \notin DOMAIN orders /\ DOMAIN orders' = DOMAIN orders \union {m}
      /\ orders'[m] = order /\ \A j \in DOMAIN orders : orders'[j] = orders[j]
  BY <1>1, <1>2, <1>4
<1>6. venue'[m] = v /\ \A j \in DOMAIN orders : venue'[j] = venue[j]
  BY <1>1, <1>2, <1>4
<1>7. Open' = Open \union {m}
  BY <1>5, Zenon DEF Open
<1>8. batch = << >> /\ batch' = << >>
  BY DEF BatchInv
<1>9. PICK n : /\ Booked(n)
               /\ \A u \in Token : e[u] = TotalShares(orders, venue, n, u)
               /\ c = TotalCash(orders, venue, n)
  BY DEF Due
<1>10. PICK n2 : n2 = [j \in DOMAIN orders \union {m} |-> IF j = m THEN 0 ELSE n[j]]
  OBVIOUS
<1>11. n2 \in [DOMAIN orders' -> Nat] /\ n2[m] = 0 /\ \A j \in DOMAIN orders : n2[j] = n[j]
  BY <1>5, <1>9, <1>10 DEF Booked
<1>12. v.trades = << >> /\ Len(v.trades) = 0 /\ v.seen = 0 /\ v.done = FALSE
  BY <1>3
<1>13. v \in VenueOrder
  BY <1>3 DEF VenueOrder, Order
<1>14. \E nth : InBatch(n2, nth)'
  <2>1. ASSUME NEW i \in Open' PROVE n2[i] + 1 .. venue'[i].seen = {}
    <3>1. CASE i = m
      BY <1>6, <1>11, <1>12, <3>1
    <3>2. CASE i # m
      <4>1. i \in Open /\ i \in DOMAIN orders
        BY <1>7, <3>2 DEF Open
      <4>2. n[i] = venue[i].seen /\ venue[i].seen \in Nat
        BY <1>1, <1>8, <1>9, <4>1, AllBooked, OrderFields
      <4> QED BY <1>6, <1>11, <4>1, <4>2
    <3> QED BY <3>1, <3>2
  <2> QED BY <1>8, <2>1, EmptyBatch
<1>15. ASSUME NEW i \in DOMAIN orders' PROVE BookedOrder(n2, i)'
  <2>1. CASE i = m
    <3>1. 0 \in 0 .. 0 /\ 0 <= 0
      OBVIOUS
    <3>2. n2[i] = 0 /\ Len(venue'[i].trades) = 0 /\ venue'[i].seen = 0 /\ i \in Open'
      BY <1>6, <1>7, <1>11, <1>12, <2>1
    <3> QED BY <3>1, <3>2 DEF BookedOrder
  <2>2. CASE i # m
    <3>1. i \in DOMAIN orders /\ BookedOrder(n, i)
      BY <1>5, <1>9, <2>2 DEF Booked
    <3>2. n2[i] = n[i] /\ venue'[i] = venue[i] /\ (i \in Open' <=> i \in Open)
      BY <1>6, <1>7, <1>11, <2>2, <3>1
    <3> QED BY <3>1, <3>2 DEF BookedOrder
  <2> QED BY <2>1, <2>2
<1>16. Booked(n2)'
  BY <1>11, <1>14, <1>15 DEF Booked
<1>17. DueShares(order, v, 0) = 0 /\ DueCash(order, v, 0) = 0
  <2>1. 0 \in 0 .. Len(v.trades) /\ 0 = Len(v.trades)
    BY <1>12
  <2> QED BY <1>13, <2>1, DueOf
<1>18. PICK os2 : os2 = orders'
  OBVIOUS
<1>19. PICK vs2 : vs2 = venue'
  OBVIOUS
<1>20. /\ \A t : TotalShares(os2, vs2, n2, t) = TotalShares(orders, venue, n, t)
       /\ TotalCash(os2, vs2, n2) = TotalCash(orders, venue, n)
  <2>1. IsFiniteSet(DOMAIN orders)
    BY <1>1, <1>9, BookedType
  <2>2. \A j \in DOMAIN orders :
           /\ os2[j].token = orders[j].token
           /\ DueShares(orders[j], venue[j], n[j]) \in Int
           /\ DueCash(orders[j], venue[j], n[j]) \in Int
           /\ DueShares(os2[j], vs2[j], n2[j]) = DueShares(orders[j], venue[j], n[j])
           /\ DueCash(os2[j], vs2[j], n2[j]) = DueCash(orders[j], venue[j], n[j])
    BY <1>1, <1>5, <1>6, <1>9, <1>11, <1>18, <1>19, BookedType
  <2>3. DueShares(os2[m], vs2[m], n2[m]) = 0 /\ DueCash(os2[m], vs2[m], n2[m]) = 0
    BY <1>5, <1>6, <1>11, <1>17, <1>18, <1>19
  <2>4. m \notin DOMAIN orders /\ DOMAIN os2 = DOMAIN orders \union {m}
    BY <1>5, <1>18
  <2> QED BY <2>1, <2>2, <2>3, <2>4, TotalsNew
<1> QED BY <1>9, <1>16, <1>18, <1>19, <1>20 DEF Due

(* A trade of the venue is due until it is booked.                         *)
LEMMA MatchDue ==
  ASSUME TypeOK, BatchInv, AmountInv, NEW i \in DOMAIN orders, NEW p \in Prices, Match(i, p),
         NEW e \in [Token -> Int], NEW c \in Int, Due(e, c), NEW t, t = orders[i].token,
         NEW s, s = orders[i].side
  PROVE  /\ t \in Token /\ s \in {"buy", "sell"}
         /\ Due([e EXCEPT ![t] = @ + Sign(s)], c + Flow(s, p))'
<1>1. batch = << >> /\ batch' = << >> /\ UNCHANGED orders /\ OrdersType /\ ~venue[i].done
  BY DEF Match, BeforePoll, TypeOK
<1>2. PICK v : v = [venue[i] EXCEPT !.trades = Append(@, p),
                                    !.left = @ - IF orders[i].side = "buy" THEN p ELSE 1]
  OBVIOUS
<1>3. venue' = [venue EXCEPT ![i] = v] /\ venue[i] \in VenueOrder /\ i \in DOMAIN venue
  BY <1>1, <1>2, OrderFields DEF Match
<1>4. v.trades = Append(venue[i].trades, p) /\ v.seen = venue[i].seen
  BY <1>2, <1>3 DEF VenueOrder
<1>5. v.done = venue[i].done
  BY <1>2, <1>3 DEF VenueOrder
<1>6. venue'[i] = v /\ \A j \in DOMAIN orders : j # i => venue'[j] = venue[j]
  BY <1>3
<1>7. PICK n : /\ Booked(n)
               /\ \A u \in Token : e[u] = TotalShares(orders, venue, n, u)
               /\ c = TotalCash(orders, venue, n)
  BY DEF Due
<1>8. i \in Open
  BY <1>1, <1>7 DEF Booked, BookedOrder
<1>9. PICK o \in Order : o = orders[i] /\ o.open
  BY <1>1, <1>8, OrderFields DEF Open
<1>10. PICK w \in VenueOrder : w = venue[i]
  BY <1>3
<1>11. PICK m \in 0 .. Len(w.trades) : m = n[i]
  BY <1>7, <1>10 DEF Booked, BookedOrder
<1>12. v \in VenueOrder
  <2>1. venue'[i] \in VenueOrder
    <3>1. OrdersType'
      <4>1. [Next]_vars
        BY DEF Next, Outside
      <4> QED BY <4>1, NextType DEF TypeOK
    <3> QED BY <1>1, <3>1 DEF OrdersType
  <2> QED BY <1>6, <2>1
<1>13. /\ DueShares(o, v, m) = DueShares(o, w, m) + Sign(o.side)
       /\ DueCash(o, v, m) = DueCash(o, w, m) + Flow(o.side, p)
       /\ m \in 0 .. Len(v.trades)
  <2>1. v.trades = Append(w.trades, p)
    BY <1>4, <1>10
  <2> QED BY <1>9, <1>12, <2>1, DueMore
<1>14. Open' = Open
  BY <1>1 DEF Open
<1>15. \E nth : InBatch(n, nth)'
  <2>1. ASSUME NEW j \in Open PROVE n[j] + 1 .. venue'[j].seen = {}
    <3>1. n[j] = venue[j].seen /\ venue[j].seen \in Nat /\ j \in DOMAIN orders
      BY <1>1, <1>7, AllBooked, OrderFields DEF Open
    <3>2. venue'[j].seen = venue[j].seen
      BY <1>4, <1>6, <3>1
    <3> QED BY <3>1, <3>2
  <2> QED BY <1>1, <1>14, <2>1, EmptyBatch
<1>16. ASSUME NEW j \in DOMAIN orders PROVE BookedOrder(n, j)'
  <2>1. BookedOrder(n, j)
    BY <1>7 DEF Booked
  <2>2. CASE j # i
    BY <1>6, <1>14, <2>1, <2>2 DEF BookedOrder
  <2>3. CASE j = i
    BY <1>4, <1>6, <1>8, <1>11, <1>13, <1>14, <2>1, <2>3 DEF BookedOrder
  <2> QED BY <2>2, <2>3
<1>17. Booked(n)'
  BY <1>1, <1>7, <1>15, <1>16 DEF Booked
<1>18. t \in Token /\ s \in {"buy", "sell"} /\ s = o.side
  BY <1>1, <1>9, OrderFields
<1>19. PICK x \in Int, y \in Int : x = Sign(s) /\ y = Flow(s, p)
  <2>1. p \in Nat /\ Fee \in Nat
    BY ConstantsType
  <2>2. Sign(s) \in Int /\ Flow(s, p) \in Int
    BY <2>1 DEF Sign, Flow
  <2> QED BY <2>2
<1>20. OneMoves(orders, venue, n, orders', venue', n, i, x, y)
  <2>1. IsFiniteSet(DOMAIN orders)
    BY <1>1, <1>7, BookedType
  <2>2. \A j \in DOMAIN orders : /\ orders'[j].token = orders[j].token
                                 /\ DueShares(orders[j], venue[j], n[j]) \in Int
                                 /\ DueCash(orders[j], venue[j], n[j]) \in Int
    BY <1>1, <1>7, BookedType
  <2>3. \A j \in DOMAIN orders \ {i} :
           /\ DueShares(orders'[j], venue'[j], n[j]) = DueShares(orders[j], venue[j], n[j])
           /\ DueCash(orders'[j], venue'[j], n[j]) = DueCash(orders[j], venue[j], n[j])
    BY <1>1, <1>6
  <2>4. /\ DueShares(orders'[i], venue'[i], n[i]) = DueShares(orders[i], venue[i], n[i]) + x
        /\ DueCash(orders'[i], venue'[i], n[i]) = DueCash(orders[i], venue[i], n[i]) + y
    BY <1>1, <1>6, <1>9, <1>10, <1>11, <1>13, <1>18, <1>19
  <2>5. DOMAIN orders' = DOMAIN orders
    BY <1>1
  <2> QED BY <2>1, <2>2, <2>3, <2>4, <2>5 DEF OneMoves
<1>21. TotalsMove(orders, venue, n, orders', venue', n, i, x, y)
  BY <1>20, TotalsStep
<1>22. PICK e2 : e2 = [e EXCEPT ![t] = @ + Sign(s)]
  OBVIOUS
<1>23. \A u \in Token : e2[u] = TotalShares(orders', venue', n, u)
  <2> SUFFICES ASSUME NEW u \in Token PROVE e2[u] = TotalShares(orders', venue', n, u)
    OBVIOUS
  <2>1. PICK a \in Int : a = e[u] /\ a = TotalShares(orders, venue, n, u)
    BY <1>7
  <2>2. TotalShares(orders', venue', n, u) = a + IF t = u THEN x ELSE 0
    BY <1>21, <2>1 DEF TotalsMove
  <2>3. e2[u] = IF t = u THEN a + Sign(s) ELSE a
    BY <1>18, <1>22, <2>1
  <2> QED BY <1>19, <2>1, <2>2, <2>3
<1>24. c + Flow(s, p) = TotalCash(orders', venue', n)
  BY <1>7, <1>19, <1>21 DEF TotalsMove
<1>25. Due(e2, c + Flow(s, p))'
  <2>1. PICK d : d = c + Flow(s, p)
    OBVIOUS
  <2>2. Due(e2, d)'
    BY <1>17, <1>23, <1>24, <2>1 DEF Due
  <2> QED BY <2>1, <2>2
<1> QED BY <1>18, <1>22, <1>25

(* The venue ends an order, with its trades as they are.                   *)
LEMMA FinishDue ==
  ASSUME TypeOK, BatchInv, NEW i \in DOMAIN orders, Finish(i), NEW e, NEW c, Due(e, c)
  PROVE  Due(e, c)'
<1>1. batch = << >> /\ batch' = << >> /\ UNCHANGED orders /\ OrdersType
  BY DEF Finish, BeforePoll, TypeOK
<1>2. PICK v : v = [venue[i] EXCEPT !.done = TRUE]
  OBVIOUS
<1>3. venue' = [venue EXCEPT ![i] = v] /\ venue[i] \in VenueOrder /\ i \in DOMAIN venue
  BY <1>1, <1>2, OrderFields DEF Finish
<1>4. v.trades = venue[i].trades /\ v.seen = venue[i].seen
  BY <1>2, <1>3 DEF VenueOrder
<1>5. v.done
  BY <1>2, <1>3 DEF VenueOrder
<1>6. \A j \in DOMAIN orders : /\ venue'[j].trades = venue[j].trades
                               /\ venue'[j].seen = venue[j].seen
                               /\ venue[j].done => venue'[j].done
  BY <1>3, <1>4, <1>5
<1>7. PICK n : /\ Booked(n)
               /\ \A u \in Token : e[u] = TotalShares(orders, venue, n, u)
               /\ c = TotalCash(orders, venue, n)
  BY DEF Due
<1>8. Open' = Open /\ Open \subseteq DOMAIN orders
  BY <1>1 DEF Open
<1>9. \E nth : InBatch(n, nth)'
  <2>1. ASSUME NEW j \in Open PROVE n[j] + 1 .. venue'[j].seen = {}
    <3>1. n[j] = venue[j].seen /\ venue[j].seen \in Nat /\ j \in DOMAIN orders
      BY <1>1, <1>7, <1>8, AllBooked, OrderFields
    <3> QED BY <1>6, <3>1
  <2> QED BY <1>1, <1>8, <2>1, EmptyBatch
<1>10. Booked(n)'
  <2>1. \A j \in DOMAIN orders : BookedOrder(n, j)'
    BY <1>6, <1>7, <1>8 DEF Booked, BookedOrder
  <2> QED BY <1>1, <1>7, <1>9, <2>1 DEF Booked
<1>11. \A j \in DOMAIN orders :
         /\ orders'[j].token = orders[j].token
         /\ DueShares(orders'[j], venue'[j], n[j]) = DueShares(orders[j], venue[j], n[j])
         /\ DueCash(orders'[j], venue'[j], n[j]) = DueCash(orders[j], venue[j], n[j])
  BY <1>1, <1>6, DueFields
<1>12. /\ \A t : TotalShares(orders, venue, n, t)' = TotalShares(orders, venue, n, t)
       /\ TotalCash(orders, venue, n)' = TotalCash(orders, venue, n)
  BY <1>1, <1>7, <1>11, DueSame
<1> QED BY <1>7, <1>10, <1>12 DEF Due

LEMMA DueCarry ==
  ASSUME UNCHANGED <<orders, venue, batch>>, NEW e, NEW c, Due(e, c)
  PROVE  Due(e, c)'
<1>1. PICK n : /\ Booked(n)
               /\ \A u \in Token : e[u] = TotalShares(orders, venue, n, u)
               /\ c = TotalCash(orders, venue, n)
  BY DEF Due
<1>2. PICK nth : InBatch(n, nth)
  BY <1>1 DEF Booked
<1>3. InBatch(n, nth)'
  BY <1>2 DEF InBatch, Queued, Covers, InOrder, Open
<1>4. Booked(n)'
  BY <1>1, <1>3 DEF Booked, BookedOrder, Open
<1>5. /\ \A u : TotalShares(orders, venue, n, u)' = TotalShares(orders, venue, n, u)
      /\ TotalCash(orders, venue, n)' = TotalCash(orders, venue, n)
  OBVIOUS
<1> QED BY <1>1, <1>4, <1>5 DEF Due

(* Nothing is due once all that was traded has been fetched and applied,   *)
(* as without an open order.                                               *)
LEMMA NothingDue ==
  ASSUME TypeOK, batch = << >>, \A i \in Open : Len(venue[i].trades) <= venue[i].seen,
         NEW e \in [Token -> Int], NEW c, Due(e, c)
  PROVE  (\A t \in Token : e[t] = 0) /\ c = 0
<1>1. PICK n : /\ Booked(n)
               /\ \A u \in Token : e[u] = TotalShares(orders, venue, n, u)
               /\ c = TotalCash(orders, venue, n)
  BY DEF Due
<1>2. OrdersType /\ IsFiniteSet(DOMAIN orders)
  BY <1>1, BookedType DEF TypeOK
<1>3. ASSUME NEW i \in DOMAIN orders
      PROVE  DueShares(orders[i], venue[i], n[i]) = 0 /\ DueCash(orders[i], venue[i], n[i]) = 0
  <2>1. PICK o \in Order, v \in VenueOrder : o = orders[i] /\ v = venue[i]
    BY <1>2, OrderFields
  <2>2. CASE i \notin Open
    <3>1. ~o.open
      BY <2>1, <2>2 DEF Open
    <3> QED BY <2>1, <3>1 DEF DueShares, DueCash
  <2>3. CASE i \in Open
    <3>1. n[i] = v.seen /\ Len(v.trades) <= v.seen
      BY <1>1, <1>2, <2>1, <2>3, AllBooked
    <3>2. n[i] \in 0 .. Len(v.trades) /\ Len(v.trades) \in Nat
      BY <1>1, <1>2, <2>1, OrderFields, LenProperties DEF Booked, BookedOrder
    <3>3. n[i] = Len(v.trades)
      BY <3>1, <3>2
    <3> QED BY <2>1, <3>2, <3>3, DueOf
  <2> QED BY <2>2, <2>3
<1>4. ASSUME NEW t \in Token PROVE e[t] = 0
  <2>1. PICK f : f = [i \in DOMAIN orders |->
                        IF orders[i].token = t THEN DueShares(orders[i], venue[i], n[i]) ELSE 0]
    OBVIOUS
  <2>2. \A i \in DOMAIN orders : f[i] = 0
    BY <1>3, <2>1
  <2>3. SumFunctionOnSet(f, DOMAIN orders) = 0
    BY <1>2, <2>2, SumZero
  <2> QED BY <1>1, <2>1, <2>3 DEF TotalShares
<1>5. c = 0
  <2>1. PICK f : f = [i \in DOMAIN orders |-> DueCash(orders[i], venue[i], n[i])]
    OBVIOUS
  <2>2. \A i \in DOMAIN orders : f[i] = 0
    BY <1>3, <2>1
  <2>3. SumFunctionOnSet(f, DOMAIN orders) = 0
    BY <1>2, <2>2, SumZero
  <2> QED BY <1>1, <2>1, <2>3 DEF TotalCash
<1> QED BY <1>4, <1>5

LEMMA InitDue ==
  ASSUME Init, NEW e, \A t \in Token : e[t] = 0
  PROVE  Due(e, 0)
<1>1. DOMAIN orders = {} /\ DOMAIN batch = {}
  BY DEF Init
<1>2. PICK n : n = [i \in {} |-> 1]
  OBVIOUS
<1>3. n \in [DOMAIN orders -> Nat] /\ n \in [DOMAIN batch -> Nat \ {0}]
  BY <1>1, <1>2
<1>4. InBatch(n, n)
  BY <1>1, <1>3 DEF InBatch, InOrder, Open
<1>5. Booked(n)
  BY <1>1, <1>3, <1>4 DEF Booked
<1>6. IsFiniteSet(DOMAIN orders)
  BY <1>1, FS_EmptySet
<1>7. \A t : TotalShares(orders, venue, n, t) = 0
  BY <1>1, <1>6, SumZero DEF TotalShares
<1>8. TotalCash(orders, venue, n) = 0
  BY <1>1, <1>6, SumZero DEF TotalCash
<1> QED BY <1>5, <1>7, <1>8 DEF Due

-----------------------------------------------------------------------------
(* How far the two ledgers are apart, with what is due counted as booked.  *)
Gap(e, t) == shares[t] + e[t] - vpos[t]
Owed(e) == [t \in Token |-> Worth(t) * Gap(e, t)]

PositionsAgree(e) == \A t \in Token : ~live \/ Mkt(t) \notin settled => Gap(e, t) = 0
MoneyAgrees(e, c) == cash + c + SumFunction(Owed(e)) = vcash
PendingOf(e, t) == shares[t] = 0 /\ (vpos[t] > 0 => pending[t] = 0 - Owed(e)[t])
LoserOf(e, t) == t # Winner(Mkt(t)) => vpos[t] = 0 \/ Gap(e, t) = 0

Agreed(e, c) ==
  /\ "reversal" \notin odd => PositionsAgree(e) /\ MoneyAgrees(e, c)
  /\ live /\ odd \subseteq {"loser"} =>
       \A t \in Token : Mkt(t) \in settled => PendingOf(e, t)
  /\ live /\ odd = {} => \A t \in Token : Mkt(t) \in settled => LoserOf(e, t)

(* What the bot awaits is of settled markets, and those are resolved; only *)
(* a live bot awaits a redemption or sees a trade undone; accounts are     *)
(* compared with no order open.                                            *)
StatusInv ==
  /\ \A t \in Token : pending[t] > 0 => live /\ Mkt(t) \in settled
  /\ \A m \in settled : Resolved(m)
  /\ pc = "comparing" => Open = {}
  /\ "reversal" \in odd => live

(* The simulated venue has told every trade once the bot has polled it.    *)
AllSeen == \A i \in Open : Len(venue[i].trades) <= venue[i].seen

(* Why a comparison fails, when nothing odd has happened: the wallet was   *)
(* redeemed in the middle of it.                                           *)
HaltInv ==
  /\ ~live => failures = 0 /\ ~halted /\ (pc = "comparing" => balance.cash = vcash)
  /\ live /\ odd = {} =>
       /\ failures <= tears
       /\ halted => tears >= 2
       /\ pc = "comparing" => balance.cash = vcash \/ failures + 1 <= tears

Apart == \E e \in [Token -> Int], c \in Int : Due(e, c) /\ Agreed(e, c)
AgreeInv ==
  /\ StatusInv
  /\ ~killed => Apart /\ HaltInv /\ (live \/ pc = "polling" \/ AllSeen)

LEMMA TokenOf ==
  ASSUME NEW t \in Token
  PROVE  Mkt(t) \in Market /\ t = <<Mkt(t), t[2]>> /\ t[2] \in Outcome
BY DEF Token, Mkt

LEMMA WinnerOf ==
  ASSUME NEW m, m \in Market, Resolved(m)
  PROVE  Winner(m) \in Token /\ Mkt(Winner(m)) = m /\ Worth(Winner(m)) = Payout
<1>1. Winner(m) \in Token /\ Mkt(Winner(m)) = m
  BY DEF Winner, Resolved, Token, Mkt
<1> QED BY <1>1 DEF Worth

LEMMA OwedType ==
  ASSUME TypeOK, NEW e \in [Token -> Int]
  PROVE  /\ \A t \in Token : /\ Worth(t) \in Nat /\ Gap(e, t) \in Int
                             /\ Owed(e)[t] = Worth(t) * Gap(e, t) /\ Owed(e)[t] \in Int
                             /\ Gap(e, t) = 0 => Owed(e)[t] = 0
                             /\ Worth(t) = 0 => Owed(e)[t] = 0
         /\ SumFunction(Owed(e)) = SumFunctionOnSet(Owed(e), Token)
         /\ SumFunction(Owed(e)) \in Int
<1>1. ASSUME NEW t \in Token
      PROVE  /\ Worth(t) \in Nat /\ Gap(e, t) \in Int
             /\ Owed(e)[t] = Worth(t) * Gap(e, t) /\ Owed(e)[t] \in Int
             /\ Gap(e, t) = 0 => Owed(e)[t] = 0
             /\ Worth(t) = 0 => Owed(e)[t] = 0
  <2>1. Payout \in Nat
    BY ConstantsType
  <2>2. Worth(t) \in Nat
    BY <2>1 DEF Worth
  <2>3. shares[t] \in Nat /\ vpos[t] \in Nat /\ e[t] \in Int
    BY DEF TypeOK, PortfolioType, OutsideType
  <2>4. Gap(e, t) \in Int
    BY <2>3 DEF Gap
  <2>5. Owed(e)[t] = Worth(t) * Gap(e, t)
    BY DEF Owed
  <2>6. PICK w \in Nat, g \in Int : w = Worth(t) /\ g = Gap(e, t)
    BY <2>2, <2>4
  <2>7. w * g \in Int /\ (g = 0 => w * g = 0) /\ (w = 0 => w * g = 0)
    OBVIOUS
  <2> QED BY <2>5, <2>6, <2>7
<1>2. DOMAIN Owed(e) = Token
  BY DEF Owed
<1>3. SumFunction(Owed(e)) = SumFunctionOnSet(Owed(e), Token)
  BY <1>2 DEF SumFunction
<1>4. SumFunctionOnSet(Owed(e), Token) \in Int
  BY <1>1, TokenFinite, SumType
<1> QED BY <1>1, <1>3, <1>4

(* The sum of what is owed follows one token at a time.                    *)
LEMMA OwedStep ==
  ASSUME TypeOK, NEW e \in [Token -> Int], NEW d \in [Token -> Int], NEW w \in Token,
         \A t \in Token \ {w} : Owed(d)'[t] = Owed(e)[t], Owed(d)'[w] \in Int
  PROVE  SumFunction(Owed(d))' = SumFunction(Owed(e)) - Owed(e)[w] + Owed(d)'[w]
<1>1. PICK f : f = Owed(e) /\ SumFunction(Owed(e)) = SumFunctionOnSet(f, Token)
               /\ \A t \in Token : f[t] \in Int
  BY OwedType
<1>2. PICK g : g = Owed(d)'
  OBVIOUS
<1>3. SumFunction(Owed(d))' = SumFunctionOnSet(g, Token)
  <2>1. DOMAIN g = Token
    BY <1>2 DEF Owed
  <2> QED BY <1>2, <2>1 DEF SumFunction
<1>4. SumFunctionOnSet(g, Token) = SumFunctionOnSet(f, Token) - f[w] + g[w]
  BY <1>1, <1>2, TokenFinite, SumChange
<1> QED BY <1>1, <1>2, <1>3, <1>4

(* Or not at all.                                                          *)
LEMMA OwedSame ==
  ASSUME TypeOK, NEW e \in [Token -> Int], NEW d \in [Token -> Int],
         \A t \in Token : Owed(d)'[t] = Owed(e)[t]
  PROVE  SumFunction(Owed(d))' = SumFunction(Owed(e))
<1>1. PICK f : f = Owed(e) /\ SumFunction(Owed(e)) = SumFunctionOnSet(f, Token)
  BY OwedType
<1>2. PICK g : g = Owed(d)'
  OBVIOUS
<1>3. SumFunction(Owed(d))' = SumFunctionOnSet(g, Token)
  <2>1. DOMAIN g = Token
    BY <1>2 DEF Owed
  <2> QED BY <1>2, <2>1 DEF SumFunction
<1>4. SumFunctionOnSet(g, Token) = SumFunctionOnSet(f, Token)
  BY <1>1, <1>2, TokenFinite, SumSame
<1> QED BY <1>1, <1>3, <1>4

(* The ledgers stay as far apart as they were when no gap changes, what is *)
(* due moves with the money, and settled markets are left alone.           *)
Untouched(t) ==
  /\ vpos'[t] = vpos[t] /\ Winner(Mkt(t))' = Winner(Mkt(t))
  /\ live /\ odd' \subseteq {"loser"} => shares'[t] = shares[t]

LEMMA AgreedMove ==
  ASSUME TypeOK, NEW e \in [Token -> Int], NEW d \in [Token -> Int], NEW c \in Int, NEW b \in Int,
         Agreed(e, c), UNCHANGED <<live, settled, pending>>, odd \subseteq odd',
         \A t \in Token : Gap(d, t)' = Gap(e, t) /\ Owed(d)'[t] = Owed(e)[t],
         cash' + b - vcash' = cash + c - vcash, cash' \in Int, vcash' \in Int,
         \A t \in Token : Mkt(t) \in settled => Untouched(t)
  PROVE  Agreed(d, b)'
<1>1. SumFunction(Owed(d))' = SumFunction(Owed(e)) /\ SumFunction(Owed(e)) \in Int
  BY OwedSame, OwedType
<1>2. ASSUME "reversal" \notin odd' PROVE PositionsAgree(d)' /\ MoneyAgrees(d, b)'
  <2>1. PositionsAgree(e) /\ MoneyAgrees(e, c)
    BY <1>2 DEF Agreed
  <2>2. PositionsAgree(d)'
    BY <2>1 DEF PositionsAgree
  <2>3. PICK k \in Int, l \in Int, x \in Int, y \in Int, s \in Int :
          /\ k = cash /\ l = vcash /\ x = cash' /\ y = vcash' /\ s = SumFunction(Owed(e))
          /\ x + b - y = k + c - l /\ k + c + s = l
    BY <1>1, <2>1 DEF TypeOK, PortfolioType, OutsideType, MoneyAgrees
  <2>4. x + b + s = y
    <3>1. /\ x \in Int /\ b \in Int /\ y \in Int /\ k \in Int /\ c \in Int /\ l \in Int /\ s \in Int
          /\ x + b - y = k + c - l /\ k + c + s = l
      BY <2>3
    <3> QED BY ONLY <3>1
  <2> QED BY <1>1, <2>2, <2>3, <2>4 DEF MoneyAgrees
<1>3. ASSUME live, odd' \subseteq {"loser"}, NEW t \in Token, Mkt(t) \in settled
      PROVE  PendingOf(d, t)'
  <2>1. PendingOf(e, t) /\ Untouched(t)
    BY <1>3 DEF Agreed
  <2> QED BY <1>3, <2>1 DEF PendingOf, Untouched
<1>4. ASSUME live, odd' = {}, NEW t \in Token, Mkt(t) \in settled
      PROVE  LoserOf(d, t)'
  <2>1. LoserOf(e, t) /\ Untouched(t)
    BY <1>4 DEF Agreed
  <2> QED BY <1>4, <2>1 DEF LoserOf, Untouched
<1>5. (live /\ odd \subseteq {"loser"} => \A t \in Token : Mkt(t) \in settled => PendingOf(d, t))'
  BY <1>3
<1>6. (live /\ odd = {} => \A t \in Token : Mkt(t) \in settled => LoserOf(d, t))'
  BY <1>4
<1> QED BY <1>2, <1>5, <1>6 DEF Agreed

(* Nothing of this moves in most steps.                                    *)
LEMMA AgreedCarry ==
  ASSUME TypeOK, NEW e \in [Token -> Int], NEW c \in Int, Agreed(e, c),
         UNCHANGED <<live, settled, pending, cash, shares, vcash, vpos, phase>>, odd \subseteq odd'
  PROVE  Agreed(e, c)'
<1>1. \A t \in Token : Gap(e, t)' = Gap(e, t)
  BY DEF Gap
<1>2. \A t \in Token : Worth(t)' = Worth(t)
  BY DEF Worth, Resolved, Winner
<1>3. \A t \in Token : Owed(e)'[t] = Owed(e)[t]
  BY <1>1, <1>2 DEF Owed
<1>4. \A t \in Token : Untouched(t)
  BY DEF Untouched, Winner
<1>5. cash \in Int /\ vcash \in Int
  BY DEF TypeOK, PortfolioType, OutsideType
<1>6. cash' + c - vcash' = cash + c - vcash /\ cash' \in Int /\ vcash' \in Int
  BY <1>5
<1> QED BY <1>1, <1>3, <1>4, <1>6, AgreedMove

(* A window that ends or is resolved has not been settled, so what its     *)
(* tokens are worth makes no difference.                                   *)
LEMMA AgreedPhase ==
  ASSUME TypeOK, StatusInv, NEW m \in Market, ~Resolved(m), NEW x,
         phase' = [phase EXCEPT ![m] = x],
         NEW e \in [Token -> Int], NEW c \in Int, Agreed(e, c), "reversal" \notin odd,
         UNCHANGED <<live, settled, pending, cash, shares, vcash, vpos, odd>>
  PROVE  Agreed(e, c)'
<1>1. \A t \in Token : Gap(e, t)' = Gap(e, t)
  BY DEF Gap
<1>2. phase \in [Market -> {"running", "ended"} \cup Outcome] /\ m \notin settled
      /\ "ended" \notin Outcome
  BY LedgerAssumption DEF TypeOK, OutsideType, StatusInv
<1>3. \A t \in Token : Mkt(t) # m => Worth(t)' = Worth(t) /\ Winner(Mkt(t))' = Winner(Mkt(t))
  BY <1>2, TokenOf DEF Worth, Resolved, Winner
<1>4. ASSUME NEW t \in Token, Mkt(t) = m PROVE Owed(e)'[t] = Owed(e)[t]
  <2>1. Owed(e)[t] = 0
    <3>1. Worth(t) = 0
      BY <1>4 DEF Worth
    <3> QED BY <3>1, OwedType
  <2>2. Gap(e, t) = 0
    BY <1>2, <1>4 DEF Agreed, PositionsAgree
  <2>3. Worth(t)' \in Nat
    BY ConstantsType DEF Worth
  <2>4. Owed(e)'[t] = Worth(t)' * 0
    BY <1>1, <2>2 DEF Owed
  <2> QED BY <2>1, <2>3, <2>4
<1>5. \A t \in Token : Owed(e)'[t] = Owed(e)[t]
  <2> SUFFICES ASSUME NEW t \in Token PROVE Owed(e)'[t] = Owed(e)[t]
    OBVIOUS
  <2>1. Mkt(t) # m => Owed(e)'[t] = Owed(e)[t]
    BY <1>1, <1>3 DEF Owed
  <2> QED BY <1>4, <2>1
<1>6. \A t \in Token : Mkt(t) \in settled => Untouched(t)
  BY <1>2, <1>3 DEF Untouched
<1>7. cash \in Int /\ vcash \in Int
  BY DEF TypeOK, PortfolioType, OutsideType
<1>8. cash' + c - vcash' = cash + c - vcash /\ cash' \in Int /\ vcash' \in Int
  BY <1>7
<1> QED BY <1>1, <1>5, <1>6, <1>8, AgreedMove

(* Once a trade was undone nothing is claimed any more.                    *)
LEMMA AgreedUndone ==
  ASSUME "reversal" \in odd', NEW e, NEW c
  PROVE  Agreed(e, c)'
BY DEF Agreed

(* A fill, which the bot books, and a match, which the venue does: what is *)
(* due takes up the difference.                                            *)
LEMMA AgreedFill ==
  ASSUME TypeOK, BatchInv, AmountInv, BatchOrderInv, ApplyFill,
         NEW e \in [Token -> Int], NEW c \in Int, Due(e, c), Agreed(e, c)
  PROVE  Apart'
<1>1. PICK i, t, p, s : /\ i = Head(batch).i /\ t = orders[i].token
                        /\ p = Head(batch).price /\ s = orders[i].side
  OBVIOUS
<1>2. PICK d : d = [e EXCEPT ![t] = @ - Sign(s)]
  OBVIOUS
<1>3. PICK b : b = c - Flow(s, p)
  OBVIOUS
<1>4. /\ i \in DOMAIN orders /\ t \in Token /\ p \in Prices /\ s \in {"buy", "sell"}
      /\ Due(d, b)'
  <2>1. /\ i \in DOMAIN orders /\ t \in Token /\ p \in Prices /\ s \in {"buy", "sell"}
        /\ Due([e EXCEPT ![t] = @ - Sign(s)], c - Flow(s, p))'
    BY <1>1, FillDue
  <2> QED BY <1>2, <1>3, <2>1
<1>5. /\ s = "buy" => BuyFill(t, p)
      /\ s = "sell" => SellFill(t, p) /\ shares[t] # 0
      /\ NoteLate(t)
      /\ UNCHANGED <<live, settled, pending, vcash, vpos, phase>>
  BY <1>1, <1>4 DEF ApplyFill, Breaks, configVars, moneyVars, coreVars
<1>6. p \in Nat /\ Fee \in Nat /\ cash \in Int /\ vcash \in Int /\ shares \in [Token -> Nat]
      /\ vpos \in [Token -> Nat]
  BY <1>4, ConstantsType DEF TypeOK, PortfolioType, OutsideType
<1>7. Sign(s) \in Int /\ Flow(s, p) \in Int
  BY <1>6 DEF Sign, Flow
<1>8. d \in [Token -> Int] /\ b \in Int
  BY <1>2, <1>3, <1>4, <1>7
<1>9. /\ cash' = cash + Flow(s, p)
      /\ shares' = [shares EXCEPT ![t] = @ + Sign(s)]
  <2>1. CASE s = "buy"
    BY <1>5, <1>6, <2>1 DEF BuyFill, Flow, Sign
  <2>2. CASE s = "sell"
    <3>1. cash' = cash + Flow(s, p)
      BY <1>5, <1>6, <2>2 DEF SellFill, Flow
    <3>2. shares' = [shares EXCEPT ![t] = shares[t] - 1] /\ Sign(s) = -1
      BY <1>5, <2>2 DEF SellFill, Sign
    <3>3. shares[t] - 1 = shares[t] + Sign(s)
      BY <1>4, <1>6, <3>2
    <3> QED BY <3>1, <3>2, <3>3
  <2> QED BY <1>4, <2>1, <2>2
<1>10. \A u \in Token : Gap(d, u)' = Gap(e, u)
  <2> SUFFICES ASSUME NEW u \in Token PROVE Gap(d, u)' = Gap(e, u)
    OBVIOUS
  <2>1. PICK x \in Int, y \in Int, z \in Int, g \in Int :
          x = shares[u] /\ y = e[u] /\ z = vpos[u] /\ g = Sign(s)
    BY <1>6, <1>7
  <2>2. Gap(e, u) = x + y - z
    BY <2>1 DEF Gap
  <2>3. CASE u = t
    <3>1. d[u] = y - g /\ shares'[u] = x + g
      BY <1>2, <1>6, <1>9, <2>1, <2>3
    <3>2. Gap(d, u)' = (x + g) + (y - g) - z
      BY <1>5, <2>1, <3>1 DEF Gap
    <3> QED BY <2>2, <3>2
  <2>4. CASE u # t
    <3>1. d[u] = y /\ shares'[u] = x
      BY <1>2, <1>6, <1>9, <2>1, <2>4
    <3> QED BY <1>5, <2>1, <2>2, <3>1 DEF Gap
  <2> QED BY <2>3, <2>4
<1>11. \A u \in Token : Owed(d)'[u] = Owed(e)[u]
  BY <1>5, <1>10 DEF Owed, Worth, Resolved, Winner
<1>12. \A u \in Token : Mkt(u) \in settled => Untouched(u)
  <2> SUFFICES ASSUME NEW u \in Token, Mkt(u) \in settled PROVE Untouched(u)
    OBVIOUS
  <2>1. vpos'[u] = vpos[u] /\ Winner(Mkt(u))' = Winner(Mkt(u))
    BY <1>5 DEF Winner
  <2>2. u = t => ~(odd' \subseteq {"loser"})
    BY <1>5 DEF NoteLate
  <2>3. u # t => shares'[u] = shares[u]
    BY <1>6, <1>9
  <2> QED BY <2>1, <2>2, <2>3 DEF Untouched
<1>13. odd \subseteq odd'
  BY <1>5 DEF NoteLate
<1>14. cash' + b - vcash' = cash + c - vcash /\ cash' \in Int /\ vcash' \in Int
  <2>1. PICK f \in Int : f = Flow(s, p)
    BY <1>7
  <2>2. cash' = cash + f /\ b = c - f /\ vcash' = vcash
    BY <1>3, <1>5, <1>9, <2>1
  <2> QED BY <1>6, <2>1, <2>2
<1>15. Agreed(d, b)'
  BY <1>5, <1>8, <1>10, <1>11, <1>12, <1>13, <1>14, AgreedMove
<1> QED BY <1>4, <1>8, <1>15 DEF Apart

LEMMA AgreedMatch ==
  ASSUME TypeOK, BatchInv, AmountInv, StatusInv, NEW i \in DOMAIN orders, NEW p \in Prices, Match(i, p),
         NEW e \in [Token -> Int], NEW c \in Int, Due(e, c), Agreed(e, c)
  PROVE  Apart'
<1>1. PICK t, s : t = orders[i].token /\ s = orders[i].side
  OBVIOUS
<1>2. PICK d : d = [e EXCEPT ![t] = @ + Sign(s)]
  OBVIOUS
<1>3. PICK b : b = c + Flow(s, p)
  OBVIOUS
<1>4. t \in Token /\ s \in {"buy", "sell"} /\ Due(d, b)'
  <2>1. /\ t \in Token /\ s \in {"buy", "sell"}
        /\ Due([e EXCEPT ![t] = @ + Sign(s)], c + Flow(s, p))'
    BY <1>1, MatchDue
  <2> QED BY <1>2, <1>3, <2>1
<1>5. /\ s = "buy" => vcash' = vcash - p - Fee /\ vpos' = [vpos EXCEPT ![t] = @ + 1]
      /\ s = "sell" => vcash' = vcash + p - Fee /\ vpos' = [vpos EXCEPT ![t] = @ - 1]
      /\ ~Resolved(Mkt(t))
      /\ UNCHANGED <<live, settled, pending, cash, shares, phase, odd>>
  BY <1>1, <1>4 DEF Match, configVars, botVars, coreVars
<1>6. p \in Nat /\ Fee \in Nat /\ cash \in Int /\ vcash \in Int /\ shares \in [Token -> Nat]
      /\ vpos \in [Token -> Nat]
  BY ConstantsType DEF TypeOK, PortfolioType, OutsideType
<1>7. Sign(s) \in Int /\ Flow(s, p) \in Int
  BY <1>6 DEF Sign, Flow
<1>8. d \in [Token -> Int] /\ b \in Int
  BY <1>2, <1>3, <1>4, <1>7
<1>9. /\ vcash' = vcash + Flow(s, p)
      /\ vpos' = [vpos EXCEPT ![t] = @ + Sign(s)]
  <2>1. CASE s = "buy"
    BY <1>5, <1>6, <2>1 DEF Flow, Sign
  <2>2. CASE s = "sell"
    <3>1. vcash' = vcash + Flow(s, p)
      BY <1>5, <1>6, <2>2 DEF Flow
    <3>2. vpos' = [vpos EXCEPT ![t] = vpos[t] - 1] /\ Sign(s) = -1
      BY <1>5, <2>2 DEF Sign
    <3>3. vpos[t] - 1 = vpos[t] + Sign(s)
      BY <1>4, <1>6, <3>2
    <3> QED BY <3>1, <3>2, <3>3
  <2> QED BY <1>4, <2>1, <2>2
<1>10. \A u \in Token : Gap(d, u)' = Gap(e, u)
  <2> SUFFICES ASSUME NEW u \in Token PROVE Gap(d, u)' = Gap(e, u)
    OBVIOUS
  <2>1. PICK x \in Int, y \in Int, z \in Int, g \in Int :
          x = shares[u] /\ y = e[u] /\ z = vpos[u] /\ g = Sign(s)
    BY <1>6, <1>7
  <2>2. Gap(e, u) = x + y - z
    BY <2>1 DEF Gap
  <2>3. CASE u = t
    <3>1. d[u] = y + g /\ vpos'[u] = z + g
      BY <1>2, <1>6, <1>9, <2>1, <2>3
    <3>2. Gap(d, u)' = x + (y + g) - (z + g)
      BY <1>5, <2>1, <3>1 DEF Gap
    <3> QED BY <2>2, <3>2
  <2>4. CASE u # t
    <3>1. d[u] = y /\ vpos'[u] = z
      BY <1>2, <1>6, <1>9, <2>1, <2>4
    <3> QED BY <1>5, <2>1, <2>2, <3>1 DEF Gap
  <2> QED BY <2>3, <2>4
<1>11. \A u \in Token : Owed(d)'[u] = Owed(e)[u]
  BY <1>5, <1>10 DEF Owed, Worth, Resolved, Winner
<1>12. \A u \in Token : Mkt(u) \in settled => Untouched(u)
  <2> SUFFICES ASSUME NEW u \in Token, Mkt(u) \in settled PROVE Untouched(u)
    OBVIOUS
  <2>1. u # t
    BY <1>5 DEF StatusInv
  <2>2. vpos'[u] = vpos[u]
    BY <1>6, <1>9, <2>1
  <2> QED BY <1>5, <2>2 DEF Untouched, Winner
<1>13. cash' + b - vcash' = cash + c - vcash /\ cash' \in Int /\ vcash' \in Int
  <2>1. PICK f \in Int : f = Flow(s, p)
    BY <1>7
  <2>2. cash' = cash /\ b = c + f /\ vcash' = vcash + f
    BY <1>3, <1>5, <1>9, <2>1
  <2> QED BY <1>6, <2>1, <2>2
<1>14. Agreed(d, b)'
  BY <1>5, <1>8, <1>10, <1>11, <1>12, <1>13, AgreedMove
<1> QED BY <1>4, <1>8, <1>14 DEF Apart

(* A settlement takes the shares of the market out of the books and puts   *)
(* in what the winner pays: in a live session the wallet follows when it   *)
(* is redeemed, the simulated venue settles with the bot.                  *)
LEMMA SettledTokens ==
  ASSUME TypeOK, NEW m \in Market, Settle(m)
  PROVE  /\ Resolved(m) /\ Winner(m) \in Token /\ Mkt(Winner(m)) = m
         /\ \A u \in Token : Mkt(u) = m /\ u # Winner(m) => Worth(u) = 0 /\ u = Other(Winner(m))
         /\ \A u \in Token : Worth(u)' = Worth(u) /\ Winner(Mkt(u))' = Winner(Mkt(u))
         /\ \A u \in Token : shares'[u] = IF Mkt(u) = m THEN 0 ELSE shares[u]
         /\ cash' = cash + Payout * shares[Winner(m)]
         /\ UNCHANGED <<live, phase>> /\ settled' = settled \cup {m} /\ odd \subseteq odd'
<1>1. Resolved(m) /\ SettlePortfolio(m) /\ UNCHANGED <<live, phase>> /\ settled' = settled \cup {m}
      /\ odd' = IF live /\ shares[Other(Winner(m))] > 0 THEN odd \cup {"loser"} ELSE odd
  BY DEF Settle, ToSettle, configVars
<1>2. Winner(m) \in Token /\ Mkt(Winner(m)) = m
  BY <1>1, WinnerOf
<1>3. ASSUME NEW u \in Token, Mkt(u) = m, u # Winner(m)
      PROVE  Worth(u) = 0 /\ u = Other(Winner(m))
  BY <1>2, <1>3, OtherToken DEF Worth
<1>4. \A u \in Token : Worth(u)' = Worth(u) /\ Winner(Mkt(u))' = Winner(Mkt(u))
  BY <1>1 DEF Worth, Resolved, Winner
<1>5. \A u \in Token : shares'[u] = IF Mkt(u) = m THEN 0 ELSE shares[u]
  BY <1>1 DEF SettlePortfolio
<1>6. cash' = cash + Payout * shares[Winner(m)]
  BY <1>1 DEF SettlePortfolio
<1>7. odd \subseteq odd'
  BY <1>1
<1> QED BY <1>1, <1>2, <1>3, <1>4, <1>5, <1>6, <1>7

(* The product with a difference. *)
LEMMA TimesLess ==
  ASSUME NEW a \in Int, NEW b \in Int, NEW k \in Int
  PROVE  /\ k * (a - b) = k * a - k * b /\ k * (a + b) = k * a + k * b
         /\ k * a \in Int /\ k * b \in Int
OBVIOUS

LEMMA AgreedSettleLive ==
  ASSUME TypeOK, StatusInv, NEW m \in Market, Settle(m), live,
         NEW e \in [Token -> Int], NEW c \in Int, Agreed(e, c)
  PROVE  Agreed(e, c)'
<1>1. PICK w : w = Winner(m)
  OBVIOUS
<1>2. /\ Resolved(m) /\ w \in Token /\ Mkt(w) = m
      /\ \A u \in Token : Mkt(u) = m /\ u # w => Worth(u) = 0 /\ u = Other(w)
      /\ \A u \in Token : Worth(u)' = Worth(u) /\ Winner(Mkt(u))' = Winner(Mkt(u))
      /\ \A u \in Token : shares'[u] = IF Mkt(u) = m THEN 0 ELSE shares[u]
      /\ cash' = cash + Payout * shares[w]
      /\ UNCHANGED <<live, phase>> /\ settled' = settled \cup {m} /\ odd \subseteq odd'
  BY <1>1, SettledTokens
<1>3. /\ AwaitRedemption(m) /\ UNCHANGED <<vcash, vpos>>
      /\ odd' = IF shares[Other(w)] > 0 THEN odd \cup {"loser"} ELSE odd
  BY <1>1 DEF Settle, moneyVars
<1>4. /\ cash \in Int /\ vcash \in Int /\ Payout \in Nat /\ shares[w] \in Nat
      /\ \A u \in Token : shares[u] \in Nat /\ vpos[u] \in Nat /\ e[u] \in Int
                          /\ pending[u] \in Nat
  BY <1>2, ConstantsType DEF TypeOK, PortfolioType, OutsideType, CoreType
<1>5. ASSUME NEW u \in Token
      PROVE  /\ Mkt(u) # m => Gap(e, u)' = Gap(e, u)
             /\ Mkt(u) = m => Gap(e, u)' = Gap(e, u) - shares[u]
  <2>1. PICK x \in Int, y \in Int, z \in Int : x = shares[u] /\ y = e[u] /\ z = vpos[u]
    BY <1>4
  <2>2. Gap(e, u) = x + y - z
    BY <2>1 DEF Gap
  <2>3. Mkt(u) # m => Gap(e, u)' = x + y - z
    BY <1>2, <1>3, <2>1 DEF Gap
  <2>4. Mkt(u) = m => Gap(e, u)' = 0 + y - z
    BY <1>2, <1>3, <2>1 DEF Gap
  <2> QED BY <2>1, <2>2, <2>3, <2>4
<1>6. \A u \in Token \ {w} : Owed(e)'[u] = Owed(e)[u]
  <2> SUFFICES ASSUME NEW u \in Token, u # w PROVE Owed(e)'[u] = Owed(e)[u]
    OBVIOUS
  <2>1. CASE Mkt(u) # m
    BY <1>2, <1>5, <2>1 DEF Owed
  <2>2. CASE Mkt(u) = m
    <3>1. Worth(u) = 0 /\ Worth(u)' = 0 /\ Gap(e, u) \in Int /\ Gap(e, u)' \in Int
      BY <1>2, <1>4, <1>5, <2>2, OwedType
    <3>2. Owed(e)'[u] = 0 * Gap(e, u)' /\ Owed(e)[u] = 0 * Gap(e, u)
      BY <3>1 DEF Owed
    <3> QED BY <3>1, <3>2
  <2> QED BY <2>1, <2>2
<1>7. PICK g \in Int, k \in Nat, h \in Nat :
        g = Gap(e, w) /\ k = Payout /\ h = shares[w]
  BY <1>2, <1>4, OwedType
<1>8. /\ Worth(w) = k /\ Owed(e)[w] = k * g /\ Owed(e)'[w] = k * (g - h)
      /\ k * (g - h) = k * g - k * h /\ k * g \in Int /\ k * h \in Int
  <2>1. Worth(w) = k /\ Worth(w)' = k
    BY <1>1, <1>2, <1>7, WinnerOf
  <2>2. Owed(e)[w] = k * g /\ Owed(e)'[w] = k * (g - h)
    BY <1>2, <1>5, <1>7, <2>1 DEF Owed
  <2> QED BY <2>1, <2>2, TimesLess
<1>9. SumFunction(Owed(e))' = SumFunction(Owed(e)) - k * h /\ SumFunction(Owed(e)) \in Int
  <2>1. SumFunction(Owed(e))' = SumFunction(Owed(e)) - k * g + (k * g - k * h)
    BY <1>2, <1>6, <1>8, OwedStep
  <2>2. PICK s \in Int : s = SumFunction(Owed(e))
    BY OwedType
  <2> QED BY <1>8, <2>1, <2>2
<1>10. ASSUME "reversal" \notin odd' PROVE PositionsAgree(e)' /\ MoneyAgrees(e, c)'
  <2>1. PositionsAgree(e) /\ MoneyAgrees(e, c)
    BY <1>2, <1>10 DEF Agreed
  <2>2. PositionsAgree(e)'
    BY <1>2, <1>5, <2>1 DEF PositionsAgree
  <2>3. PICK s \in Int, x \in Int, a \in Int, v \in Int :
          s = SumFunction(Owed(e)) /\ x = k * h /\ a = cash /\ v = vcash
    BY <1>4, <1>8, <1>9
  <2>4. a + c + s = v
    BY <2>1, <2>3 DEF MoneyAgrees
  <2>5. (a + x) + c + (s - x) = v
    BY <2>4
  <2>6. cash' = a + x /\ vcash' = v /\ SumFunction(Owed(e))' = s - x
    BY <1>2, <1>3, <1>7, <1>9, <2>3
  <2> QED BY <2>2, <2>5, <2>6 DEF MoneyAgrees
<1>11. ASSUME odd' \subseteq {"loser"} PROVE m \notin settled
  <2>1. \A t \in Token : Mkt(t) \in settled => PendingOf(e, t)
    BY <1>2, <1>11 DEF Agreed
  <2>2. PICK t \in Token : shares[t] > 0 /\ Mkt(t) = m
    BY DEF Settle, ToSettle, Held
  <2> QED BY <2>1, <2>2 DEF PendingOf
<1>12. pending' = IF Payout * shares[w] > 0 THEN [pending EXCEPT ![w] = Payout * shares[w]] ELSE pending
  BY <1>1, <1>3 DEF AwaitRedemption
<1>13. \A u \in Token : u # w => pending'[u] = pending[u]
  BY <1>4, <1>12
<1>14. ASSUME odd' \subseteq {"loser"}, NEW t \in Token, Mkt(t) \in settled' PROVE PendingOf(e, t)'
  <2>1. CASE Mkt(t) # m
    <3>1. PendingOf(e, t)
      BY <1>2, <1>14, <2>1 DEF Agreed
    <3>2. /\ shares'[t] = shares[t] /\ vpos'[t] = vpos[t] /\ pending'[t] = pending[t]
          /\ Owed(e)'[t] = Owed(e)[t]
      BY <1>2, <1>3, <1>6, <1>13, <2>1
    <3> QED BY <3>1, <3>2 DEF PendingOf
  <2>2. CASE Mkt(t) = m
    <3>1. Gap(e, t) = 0 /\ pending[t] = 0 /\ shares'[t] = 0
      <4>1. "reversal" \notin odd
        BY <1>2, <1>14
      <4>2. Gap(e, t) = 0 /\ shares'[t] = 0
        BY <1>2, <1>11, <1>14, <2>2, <4>1 DEF Agreed, PositionsAgree
      <4>3. ~(pending[t] > 0)
        BY <1>11, <1>14, <2>2 DEF StatusInv
      <4> QED BY <1>4, <4>2, <4>3
    <3>2. CASE t = w
      <4>1. g = 0
        BY <1>7, <3>1, <3>2
      <4>2. Owed(e)'[t] = 0 - k * h
        <5>1. k * g = 0
          BY <4>1
        <5>2. Owed(e)'[t] = k * g - k * h
          BY <1>8, <3>2
        <5> QED BY <5>1, <5>2
      <4>3. k * h \in Nat
        BY <1>7
      <4>4. CASE k * h > 0
        <5>1. pending' = [pending EXCEPT ![w] = k * h] /\ pending \in [Token -> Nat]
          BY <1>7, <1>12, <4>4 DEF TypeOK, CoreType
        <5>2. pending'[t] = k * h
          BY <1>2, <3>2, <5>1
        <5>3. PICK x \in Int, y \in Int : x = k * h /\ y = Owed(e)'[t] /\ y = 0 - x
          BY <4>2, <4>3
        <5>4. pending'[t] = 0 - Owed(e)'[t]
          BY <5>2, <5>3
        <5> QED BY <3>1, <5>4 DEF PendingOf
      <4>5. CASE k * h = 0
        <5>1. pending'[t] = 0
          BY <1>7, <1>12, <3>1, <4>5
        <5>2. Owed(e)'[t] = 0
          BY <4>2, <4>5
        <5> QED BY <3>1, <5>1, <5>2 DEF PendingOf
      <4> QED BY <4>3, <4>4, <4>5
    <3>3. CASE t # w
      <4>1. pending'[t] = 0
        BY <1>13, <3>1, <3>3
      <4>2. Owed(e)'[t] = 0
        BY <1>2, <1>6, <2>2, <3>3, OwedType
      <4> QED BY <3>1, <4>1, <4>2 DEF PendingOf
    <3> QED BY <3>2, <3>3
  <2> QED BY <2>1, <2>2
<1>15. ASSUME odd' = {}, NEW t \in Token, Mkt(t) \in settled' PROVE LoserOf(e, t)'
  <2> SUFFICES ASSUME t # Winner(Mkt(t)) PROVE vpos'[t] = 0 \/ Gap(e, t)' = 0
    BY <1>2 DEF LoserOf
  <2>1. CASE Mkt(t) # m
    <3>1. LoserOf(e, t)
      BY <1>2, <1>15, <2>1 DEF Agreed
    <3> QED BY <1>3, <1>5, <2>1, <3>1 DEF LoserOf
  <2>2. CASE Mkt(t) = m
    <3>1. t = Other(w) /\ t # w
      BY <1>1, <1>2, <2>2
    <3>2. shares[t] = 0
      BY <1>3, <1>4, <1>15, <3>1
    <3>3. Gap(e, t) = 0
      BY <1>2, <1>11, <1>15, <2>2 DEF Agreed, PositionsAgree
    <3>4. Gap(e, t)' = 0 - 0
      BY <1>5, <2>2, <3>2, <3>3
    <3> QED BY <3>4
  <2> QED BY <2>1, <2>2
<1>16. (live /\ odd \subseteq {"loser"} => \A t \in Token : Mkt(t) \in settled => PendingOf(e, t))'
  BY <1>14
<1>17. (live /\ odd = {} => \A t \in Token : Mkt(t) \in settled => LoserOf(e, t))'
  BY <1>15
<1> QED BY <1>10, <1>16, <1>17 DEF Agreed

(* The simulated venue settles with the bot, which has polled it.          *)
LEMMA AgreedSettlePaper ==
  ASSUME TypeOK, BatchInv, StatusInv, AllSeen, NEW m \in Market, Settle(m), ~live,
         NEW e \in [Token -> Int], NEW c \in Int, Due(e, c), Agreed(e, c)
  PROVE  Agreed(e, c)'
<1>1. PICK w : w = Winner(m)
  OBVIOUS
<1>2. /\ Resolved(m) /\ w \in Token /\ Mkt(w) = m
      /\ \A u \in Token : Worth(u)' = Worth(u)
      /\ \A u \in Token : shares'[u] = IF Mkt(u) = m THEN 0 ELSE shares[u]
      /\ cash' = cash + Payout * shares[w]
      /\ UNCHANGED live
  BY <1>1, SettledTokens
<1>3. /\ vcash' = vcash + Payout * vpos[w]
      /\ vpos' = [u \in Token |-> IF Mkt(u) = m THEN 0 ELSE vpos[u]]
  BY <1>1 DEF Settle, SettleVenue
<1>4. "reversal" \notin odd
  BY DEF StatusInv
<1>5. PositionsAgree(e) /\ MoneyAgrees(e, c)
  BY <1>4 DEF Agreed
<1>6. (\A u \in Token : e[u] = 0) /\ c = 0
  <2>1. pc = "settling"
    BY DEF Settle
  <2>2. batch = << >>
    BY <2>1 DEF BatchInv
  <2>3. \A i \in Open : Len(venue[i].trades) <= venue[i].seen
    BY DEF AllSeen
  <2> QED BY <2>2, <2>3, NothingDue
<1>7. \A u \in Token : shares[u] \in Nat /\ vpos[u] \in Nat /\ shares[u] = vpos[u]
  <2> SUFFICES ASSUME NEW u \in Token
               PROVE  shares[u] \in Nat /\ vpos[u] \in Nat /\ shares[u] = vpos[u]
    OBVIOUS
  <2>1. PICK x \in Nat, y \in Nat : x = shares[u] /\ y = vpos[u]
    BY DEF TypeOK, PortfolioType, OutsideType
  <2>2. x + 0 - y = 0
    BY <1>5, <1>6, <2>1 DEF PositionsAgree, Gap
  <2> QED BY <2>1, <2>2
<1>8. \A u \in Token : Gap(e, u) = 0 /\ Gap(e, u)' = 0
  <2> SUFFICES ASSUME NEW u \in Token PROVE Gap(e, u) = 0 /\ Gap(e, u)' = 0
    OBVIOUS
  <2>1. Gap(e, u) = 0
    BY <1>5 DEF PositionsAgree
  <2>2. PICK x \in Nat : x = shares'[u] /\ x = vpos'[u]
    BY <1>2, <1>3, <1>7
  <2>3. Gap(e, u)' = x + 0 - x
    BY <1>6, <2>2 DEF Gap
  <2> QED BY <2>1, <2>3
<1>9. \A u \in Token : Owed(e)[u] = 0 /\ Owed(e)'[u] = 0
  <2> SUFFICES ASSUME NEW u \in Token PROVE Owed(e)[u] = 0 /\ Owed(e)'[u] = 0
    OBVIOUS
  <2>1. Owed(e)[u] = 0 /\ Worth(u) \in Nat
    BY <1>8, OwedType
  <2>2. Owed(e)'[u] = Worth(u) * 0
    BY <1>2, <1>8 DEF Owed
  <2> QED BY <2>1, <2>2
<1>10. SumFunction(Owed(e)) = 0
  BY <1>9, OwedType, TokenFinite, SumZero
<1>11. SumFunction(Owed(e))' = 0
  BY <1>9, <1>10, OwedSame
<1>12. MoneyAgrees(e, c)'
  <2>1. PICK a \in Int, v \in Int, x \in Int :
          a = cash /\ v = vcash /\ x = Payout * shares[w] /\ a + 0 + 0 = v
    <3>1. cash \in Int /\ vcash \in Int /\ Payout * shares[w] \in Int
      BY <1>2, <1>7, ConstantsType DEF TypeOK, PortfolioType, OutsideType
    <3> QED BY <1>5, <1>6, <1>10, <3>1 DEF MoneyAgrees
  <2>2. cash' = a + x /\ vcash' = v + x
    BY <1>2, <1>3, <1>7, <2>1
  <2>3. (a + x) + 0 + 0 = v + x
    BY <2>1
  <2> QED BY <1>6, <1>11, <2>2, <2>3 DEF MoneyAgrees
<1>13. PositionsAgree(e)'
  BY <1>8 DEF PositionsAgree
<1> QED BY <1>2, <1>12, <1>13 DEF Agreed

(* A redemption turns the tokens of the winner into money in the wallet,   *)
(* which the bot counts already.                                           *)
LEMMA AgreedRedeem ==
  ASSUME TypeOK, StatusInv, NEW m \in Market, Redeem(m),
         NEW e \in [Token -> Int], NEW c \in Int, Agreed(e, c)
  PROVE  Agreed(e, c)'
<1>1. PICK w : w = Winner(m)
  OBVIOUS
<1>2. /\ live /\ Resolved(m) /\ pending[w] > 0
      /\ vcash' = vcash + Payout * vpos[w]
      /\ vpos' = [u \in Token |-> IF Mkt(u) = m THEN 0 ELSE vpos[u]]
      /\ UNCHANGED <<live, settled, pending, cash, shares, phase, odd>>
  BY <1>1 DEF Redeem, configVars, botVars, coreVars
<1>3. /\ w \in Token /\ Mkt(w) = m /\ Worth(w) = Payout
      /\ \A u \in Token : Mkt(u) = m /\ u # w => Worth(u) = 0
      /\ \A u \in Token : Worth(u)' = Worth(u) /\ Winner(Mkt(u))' = Winner(Mkt(u))
  <2>1. w \in Token /\ Mkt(w) = m /\ Worth(w) = Payout
    BY <1>1, <1>2, WinnerOf
  <2>2. \A u \in Token : Mkt(u) = m /\ u # w => Worth(u) = 0
    BY <1>1 DEF Worth
  <2>3. \A u \in Token : Worth(u)' = Worth(u) /\ Winner(Mkt(u))' = Winner(Mkt(u))
    BY <1>2 DEF Worth, Resolved, Winner
  <2> QED BY <2>1, <2>2, <2>3
<1>4. m \in settled
  BY <1>2, <1>3 DEF StatusInv
<1>5. /\ cash \in Int /\ vcash \in Int /\ Payout \in Nat /\ vpos[w] \in Nat
      /\ \A u \in Token : shares[u] \in Nat /\ vpos[u] \in Nat /\ e[u] \in Int
  BY <1>3, ConstantsType DEF TypeOK, PortfolioType, OutsideType
<1>6. ASSUME NEW u \in Token
      PROVE  /\ Mkt(u) # m => Gap(e, u)' = Gap(e, u)
             /\ Mkt(u) = m => Gap(e, u)' = Gap(e, u) + vpos[u]
  <2>1. PICK x \in Int, y \in Int, z \in Int : x = shares[u] /\ y = e[u] /\ z = vpos[u]
    BY <1>5
  <2>2. Gap(e, u) = x + y - z
    BY <2>1 DEF Gap
  <2>3. Mkt(u) # m => Gap(e, u)' = x + y - z
    BY <1>2, <2>1 DEF Gap
  <2>4. Mkt(u) = m => Gap(e, u)' = x + y - 0
    BY <1>2, <2>1 DEF Gap
  <2> QED BY <2>1, <2>2, <2>3, <2>4
<1>7. \A u \in Token \ {w} : Owed(e)'[u] = Owed(e)[u]
  <2> SUFFICES ASSUME NEW u \in Token, u # w PROVE Owed(e)'[u] = Owed(e)[u]
    OBVIOUS
  <2>1. CASE Mkt(u) # m
    BY <1>3, <1>6, <2>1 DEF Owed
  <2>2. CASE Mkt(u) = m
    <3>1. Worth(u) = 0 /\ Worth(u)' = 0 /\ Gap(e, u) \in Int /\ Gap(e, u)' \in Int
      BY <1>3, <1>5, <1>6, <2>2, OwedType
    <3>2. Owed(e)'[u] = 0 * Gap(e, u)' /\ Owed(e)[u] = 0 * Gap(e, u)
      BY <3>1 DEF Owed
    <3> QED BY <3>1, <3>2
  <2> QED BY <2>1, <2>2
<1>8. PICK g \in Int, k \in Nat, h \in Nat : g = Gap(e, w) /\ k = Payout /\ h = vpos[w]
  BY <1>3, <1>5, OwedType
<1>9. /\ Owed(e)[w] = k * g /\ Owed(e)'[w] = k * (g + h)
      /\ k * (g + h) = k * g + k * h /\ k * g \in Int /\ k * h \in Int
  <2>1. Worth(w) = k /\ Worth(w)' = k
    BY <1>3, <1>8
  <2>2. Owed(e)[w] = k * g /\ Owed(e)'[w] = k * (g + h)
    BY <1>3, <1>6, <1>8, <2>1 DEF Owed
  <2> QED BY <2>2, TimesLess
<1>10. SumFunction(Owed(e))' = SumFunction(Owed(e)) + k * h /\ SumFunction(Owed(e)) \in Int
  <2>1. SumFunction(Owed(e))' = SumFunction(Owed(e)) - k * g + (k * g + k * h)
    BY <1>3, <1>7, <1>9, OwedStep
  <2>2. PICK s \in Int : s = SumFunction(Owed(e))
    BY OwedType
  <2> QED BY <1>9, <2>1, <2>2
<1>11. ASSUME "reversal" \notin odd' PROVE PositionsAgree(e)' /\ MoneyAgrees(e, c)'
  <2>1. PositionsAgree(e) /\ MoneyAgrees(e, c)
    BY <1>2, <1>11 DEF Agreed
  <2>2. PositionsAgree(e)'
    BY <1>2, <1>4, <1>6, <2>1 DEF PositionsAgree
  <2>3. PICK s \in Int, x \in Int, a \in Int, v \in Int :
          s = SumFunction(Owed(e)) /\ x = k * h /\ a = cash /\ v = vcash
    BY <1>5, <1>9, <1>10
  <2>4. a + c + s = v
    BY <2>1, <2>3 DEF MoneyAgrees
  <2>5. a + c + (s + x) = v + x
    BY <2>4
  <2>6. cash' = a /\ vcash' = v + x /\ SumFunction(Owed(e))' = s + x
    BY <1>2, <1>8, <1>10, <2>3
  <2> QED BY <2>2, <2>5, <2>6 DEF MoneyAgrees
<1>12. ASSUME odd' \subseteq {"loser"}, NEW t \in Token, Mkt(t) \in settled' PROVE PendingOf(e, t)'
  <2>1. PendingOf(e, t)
    BY <1>2, <1>12 DEF Agreed
  <2>2. CASE Mkt(t) # m
    <3>1. /\ shares'[t] = shares[t] /\ vpos'[t] = vpos[t] /\ pending'[t] = pending[t]
          /\ Owed(e)'[t] = Owed(e)[t]
      BY <1>2, <1>3, <1>7, <2>2
    <3> QED BY <2>1, <3>1 DEF PendingOf
  <2>3. CASE Mkt(t) = m
    BY <1>2, <2>1, <2>3 DEF PendingOf
  <2> QED BY <2>2, <2>3
<1>13. ASSUME odd' = {}, NEW t \in Token, Mkt(t) \in settled' PROVE LoserOf(e, t)'
  <2>1. LoserOf(e, t)
    BY <1>2, <1>13 DEF Agreed
  <2>2. CASE Mkt(t) # m
    BY <1>2, <1>3, <1>6, <2>1, <2>2 DEF LoserOf
  <2>3. CASE Mkt(t) = m
    BY <1>2, <2>3 DEF LoserOf
  <2> QED BY <2>2, <2>3
<1>14. (live /\ odd \subseteq {"loser"} => \A t \in Token : Mkt(t) \in settled => PendingOf(e, t))'
  BY <1>12
<1>15. (live /\ odd = {} => \A t \in Token : Mkt(t) \in settled => LoserOf(e, t))'
  BY <1>13
<1> QED BY <1>11, <1>14, <1>15 DEF Agreed

(* A comparison moves no money, and forgets what is redeemed.              *)
LEMMA AgreedCompare ==
  ASSUME TypeOK, NEW e \in [Token -> Int], NEW c \in Int, Agreed(e, c),
         Compare \/ CompareIncomplete
  PROVE  Agreed(e, c)'
<1>1. /\ UNCHANGED <<live, settled, cash, shares, vcash, vpos, phase>> /\ odd \subseteq odd'
      /\ odd' # odd \cup {"incomplete"} => Compare
  BY DEF Compare, CompareIncomplete, configVars, botVars, moneyVars
<1>2. \A t \in Token : Gap(e, t)' = Gap(e, t)
  BY <1>1 DEF Gap
<1>3. \A t \in Token : Owed(e)'[t] = Owed(e)[t]
  BY <1>1, <1>2 DEF Owed, Worth, Resolved, Winner
<1>4. SumFunction(Owed(e))' = SumFunction(Owed(e))
  BY <1>3, OwedSame
<1>5. ASSUME "reversal" \notin odd' PROVE PositionsAgree(e)' /\ MoneyAgrees(e, c)'
  <2>1. PositionsAgree(e) /\ MoneyAgrees(e, c)
    BY <1>1, <1>5 DEF Agreed
  <2> QED BY <1>1, <1>2, <1>4, <2>1 DEF PositionsAgree, MoneyAgrees
<1>6. ASSUME odd' \subseteq {"loser"} PROVE Compare /\ odd \subseteq {"loser"}
  <2>1. odd' # odd \cup {"incomplete"}
    BY <1>6
  <2> QED BY <1>1, <1>6, <2>1
<1>7. ASSUME live, odd' \subseteq {"loser"}, NEW t \in Token, Mkt(t) \in settled
      PROVE  PendingOf(e, t)'
  <2>1. PendingOf(e, t) /\ pending' = StillPending(vpos)
    BY <1>6, <1>7 DEF Agreed, Compare
  <2>2. vpos[t] > 0 => pending'[t] = pending[t]
    BY <2>1 DEF StillPending
  <2> QED BY <1>1, <1>3, <2>1, <2>2 DEF PendingOf
<1>8. ASSUME live, odd' = {}, NEW t \in Token, Mkt(t) \in settled
      PROVE  LoserOf(e, t)'
  <2>1. LoserOf(e, t)
    BY <1>1, <1>8 DEF Agreed
  <2> QED BY <1>1, <1>2, <2>1 DEF LoserOf, Winner
<1>9. (live /\ odd \subseteq {"loser"} => \A t \in Token : Mkt(t) \in settled => PendingOf(e, t))'
  BY <1>1, <1>7
<1>10. (live /\ odd = {} => \A t \in Token : Mkt(t) \in settled => LoserOf(e, t))'
  BY <1>1, <1>8
<1> QED BY <1>5, <1>9, <1>10 DEF Agreed

(* A comparison with all that was read at one time passes.                 *)
LEMMA ComparisonPasses ==
  ASSUME TypeOK, StatusInv, "reversal" \notin odd, ~live \/ odd = {}, balance.cash = vcash,
         NEW e \in [Token -> Int], NEW c \in Int, Agreed(e, c),
         \A t \in Token : e[t] = 0, c = 0
  PROVE  Matches(vpos, StillPending(vpos))
<1>1. PositionsAgree(e) /\ MoneyAgrees(e, c)
  BY DEF Agreed
<1>2. /\ \A t \in Token : shares[t] \in Nat /\ vpos[t] \in Nat /\ pending[t] \in Nat
      /\ cash \in Int /\ vcash \in Int /\ Payout \in Nat \ {0}
  <2>1. BuyLimit \in Nat /\ BuyLimit < Payout /\ Payout \in Nat
    BY LedgerAssumption
  <2>2. Payout \in Nat \ {0}
    BY <2>1
  <2> QED BY <2>2 DEF TypeOK, PortfolioType, OutsideType, CoreType
<1>3. PICK a : a = StillPending(vpos)
  OBVIOUS
<1>4. DOMAIN a = Token /\ \A t \in Token : a[t] = IF vpos[t] > 0 THEN pending[t] ELSE 0
  BY <1>3 DEF StillPending
<1>5. ASSUME NEW t \in Token
      PROVE  /\ a[t] = 0 => shares[t] = vpos[t]
             /\ a[t] = 0 - Owed(e)[t]
  <2>1. PICK x \in Nat, y \in Nat, p \in Nat, o \in Int :
          x = shares[t] /\ y = vpos[t] /\ p = pending[t] /\ o = Owed(e)[t]
    BY <1>2, OwedType
  <2>2. Gap(e, t) = x + 0 - y
    BY <2>1 DEF Gap
  <2>3. CASE ~live \/ Mkt(t) \notin settled
    <3>1. Gap(e, t) = 0 /\ p = 0
      <4>1. ~(p > 0)
        BY <2>1, <2>3 DEF StatusInv
      <4> QED BY <1>1, <2>1, <2>3, <4>1 DEF PositionsAgree
    <3>2. o = 0
      BY <2>1, <3>1, OwedType
    <3>3. x = y
      <4>1. x \in Nat /\ y \in Nat /\ x + 0 - y = 0
        BY <2>1, <2>2, <3>1
      <4> QED BY ONLY <4>1
    <3>4. a[t] = 0
      BY <1>4, <2>1, <3>1
    <3> QED BY <2>1, <3>2, <3>3, <3>4
  <2>4. CASE live /\ Mkt(t) \in settled
    <3>1. PendingOf(e, t) /\ LoserOf(e, t)
      BY <2>4 DEF Agreed
    <3>2. x = 0 /\ (y > 0 => p = 0 - o)
      BY <2>1, <3>1 DEF PendingOf
    <3>3. Gap(e, t) = 0 - y
      BY <2>2, <3>2
    <3>4. CASE y = 0
      <4>1. o = 0
        <5>1. Gap(e, t) = 0
          BY <3>3, <3>4
        <5> QED BY <2>1, <5>1, OwedType
      <4>2. a[t] = 0
        <5>1. ~(y > 0)
          BY <3>4
        <5> QED BY <1>4, <2>1, <5>1
      <4> QED BY <2>1, <3>2, <3>4, <4>1, <4>2
    <3>5. CASE y > 0
      <4>1. a[t] = p /\ p = 0 - o
        BY <1>4, <2>1, <3>2, <3>5
      <4>2. p # 0
        <5>1. t = Winner(Mkt(t))
          <6>1. Gap(e, t) # 0 /\ vpos[t] # 0
            BY <2>1, <3>3, <3>5
          <6> QED BY <3>1, <6>1 DEF LoserOf
        <5>2. Mkt(t) \in Market /\ Resolved(Mkt(t))
          BY <2>4, TokenOf DEF StatusInv
        <5>3. Worth(t) = Payout
          BY <5>1, <5>2, WinnerOf
        <5>4. PICK k \in Nat : k = Payout /\ k # 0
          BY <1>2
        <5>5. o = k * (0 - y)
          BY <2>1, <3>3, <5>3, <5>4 DEF Owed
        <5>6. k * (0 - y) # 0
          <6>1. k * (0 - y) = k * 0 - k * y /\ k * 0 = 0 /\ k * y \in Nat
            BY TimesLess
          <6>2. k <= k * y
            BY <3>5, Times
          <6> QED BY <5>4, <6>1, <6>2
        <5> QED BY <4>1, <5>5, <5>6
      <4> QED BY <2>1, <4>1, <4>2
    <3> QED BY <3>4, <3>5
  <2> QED BY <2>3, <2>4
<1>6. cash - SumFunction(a) = vcash
  <2>1. PICK z : z = [t \in Token |-> 0]
    OBVIOUS
  <2>2. SumFunctionOnSet(z, Token) = 0
    BY <2>1, TokenFinite, SumZero
  <2>3. \A t \in Token : z[t] \in Int /\ Owed(e)[t] \in Int /\ a[t] = z[t] - Owed(e)[t]
    BY <1>5, <2>1, OwedType
  <2>4. SumFunctionOnSet(a, Token) = SumFunctionOnSet(z, Token) - SumFunctionOnSet(Owed(e), Token)
    BY <2>3, TokenFinite, SumDifference
  <2>5. PICK s \in Int : s = SumFunction(Owed(e)) /\ s = SumFunctionOnSet(Owed(e), Token)
    BY OwedType
  <2>6. SumFunction(a) = 0 - s
    BY <1>4, <2>2, <2>4, <2>5 DEF SumFunction
  <2>7. PICK k \in Int, l \in Int : k = cash /\ l = vcash /\ k + 0 + s = l
    BY <1>1, <1>2, <2>5 DEF MoneyAgrees
  <2>8. k - (0 - s) = l
    BY <2>7
  <2> QED BY <2>6, <2>7, <2>8
<1> QED BY <1>3, <1>5, <1>6 DEF Matches

(* The simulated venue hands over every trade when it is polled.           *)
LEMMA UnseenNone ==
  ASSUME OrdersType, NEW i \in DOMAIN orders, Unseen(i) = << >>
  PROVE  Len(venue[i].trades) <= venue[i].seen
<1> DEFINE v == venue[i]
           fills == [k \in 1 .. Len(v.trades) |-> [i |-> i, type |-> "fill", price |-> v.trades[k]]]
           end == IF v.done THEN <<[i |-> i, type |-> "end", price |-> 0]>> ELSE << >>
<1>1. v.trades \in Seq(Prices) /\ v.seen \in Nat /\ Len(v.trades) \in Nat /\ i \in Nat
  BY OrderFields, LenProperties
<1>2. fills \in Seq(Event) /\ Len(fills) = Len(v.trades)
  <2>1. \A k \in 1 .. Len(v.trades) : v.trades[k] \in Nat
    BY <1>1, ConstantsType, ElementOfSeq
  <2>2. \A p \in Nat : [i |-> i, type |-> "fill", price |-> p] \in Event
    BY <1>1 DEF Event
  <2>3. fills \in [1 .. Len(v.trades) -> Event]
    BY <2>1, <2>2
  <2> HIDE DEF fills
  <2> QED BY <2>3, <1>1, SeqDef, LenProperties
<1>3. end \in Seq(Event)
  <2>1. [i |-> i, type |-> "end", price |-> 0] \in Event
    BY <1>1 DEF Event
  <2> QED BY <2>1
<1>4. Events(i) = fills \o end
  BY DEF Events
<1> HIDE DEF fills, end
<1>5. PICK E : E = Events(i) /\ E \in Seq(Event) /\ Len(E) = Len(fills) + Len(end)
  BY <1>2, <1>3, <1>4, ConcatProperties
<1>6. PICK L \in Nat : L = Len(E) /\ Len(v.trades) <= L
  <2>1. Len(end) \in Nat /\ Len(fills) \in Nat
    BY <1>2, <1>3, LenProperties
  <2>2. Len(E) \in Nat /\ Len(v.trades) <= Len(E)
    BY <1>1, <1>2, <1>5, <2>1
  <2> QED BY <2>2
<1>7. PICK n \in Nat : n = v.seen + 1
  BY <1>1
<1>8. SubSeq(E, n, L) = << >>
  BY <1>5, <1>6, <1>7 DEF Unseen
<1>9. n > L
  <2> SUFFICES ASSUME n <= L PROVE FALSE
    BY <1>6, <1>7
  <2>1. n \in Int /\ L \in Int /\ n >= 1
    BY <1>1, <1>7
  <2>2. \A k \in n .. L : E[k] \in Event
    BY <1>5, <1>6, <2>1, ElementOfSeq
  <2>3. Len(SubSeq(E, n, L)) = L - n + 1
    BY <2>1, <2>2, SubSeqProperties
  <2>4. Len(SubSeq(E, n, L)) = 0
    BY <1>8
  <2> QED BY <2>1, <2>3, <2>4
<1> QED BY <1>1, <1>6, <1>7, <1>9

LEMMA AllSeenStep ==
  ASSUME TypeOK, BatchInv, AmountInv, BatchOrderInv, [Next]_vars, ~killed', ~killed,
         live \/ pc = "polling" \/ AllSeen
  PROVE  live' \/ pc' = "polling" \/ AllSeen'
<1>1. OrdersType
  BY DEF TypeOK
<1>2. ASSUME pc = "polling" => pc' = "polling" , UNCHANGED <<live, orders, venue>>
      PROVE  live' \/ pc' = "polling" \/ AllSeen'
  BY <1>2 DEF AllSeen, Open
<1>3. CASE FetchDone
  <2>1. live \/ \A i \in Open : Unseen(i) = << >>
    BY <1>3 DEF FetchDone
  <2>2. UNCHANGED <<live, orders, venue>>
    BY <1>3 DEF FetchDone, configVars
  <2>3. ~live => AllSeen
    BY <1>1, <2>1, UnseenNone DEF AllSeen, Open
  <2> QED BY <2>2, <2>3 DEF AllSeen, Open
<1>4. CASE ApplyFill
  <2>1. /\ batch # << >> /\ Head(batch).type = "fill" /\ UNCHANGED <<live, pc, venue>>
        /\ orders' = [orders EXCEPT ![Head(batch).i].used =
                        @ + IF orders[Head(batch).i].side = "buy" THEN Head(batch).price ELSE 1]
    BY <1>4 DEF ApplyFill, configVars
  <2>2. Open' = Open
    BY <2>1, FillOrder
  <2> QED BY <2>1, <2>2 DEF AllSeen
<1>5. CASE ApplyEnd
  <2>1. UNCHANGED <<live, pc, venue>> /\ Open' \subseteq Open
    <3>1. /\ batch # << >> /\ UNCHANGED <<live, pc, venue>>
          /\ orders' = [orders EXCEPT ![Head(batch).i].open = FALSE]
      BY <1>5 DEF ApplyEnd, configVars
    <3>2. Open' = Open \ {Head(batch).i}
      BY <1>5, EndOrder
    <3> QED BY <3>1, <3>2
  <2> QED BY <2>1 DEF AllSeen
<1>6. ASSUME NEW order, Submit(order), UNCHANGED <<live, pc>>
      PROVE  live' \/ pc' = "polling" \/ AllSeen'
  <2> SUFFICES ASSUME AllSeen, NEW j \in Open' PROVE Len(venue'[j].trades) <= venue'[j].seen
    BY <1>6 DEF AllSeen
  <2>1. orders \in Seq(Order) /\ venue \in Seq(VenueOrder) /\ Len(venue) = Len(orders)
    BY <1>1 DEF OrdersType
  <2>2. orders' = Append(orders, order)
        /\ venue' = Append(venue, [trades |-> << >>, left |-> order.amount, done |-> FALSE, seen |-> 0])
    BY <1>6 DEF Submit
  <2>3. j \in DOMAIN orders' /\ orders'[j].open
    BY DEF Open
  <2>4. /\ Len(orders) \in Nat /\ DOMAIN orders' = 1 .. Len(orders) + 1
        /\ DOMAIN orders = 1 .. Len(orders)
        /\ \A l \in 1 .. Len(orders) : orders'[l] = orders[l] /\ venue'[l] = venue[l]
        /\ venue'[Len(orders) + 1] = [trades |-> << >>, left |-> order.amount, done |-> FALSE, seen |-> 0]
    BY <2>1, <2>2, AppendProperties, LenProperties
  <2>5. CASE j \in 1 .. Len(orders)
    <3>1. j \in Open
      BY <2>3, <2>4, <2>5 DEF Open
    <3> QED BY <2>4, <2>5, <3>1 DEF AllSeen
  <2>6. CASE j = Len(orders) + 1
    <3>1. venue'[j].trades = << >> /\ venue'[j].seen = 0
      BY <2>4, <2>6
    <3> QED BY <3>1
  <2>7. j \in 1 .. Len(orders) \/ j = Len(orders) + 1
    BY <2>3, <2>4
  <2> QED BY <2>5, <2>6, <2>7
<1>7. ASSUME NEW t \in Token, NEW amount \in 1 .. MaxOrderSize, Enter(t, amount)
      PROVE  live' \/ pc' = "polling" \/ AllSeen'
  BY <1>6, <1>7 DEF Enter, configVars
<1>8. ASSUME NEW t \in Token, Exit(t) PROVE live' \/ pc' = "polling" \/ AllSeen'
  BY <1>6, <1>8 DEF Exit, configVars
<1>9. CASE \/ \E i \in DOMAIN orders : Fetch(i)
           \/ \E i \in DOMAIN orders, price \in Prices : Match(i, price)
           \/ \E i \in DOMAIN orders : Finish(i)
  BY <1>9 DEF Fetch, Match, Finish, BeforePoll
<1>10. CASE FillBreaks
  BY <1>10 DEF FillBreaks
<1>11. CASE \/ ApplyDone \/ SettleDone \/ ReadBalance \/ SkipReconcile \/ SnapshotFails
            \/ Compare \/ CompareIncomplete \/ StepDone \/ \E m \in Market : Settle(m)
  BY <1>2, <1>11 DEF ApplyDone, SettleDone, ReadBalance, SkipReconcile, SnapshotFails, Compare,
     CompareIncomplete, StepDone, Settle, configVars
<1>12. CASE \/ \E m \in Market : WindowEnds(m) \/ \E winner \in Outcome : Resolve(m, winner)
            \/ \E m \in Market : Redeem(m)
            \/ \E i \in DOMAIN orders : \E k \in DOMAIN venue[i].trades : Reverse(i, k)
            \/ UNCHANGED vars
  BY <1>2, <1>12 DEF WindowEnds, Resolve, Redeem, Reverse, vars, configVars
<1> QED BY <1>3, <1>4, <1>5, <1>7, <1>8, <1>9, <1>10, <1>11, <1>12 DEF Next, Step, Outside

LEMMA StatusStep ==
  ASSUME TypeOK, StatusInv, [Next]_vars
  PROVE  StatusInv'
<1>1. ASSUME UNCHANGED <<pending, settled, phase, live>>, pc' # "comparing",
             "reversal" \in odd' => "reversal" \in odd
      PROVE  StatusInv'
  BY <1>1 DEF StatusInv, Resolved
<1>2. CASE \/ \E i \in DOMAIN orders : Fetch(i)
           \/ FetchDone \/ ApplyFill \/ FillBreaks \/ ApplyEnd \/ ApplyDone \/ SettleDone
           \/ SkipReconcile \/ SnapshotFails \/ StepDone
           \/ \E t \in Token, amount \in 1 .. MaxOrderSize : Enter(t, amount)
           \/ \E t \in Token : Exit(t)
  <2>1. UNCHANGED <<pending, settled, phase, live>>
    BY <1>2 DEF Fetch, FetchDone, ApplyFill, FillBreaks, ApplyEnd, ApplyDone, SettleDone,
       SkipReconcile, SnapshotFails, StepDone, Enter, Exit, coreVars, configVars
  <2>2. pc' # "comparing"
    BY <1>2 DEF Fetch, FetchDone, ApplyFill, FillBreaks, ApplyEnd, ApplyDone, SettleDone,
       SkipReconcile, SnapshotFails, StepDone, Enter, Exit
  <2>3. odd' = odd \/ odd' = odd \cup {"late"}
    BY <1>2 DEF Fetch, FetchDone, ApplyFill, FillBreaks, ApplyEnd, ApplyDone, SettleDone,
       SkipReconcile, SnapshotFails, StepDone, Enter, Exit, NoteLate
  <2> QED BY <1>1, <2>1, <2>2, <2>3
<1>3. CASE \/ \E i \in DOMAIN orders, price \in Prices : Match(i, price)
           \/ \E i \in DOMAIN orders : Finish(i)
  BY <1>1, <1>3 DEF Match, Finish, BeforePoll, coreVars, configVars
<1>4. CASE UNCHANGED vars
  <2>1. UNCHANGED <<pending, settled, phase, live, pc, odd, orders>>
    BY <1>4 DEF vars, coreVars, configVars
  <2> QED BY <2>1 DEF StatusInv, Resolved, Open
<1>5. ASSUME NEW m \in Market, Settle(m) PROVE StatusInv'
  <2>1. /\ Resolved(m) /\ settled' = settled \cup {m} /\ UNCHANGED <<live, phase, pc>>
        /\ pc = "settling" /\ odd' \subseteq odd \cup {"loser"}
        /\ IF live THEN AwaitRedemption(m) ELSE UNCHANGED pending
    BY <1>5 DEF Settle, ToSettle, configVars
  <2>2. ASSUME NEW t \in Token, pending'[t] > 0 PROVE live' /\ Mkt(t) \in settled'
    <3>1. CASE pending'[t] = pending[t]
      BY <2>1, <2>2, <3>1 DEF StatusInv
    <3>2. CASE pending'[t] # pending[t]
      <4>1. live /\ t = Winner(m)
        <5>1. live /\ AwaitRedemption(m) /\ pending \in [Token -> Nat]
          BY <2>1, <3>2 DEF TypeOK, CoreType
        <5>2. PICK x : pending' = pending \/ pending' = [pending EXCEPT ![Winner(m)] = x]
          BY <5>1 DEF AwaitRedemption
        <5> QED BY <3>2, <5>1, <5>2
      <4> QED BY <2>1, <4>1, WinnerOf
    <3> QED BY <3>1, <3>2
  <2>3. \A n \in settled' : Resolved(n)'
    BY <2>1 DEF StatusInv, Resolved
  <2> QED BY <2>1, <2>2, <2>3 DEF StatusInv
<1>6. CASE ReadBalance
  <2>1. Open = {} /\ UNCHANGED <<pending, settled, phase, live, odd, orders>>
    BY <1>6 DEF ReadBalance, coreVars, configVars
  <2> QED BY <2>1 DEF StatusInv, Resolved, Open
<1>7. CASE Compare \/ CompareIncomplete
  <2>1. UNCHANGED <<settled, phase, live>> /\ pc' = "trading"
        /\ ("reversal" \in odd' => "reversal" \in odd)
        /\ \A t \in Token : pending'[t] = pending[t] \/ pending'[t] = 0
    BY <1>7 DEF Compare, CompareIncomplete, StillPending, configVars
  <2>2. \A t \in Token : pending'[t] > 0 => pending[t] > 0
    BY <2>1
  <2> QED BY <2>1, <2>2 DEF StatusInv, Resolved
<1>8. ASSUME NEW m \in Market, NEW x, phase' = [phase EXCEPT ![m] = x], ~Resolved(m),
             UNCHANGED <<pending, settled, live, pc, odd>>, pc = "polling"
      PROVE  StatusInv'
  <2>1. \A n \in settled : n # m /\ phase'[n] = phase[n]
    BY <1>8 DEF StatusInv, TypeOK, OutsideType
  <2> QED BY <1>8, <2>1 DEF StatusInv, Resolved
<1>9. ASSUME NEW m \in Market, WindowEnds(m) PROVE StatusInv'
  <2>1. ~Resolved(m)
    BY <1>9, LedgerAssumption DEF WindowEnds, Resolved
  <2> QED BY <1>8, <1>9, <2>1 DEF WindowEnds, BeforePoll, coreVars, configVars
<1>10. ASSUME NEW m \in Market, NEW winner \in Outcome, Resolve(m, winner) PROVE StatusInv'
  <2>1. ~Resolved(m)
    BY <1>10, LedgerAssumption DEF Resolve, Resolved
  <2> QED BY <1>8, <1>10, <2>1 DEF Resolve, BeforePoll, coreVars, configVars
<1>11. ASSUME NEW m \in Market, Redeem(m) PROVE StatusInv'
  BY <1>11 DEF Redeem, StatusInv, Resolved, Open, coreVars, configVars
<1>12. CASE \E i \in DOMAIN orders : \E k \in DOMAIN venue[i].trades : Reverse(i, k)
  BY <1>12 DEF Reverse, StatusInv, Resolved, Open, coreVars, configVars
<1> QED BY <1>2, <1>3, <1>4, <1>5, <1>6, <1>7, <1>9, <1>10, <1>11, <1>12 DEF Next, Step, Outside

(* The comparison passes or the wallet was redeemed in the middle of it.   *)
LEMMA HaltStep ==
  ASSUME TypeOK, BatchInv, StatusInv, Apart, HaltInv, [Next]_vars, ~killed'
  PROVE  HaltInv'
<1>0. failures \in 0 .. 2 /\ tears \in Nat /\ halted \in BOOLEAN
  BY DEF TypeOK, CoreType, OutsideType
<1>1. ASSUME UNCHANGED <<live, failures, halted, tears>>, odd \subseteq odd',
             pc' = "comparing" => UNCHANGED <<pc, balance, vcash>>
      PROVE  HaltInv'
  BY <1>1 DEF HaltInv
<1>2. CASE \/ \E i \in DOMAIN orders : Fetch(i)
           \/ FetchDone \/ ApplyFill \/ ApplyEnd \/ ApplyDone \/ SettleDone
           \/ SkipReconcile \/ SnapshotFails \/ StepDone \/ \E m \in Market : Settle(m)
           \/ \E t \in Token, amount \in 1 .. MaxOrderSize : Enter(t, amount)
           \/ \E t \in Token : Exit(t)
  BY <1>1, <1>2 DEF Fetch, FetchDone, ApplyFill, ApplyEnd, ApplyDone, SettleDone, Settle,
     SkipReconcile, SnapshotFails, StepDone, Enter, Exit, NoteLate, coreVars, configVars
<1>3. CASE \/ \E i \in DOMAIN orders, price \in Prices : Match(i, price)
           \/ \E i \in DOMAIN orders : Finish(i)
           \/ \E m \in Market : WindowEnds(m) \/ \E winner \in Outcome : Resolve(m, winner)
  BY <1>1, <1>3 DEF Match, Finish, WindowEnds, Resolve, BeforePoll, coreVars, configVars
<1>4. CASE UNCHANGED vars
  <2>1. UNCHANGED <<live, failures, halted, tears, odd, pc, balance, vcash>>
    BY <1>4 DEF vars, coreVars, configVars, moneyVars
  <2> QED BY <1>1, <2>1
<1>5. CASE FillBreaks
  BY <1>5 DEF FillBreaks
<1>6. CASE ReadBalance
  <2>1. /\ UNCHANGED <<live, failures, halted, tears, odd, vcash>> /\ balance'.cash = vcash
    BY <1>6 DEF ReadBalance, coreVars, configVars, moneyVars
  <2> QED BY <2>1 DEF HaltInv
<1>7. CASE CompareIncomplete
  BY <1>7 DEF CompareIncomplete, HaltInv, configVars
<1>8. CASE Compare
  <2> DEFINE ok == Matches(vpos, StillPending(vpos))
  <2>1. /\ Report(ok) /\ pc' = "trading" /\ pc = "comparing" /\ UNCHANGED <<live, tears, odd>>
    BY <1>8 DEF Compare, configVars
  <2>2. ASSUME ~live \/ odd = {}, balance.cash = vcash PROVE ok
    <3>1. PICK e \in [Token -> Int], c \in Int : Due(e, c) /\ Agreed(e, c)
      BY DEF Apart
    <3>2. batch = << >> /\ Open = {}
      BY <2>1 DEF BatchInv, StatusInv
    <3>3. (\A t \in Token : e[t] = 0) /\ c = 0
      <4>1. \A i \in Open : Len(venue[i].trades) <= venue[i].seen
        BY <3>2
      <4> QED BY <3>1, <3>2, <4>1, NothingDue
    <3>4. "reversal" \notin odd
      BY <2>2 DEF StatusInv
    <3> QED BY <2>2, <3>1, <3>3, <3>4, ComparisonPasses
  <2> HIDE DEF ok
  <2>3. ASSUME ok PROVE HaltInv'
    BY <1>0, <2>1, <2>3 DEF HaltInv, Report
  <2>4. ASSUME ~ok PROVE HaltInv'
    <3>1. live \/ (failures = 0 /\ ~halted /\ balance.cash = vcash)
      BY <2>1 DEF HaltInv
    <3>2. live
      BY <2>2, <2>4, <3>1
    <3>3. ASSUME odd = {} PROVE failures' <= tears /\ (halted' => tears >= 2)
      <4>1. failures + 1 <= tears /\ (halted => tears >= 2)
        BY <2>1, <2>2, <2>4, <3>2, <3>3 DEF HaltInv
      <4>2. failures' <= failures + 1 /\ (halted' => halted \/ failures >= 1)
        BY <1>0, <2>1, <2>4 DEF Report
      <4>3. PICK f \in Nat, g \in Int, t \in Nat : f = failures /\ g = failures' /\ t = tears
        BY <1>0, <2>1, <2>4 DEF Report
      <4> QED BY <4>1, <4>2, <4>3
    <3> QED BY <2>1, <3>2, <3>3 DEF HaltInv
  <2> QED BY <2>3, <2>4
<1>9. ASSUME NEW m \in Market, Redeem(m) PROVE HaltInv'
  <2>1. /\ live /\ UNCHANGED <<live, failures, halted, odd, pc, balance>>
        /\ tears' = IF pc = "comparing" THEN tears + 1 ELSE tears
    BY <1>9 DEF Redeem, coreVars, configVars
  <2>2. ASSUME odd = {}
        PROVE  /\ failures <= tears' /\ (halted => tears' >= 2)
               /\ (pc = "comparing" => failures + 1 <= tears')
    <3>1. failures <= tears /\ (halted => tears >= 2)
      BY <2>1, <2>2 DEF HaltInv
    <3>2. PICK f \in Nat, t \in Nat : f = failures /\ t = tears
      BY <1>0
    <3> QED BY <2>1, <3>1, <3>2
  <2> QED BY <2>1, <2>2 DEF HaltInv
<1>10. CASE \E i \in DOMAIN orders : \E k \in DOMAIN venue[i].trades : Reverse(i, k)
  BY <1>10 DEF Reverse, HaltInv, configVars
<1> QED BY <1>2, <1>3, <1>4, <1>5, <1>6, <1>7, <1>8, <1>9, <1>10 DEF Next, Step, Outside

LEMMA ApartStep ==
  ASSUME TypeOK, BatchInv, AmountInv, BatchOrderInv, StatusInv, Apart, [Next]_vars, ~killed',
         live \/ pc = "polling" \/ AllSeen
  PROVE  Apart'
<1>1. PICK e \in [Token -> Int], c \in Int : Due(e, c) /\ Agreed(e, c)
  BY DEF Apart
<1>2. ASSUME UNCHANGED <<live, settled, pending, cash, shares, vcash, vpos, phase>>,
             odd \subseteq odd', Due(e, c)'
      PROVE  Apart'
  <2>1. Agreed(e, c)'
    BY <1>1, <1>2, AgreedCarry
  <2> QED BY <1>1, <1>2, <2>1 DEF Apart
<1>3. ASSUME UNCHANGED <<orders, venue, batch>>, Agreed(e, c)' PROVE Apart'
  <2>1. Due(e, c)'
    BY <1>1, <1>3, DueCarry
  <2> QED BY <1>1, <1>3, <2>1 DEF Apart
<1>4. ASSUME NEW i \in DOMAIN orders, Fetch(i) PROVE Apart'
  <2>1. Due(e, c)'
    BY <1>1, <1>4, FetchDue
  <2> QED BY <1>2, <1>4, <2>1 DEF Fetch, configVars, botVars, moneyVars, coreVars
<1>5. CASE \/ FetchDone \/ ApplyDone \/ SettleDone \/ ReadBalance \/ SkipReconcile
           \/ SnapshotFails \/ StepDone
  <2>1. UNCHANGED <<orders, venue, batch>>
    BY <1>5 DEF FetchDone, ApplyDone, SettleDone, ReadBalance, SkipReconcile, SnapshotFails, StepDone
  <2>2. UNCHANGED <<live, settled, pending, cash, shares, vcash, vpos, phase>> /\ odd \subseteq odd'
    BY <1>5 DEF FetchDone, ApplyDone, SettleDone, ReadBalance, SkipReconcile, SnapshotFails, StepDone,
       configVars, botVars, moneyVars, coreVars
  <2>3. Agreed(e, c)'
    BY <1>1, <2>2, AgreedCarry
  <2> QED BY <1>3, <2>1, <2>3
<1>6. CASE UNCHANGED vars
  <2>1. UNCHANGED <<orders, venue, batch>>
    BY <1>6 DEF vars
  <2>2. UNCHANGED <<live, settled, pending, cash, shares, vcash, vpos, phase>> /\ odd \subseteq odd'
    BY <1>6 DEF vars, configVars, botVars, moneyVars, coreVars
  <2>3. Agreed(e, c)'
    BY <1>1, <2>2, AgreedCarry
  <2> QED BY <1>3, <2>1, <2>3
<1>7. CASE ApplyFill
  BY <1>1, <1>7, AgreedFill
<1>8. CASE FillBreaks
  BY <1>8 DEF FillBreaks
<1>9. CASE ApplyEnd
  <2>1. Due(e, c)'
    BY <1>1, <1>9, EndDue
  <2> QED BY <1>2, <1>9, <2>1 DEF ApplyEnd, configVars, botVars, moneyVars, coreVars
<1>10. ASSUME NEW m \in Market, Settle(m) PROVE Apart'
  <2>1. UNCHANGED <<orders, venue, batch>> /\ pc = "settling"
    BY <1>10 DEF Settle
  <2>2. CASE live
    <3>1. Agreed(e, c)'
      BY <1>1, <1>10, <2>2, AgreedSettleLive
    <3> QED BY <1>3, <2>1, <3>1
  <2>3. CASE ~live
    <3>1. AllSeen
      BY <2>1, <2>3
    <3>2. Agreed(e, c)'
      BY <1>1, <1>10, <2>3, <3>1, AgreedSettlePaper
    <3> QED BY <1>3, <2>1, <3>2
  <2> QED BY <2>2, <2>3
<1>11. CASE Compare \/ CompareIncomplete
  <2>1. UNCHANGED <<orders, venue, batch>>
    BY <1>11 DEF Compare, CompareIncomplete
  <2>2. Agreed(e, c)'
    BY <1>1, <1>11, AgreedCompare
  <2> QED BY <1>3, <2>1, <2>2
<1>12. ASSUME NEW t \in Token, NEW amount \in 1 .. MaxOrderSize, Enter(t, amount) PROVE Apart'
  <2>1. PICK o : o = [side |-> "buy", token |-> t, amount |-> amount, used |-> 0, open |-> TRUE]
    OBVIOUS
  <2>2. o \in Order /\ o.used = 0 /\ o.open = TRUE
    BY <2>1, ConstantsType DEF Order
  <2>3. Submit(o) /\ pc = "trading" /\ UNCHANGED batch
    BY <1>12, <2>1 DEF Enter
  <2>4. Due(e, c)'
    BY <1>1, <2>2, <2>3, NewDue
  <2> QED BY <1>2, <1>12, <2>4 DEF Enter, configVars, botVars, moneyVars, coreVars
<1>13. ASSUME NEW t \in Token, Exit(t) PROVE Apart'
  <2>1. PICK o : o = [side |-> "sell", token |-> t, amount |-> shares[t], used |-> 0, open |-> TRUE]
    OBVIOUS
  <2>2. o \in Order /\ o.used = 0 /\ o.open = TRUE
    BY <2>1 DEF Order, TypeOK, PortfolioType
  <2>3. Submit(o) /\ pc = "trading" /\ UNCHANGED batch
    BY <1>13, <2>1 DEF Exit
  <2>4. Due(e, c)'
    BY <1>1, <2>2, <2>3, NewDue
  <2> QED BY <1>2, <1>13, <2>4 DEF Exit, configVars, botVars, moneyVars, coreVars
<1>14. ASSUME NEW i \in DOMAIN orders, NEW price \in Prices, Match(i, price) PROVE Apart'
  BY <1>1, <1>14, AgreedMatch
<1>15. ASSUME NEW i \in DOMAIN orders, Finish(i) PROVE Apart'
  <2>1. Due(e, c)'
    BY <1>1, <1>15, FinishDue
  <2> QED BY <1>2, <1>15, <2>1 DEF Finish, configVars, botVars, moneyVars, coreVars
<1>16. ASSUME NEW m \in Market, NEW x, phase' = [phase EXCEPT ![m] = x], ~Resolved(m),
              UNCHANGED <<live, settled, pending, cash, shares, vcash, vpos, odd>>,
              UNCHANGED <<orders, venue, batch>>
       PROVE  Apart'
  <2>1. CASE "reversal" \in odd
    BY <1>3, <1>16, <2>1, AgreedUndone
  <2>2. CASE "reversal" \notin odd
    <3>1. Agreed(e, c)'
      BY <1>1, <1>16, <2>2, AgreedPhase
    <3> QED BY <1>3, <1>16, <3>1
  <2> QED BY <2>1, <2>2
<1>17. ASSUME NEW m \in Market, WindowEnds(m) PROVE Apart'
  <2>1. ~Resolved(m)
    BY <1>17, LedgerAssumption DEF WindowEnds, Resolved
  <2> QED BY <1>16, <1>17, <2>1 DEF WindowEnds, configVars, botVars, moneyVars, coreVars
<1>18. ASSUME NEW m \in Market, NEW winner \in Outcome, Resolve(m, winner) PROVE Apart'
  <2>1. ~Resolved(m)
    BY <1>18, LedgerAssumption DEF Resolve, Resolved
  <2> QED BY <1>16, <1>18, <2>1 DEF Resolve, configVars, botVars, moneyVars, coreVars
<1>19. ASSUME NEW m \in Market, Redeem(m) PROVE Apart'
  <2>1. UNCHANGED <<orders, venue, batch>>
    BY <1>19 DEF Redeem
  <2>2. Agreed(e, c)'
    BY <1>1, <1>19, AgreedRedeem
  <2> QED BY <1>3, <2>1, <2>2
<1>20. ASSUME NEW i \in DOMAIN orders, NEW k \in DOMAIN venue[i].trades, Reverse(i, k) PROVE Apart'
  <2>1. UNCHANGED <<orders, venue, batch>> /\ "reversal" \in odd'
    BY <1>20 DEF Reverse
  <2> QED BY <1>3, <2>1, AgreedUndone
<1> QED BY <1>4, <1>5, <1>6, <1>7, <1>8, <1>9, <1>10, <1>11, <1>12, <1>13, <1>14, <1>15,
           <1>17, <1>18, <1>19, <1>20 DEF Next, Step, Outside

LEMMA InitApart == Init => AgreeInv
<1> SUFFICES ASSUME Init PROVE AgreeInv
  OBVIOUS
<1>1. TypeOK
  BY InitType
<1>2. PICK e : e = [t \in Token |-> 0]
  OBVIOUS
<1>3. e \in [Token -> Int] /\ \A t \in Token : e[t] = 0
  BY <1>2
<1>4. Due(e, 0)
  BY <1>3, InitDue
<1>5. \A t \in Token : Gap(e, t) = 0
  BY <1>3 DEF Init, Gap
<1>6. SumFunction(Owed(e)) = 0
  BY <1>1, <1>3, <1>5, OwedType, TokenFinite, SumZero
<1>7. settled = {} /\ odd = {} /\ cash = vcash /\ cash \in Int
  BY <1>1 DEF Init, TypeOK, PortfolioType
<1>8. Agreed(e, 0)
  <2>1. cash + 0 + 0 = vcash
    BY <1>7
  <2> QED BY <1>5, <1>6, <1>7, <2>1 DEF Agreed, PositionsAgree, MoneyAgrees
<1>9. Apart
  BY <1>3, <1>4, <1>8 DEF Apart
<1>10. StatusInv
  BY DEF Init, StatusInv
<1>11. HaltInv /\ pc = "polling"
  BY DEF Init, HaltInv
<1> QED BY <1>9, <1>10, <1>11 DEF AgreeInv

LEMMA AgreeInvariance == Spec => [](IInv /\ AmountInv /\ BatchOrderInv /\ AgreeInv)
<1>1. Init => AgreeInv
  BY InitApart
<1>2. IInv /\ AmountInv /\ BatchOrderInv /\ AgreeInv /\ [Next]_vars => AgreeInv'
  <2> SUFFICES ASSUME IInv, AmountInv, BatchOrderInv, AgreeInv, [Next]_vars PROVE AgreeInv'
    OBVIOUS
  <2>1. TypeOK /\ BatchInv /\ StatusInv
    BY DEF IInv, AgreeInv
  <2>2. StatusInv'
    BY <2>1, StatusStep
  <2>3. ASSUME ~killed' PROVE Apart' /\ HaltInv' /\ (live' \/ pc' = "polling" \/ AllSeen')
    <3>1. ~killed
      BY <2>3 DEF Next, Step, Outside, Fetch, FetchDone, ApplyFill, FillBreaks, ApplyEnd, ApplyDone,
         Settle, SettleDone, ReadBalance, SkipReconcile, SnapshotFails, Compare, CompareIncomplete,
         Enter, Exit, StepDone, Match, Finish, WindowEnds, Resolve, Redeem, Reverse, vars
    <3>2. Apart /\ HaltInv /\ (live \/ pc = "polling" \/ AllSeen)
      BY <3>1 DEF AgreeInv
    <3>3. Apart'
      BY <2>1, <2>3, <3>2, ApartStep
    <3>4. HaltInv'
      BY <2>1, <2>3, <3>2, HaltStep
    <3>5. live' \/ pc' = "polling" \/ AllSeen'
      BY <2>1, <2>3, <3>1, <3>2, AllSeenStep
    <3> QED BY <3>3, <3>4, <3>5
  <2> QED BY <2>2, <2>3 DEF AgreeInv
<1>3. IInv /\ FlightInv => AmountInv /\ BatchOrderInv
  BY DEF FlightInv
<1> QED BY <1>1, <1>2, <1>3, Invariance, FlightInvariance, PTL DEF Spec

(* With no order open nothing is due.                                      *)
LEMMA NothingOpen ==
  ASSUME TypeOK, Open = {}, NEW e \in [Token -> Int], NEW c, Due(e, c)
  PROVE  (\A t \in Token : e[t] = 0) /\ c = 0
<1>1. PICK n : Booked(n)
  BY DEF Due
<1>2. PICK nth : InBatch(n, nth)
  BY <1>1 DEF Booked
<1>3. batch = << >>
  <2>1. \A k \in DOMAIN batch : batch[k].i \in Open
    BY <1>2 DEF InBatch, Queued
  <2>2. batch \in Seq(Event) /\ DOMAIN batch = {}
    BY <2>1 DEF TypeOK, StepType
  <2> QED BY <2>2, EmptySeq, LenProperties
<1> QED BY <1>3, NothingDue

(* With no order open nothing is left to be booked.                        *)
LEMMA NothingLeft ==
  ASSUME TypeOK, Open = {}, Apart
  PROVE  \E e \in [Token -> Int] : (\A t \in Token : e[t] = 0) /\ Agreed(e, 0)
<1>1. PICK e \in [Token -> Int], c \in Int : Due(e, c) /\ Agreed(e, c)
  BY DEF Apart
<1>2. (\A t \in Token : e[t] = 0) /\ c = 0
  BY <1>1, NothingOpen
<1> QED BY <1>1, <1>2

(* The two ledgers agree on positions and money with no order open,        *)
(* however trades, polls, settlements, redemptions and late fills are      *)
(* interleaved, for any windows, prices, fees and limits: the bot's cash   *)
(* and the wallet's are apart by what is due and what awaits redemption.   *)
THEOREM TheLedgersAgree == Spec => []LedgersAgree
<1>1. IInv /\ AgreeInv => LedgersAgree
  <2> SUFFICES ASSUME IInv, AgreeInv, Open = {}, ~killed, "reversal" \notin odd
               PROVE  /\ \A t \in Token : ~Resolved(Mkt(t)) => shares[t] = vpos[t]
                      /\ Wealth(cash, shares) = Wealth(vcash, vpos)
    BY DEF LedgersAgree
  <2>1. TypeOK /\ StatusInv /\ Apart
    BY DEF IInv, AgreeInv
  <2>2. PICK e \in [Token -> Int] : (\A t \in Token : e[t] = 0) /\ Agreed(e, 0)
    BY <2>1, NothingLeft
  <2>3. PositionsAgree(e) /\ MoneyAgrees(e, 0)
    BY <2>2 DEF Agreed
  <2>4. ASSUME NEW t \in Token
        PROVE  /\ shares[t] \in Nat /\ vpos[t] \in Nat /\ Worth(t) \in Nat
               /\ Gap(e, t) = shares[t] - vpos[t]
               /\ Worth(t) * shares[t] \in Int /\ Worth(t) * vpos[t] \in Int
               /\ Owed(e)[t] = Worth(t) * shares[t] - Worth(t) * vpos[t]
    <3>1. PICK x \in Nat, y \in Nat, w \in Nat : x = shares[t] /\ y = vpos[t] /\ w = Worth(t)
      BY <2>1, OwedType DEF TypeOK, PortfolioType, OutsideType
    <3>2. Gap(e, t) = x - y
      BY <2>2, <3>1 DEF Gap
    <3>3. Owed(e)[t] = w * (x - y)
      BY <3>1, <3>2 DEF Owed
    <3>4. w * (x - y) = w * x - w * y /\ w * x \in Int /\ w * y \in Int
      BY TimesLess
    <3> QED BY <3>1, <3>2, <3>3, <3>4
  <2>5. ASSUME NEW t \in Token, ~Resolved(Mkt(t)) PROVE shares[t] = vpos[t]
    <3>1. Gap(e, t) = 0
      BY <2>1, <2>3, <2>5 DEF StatusInv, PositionsAgree
    <3>2. PICK x \in Nat, y \in Nat : x = shares[t] /\ y = vpos[t] /\ x - y = 0
      BY <2>4, <3>1
    <3> QED BY <3>2
  <2>6. Wealth(cash, shares) = Wealth(vcash, vpos)
    <3>1. PICK f : f = [t \in Token |-> Worth(t) * shares[t]]
      OBVIOUS
    <3>2. PICK g : g = [t \in Token |-> Worth(t) * vpos[t]]
      OBVIOUS
    <3>3. \A t \in Token : f[t] \in Int /\ g[t] \in Int /\ Owed(e)[t] = f[t] - g[t]
      BY <2>4, <3>1, <3>2
    <3>4. SumFunctionOnSet(Owed(e), Token) = SumFunctionOnSet(f, Token) - SumFunctionOnSet(g, Token)
      BY <3>3, TokenFinite, SumDifference
    <3>5. PICK a \in Int, b \in Int : a = SumFunctionOnSet(f, Token) /\ b = SumFunctionOnSet(g, Token)
      BY <3>3, TokenFinite, SumType
    <3>6. SumFunction(Owed(e)) = a - b
      BY <2>1, <3>4, <3>5, OwedType
    <3>7. Wealth(cash, shares) = cash + a /\ Wealth(vcash, vpos) = vcash + b
      BY <3>1, <3>2, <3>5 DEF Wealth, SumFunction
    <3>8. PICK k \in Int, l \in Int : k = cash /\ l = vcash /\ k + 0 + (a - b) = l
      BY <2>1, <2>3, <3>6 DEF MoneyAgrees, TypeOK, PortfolioType, OutsideType
    <3>9. k + a = l + b
      BY <3>8
    <3> QED BY <3>7, <3>8, <3>9
  <2> QED BY <2>5, <2>6
<1> QED BY <1>1, AgreeInvariance, PTL

(* What the bot subtracts for redemptions is exactly what the wallet has   *)
(* left to redeem, for any number of windows and orders, whatever is       *)
(* redeemed between or during comparisons.                                 *)
THEOREM PendingStaysExact == Spec => []PendingIsExact
<1>1. IInv /\ AgreeInv => PendingIsExact
  <2> SUFFICES ASSUME IInv, AgreeInv, live, Open = {}, ~killed, odd \subseteq {"loser"},
                      NEW t \in Token, Mkt(t) \in settled, vpos[t] > 0
               PROVE  pending[t] = (IF t = Winner(Mkt(t)) THEN Payout * vpos[t] ELSE 0)
    BY DEF PendingIsExact
  <2>1. TypeOK /\ StatusInv /\ Apart
    BY DEF IInv, AgreeInv
  <2>2. PICK e \in [Token -> Int] : (\A u \in Token : e[u] = 0) /\ Agreed(e, 0)
    BY <2>1, NothingLeft
  <2>3. shares[t] = 0 /\ pending[t] = 0 - Owed(e)[t]
    BY <2>2 DEF Agreed, PendingOf
  <2>4. PICK y \in Nat, w \in Nat : y = vpos[t] /\ w = Worth(t)
    BY <2>1, OwedType DEF TypeOK, OutsideType
  <2>5. Owed(e)[t] = w * (0 - y)
    <3>1. Gap(e, t) = 0 - y
      BY <2>2, <2>3, <2>4 DEF Gap
    <3> QED BY <2>4, <3>1 DEF Owed
  <2>6. pending[t] = w * y
    <3>1. w * (0 - y) = w * 0 - w * y /\ w * y \in Int /\ w * 0 = 0
      BY TimesLess
    <3>2. PICK x \in Int : x = w * y
      BY <3>1
    <3>3. Owed(e)[t] = 0 - x
      BY <2>5, <3>1, <3>2
    <3> QED BY <2>3, <3>2, <3>3
  <2>7. Mkt(t) \in Market /\ Resolved(Mkt(t))
    BY <2>1, TokenOf DEF StatusInv
  <2>8. w = IF t = Winner(Mkt(t)) THEN Payout ELSE 0
    BY <2>4, <2>7 DEF Worth
  <2> QED BY <2>4, <2>6, <2>8
<1> QED BY <1>1, AgreeInvariance, PTL

(* A halt has a cause outside the bot's accounting, for any number of      *)
(* windows, orders and comparisons: complete comparisons of what was read  *)
(* at one time pass, so each failure needs a redemption of its own.        *)
THEOREM NoHaltWithoutCause == Spec => []NoFalseHalt
<1>1. AgreeInv => NoFalseHalt
  BY DEF AgreeInv, HaltInv, NoFalseHalt
<1> QED BY <1>1, AgreeInvariance, PTL
-----------------------------------------------------------------------------
(* What undone trades do to the money, up to whole payouts.                *)

(* Settlements and redemptions move whole payouts only. *)
Whole(x) == \E k \in Int : x = Payout * k

(* What a trade can have brought or cost. *)
TradeFlows ==
  {Flow("buy", p) : p \in {q \in Prices : q <= BuyLimit}}
    \cup {Flow("sell", p) : p \in {q \in Prices : q >= SellFloor}}

(* Undone[n] has what n undone trades can have brought, and no such sum is *)
(* whole payouts.                                                          *)
NeverWhole(Undone) ==
  /\ \A n \in 0 .. MaxReversals : Undone[n] \subseteq Int
  /\ 0 \in Undone[0]
  /\ \A n \in 0 .. MaxReversals - 1 :
       \A u \in Undone[n], f \in TradeFlows : u + f \in Undone[n + 1]
  /\ \A n \in 1 .. MaxReversals : \A u \in Undone[n] : ~Whole(u)

TradesInv ==
  \A i \in DOMAIN orders : \A k \in DOMAIN venue[i].trades :
    Flow(orders[i].side, venue[i].trades[k]) \in TradeFlows

CountInv ==
  /\ "reversal" \in odd => reversals > 0
  /\ \A t \in Token : Whole(pending[t])

(* How far the money is apart, with what is due counted as booked. *)
Rift(c) == cash + c - vcash

(* The bot's money and the wallet's are apart by what was undone and by    *)
(* whole payouts.                                                          *)
Drift(U) ==
  \E e \in [Token -> Int], c \in Int, u \in U[reversals] : Due(e, c) /\ Whole(Rift(c) - u)

(* So is what was read of the wallet after a trade was undone. *)
ReadDrift(U) ==
  pc = "comparing" /\ ~balance.clean =>
    \E n \in 1 .. MaxReversals : \E u \in U[n] : Whole(cash - balance.cash - u)

UndoneInv(U) == TradesInv /\ CountInv /\ (~killed => Drift(U) /\ ReadDrift(U))

LEMMA WholeSums ==
  /\ Whole(0)
  /\ \A x, y \in Int : Whole(x) /\ Whole(y) => Whole(x + y) /\ Whole(x - y)
  /\ \A n \in Int : Whole(Payout * n)
<1>1. Payout \in Int
  BY LedgerAssumption
<1>2. Whole(0)
  <2>1. 0 = Payout * 0
    BY <1>1
  <2> QED BY <2>1 DEF Whole
<1>3. ASSUME NEW x \in Int, NEW y \in Int, Whole(x), Whole(y)
      PROVE  Whole(x + y) /\ Whole(x - y)
  <2>1. PICK k \in Int, l \in Int : x = Payout * k /\ y = Payout * l
    BY <1>3 DEF Whole
  <2>2. x + y = Payout * (k + l) /\ x - y = Payout * (k - l)
    BY <1>1, <2>1, TimesLess
  <2>3. k + l \in Int /\ k - l \in Int
    OBVIOUS
  <2> QED BY <2>2, <2>3 DEF Whole
<1>4. \A n \in Int : Whole(Payout * n)
  BY DEF Whole
<1> QED BY <1>2, <1>3, <1>4

LEMMA SumWhole ==
  ASSUME NEW f, NEW S, IsFiniteSet(S), \A x \in S : f[x] \in Int /\ Whole(f[x])
  PROVE  Whole(SumFunctionOnSet(f, S))
<1> DEFINE B == {T \in SUBSET S : ~Whole(SumFunctionOnSet(f, T))}
<1> SUFFICES ASSUME B # {} PROVE FALSE
  OBVIOUS
<1>1. PICK T \in B : \A u \in B : u \subseteq T => u = T
  <2>1. B \subseteq SUBSET S
    OBVIOUS
  <2> HIDE DEF B
  <2> QED BY <2>1, Smallest
<1>2. T \subseteq S /\ IsFiniteSet(T) /\ ~Whole(SumFunctionOnSet(f, T))
  BY FS_Subset
<1>3. CASE T = {}
  <2>1. SumFunctionOnSet(f, T) = 0
    BY <1>2, <1>3, SumStep
  <2> QED BY <1>2, <2>1, WholeSums
<1>4. CASE T # {}
  <2>1. PICK d \in T : TRUE
    BY <1>4
  <2>2. T \ {d} \notin B
    BY <1>1, <2>1
  <2>3. Whole(SumFunctionOnSet(f, T \ {d}))
    BY <1>2, <2>2
  <2>4. IsFiniteSet(T \ {d}) /\ \A x \in T \ {d} : f[x] \in Int
    BY <1>2, FS_Subset
  <2>5. SumFunctionOnSet(f, T \ {d}) \in Int
    BY <2>4, SumType
  <2>6. SumFunctionOnSet(f, T) = f[d] + SumFunctionOnSet(f, T \ {d})
    BY <1>2, SumRemove
  <2>7. f[d] \in Int /\ Whole(f[d])
    BY <1>2
  <2> QED BY <1>2, <2>3, <2>5, <2>6, <2>7, WholeSums
<1> QED BY <1>3, <1>4

(* A share of the limits of its side. *)
LEMMA TradesStep ==
  ASSUME TypeOK, BatchInv, TradesInv, [Next]_vars
  PROVE  TradesInv'
<1>1. OrdersType
  BY DEF TypeOK
<1>2. ASSUME \A i \in DOMAIN orders' :
                /\ i \in DOMAIN orders
                /\ orders'[i].side = orders[i].side /\ venue'[i].trades = venue[i].trades
      PROVE  TradesInv'
  BY <1>2 DEF TradesInv
<1>3. ASSUME UNCHANGED <<orders, venue>> PROVE TradesInv'
  BY <1>2, <1>3
<1>4. ASSUME NEW i \in DOMAIN orders, Fetch(i) \/ Finish(i) PROVE TradesInv'
  <2>1. UNCHANGED orders
    BY <1>4 DEF Fetch, Finish
  <2>2. PICK v : venue' = [venue EXCEPT ![i] = v] /\ v.trades = venue[i].trades
    <3>1. i \in DOMAIN venue /\ venue[i] \in VenueOrder
      BY <1>1, OrderFields
    <3>2. PICK v : v = [venue[i] EXCEPT !.seen = @ + 1]
      OBVIOUS
    <3>3. PICK w : w = [venue[i] EXCEPT !.done = TRUE]
      OBVIOUS
    <3>4. v.trades = venue[i].trades /\ w.trades = venue[i].trades
      BY <3>1, <3>2, <3>3 DEF VenueOrder
    <3>5. venue' = [venue EXCEPT ![i] = v] \/ venue' = [venue EXCEPT ![i] = w]
      BY <1>4, <3>2, <3>3 DEF Fetch, Finish
    <3> QED BY <3>4, <3>5
  <2>3. \A j \in DOMAIN orders : venue'[j].trades = venue[j].trades
    BY <1>1, <2>2, OrderFields
  <2> QED BY <1>2, <2>1, <2>3
<1>5. CASE ApplyFill \/ FillBreaks \/ ApplyEnd
  <2>1. UNCHANGED venue /\ batch # << >>
    BY <1>5 DEF ApplyFill, FillBreaks, ApplyEnd
  <2>2. Head(batch).i \in DOMAIN orders
    BY <2>1, HeadType DEF TypeOK
  <2>3. DOMAIN orders' = DOMAIN orders /\ \A j \in DOMAIN orders : orders'[j].side = orders[j].side
    BY <1>1, <1>5, <2>2, OrderFields DEF ApplyFill, FillBreaks, ApplyEnd, Order
  <2> QED BY <1>2, <2>1, <2>3
<1>6. ASSUME NEW o, Submit(o) PROVE TradesInv'
  <2>1. PICK v : v = [trades |-> << >>, left |-> o.amount, done |-> FALSE, seen |-> 0]
    OBVIOUS
  <2>2. orders' = Append(orders, o) /\ venue' = Append(venue, v) /\ v.trades = << >>
    BY <1>6, <2>1 DEF Submit
  <2>3. PICK m \in Nat : m = Len(orders) /\ m = Len(venue)
    BY <1>1, LenProperties DEF OrdersType
  <2>4. /\ DOMAIN orders = 1 .. m /\ DOMAIN orders' = 1 .. (m + 1)
        /\ venue'[m + 1].trades = << >>
        /\ \A j \in 1 .. m : orders'[j] = orders[j] /\ venue'[j] = venue[j]
    BY <1>1, <2>2, <2>3 DEF OrdersType
  <2>5. \A j \in 1 .. (m + 1) : j \in 1 .. m \/ j = m + 1
    OBVIOUS
  <2> QED BY <2>4, <2>5 DEF TradesInv
<1>7. ASSUME NEW i \in DOMAIN orders, NEW p \in Prices, Match(i, p) PROVE TradesInv'
  <2>1. UNCHANGED orders
    BY <1>7 DEF Match
  <2>2. PICK s \in {"buy", "sell"} : s = orders[i].side
    BY <1>1, OrderFields DEF Order
  <2>3. Flow(s, p) \in TradeFlows
    BY <1>7, <2>2 DEF Match, TradeFlows
  <2>4. PICK v : v = [venue[i] EXCEPT !.trades = Append(@, p),
                                      !.left = @ - IF orders[i].side = "buy" THEN p ELSE 1]
    OBVIOUS
  <2>5. venue' = [venue EXCEPT ![i] = v] /\ venue[i] \in VenueOrder /\ i \in DOMAIN venue
    BY <1>1, <1>7, <2>4, OrderFields DEF Match
  <2>6. v.trades = Append(venue[i].trades, p)
    BY <2>4, <2>5 DEF VenueOrder
  <2>7. PICK n \in Nat : n = Len(venue[i].trades) /\ venue[i].trades \in Seq(Prices)
    BY <2>5, LenProperties DEF VenueOrder
  <2>8. /\ DOMAIN v.trades = 1 .. (n + 1) /\ v.trades[n + 1] = p
        /\ \A k \in 1 .. n : v.trades[k] = venue[i].trades[k]
        /\ DOMAIN venue[i].trades = 1 .. n
    BY <2>6, <2>7
  <2>9. \A k \in 1 .. (n + 1) : k \in 1 .. n \/ k = n + 1
    OBVIOUS
  <2>10. \A k \in DOMAIN v.trades : Flow(s, v.trades[k]) \in TradeFlows
    BY <2>2, <2>3, <2>8, <2>9 DEF TradesInv
  <2>11. \A j \in DOMAIN orders : venue'[j] = IF j = i THEN v ELSE venue[j]
    BY <1>1, <2>5, OrderFields
  <2> QED BY <2>1, <2>2, <2>10, <2>11 DEF TradesInv
<1>8. ASSUME NEW t \in Token, NEW amount \in 1 .. MaxOrderSize, Enter(t, amount) PROVE TradesInv'
  BY <1>6, <1>8 DEF Enter
<1>9. ASSUME NEW t \in Token, Exit(t) PROVE TradesInv'
  BY <1>6, <1>9 DEF Exit
<1>10. CASE \/ FetchDone \/ ApplyDone \/ SettleDone \/ ReadBalance \/ SkipReconcile
            \/ SnapshotFails \/ Compare \/ CompareIncomplete \/ StepDone \/ UNCHANGED vars
            \/ \E m \in Market : Settle(m) \/ WindowEnds(m) \/ Redeem(m)
            \/ \E m \in Market, winner \in Outcome : Resolve(m, winner)
            \/ \E i \in DOMAIN orders : \E k \in DOMAIN venue[i].trades : Reverse(i, k)
  BY <1>3, <1>10 DEF FetchDone, ApplyDone, SettleDone, ReadBalance, SkipReconcile, SnapshotFails,
     Compare, CompareIncomplete, StepDone, Settle, WindowEnds, Redeem, Resolve, Reverse, vars
<1> QED BY <1>4, <1>5, <1>7, <1>8, <1>9, <1>10 DEF Next, Step, Outside

(* Redemptions are awaited in whole payouts. *)
LEMMA CountStep ==
  ASSUME TypeOK, CountInv, [Next]_vars
  PROVE  CountInv'
<1>1. reversals \in Nat /\ pending \in [Token -> Nat]
  BY LedgerAssumption DEF TypeOK, OutsideType, CoreType
<1>2. ("reversal" \in odd => reversals > 0)'
  <2>1. CASE \E i \in DOMAIN orders : \E k \in DOMAIN venue[i].trades : Reverse(i, k)
    BY <1>1, <2>1 DEF Reverse
  <2>2. CASE UNCHANGED reversals /\ ("reversal" \in odd' => "reversal" \in odd)
    BY <2>2 DEF CountInv
  <2>3. CASE ApplyFill \/ FillBreaks \/ CompareIncomplete \/ \E m \in Market : Settle(m)
    <3>1. UNCHANGED reversals
      BY <2>3 DEF ApplyFill, FillBreaks, CompareIncomplete, Settle
    <3>2. \E x \in {"late", "incomplete", "loser"} : odd' = odd \/ odd' = odd \cup {x}
      <4>1. CASE ApplyFill
        BY <4>1 DEF ApplyFill, NoteLate
      <4>2. CASE FillBreaks
        BY <4>2 DEF FillBreaks, NoteLate
      <4>3. CASE CompareIncomplete
        BY <4>3 DEF CompareIncomplete
      <4>4. CASE \E m \in Market : Settle(m)
        BY <4>4 DEF Settle
      <4> QED BY <2>3, <4>1, <4>2, <4>3, <4>4
    <3> QED BY <2>2, <3>1, <3>2
  <2>4. \/ UNCHANGED <<odd, reversals>>
        \/ ApplyFill \/ FillBreaks \/ CompareIncomplete \/ \E m \in Market : Settle(m)
        \/ \E i \in DOMAIN orders : \E k \in DOMAIN venue[i].trades : Reverse(i, k)
    BY DEF Next, Step, Outside, Fetch, FetchDone, ApplyEnd, ApplyDone, SettleDone, ReadBalance,
       SkipReconcile, SnapshotFails, Compare, Enter, Exit, StepDone, Match, Finish, WindowEnds,
       Resolve, Redeem, vars
  <2> QED BY <2>1, <2>2, <2>3, <2>4
<1>3. ASSUME NEW t \in Token PROVE Whole(pending'[t])
  <2>1. CASE pending' = pending
    BY <2>1 DEF CountInv
  <2>2. CASE \E r : pending' = StillPending(r)
    <3>1. pending'[t] = pending[t] \/ pending'[t] = 0
      BY <2>2 DEF StillPending
    <3> QED BY <3>1, WholeSums DEF CountInv
  <2>3. ASSUME NEW m \in Market, Settle(m) PROVE Whole(pending'[t])
    <3>1. PICK w : w = Winner(m)
      OBVIOUS
    <3>2. w \in Token /\ shares[w] \in Int
      BY <2>3, <3>1, SettledTokens DEF TypeOK, PortfolioType
    <3>3. \/ pending' = pending
          \/ pending' = [pending EXCEPT ![w] = Payout * shares[w]]
      BY <2>3, <3>1 DEF Settle, AwaitRedemption
    <3>4. pending'[t] = pending[t] \/ pending'[t] = Payout * shares[w]
      BY <1>1, <3>3
    <3> QED BY <3>2, <3>4, WholeSums DEF CountInv
  <2>4. \/ pending' = pending \/ (\E r : pending' = StillPending(r)) \/ \E m \in Market : Settle(m)
    BY DEF Next, Step, Outside, Fetch, FetchDone, ApplyFill, FillBreaks, ApplyEnd, ApplyDone,
       SettleDone, ReadBalance, SkipReconcile, SnapshotFails, Compare, CompareIncomplete, Enter,
       Exit, StepDone, Match, Finish, WindowEnds, Resolve, Redeem, Reverse, vars, coreVars
  <2> QED BY <2>1, <2>2, <2>3, <2>4
<1> QED BY <1>2, <1>3 DEF CountInv

(* Of all steps only an undone trade moves the money by anything but whole *)
(* payouts.                                                                *)
Moved(c, f) ==
  \E d \in [Token -> Int], b \in Int : Due(d, b)' /\ Whole(Rift(b)' - Rift(c) - f)

LEMMA NothingMoved ==
  ASSUME TypeOK, NEW e \in [Token -> Int], NEW c \in Int, Due(e, c)', UNCHANGED <<cash, vcash>>
  PROVE  Moved(c, 0)
<1>1. PICK x \in Int, y \in Int : x = cash /\ y = vcash
  BY DEF TypeOK, PortfolioType, OutsideType
<1>2. Rift(c)' = x + c - y /\ Rift(c) = x + c - y
  BY <1>1 DEF Rift
<1>3. (x + c - y) - (x + c - y) - 0 = 0
  BY <1>1
<1> QED BY <1>2, <1>3, WholeSums DEF Moved

LEMMA FlowType ==
  ASSUME NEW s, NEW p, p \in Prices
  PROVE  Flow(s, p) \in Int
<1>1. Fee \in Int /\ p \in Int
  BY LedgerAssumption
<1>2. p - Fee \in Int /\ 0 - (p + Fee) \in Int /\ -(p + Fee) \in Int /\ -p - Fee \in Int
  BY <1>1
<1> QED BY <1>1, <1>2 DEF Flow

LEMMA MoneyStep ==
  ASSUME TypeOK, BatchInv, AmountInv, BatchOrderInv, TradesInv, [Next]_vars, ~killed',
         NEW e \in [Token -> Int], NEW c \in Int, Due(e, c)
  PROVE  \/ Moved(c, 0) /\ reversals' = reversals
         \/ \E f \in TradeFlows : Moved(c, f) /\ reversals' = reversals + 1
<1>1. PICK x \in Int, y \in Int : x = cash /\ y = vcash
  BY DEF TypeOK, PortfolioType, OutsideType
<1>2. Rift(c) = x + c - y
  BY <1>1 DEF Rift
<1>3. Fee \in Int /\ Payout \in Int /\ Prices \subseteq Nat
  BY LedgerAssumption
<1>4. ASSUME UNCHANGED <<orders, venue, batch>> PROVE Due(e, c)'
  BY <1>4, DueCarry
<1>5. ASSUME NEW i \in DOMAIN orders, Fetch(i) \/ Finish(i)
      PROVE  Moved(c, 0) /\ reversals' = reversals
  <2>1. Due(e, c)'
    BY <1>5, FetchDue, FinishDue
  <2>2. UNCHANGED <<cash, vcash, reversals>>
    BY <1>5 DEF Fetch, Finish, botVars, moneyVars
  <2> QED BY <2>1, <2>2, NothingMoved
<1>6. CASE ApplyEnd
  <2>1. Due(e, c)'
    BY <1>6, EndDue
  <2>2. UNCHANGED <<cash, vcash, reversals>>
    BY <1>6 DEF ApplyEnd, botVars, moneyVars
  <2> QED BY <2>1, <2>2, NothingMoved
<1>7. CASE \/ FetchDone \/ ApplyDone \/ SettleDone \/ ReadBalance \/ SkipReconcile
           \/ SnapshotFails \/ Compare \/ CompareIncomplete \/ StepDone \/ UNCHANGED vars
           \/ \E m \in Market : WindowEnds(m)
           \/ \E m \in Market, winner \in Outcome : Resolve(m, winner)
  <2>1. UNCHANGED <<orders, venue, batch>> /\ UNCHANGED <<cash, vcash, reversals>>
    BY <1>7 DEF FetchDone, ApplyDone, SettleDone, ReadBalance, SkipReconcile, SnapshotFails,
       Compare, CompareIncomplete, StepDone, WindowEnds, Resolve, vars, botVars, moneyVars
  <2> QED BY <1>4, <2>1, NothingMoved
<1>8. ASSUME NEW o \in Order, Submit(o), o.used = 0, o.open = TRUE, pc = "trading",
             UNCHANGED <<batch, cash, vcash, reversals>>
      PROVE  Moved(c, 0) /\ reversals' = reversals
  <2>1. Due(e, c)'
    BY <1>8, NewDue
  <2> QED BY <1>8, <2>1, NothingMoved
<1>9. ASSUME NEW t \in Token, NEW amount \in 1 .. MaxOrderSize, Enter(t, amount)
      PROVE  Moved(c, 0) /\ reversals' = reversals
  <2>1. PICK o : o = [side |-> "buy", token |-> t, amount |-> amount, used |-> 0, open |-> TRUE]
    OBVIOUS
  <2>2. o \in Order /\ o.used = 0 /\ o.open = TRUE
    BY <2>1, ConstantsType DEF Order
  <2>3. Submit(o) /\ pc = "trading" /\ UNCHANGED <<batch, cash, vcash, reversals>>
    BY <1>9, <2>1 DEF Enter, botVars, moneyVars
  <2> QED BY <1>8, <2>2, <2>3
<1>10. ASSUME NEW t \in Token, Exit(t)
       PROVE  Moved(c, 0) /\ reversals' = reversals
  <2>1. PICK o : o = [side |-> "sell", token |-> t, amount |-> shares[t], used |-> 0, open |-> TRUE]
    OBVIOUS
  <2>2. o \in Order /\ o.used = 0 /\ o.open = TRUE
    BY <2>1 DEF Order, TypeOK, PortfolioType
  <2>3. Submit(o) /\ pc = "trading" /\ UNCHANGED <<batch, cash, vcash, reversals>>
    BY <1>10, <2>1 DEF Exit, botVars, moneyVars
  <2> QED BY <1>8, <2>2, <2>3
<1>11. CASE ApplyFill
  <2>1. PICK i, t, p, s : /\ i = Head(batch).i /\ t = orders[i].token
                          /\ p = Head(batch).price /\ s = orders[i].side
    OBVIOUS
  <2>2. PICK d : d = [e EXCEPT ![t] = @ - Sign(s)]
    OBVIOUS
  <2>3. PICK b : b = c - Flow(s, p)
    OBVIOUS
  <2>4. t \in Token /\ p \in Prices /\ s \in {"buy", "sell"} /\ Due(d, b)'
    <3>1. /\ t \in Token /\ p \in Prices /\ s \in {"buy", "sell"}
          /\ Due([e EXCEPT ![t] = @ - Sign(s)], c - Flow(s, p))'
      BY <1>11, <2>1, FillDue
    <3> QED BY <2>2, <2>3, <3>1
  <2>5. PICK f \in Int : f = Flow(s, p)
    BY <1>3, <2>4, FlowType
  <2>6. d \in [Token -> Int] /\ b \in Int
    <3>1. PICK g \in Int : g = Sign(s)
      BY <2>4 DEF Sign
    <3>2. PICK h \in Int : h = e[t] - g
      BY <2>4, <3>1
    <3>3. d = [e EXCEPT ![t] = h]
      BY <2>2, <3>1, <3>2
    <3>4. d \in [Token -> Int]
      BY <3>2, <3>3
    <3>5. b \in Int
      BY <2>3, <2>5
    <3> QED BY <3>4, <3>5
  <2>7. cash' = x + f /\ UNCHANGED <<vcash, reversals>>
    <3>1. /\ s = "buy" => cash' = cash - (p + Fee)
          /\ s = "sell" => cash' = cash + p - Fee
      BY <1>11, <2>1, <2>4 DEF ApplyFill, BuyFill, SellFill
    <3>2. p \in Int
      BY <1>3, <2>4
    <3>3. cash' = x + f
      BY <1>1, <1>3, <2>4, <2>5, <3>1, <3>2 DEF Flow
    <3> QED BY <1>11, <3>3 DEF ApplyFill, moneyVars
  <2>8. Rift(b)' = (x + f) + (c - f) - y
    BY <1>1, <2>3, <2>5, <2>7 DEF Rift
  <2>9. Rift(b)' - Rift(c) - 0 = 0
    BY <1>1, <1>2, <2>5, <2>8
  <2> QED BY <2>4, <2>6, <2>7, <2>9, WholeSums DEF Moved
<1>12. ASSUME NEW i \in DOMAIN orders, NEW p \in Prices, Match(i, p)
       PROVE  Moved(c, 0) /\ reversals' = reversals
  <2>1. PICK t, s : t = orders[i].token /\ s = orders[i].side
    OBVIOUS
  <2>2. PICK d : d = [e EXCEPT ![t] = @ + Sign(s)]
    OBVIOUS
  <2>3. PICK b : b = c + Flow(s, p)
    OBVIOUS
  <2>4. t \in Token /\ s \in {"buy", "sell"} /\ Due(d, b)'
    <3>1. /\ t \in Token /\ s \in {"buy", "sell"}
          /\ Due([e EXCEPT ![t] = @ + Sign(s)], c + Flow(s, p))'
      BY <1>12, <2>1, MatchDue
    <3> QED BY <2>2, <2>3, <3>1
  <2>5. PICK f \in Int : f = Flow(s, p)
    BY <1>3, FlowType
  <2>6. d \in [Token -> Int] /\ b \in Int
    <3>1. PICK g \in Int : g = Sign(s)
      BY <2>4 DEF Sign
    <3>2. PICK h \in Int : h = e[t] + g
      BY <2>4, <3>1
    <3>3. d = [e EXCEPT ![t] = h]
      BY <2>2, <3>1, <3>2
    <3>4. d \in [Token -> Int]
      BY <3>2, <3>3
    <3>5. b \in Int
      BY <2>3, <2>5
    <3> QED BY <3>4, <3>5
  <2>7. vcash' = y + f /\ UNCHANGED <<cash, reversals>>
    <3>1. /\ s = "buy" => vcash' = vcash - p - Fee
          /\ s = "sell" => vcash' = vcash + p - Fee
      BY <1>12, <2>1, <2>4 DEF Match
    <3>2. p \in Int
      BY <1>3
    <3>3. vcash' = y + f
      BY <1>1, <1>3, <2>4, <2>5, <3>1, <3>2 DEF Flow
    <3> QED BY <1>12, <3>3 DEF Match, botVars
  <2>8. Rift(b)' = x + (c + f) - (y + f)
    BY <1>1, <2>3, <2>5, <2>7 DEF Rift
  <2>9. Rift(b)' - Rift(c) - 0 = 0
    BY <1>1, <1>2, <2>5, <2>8
  <2> QED BY <2>4, <2>6, <2>7, <2>9, WholeSums DEF Moved
<1>13. ASSUME UNCHANGED <<orders, venue, batch, reversals>>,
              NEW k \in Int, NEW l \in Int,
              cash' = cash + Payout * k, vcash' = vcash + Payout * l
       PROVE  Moved(c, 0) /\ reversals' = reversals
  <2>1. PICK v \in Int, w \in Int : v = Payout * k /\ w = Payout * l
    BY <1>3, TimesLess
  <2>2. Rift(c)' = (x + v) + c - (y + w)
    BY <1>1, <1>13, <2>1 DEF Rift
  <2>3. Rift(c)' - Rift(c) - 0 = v - w
    BY <1>1, <1>2, <2>1, <2>2
  <2>4. Whole(v - w)
    BY <2>1, WholeSums
  <2> QED BY <1>4, <1>13, <2>3, <2>4 DEF Moved
<1>14. ASSUME NEW m \in Market, Settle(m)
       PROVE  Moved(c, 0) /\ reversals' = reversals
  <2>1. UNCHANGED <<orders, venue, batch, reversals>>
    BY <1>14 DEF Settle
  <2>2. PICK k \in Int, l \in Int : k = shares[Winner(m)] /\ l = vpos[Winner(m)]
    BY <1>14, SettledTokens DEF TypeOK, PortfolioType, OutsideType
  <2>3. cash' = cash + Payout * k
    BY <1>14, <2>2 DEF Settle, SettlePortfolio
  <2>4. vcash' = vcash + Payout * l \/ vcash' = vcash + Payout * 0
    BY <1>1, <1>3, <1>14, <2>2 DEF Settle, SettleVenue, moneyVars
  <2> QED BY <1>13, <2>1, <2>3, <2>4
<1>15. ASSUME NEW m \in Market, Redeem(m)
       PROVE  Moved(c, 0) /\ reversals' = reversals
  <2>1. UNCHANGED <<orders, venue, batch, reversals>>
    BY <1>15 DEF Redeem
  <2>2. Winner(m) \in Token
    BY <1>15 DEF Redeem, Resolved, Winner, Token
  <2>3. PICK l \in Int : l = vpos[Winner(m)]
    BY <2>2 DEF TypeOK, OutsideType
  <2>4. cash' = cash + Payout * 0 /\ vcash' = vcash + Payout * l
    BY <1>1, <1>3, <1>15, <2>3 DEF Redeem, botVars
  <2> QED BY <1>13, <2>1, <2>4
<1>16. ASSUME NEW i \in DOMAIN orders, NEW k \in DOMAIN venue[i].trades, Reverse(i, k)
       PROVE  \E f \in TradeFlows : Moved(c, f) /\ reversals' = reversals + 1
  <2>1. PICK s, p : s = orders[i].side /\ p = venue[i].trades[k]
    OBVIOUS
  <2>2. s \in {"buy", "sell"} /\ p \in Int
    <3>1. orders[i] \in Order /\ venue[i].trades \in Seq(Prices)
      BY OrderFields DEF TypeOK, VenueOrder
    <3>2. p \in Prices
      BY <2>1, <3>1
    <3> QED BY <1>3, <2>1, <3>1, <3>2 DEF Order
  <2>3. PICK f \in Int : f = Flow(s, p) /\ f \in TradeFlows
    BY <1>3, <2>1, <2>2 DEF TradesInv, Flow
  <2>4. vcash' = y - f /\ reversals' = reversals + 1
    <3>1. /\ s = "buy" => vcash' = vcash + p + Fee
          /\ s # "buy" => vcash' = vcash - p + Fee
          /\ reversals' = reversals + 1
      BY <1>16, <2>1 DEF Reverse
    <3> QED BY <1>1, <1>3, <2>2, <2>3, <3>1 DEF Flow
  <2>5. UNCHANGED <<orders, venue, batch, cash>>
    BY <1>16 DEF Reverse, botVars
  <2>6. Rift(c)' = x + c - (y - f)
    BY <1>1, <2>4, <2>5 DEF Rift
  <2>7. Rift(c)' - Rift(c) - f = 0
    BY <1>1, <1>2, <2>3, <2>6
  <2> QED BY <1>4, <2>3, <2>4, <2>5, <2>7, WholeSums DEF Moved
<1>17. ~FillBreaks
  BY DEF FillBreaks
<1> QED BY <1>5, <1>6, <1>7, <1>9, <1>10, <1>11, <1>12, <1>14, <1>15, <1>16, <1>17
        DEF Next, Step, Outside

LEMMA DriftStep ==
  ASSUME TypeOK, TypeOK', BatchInv, AmountInv, BatchOrderInv, TradesInv, [Next]_vars, ~killed',
         NEW U, NeverWhole(U), Drift(U)
  PROVE  Drift(U)'
<1>1. PICK e \in [Token -> Int], c \in Int, u \in U[reversals] : Due(e, c) /\ Whole(Rift(c) - u)
  BY DEF Drift
<1>2. MaxReversals \in Nat /\ reversals \in 0 .. MaxReversals /\ reversals' \in 0 .. MaxReversals
  BY LedgerAssumption DEF TypeOK, OutsideType
<1>3. u \in Int
  BY <1>2 DEF NeverWhole
<1>4. ASSUME NEW f \in Int, Moved(c, f), u + f \in U[reversals'] PROVE Drift(U)'
  <2>1. PICK d \in [Token -> Int], b \in Int : Due(d, b)' /\ Whole(Rift(b)' - Rift(c) - f)
    BY <1>4 DEF Moved
  <2>2. PICK r \in Int, s \in Int : r = Rift(c) /\ s = Rift(b)'
    <3>1. cash \in Int /\ vcash \in Int /\ cash' \in Int /\ vcash' \in Int
      BY DEF TypeOK, PortfolioType, OutsideType
    <3>2. Rift(c) \in Int
      BY <3>1 DEF Rift
    <3>3. Rift(b)' \in Int
      BY <2>1, <3>1 DEF Rift
    <3> QED BY <3>2, <3>3
  <2>3. Whole((s - r - f) + (r - u))
    BY <1>1, <1>3, <2>1, <2>2, WholeSums
  <2>4. (s - r - f) + (r - u) = s - (u + f)
    BY <1>3, <2>2
  <2>5. Whole(Rift(b)' - (u + f))
    BY <2>2, <2>3, <2>4
  <2> QED BY <1>4, <2>1, <2>5 DEF Drift
<1>5. CASE Moved(c, 0) /\ reversals' = reversals
  <2>1. u + 0 = u
    BY <1>3
  <2> QED BY <1>1, <1>4, <1>5, <2>1
<1>6. ASSUME NEW f \in TradeFlows, Moved(c, f), reversals' = reversals + 1 PROVE Drift(U)'
  <2>1. f \in Int
    BY FlowType DEF TradeFlows
  <2>2. reversals \in 0 .. MaxReversals - 1
    BY <1>2, <1>6
  <2>3. u + f \in U[reversals + 1]
    BY <1>1, <1>6, <2>2 DEF NeverWhole
  <2> QED BY <1>4, <1>6, <2>1, <2>3
<1> QED BY <1>1, <1>5, <1>6, MoneyStep

LEMMA ReadDriftStep ==
  ASSUME TypeOK, CountInv, [Next]_vars, NEW U, NeverWhole(U), Drift(U), ReadDrift(U)
  PROVE  ReadDrift(U)'
<1>1. CASE ReadBalance
  <2>1. Open = {} /\ cash' = cash /\ balance' = [cash |-> vcash, clean |-> "reversal" \notin odd]
    BY <1>1 DEF ReadBalance, botVars
  <2> SUFFICES ASSUME ~balance'.clean
               PROVE  \E n \in 1 .. MaxReversals : \E u \in U[n] : Whole(cash - vcash - u)
    BY <2>1 DEF ReadDrift
  <2>2. reversals \in 1 .. MaxReversals
    <3>1. reversals > 0
      BY <2>1 DEF CountInv
    <3>2. MaxReversals \in Nat /\ reversals \in 0 .. MaxReversals
      BY LedgerAssumption DEF TypeOK, OutsideType
    <3> QED BY <3>1, <3>2
  <2>3. PICK e \in [Token -> Int], c \in Int, u \in U[reversals] : Due(e, c) /\ Whole(Rift(c) - u)
    BY DEF Drift
  <2>4. c = 0
    BY <2>1, <2>3, NothingOpen
  <2>5. Rift(c) = cash - vcash
    BY <2>4 DEF Rift, TypeOK, PortfolioType, OutsideType
  <2> QED BY <2>2, <2>3, <2>5
<1>2. CASE UNCHANGED <<pc, cash, balance>>
  BY <1>2 DEF ReadDrift
<1>3. CASE pc' # "comparing"
  BY <1>3 DEF ReadDrift
<1>4. CASE \/ UNCHANGED vars
           \/ \E m \in Market : Redeem(m)
           \/ \E i \in DOMAIN orders : \E k \in DOMAIN venue[i].trades : Reverse(i, k)
  BY <1>2, <1>4 DEF Redeem, Reverse, vars, botVars
<1>5. CASE \/ \E i \in DOMAIN orders : Fetch(i) \/ Finish(i)
           \/ FetchDone \/ ApplyFill \/ FillBreaks \/ ApplyEnd \/ ApplyDone
           \/ \E m \in Market : Settle(m) \/ WindowEnds(m)
           \/ SettleDone \/ SkipReconcile \/ SnapshotFails \/ Compare \/ CompareIncomplete
           \/ \E t \in Token, amount \in 1 .. MaxOrderSize : Enter(t, amount)
           \/ \E t \in Token : Exit(t)
           \/ StepDone
           \/ \E i \in DOMAIN orders, price \in Prices : Match(i, price)
           \/ \E m \in Market, winner \in Outcome : Resolve(m, winner)
  BY <1>3, <1>5 DEF Fetch, Finish, FetchDone, ApplyFill, FillBreaks, ApplyEnd, ApplyDone, Settle,
     WindowEnds, SettleDone, SkipReconcile, SnapshotFails, Compare, CompareIncomplete, Enter, Exit,
     StepDone, Match, Resolve, BeforePoll
<1> QED BY <1>1, <1>4, <1>5 DEF Next, Step, Outside

(* What a passing comparison says of the money that was read.              *)
LEMMA PassedIsWhole ==
  ASSUME TypeOK, CountInv, [Next]_vars, pc = "comparing", pc' = "trading", reconOk'
  PROVE  Whole(cash - balance.cash)
<1>1. Compare
  BY DEF Next, Step, Outside, Fetch, FetchDone, ApplyFill, FillBreaks, ApplyEnd, ApplyDone, Settle,
     SettleDone, ReadBalance, SkipReconcile, SnapshotFails, CompareIncomplete, Report, Enter, Exit,
     StepDone, Match, Finish, WindowEnds, Resolve, Redeem, Reverse, vars
<1>2. PICK a : a = StillPending(vpos)
  OBVIOUS
<1>3. DOMAIN a = Token /\ \A t \in Token : a[t] \in Int /\ Whole(a[t])
  <2>1. \A t \in Token : pending[t] \in Int /\ Whole(pending[t])
    BY DEF TypeOK, CoreType, CountInv
  <2>2. DOMAIN a = Token /\ \A t \in Token : a[t] = pending[t] \/ a[t] = 0
    BY <1>2 DEF StillPending
  <2> QED BY <2>1, <2>2, WholeSums
<1>4. PICK w \in Int : w = SumFunctionOnSet(a, Token)
  BY <1>3, TokenFinite, SumType
<1>5. Whole(w)
  BY <1>3, <1>4, TokenFinite, SumWhole
<1>6. cash - SumFunction(a) = balance.cash
  BY <1>1, <1>2 DEF Compare, Report, Matches
<1>7. SumFunction(a) = w
  BY <1>3, <1>4 DEF SumFunction
<1>8. PICK x \in Int, y \in Int : x = cash /\ y = balance.cash /\ x - w = y
  BY <1>6, <1>7 DEF TypeOK, PortfolioType, StepType
<1>9. x - y = w
  BY <1>8
<1> QED BY <1>5, <1>8, <1>9

LEMMA InitUndone ==
  ASSUME Init, NEW U, NeverWhole(U)
  PROVE  UndoneInv(U)
<1>1. TypeOK
  BY InitType
<1>2. TradesInv
  BY DEF Init, TradesInv
<1>3. CountInv
  BY WholeSums DEF Init, CountInv
<1>4. Drift(U)
  <2>1. PICK e : e = [t \in Token |-> 0]
    OBVIOUS
  <2>2. e \in [Token -> Int] /\ Due(e, 0)
    BY <2>1, InitDue
  <2>3. Rift(0) - 0 = 0
    BY <1>1 DEF Init, Rift, TypeOK, PortfolioType
  <2>4. 0 \in U[reversals]
    BY DEF Init, NeverWhole
  <2>5. Whole(Rift(0) - 0)
    BY <2>3, WholeSums
  <2> QED BY <2>2, <2>4, <2>5 DEF Drift
<1>5. ReadDrift(U)
  BY DEF Init, ReadDrift
<1> QED BY <1>2, <1>3, <1>4, <1>5 DEF UndoneInv

LEMMA UndoneStep ==
  ASSUME IInv, IInv', AmountInv, BatchOrderInv, [Next]_vars,
         NEW U, NeverWhole(U), UndoneInv(U)
  PROVE  UndoneInv(U)'
<1>1. TypeOK /\ TypeOK' /\ BatchInv /\ TradesInv /\ CountInv
  BY DEF IInv, UndoneInv
<1>2. TradesInv' /\ CountInv'
  BY <1>1, TradesStep, CountStep
<1>3. ASSUME ~killed' PROVE Drift(U)' /\ ReadDrift(U)'
  <2>1. ~killed
    BY <1>3 DEF Next, Step, Outside, Fetch, FetchDone, ApplyFill, FillBreaks, ApplyEnd, ApplyDone,
       Settle, SettleDone, ReadBalance, SkipReconcile, SnapshotFails, Compare, CompareIncomplete,
       Enter, Exit, StepDone, Match, Finish, WindowEnds, Resolve, Redeem, Reverse, vars
  <2>2. Drift(U) /\ ReadDrift(U)
    BY <2>1 DEF UndoneInv
  <2>3. Drift(U)'
    BY <1>1, <1>3, <2>2, DriftStep
  <2>4. ReadDrift(U)'
    BY <1>1, <2>2, ReadDriftStep
  <2> QED BY <2>3, <2>4
<1> QED BY <1>2, <1>3 DEF UndoneInv

(* No complete comparison passes after a trade was undone, however it is   *)
(* interleaved with settlements, redemptions, late fills and earlier       *)
(* comparisons, as long as no sum of undone trades is whole payouts (one   *)
(* that is can hide behind a redemption).                                  *)
THEOREM ReversalsAreCaught ==
  ASSUME NEW Undone, NeverWhole(Undone)
  PROVE  Spec => ReversalsCaught
<1>1. IInv /\ UndoneInv(Undone) /\ [Next]_vars
        => (pc = "comparing" /\ pc' = "trading" /\ reconOk' /\ ~killed => balance.clean)
  <2> SUFFICES ASSUME IInv, UndoneInv(Undone), [Next]_vars, pc = "comparing", pc' = "trading",
                      reconOk', ~killed, ~balance.clean
               PROVE  FALSE
    OBVIOUS
  <2>1. TypeOK /\ CountInv /\ ReadDrift(Undone)
    BY DEF IInv, UndoneInv
  <2>2. Whole(cash - balance.cash)
    BY <2>1, PassedIsWhole
  <2>3. PICK n \in 1 .. MaxReversals : \E u \in Undone[n] : Whole(cash - balance.cash - u)
    BY <2>1 DEF ReadDrift
  <2>7. PICK u \in Undone[n] : Whole(cash - balance.cash - u)
    BY <2>3
  <2>4. u \in Int /\ ~Whole(u)
    <3>1. n \in 0 .. MaxReversals
      BY <2>3, LedgerAssumption
    <3> QED BY <3>1 DEF NeverWhole
  <2>5. PICK x \in Int : x = cash - balance.cash
    BY <2>1 DEF TypeOK, PortfolioType, StepType
  <2>6. Whole(x - (x - u)) /\ x - (x - u) = u
    BY <2>2, <2>7, <2>4, <2>5, WholeSums
  <2> QED BY <2>4, <2>6
<1>2. Init => UndoneInv(Undone)
  BY InitUndone
<1>3. /\ IInv /\ AmountInv /\ BatchOrderInv /\ AgreeInv
      /\ (IInv /\ AmountInv /\ BatchOrderInv /\ AgreeInv)'
      /\ UndoneInv(Undone) /\ [Next]_vars
      => UndoneInv(Undone)'
  BY UndoneStep
<1> QED BY <1>1, <1>2, <1>3, AgreeInvariance, PTL DEF Spec, ReversalsCaught

(* One undone trade is never overlooked when a share costs less than it    *)
(* may pay and a sale brings more than its fee.                            *)
OneReversal ==
  /\ MaxReversals = 1
  /\ \A p \in Prices : (p <= BuyLimit => p + Fee < Payout) /\ (p >= SellFloor => Fee < p)

THEOREM OneReversalIsCaught == OneReversal => (Spec => ReversalsCaught)
<1> SUFFICES ASSUME OneReversal PROVE Spec => ReversalsCaught
  OBVIOUS
<1>1. PICK U : U = [n \in 0 .. 1 |-> IF n = 0 THEN {0} ELSE TradeFlows]
  OBVIOUS
<1>2. U[0] = {0} /\ U[1] = TradeFlows /\ MaxReversals = 1
  BY <1>1 DEF OneReversal
<1>3. \A f \in TradeFlows : f \in Int
  BY FlowType DEF TradeFlows
<1>4. Payout \in Nat /\ Fee \in Nat /\ Prices \subseteq Nat \ {0} /\ \A p \in Prices : p < Payout
  BY LedgerAssumption
<1>5. ASSUME NEW x \in Int, Whole(x), x # 0, 0 - Payout < x, x < Payout PROVE FALSE
  <2>1. PICK k \in Int : x = Payout * k
    BY <1>5 DEF Whole
  <2>2. PICK q \in Nat : q = Payout
    BY <1>4
  <2>3. x = q * k /\ 0 - q < x /\ x < q /\ x # 0
    BY <1>5, <2>1, <2>2
  <2>4. CASE k = 0
    BY <2>2, <2>3, <2>4
  <2>5. CASE k >= 1
    <3>1. k \in Nat
      BY <2>5
    <3>2. q <= q * k
      BY <2>2, <2>5, <3>1, Times
    <3> QED BY <1>5, <2>2, <2>3, <3>2
  <2>6. CASE k <= 0 - 1
    <3>1. PICK l \in Nat : l = 0 - k /\ l >= 1
      BY <2>6
    <3>2. q <= q * l /\ q * l \in Nat
      BY <2>2, <3>1, Times
    <3>3. q * (0 - l) = q * 0 - q * l /\ q * 0 = 0
      BY <2>2, TimesLess
    <3>4. k = 0 - l
      BY <3>1
    <3>5. x = 0 - q * l
      BY <2>2, <2>3, <3>2, <3>3, <3>4
    <3> QED BY <1>5, <2>2, <2>3, <3>2, <3>5
  <2> QED BY <2>4, <2>5, <2>6
<1>6. ASSUME NEW p \in Prices, p <= BuyLimit PROVE ~Whole(Flow("buy", p))
  <2>1. PICK q \in Nat, g \in Nat, y \in Nat \ {0} :
          q = Payout /\ g = Fee /\ y = p /\ y + g < q
    BY <1>4, <1>6 DEF OneReversal
  <2>2. Flow("buy", p) = 0 - y - g
    BY <2>1 DEF Flow
  <2>3. 0 - y - g # 0 /\ 0 - q < 0 - y - g /\ 0 - y - g < q /\ 0 - y - g \in Int
    BY <2>1
  <2> QED BY <1>5, <2>1, <2>2, <2>3
<1>7. ASSUME NEW p \in Prices, p >= SellFloor PROVE ~Whole(Flow("sell", p))
  <2>1. PICK q \in Nat, g \in Nat, y \in Nat \ {0} :
          q = Payout /\ g = Fee /\ y = p /\ g < y /\ y < q
    BY <1>4, <1>7 DEF OneReversal
  <2>2. Flow("sell", p) = y - g
    BY <2>1 DEF Flow
  <2>3. y - g # 0 /\ 0 - q < y - g /\ y - g < q /\ y - g \in Int
    BY <2>1
  <2> QED BY <1>5, <2>1, <2>2, <2>3
<1>8. NeverWhole(U)
  <2>1. \A n \in 0 .. MaxReversals : U[n] \subseteq Int
    <3>1. \A n \in 0 .. 1 : n = 0 \/ n = 1
      OBVIOUS
    <3> QED BY <1>2, <1>3, <3>1
  <2>2. \A n \in 0 .. MaxReversals - 1 : \A u \in U[n], f \in TradeFlows : u + f \in U[n + 1]
    <3>1. \A n \in 0 .. MaxReversals - 1 : n = 0 /\ n + 1 = 1
      BY <1>2
    <3>2. \A f \in TradeFlows : 0 + f = f
      BY <1>3
    <3> QED BY <1>2, <3>1, <3>2
  <2>3. \A f \in TradeFlows : ~Whole(f)
    BY <1>6, <1>7 DEF TradeFlows
  <2>4. \A n \in 1 .. MaxReversals : n = 1
    BY <1>2
  <2> QED BY <1>2, <2>1, <2>2, <2>3, <2>4 DEF NeverWhole
<1> QED BY <1>8, ReversalsAreCaught
=============================================================================
