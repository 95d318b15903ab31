--------------------------- MODULE LossLimitsProofs ---------------------------
(***************************************************************************)
(* Proofs about LossLimits, for every limit, every portfolio and every     *)
(* bound: how long a losing streak can become, that a breach ends trading  *)
(* until the operator and a restart allow it again, and what a day and the *)
(* time since the peak can lose at most.                                   *)
(***************************************************************************)
EXTENDS LossLimits, Sums

Orders == {NoOrder} \union [kind : {"buy", "sell"}, market : Markets, usd : 0..MaxOrder,
                            unknown : BOOLEAN]

StreakType == cost \in [Markets -> Nat] /\ streak \in Nat /\ order \in Orders

\* The markets held once the buy in flight has filled, and the losses they may add.
Buying == IF order.kind = "buy" THEN {order.market} ELSE {}
Carried == IF order.kind = "buy" THEN 1 ELSE 0

SlotsInv == Cardinality(Held \union Buying) <= MaxOpen
StreakInv == streak + Cardinality(Held) + Carried <= MaxConsecutive + MaxOpen
BreachInv == tripped => killed

CountInv == StreakType /\ SlotsInv /\ StreakInv
IInv == CountInv /\ BreachInv

-----------------------------------------------------------------------------
(* Sets of markets are finite, and so are their parts. *)
LEMMA Finite ==
  /\ IsFiniteSet(Held) /\ Cardinality(Held) \in Nat
  /\ \A S \in SUBSET Markets : IsFiniteSet(S) /\ Cardinality(S) \in Nat
  /\ MaxOpen \in Nat \ {0} /\ MaxConsecutive \in Nat \ {0}
<1>1. IsFiniteSet(Markets) /\ MaxOpen \in Nat \ {0} /\ MaxConsecutive \in Nat \ {0}
  BY ConstantsOK
<1>2. \A S \in SUBSET Markets : IsFiniteSet(S)
  BY <1>1, FS_Subset
<1>3. Held \in SUBSET Markets
  BY DEF Held
<1> QED
  BY <1>1, <1>2, <1>3, FS_CardinalityType

(* A market's position is closed: it is no longer held, and the streak     *)
(* grows by one or ends.                                                   *)
LEMMA CloseStep ==
  ASSUME StreakType, NEW m \in Held, NEW proceeds \in Nat, Closes(m, proceeds)
  PROVE  /\ cost' \in [Markets -> Nat] /\ streak' \in Nat
         /\ Held' = Held \ {m}
         /\ streak' <= streak + 1
<1>1. m \in Markets
  BY DEF Held
<1>2. cost' \in [Markets -> Nat]
  BY <1>1 DEF StreakType, Closes
<1>3. Held' = Held \ {m}
  BY <1>1 DEF StreakType, Closes, Held
<1>4. streak' \in Nat /\ streak' <= streak + 1
  BY <1>1 DEF StreakType, Closes, Counts
<1> QED
  BY <1>2, <1>3, <1>4

(* Neither does the sum of the streak and of what may still be lost grow,  *)
(* nor the number of markets, when the order stays.                        *)
LEMMA CloseKeepsCount ==
  ASSUME CountInv, NEW m \in Held, NEW proceeds \in Nat, Closes(m, proceeds), order' = order
  PROVE  CountInv'
<1>1. StreakType' /\ Held' = Held \ {m} /\ streak' \in Nat /\ streak' <= streak + 1
  BY CloseStep DEF CountInv, StreakType
<1>2. Buying' = Buying /\ Carried' = Carried /\ Carried \in Nat
  BY DEF Buying, Carried
<1>3. Cardinality(Held') = Cardinality(Held) - 1 /\ Cardinality(Held) \in Nat
  BY <1>1, Finite, FS_RemoveElement
<1>4. StreakInv'
  <2>1. streak' + Cardinality(Held') + Carried <= streak + Cardinality(Held) + Carried
    BY <1>1, <1>2, <1>3 DEF CountInv, StreakType
  <2> QED
    BY <2>1, <1>1, <1>2, <1>3, Finite DEF CountInv, StreakInv, StreakType
<1>5. SlotsInv'
  <2>1. Held \union Buying \in SUBSET Markets
    BY DEF Held, Buying, CountInv, StreakType, Orders, NoOrder
  <2>2. Held' \union Buying' \in SUBSET (Held \union Buying)
    BY <1>1, <1>2
  <2>3. /\ IsFiniteSet(Held \union Buying) /\ Cardinality(Held \union Buying) \in Nat
        /\ Held' \union Buying' \in SUBSET Markets
        /\ Cardinality(Held' \union Buying') \in Nat
    BY <2>1, <2>2, Finite
  <2>4. Cardinality(Held' \union Buying') <= Cardinality(Held \union Buying)
    BY <2>2, <2>3, FS_Subset
  <2> QED
    BY <2>3, <2>4, Finite DEF CountInv, SlotsInv
<1> QED
  BY <1>1, <1>4, <1>5 DEF CountInv

(* An order that ends leaves room for the next one.                        *)
LEMMA EndKeepsCount ==
  ASSUME CountInv, order # NoOrder, Ends
  PROVE  CountInv'
<1>1. order \in [kind : {"buy", "sell"}, market : Markets, usd : 0..MaxOrder, unknown : BOOLEAN]
  BY DEF CountInv, StreakType, Orders
<1>2. order' = NoOrder /\ order' \in Orders /\ Buying' = {} /\ Carried' = 0
  BY DEF Ends, Orders, NoOrder, Buying, Carried
<1>3. /\ Held \union Buying \in SUBSET Markets /\ IsFiniteSet(Held \union Buying)
      /\ Cardinality(Held \union Buying) \in Nat /\ Carried \in Nat
  <2>1. Held \union Buying \in SUBSET Markets /\ Carried \in Nat
    BY <1>1 DEF Held, Buying, Carried
  <2> QED
    BY <2>1, Finite
<1>4. CASE UNCHANGED <<cash, cost, marks, streak>>
  <2>1. Held' = Held /\ StreakType'
    BY <1>2, <1>4 DEF Held, CountInv, StreakType
  <2>2. Cardinality(Held) <= Cardinality(Held \union Buying)
    BY <1>3, FS_Subset
  <2>3. SlotsInv'
    BY <1>2, <1>3, <2>1, <2>2, Finite DEF CountInv, SlotsInv
  <2>4. StreakInv'
    BY <1>2, <1>3, <1>4, <2>1, Finite DEF CountInv, StreakInv, StreakType
  <2> QED
    BY <2>1, <2>3, <2>4 DEF CountInv
<1>5. CASE order.kind = "buy" /\ Fills
  <2>1. PICK usd \in 1..order.usd : cost' = [cost EXCEPT ![order.market] = @ + usd]
    BY <1>5 DEF Fills
  <2>2. streak' = streak /\ order.market \in Markets /\ usd \in Nat \ {0}
    BY <1>1, <1>5, <2>1 DEF Fills
  <2>3. StreakType'
    BY <1>2, <2>1, <2>2 DEF CountInv, StreakType
  <2>4. Held' = Held \union {order.market}
    BY <2>1, <2>2 DEF CountInv, StreakType, Held
  <2>5. Buying = {order.market} /\ Carried = 1
    BY <1>5 DEF Buying, Carried
  <2>6. SlotsInv'
    BY <1>2, <2>4, <2>5 DEF CountInv, SlotsInv
  <2>7. Cardinality(Held') <= Cardinality(Held) + 1 /\ Cardinality(Held') \in Nat
    BY <2>4, Finite, FS_AddElement
  <2>8. StreakInv'
    BY <1>2, <2>2, <2>5, <2>7, Finite DEF CountInv, StreakInv, StreakType
  <2> QED
    BY <2>3, <2>6, <2>8 DEF CountInv
<1>6. CASE order.kind = "sell" /\ Fills
  <2>1. PICK proceeds \in 1..Payout : Closes(order.market, proceeds) /\ order.market \in Held
    BY <1>6 DEF Fills
  <2>2. /\ cost' \in [Markets -> Nat] /\ streak' \in Nat /\ streak' <= streak + 1
        /\ Held' = Held \ {order.market}
    <3>1. proceeds \in Nat
      BY ConstantsOK
    <3> QED
      BY <2>1, <3>1, CloseStep DEF CountInv
  <2>3. StreakType'
    BY <1>2, <2>2 DEF StreakType
  <2>4. Buying = {} /\ Carried = 0
    BY <1>6 DEF Buying, Carried
  <2>5. Cardinality(Held') = Cardinality(Held) - 1 /\ Cardinality(Held) \in Nat
    BY <2>1, <2>2, Finite, FS_RemoveElement
  <2>6. SlotsInv'
    <3>1. Held' \union Buying' = Held' /\ Held \union Buying = Held
      BY <1>2, <2>4
    <3> QED
      BY <3>1, <2>5, Finite DEF CountInv, SlotsInv
  <2>7. StreakInv'
    BY <1>2, <2>2, <2>4, <2>5, Finite DEF CountInv, StreakInv, StreakType
  <2> QED
    BY <2>3, <2>6, <2>7 DEF CountInv
<1> QED
  BY <1>1, <1>4, <1>5, <1>6 DEF Ends, Fills

(* What is neither bought, sold nor counted leaves the counts alone.       *)
LEMMA QuietKeepsCount ==
  ASSUME CountInv, UNCHANGED <<cost, streak, order>>
  PROVE  CountInv'
BY DEF CountInv, StreakType, SlotsInv, StreakInv, Held, Buying, Carried

(* An order that is found on the venue only stops being UNKNOWN.           *)
LEMMA FoundKeepsCount ==
  ASSUME CountInv, order # NoOrder, UNCHANGED <<cost, streak>>,
         order' = [order EXCEPT !.unknown = FALSE]
  PROVE  CountInv'
<1>1. /\ order' \in Orders /\ order'.kind = order.kind /\ order'.market = order.market
  BY DEF CountInv, StreakType, Orders
<1>2. Held' = Held /\ Buying' = Buying /\ Carried' = Carried
  BY <1>1 DEF Held, Buying, Carried
<1> QED
  BY <1>1, <1>2 DEF CountInv, StreakType, SlotsInv, StreakInv

(* An entry is let in only below the limits of both.                       *)
LEMMA EntryKeepsCount ==
  ASSUME CountInv, NEW m \in Markets, NEW usd \in 1..MaxOrder, MayEnter(m),
         Submits("buy", m, usd), UNCHANGED <<cost, streak>>
  PROVE  CountInv'
<1>1. PICK unknown \in BOOLEAN :
        order' = [kind |-> "buy", market |-> m, usd |-> usd, unknown |-> unknown]
  BY DEF Submits
<1>2. StreakType' /\ Held' = Held /\ Buying' = {m} /\ Carried' = 1
  <2>1. usd \in 0..MaxOrder
    BY ConstantsOK
  <2> QED
    BY <1>1, <2>1 DEF CountInv, StreakType, Orders, Held, Buying, Carried
<1>3. Buying = {} /\ Carried = 0
  BY DEF MayEnter, NoOrder, Buying, Carried
<1>4. Cardinality(Held) <= MaxOpen
  <2>1. Held \union Buying = Held
    BY <1>3
  <2> QED
    BY <2>1 DEF CountInv, SlotsInv
<1>5. SlotsInv'
  <2>1. CASE m \in Held
    <3>1. Held' \union Buying' = Held
      BY <1>2, <2>1
    <3> QED
      BY <1>4, <3>1 DEF SlotsInv
  <2>2. CASE m \notin Held
    <3>1. Cardinality(Held \union {m}) = Cardinality(Held) + 1
      BY <2>2, Finite, FS_AddElement
    <3>2. Cardinality(Held) < MaxOpen
      BY <2>2 DEF MayEnter
    <3> QED
      BY <1>2, <3>1, <3>2, Finite DEF SlotsInv
  <2> QED
    BY <2>1, <2>2
<1>6. StreakInv'
  <2>1. streak < MaxConsecutive /\ streak \in Nat
    BY DEF MayEnter, CountInv, StreakType
  <2> QED
    BY <1>2, <1>4, <2>1, Finite DEF StreakInv
<1> QED
  BY <1>2, <1>5, <1>6 DEF CountInv

-----------------------------------------------------------------------------
LEMMA InitIInv == Init => IInv
<1> SUFFICES ASSUME Init PROVE IInv
  OBVIOUS
<1>1. StreakType
  BY DEF Init, StreakType, Orders
<1>2. Held = {} /\ Buying = {} /\ Carried = 0
  BY DEF Init, Held, Buying, Carried, NoOrder
<1>3. Held \union Buying = {}
  BY <1>2
<1>4. SlotsInv /\ StreakInv
  BY <1>2, <1>3, Finite, FS_EmptySet DEF SlotsInv, StreakInv, Init
<1> QED
  BY <1>1, <1>4 DEF IInv, CountInv, BreachInv, Init

(* Every step keeps the counts.                                            *)
LEMMA CountStep == CountInv /\ [Next]_vars => CountInv'
<1> SUFFICES ASSUME CountInv, [Next]_vars PROVE CountInv'
  OBVIOUS
<1>0. order.kind = "none" <=> order = NoOrder
  BY DEF CountInv, StreakType, Orders, NoOrder
<1>1. CASE Poll
  <2>1. CASE order.kind # "none" /\ Ends
    BY <1>0, <2>1, EndKeepsCount
  <2>2. CASE UNCHANGED <<order, cash, cost, marks, streak>>
    BY <2>2, QuietKeepsCount
  <2>3. CASE SoldWithoutPosition
    BY <2>3, QuietKeepsCount DEF SoldWithoutPosition, portfolio
  <2> QED
    BY <1>1, <2>1, <2>2, <2>3 DEF Poll
<1>2. CASE Settle
  <2>1. CASE \E m \in Held, payout \in {0, Payout} : Closes(m, payout) /\ order' = order
    <3>1. {0, Payout} \subseteq Nat
      BY ConstantsOK
    <3> QED
      BY <2>1, <3>1, CloseKeepsCount
  <2>2. CASE UNCHANGED <<portfolio, order>>
    BY <2>2, QuietKeepsCount DEF portfolio
  <2> QED
    BY <1>2, <2>1, <2>2 DEF Settle
<1>3. CASE Mark
  BY <1>3, QuietKeepsCount DEF Mark
<1>4. CASE CheckLimits
  BY <1>4, QuietKeepsCount DEF CheckLimits, portfolio
<1>5. CASE Resolve
  <2>0. order.unknown => order # NoOrder
    BY DEF NoOrder
  <2>1. CASE order.unknown /\ Ends
    BY <2>0, <2>1, EndKeepsCount
  <2>2. CASE /\ order.unknown /\ order' = [order EXCEPT !.unknown = FALSE]
             /\ UNCHANGED <<cash, cost, marks, streak>>
    BY <2>0, <2>2, FoundKeepsCount
  <2>3. CASE UNCHANGED <<order, cash, cost, marks, streak>>
    BY <2>3, QuietKeepsCount
  <2>4. CASE SoldWithoutPosition
    BY <2>4, QuietKeepsCount DEF SoldWithoutPosition, portfolio
  <2> QED
    BY <1>5, <2>1, <2>2, <2>3, <2>4 DEF Resolve
<1>6. CASE Exit
  <2>1. CASE \E m \in Markets : Wanted(m) /\ MayExit(m) /\ Submits("sell", m, 0)
    <3>1. PICK m \in Markets, unknown \in BOOLEAN :
            /\ order = NoOrder
            /\ order' = [kind |-> "sell", market |-> m, usd |-> 0, unknown |-> unknown]
      BY <2>1 DEF MayExit, Submits
    <3>2. cost' = cost /\ streak' = streak
      BY <1>6 DEF Exit, portfolio
    <3>3. order' \in Orders
      <4>1. 0 \in 0..MaxOrder
        BY ConstantsOK
      <4> QED
        BY <3>1, <4>1 DEF Orders
    <3>4. Held' = Held /\ Buying' = Buying /\ Carried' = Carried
      BY <3>1, <3>2 DEF Held, Buying, Carried, NoOrder
    <3> QED
      BY <3>2, <3>3, <3>4 DEF CountInv, StreakType, SlotsInv, StreakInv
  <2>2. CASE UNCHANGED <<portfolio, order>>
    BY <2>2, QuietKeepsCount DEF portfolio
  <2> QED
    BY <1>6, <2>1, <2>2 DEF Exit
<1>7. CASE Enter
  <2>1. PICK m \in Markets, usd \in 1..MaxOrder : EnterMarket(m, usd)
    BY <1>7 DEF Enter
  <2>2. MayEnter(m) /\ Submits("buy", m, usd) /\ UNCHANGED <<cost, streak>>
    BY <2>1 DEF EnterMarket, portfolio
  <2> QED
    BY <2>1, <2>2, EntryKeepsCount
<1>8. CASE StepDone
  BY <1>8, QuietKeepsCount DEF StepDone, portfolio
<1>9. CASE OperatorResets
  BY <1>9, QuietKeepsCount DEF OperatorResets, portfolio
<1>10. CASE Restart
  <2>1. StreakType' /\ Held' = {} /\ Buying' = {} /\ Carried' = 0
    BY <1>10 DEF Restart, StreakType, Orders, Held, Buying, Carried, NoOrder
  <2>2. Held' \union Buying' = {}
    BY <2>1
  <2>3. SlotsInv' /\ StreakInv'
    BY <1>10, <2>1, <2>2, Finite, FS_EmptySet DEF SlotsInv, StreakInv, Restart
  <2> QED
    BY <2>1, <2>3 DEF CountInv
<1>11. CASE UNCHANGED vars
  BY <1>11, QuietKeepsCount DEF vars, portfolio
<1> QED
  BY <1>1, <1>2, <1>3, <1>4, <1>5, <1>6, <1>7, <1>8, <1>9, <1>10, <1>11 DEF Next

(* Nothing but a restart takes the state machine out of KILL_SWITCH, and a *)
(* restart reads the switch the breach has left behind.                    *)
LEMMA BreachStep == BreachInv /\ [Next]_vars => BreachInv'
<1> SUFFICES ASSUME BreachInv, [Next]_vars PROVE BreachInv'
  OBVIOUS
<1>1. CASE Poll
  BY <1>1 DEF BreachInv, Poll, SoldWithoutPosition
<1>2. CASE Settle
  BY <1>2 DEF BreachInv, Settle
<1>3. CASE Mark
  BY <1>3 DEF BreachInv, Mark
<1>4. CASE CheckLimits
  BY <1>4 DEF BreachInv, CheckLimits
<1>5. CASE Resolve
  BY <1>5 DEF BreachInv, Resolve, SoldWithoutPosition
<1>6. CASE Exit
  BY <1>6 DEF BreachInv, Exit
<1>7. CASE Enter
  BY <1>7 DEF BreachInv, Enter, EnterMarket
<1>8. CASE StepDone
  BY <1>8 DEF BreachInv, StepDone
<1>9. CASE OperatorResets
  BY <1>9 DEF BreachInv, OperatorResets
<1>10. CASE Restart
  BY <1>10 DEF BreachInv, Restart
<1>11. CASE UNCHANGED vars
  BY <1>11 DEF BreachInv, vars
<1> QED
  BY <1>1, <1>2, <1>3, <1>4, <1>5, <1>6, <1>7, <1>8, <1>9, <1>10, <1>11 DEF Next

(* The inductive invariant holds in every reachable state.                 *)
THEOREM Invariance == Spec => []IInv
<1>1. IInv /\ [Next]_vars => IInv'
  BY CountStep, BreachStep DEF IInv
<1> QED
  BY <1>1, InitIInv, PTL DEF Spec

(* However sales, settlements, unknown orders and restarts interleave, a   *)
(* losing streak is never longer than its limit and the positions that may *)
(* be open.                                                                *)
THEOREM StreakIsBounded == Spec => []StreakBounded
<1>1. IInv => StreakBounded
  BY Finite DEF IInv, CountInv, StreakType, StreakInv, StreakBounded, Carried
<1> QED
  BY <1>1, Invariance, PTL

(* A breach of the loss limits ends the entries until the operator has     *)
(* reset the kill switch and the bot has been started again.               *)
THEOREM BreachEndsTrading == Spec => BreachLasts
<1>1. IInv /\ [Next]_vars => [Enter => ~tripped]_vars
  BY DEF IInv, BreachInv, Enter, EnterMarket, MayEnter
<1> QED
  BY <1>1, Invariance, PTL DEF Spec, BreachLasts

-----------------------------------------------------------------------------
(***************************************************************************)
(* The bound on the loss.  Valued at cost, the portfolio is worth at least *)
(* what the last mark found, less the one position whose sale is found     *)
(* after it; an entry is let in below the limits and within the cap of     *)
(* exposure.  Until the next entry the worst case does not get worse.      *)
(***************************************************************************)
LossType ==
  /\ cash \in Int /\ marks \in [Markets -> Nat]
  /\ start \in Int /\ peak \in Nat \ {0} /\ equity \in Int

Bought(m) == IF order.kind = "buy" /\ order.market = m THEN order.usd ELSE 0
PositionInv == \A m \in Markets : cost[m] + Bought(m) <= MaxPosition
ExposureInv == Exposure <= MaxExposure
AtCost == cash + Sum(cost)
MarkedInv ==
  /\ pc \in {"limits", "resolve"} => equity <= AtCost
  /\ pc \in {"exits", "entries"} => equity <= AtCost + MaxPosition

FundsInv == LossType /\ PositionInv /\ ExposureInv /\ LossBounded
LossInv == FundsInv /\ MarkedInv

LEMMA Caps ==
  /\ MaxOrder \in Nat \ {0} /\ MaxPosition \in Nat \ {0} /\ MaxExposure \in Nat \ {0}
  /\ MaxDailyLoss \in Nat \ {0} /\ DrawdownPct \in Nat \ {0} /\ Cash \in Nat \ {0}
  /\ Payout \in Nat \ {0} /\ IsFiniteSet(Markets)
BY ConstantsOK

LEMMA SumIs ==
  ASSUME NEW f, DOMAIN f = Markets
  PROVE  Sum(f) = SumFunctionOnSet(f, Markets)
BY DEF Sum, FoldFunction, SumFunctionOnSet, FoldFunctionOnSet

LEMMA CostType ==
  ASSUME NEW f \in [Markets -> Nat]
  PROVE  Sum(f) \in Nat
<1>1. DOMAIN f = Markets /\ \A m \in Markets : f[m] \in Nat
  OBVIOUS
<1> QED BY <1>1, SumIs, SumNat, Caps

LEMMA CostChange ==
  ASSUME NEW f \in [Markets -> Nat], NEW m \in Markets, NEW n \in Nat
  PROVE  Sum([f EXCEPT ![m] = n]) = Sum(f) - f[m] + n
<1>1. PICK g : g = [f EXCEPT ![m] = n]
  OBVIOUS
<1>2. DOMAIN f = Markets /\ DOMAIN g = Markets /\ \A x \in Markets : f[x] \in Nat
  BY <1>1
<1>3. (\A x \in Markets : f[x] \in Int) /\ (\A x \in Markets \ {m} : g[x] = f[x]) /\ g[m] \in Int /\ g[m] = n
  BY <1>1
<1>4. SumFunctionOnSet(g, Markets) = SumFunctionOnSet(f, Markets) - f[m] + g[m]
  BY <1>3, Caps, SumChange
<1> QED BY <1>1, <1>2, <1>3, <1>4, SumIs

(* What is held counts for what it cost at most.                           *)
LEMMA ConservativeType ==
  ASSUME cost \in [Markets -> Nat], NEW marked \in [Markets -> Nat]
  PROVE  Conservative(marked) \in Nat /\ Conservative(marked) <= Sum(cost)
<1>1. PICK g : g = [m \in Markets |-> IF marked[m] < cost[m] THEN marked[m] ELSE cost[m]]
  OBVIOUS
<1>2. /\ g \in [Markets -> Nat] /\ DOMAIN g = Markets /\ DOMAIN cost = Markets
      /\ \A m \in Markets : g[m] \in Int /\ cost[m] \in Int /\ g[m] <= cost[m]
  BY <1>1
<1>3. SumFunctionOnSet(g, Markets) <= SumFunctionOnSet(cost, Markets)
  BY <1>2, Caps, SumMonotone
<1>4. Sum(g) \in Nat /\ Sum(g) <= Sum(cost)
  BY <1>2, <1>3, SumIs, CostType
<1> QED BY <1>1, <1>4 DEF Conservative

LEMMA OrderType ==
  ASSUME order \in Orders
  PROVE  /\ Pending \in Nat /\ \A m \in Markets : Bought(m) \in Nat
         /\ order.kind = "buy" => /\ order.market \in Markets /\ order.usd \in Nat
                                  /\ Pending = order.usd /\ Bought(order.market) = order.usd
                                  /\ \A m \in Markets : m # order.market => Bought(m) = 0
         /\ order.kind # "buy" => Pending = 0 /\ \A m \in Markets : Bought(m) = 0
         /\ order.kind = "sell" => order.market \in Markets
<1>1. CASE order = NoOrder
  BY <1>1 DEF Pending, Bought, NoOrder
<1>2. CASE order \in [kind : {"buy", "sell"}, market : Markets, usd : 0..MaxOrder, unknown : BOOLEAN]
  BY <1>2, Caps DEF Pending, Bought
<1> QED BY <1>1, <1>2 DEF Orders

(***************************************************************************)
(* A step that makes neither the worst case worse, nor the day's start or  *)
(* the peak higher, keeps the bound.                                       *)
(***************************************************************************)
LEMMA NotWorse ==
  ASSUME LossBounded, Worst \in Int, Worst' \in Int, Worst <= Worst',
         start \in Int, peak \in Nat, start' = start, peak' = peak
  PROVE  LossBounded'
<1>1. PICK cap \in Int : cap = DrawdownPct * peak
  BY Caps
<1>2. PICK s \in Int : s = Slack /\ Slack' = s
  BY Caps DEF Slack
<1>3. PICK w \in Int, v \in Int : w = Worst /\ v = Worst'
  OBVIOUS
<1>4. start - w < MaxDailyLoss + s /\ 100 * (peak - w) < cap + 100 * s
  BY <1>1, <1>2, <1>3 DEF LossBounded
<1>5. start - v < MaxDailyLoss + s /\ 100 * (peak - v) < cap + 100 * s
  <2>1. MaxDailyLoss \in Int /\ w <= v /\ peak \in Int
    BY <1>3, Caps
  <2> QED BY ONLY <1>4, <2>1, start \in Int, cap \in Int, s \in Int, w \in Int, v \in Int
<1>6. DrawdownPct * peak' = cap
  BY <1>1
<1> QED BY <1>2, <1>3, <1>5, <1>6 DEF LossBounded
(* What the portfolio's amounts are in a state of the invariant.           *)
LEMMA Amounts ==
  ASSUME StreakType, FundsInv
  PROVE  /\ cash \in Int /\ Sum(cost) \in Nat /\ Pending \in Nat
         /\ AtCost = cash + Sum(cost) /\ Worst = cash - Pending /\ Exposure = Sum(cost) + Pending
         /\ AtCost \in Int /\ Worst \in Int /\ Exposure \in Nat /\ Exposure <= MaxExposure
         /\ start \in Int /\ peak \in Nat \ {0} /\ equity \in Int
         /\ \A m \in Markets : cost[m] \in Nat /\ Bought(m) \in Nat /\ cost[m] + Bought(m) <= MaxPosition
<1>1. Sum(cost) \in Nat /\ cost \in [Markets -> Nat]
  BY CostType DEF StreakType
<1>2. Pending \in Nat /\ \A m \in Markets : Bought(m) \in Nat
  BY OrderType DEF StreakType
<1>3. cash \in Int /\ start \in Int /\ peak \in Nat \ {0} /\ equity \in Int
  BY DEF FundsInv, LossType
<1>4. AtCost \in Int /\ Worst \in Int /\ Exposure \in Nat
  BY <1>1, <1>2, <1>3 DEF AtCost, Worst, Exposure
<1> QED
  BY <1>1, <1>2, <1>3, <1>4 DEF AtCost, Worst, Exposure, FundsInv, PositionInv, ExposureInv

(* A position that closes brings in cash and leaves the orders alone.      *)
LEMMA CloseFunds ==
  ASSUME StreakType, FundsInv, NEW m \in Held, NEW proceeds \in Nat, Closes(m, proceeds),
         Pending' = Pending, \A x \in Markets : Bought(x)' = Bought(x),
         UNCHANGED <<start, peak, equity>>
  PROVE  FundsInv' /\ AtCost' \in Int /\ AtCost' >= AtCost - MaxPosition
<1>1. m \in Markets /\ cost \in [Markets -> Nat]
  BY DEF Held, StreakType
<1>2. /\ cash' = cash + proceeds /\ cost' = [cost EXCEPT ![m] = 0] /\ marks' = [marks EXCEPT ![m] = 0]
  BY DEF Closes
<1>3. PICK c \in Nat, t \in Nat, p \in Nat :
        c = cost[m] /\ t = Sum(cost) /\ p = Pending /\ t + p <= MaxExposure /\ c <= MaxPosition
  BY <1>1, Amounts, Caps
<1>4. Sum(cost') = t - c
  <2>1. Sum([cost EXCEPT ![m] = 0]) = Sum(cost) - cost[m] + 0
    BY <1>1, CostChange
  <2>2. Sum(cost) - cost[m] + 0 = t - c
    BY <1>3
  <2> QED BY <1>2, <2>1, <2>2
<1>5. LossType'
  BY <1>1, <1>2 DEF FundsInv, LossType
<1>6. PositionInv'
  <2>1. \A x \in Markets : cost'[x] <= cost[x] /\ cost'[x] \in Nat
    BY <1>1, <1>2
  <2>2. \A x \in Markets : cost'[x] + Bought(x)' <= MaxPosition
    BY <1>1, <2>1, Amounts, Caps
  <2> QED BY <2>2 DEF PositionInv
<1>7. Exposure' = (t - c) + p /\ AtCost' = (cash + proceeds) + (t - c) /\ Worst' = (cash + proceeds) - p
  BY <1>2, <1>3, <1>4 DEF Exposure, AtCost, Worst
<1>8. AtCost = cash + t /\ Worst = cash - p /\ cash \in Int
  BY <1>3, Amounts
<1>9. ExposureInv'
  BY <1>3, <1>7, Caps DEF ExposureInv
<1>10. AtCost' \in Int /\ AtCost' >= AtCost - MaxPosition
  BY <1>3, <1>7, <1>8, Caps
<1>11. LossBounded'
  <2>1. Worst \in Int /\ Worst' \in Int /\ Worst <= Worst'
    BY <1>3, <1>7, <1>8
  <2> QED BY <2>1, Amounts, NotWorse DEF FundsInv
<1> QED BY <1>5, <1>6, <1>9, <1>10, <1>11 DEF FundsInv

(* The order in flight fills for no more than it was for, or not at all.   *)
LEMMA EndFunds ==
  ASSUME StreakType, FundsInv, order # NoOrder, Ends, UNCHANGED <<start, peak, equity>>
  PROVE  FundsInv' /\ AtCost' \in Int /\ AtCost' >= AtCost - MaxPosition
<1>1. order.kind \in {"buy", "sell"} /\ order' = NoOrder
  BY DEF StreakType, Orders, Ends
<1>2. Pending' = 0 /\ \A x \in Markets : Bought(x)' = 0
  BY <1>1 DEF Pending, Bought, NoOrder
<1>3. PICK t \in Nat, p \in Nat : t = Sum(cost) /\ p = Pending /\ t + p <= MaxExposure
  BY Amounts
<1>4. AtCost = cash + t /\ Worst = cash - p /\ cash \in Int
  BY <1>3, Amounts
<1>5. CASE UNCHANGED <<cash, cost, marks, streak>>
  <2>1. Exposure' = t + 0 /\ AtCost' = cash + t /\ Worst' = cash - 0
    BY <1>2, <1>3, <1>5 DEF Exposure, AtCost, Worst
  <2>2. LossType'
    BY <1>5 DEF FundsInv, LossType
  <2>3. PositionInv'
    <3>1. \A x \in Markets : cost'[x] + Bought(x)' <= MaxPosition
      BY <1>2, <1>5, Amounts, Caps
    <3> QED BY <3>1 DEF PositionInv
  <2>4. ExposureInv'
    BY <1>3, <2>1, Caps DEF ExposureInv
  <2>5. LossBounded'
    <3>1. Worst \in Int /\ Worst' \in Int /\ Worst <= Worst'
      BY <1>3, <1>4, <2>1
    <3> QED BY <3>1, Amounts, NotWorse DEF FundsInv
  <2> QED BY <1>3, <1>4, <2>1, <2>2, <2>3, <2>4, <2>5, Caps DEF FundsInv
<1>6. CASE order.kind = "buy" /\ Fills
  <2>1. PICK m \in Markets, usd \in Nat :
          /\ m = order.market /\ usd \in 1..p
          /\ cash' = cash - usd /\ cost' = [cost EXCEPT ![m] = @ + usd] /\ marks' = marks
    BY <1>3, <1>6, OrderType DEF Fills, StreakType
  <2>2. PICK c \in Nat : c = cost[m] /\ Bought(m) = p /\ c + p <= MaxPosition
    BY <1>3, <1>6, <2>1, Amounts, OrderType DEF StreakType
  <2>3. cost \in [Markets -> Nat] /\ c + usd \in Nat /\ cost' = [cost EXCEPT ![m] = c + usd]
    BY <2>1, <2>2 DEF StreakType
  <2>4. Sum(cost') = t + usd
    <3>1. Sum([cost EXCEPT ![m] = c + usd]) = Sum(cost) - cost[m] + (c + usd)
      BY <2>3, CostChange
    <3>2. Sum(cost) - cost[m] + (c + usd) = t + usd
      BY <1>3, <2>2
    <3> QED BY <2>3, <3>1, <3>2
  <2>5. Exposure' = (t + usd) + 0 /\ AtCost' = (cash - usd) + (t + usd) /\ Worst' = (cash - usd) - 0
    BY <1>2, <2>1, <2>4 DEF Exposure, AtCost, Worst
  <2>6. LossType'
    BY <1>4, <2>1 DEF FundsInv, LossType
  <2>7. PositionInv'
    <3>1. ASSUME NEW x \in Markets PROVE cost'[x] + Bought(x)' <= MaxPosition
      <4>1. CASE x = m
        BY <1>2, <2>1, <2>2, <2>3, <4>1, Caps
      <4>2. CASE x # m
        <5>1. cost'[x] = cost[x]
          BY <2>3, <4>2
        <5> QED BY <1>2, <5>1, Amounts, Caps
      <4> QED BY <4>1, <4>2
    <3> QED BY <3>1 DEF PositionInv
  <2>8. ExposureInv'
    BY <1>3, <2>1, <2>5, Caps DEF ExposureInv
  <2>9. LossBounded'
    <3>1. Worst \in Int /\ Worst' \in Int /\ Worst <= Worst'
      BY <1>3, <1>4, <2>1, <2>5
    <3> QED BY <3>1, Amounts, NotWorse DEF FundsInv
  <2>10. AtCost' = AtCost
    BY <1>4, <2>5, <2>1
  <2> QED BY <1>3, <1>4, <2>6, <2>7, <2>8, <2>9, <2>10, Caps DEF FundsInv
<1>7. CASE order.kind = "sell" /\ Fills
  <2>1. PICK proceeds \in 1..Payout : Closes(order.market, proceeds) /\ order.market \in Held
    BY <1>7 DEF Fills
  <2>2. Pending' = Pending /\ \A x \in Markets : Bought(x)' = Bought(x)
    BY <1>2, <1>7, OrderType DEF StreakType
  <2>3. proceeds \in Nat
    BY <2>1, Caps
  <2> QED BY <2>1, <2>2, <2>3, CloseFunds
<1> QED BY <1>1, <1>5, <1>6, <1>7 DEF Ends, Fills

(* A step that trades nothing.                                             *)
LEMMA QuietFunds ==
  ASSUME StreakType, FundsInv, UNCHANGED portfolio,
         Pending' = Pending, \A x \in Markets : Bought(x)' = Bought(x)
  PROVE  FundsInv' /\ AtCost' = AtCost /\ equity' = equity
<1>1. AtCost' = AtCost /\ Worst' = Worst /\ Exposure' = Exposure /\ Slack' = Slack
  BY DEF portfolio, AtCost, Worst, Exposure, Slack
<1>2. LossType' /\ ExposureInv'
  BY <1>1 DEF FundsInv, LossType, ExposureInv, portfolio
<1>3. PositionInv'
  BY DEF FundsInv, PositionInv, portfolio
<1>4. LossBounded'
  BY <1>1 DEF FundsInv, LossBounded, portfolio
<1> QED BY <1>1, <1>2, <1>3, <1>4 DEF FundsInv, portfolio
(* The mark: a new day starts, and a new peak is, at what is held for sure. *)
LEMMA MarkFunds ==
  ASSUME StreakType, FundsInv, Mark
  PROVE  FundsInv' /\ MarkedInv'
<1>1. PICK bid \in [Held -> 0..Payout], seen \in SUBSET Held, newDay \in {0, 1} :
        LET marked == [m \in Markets |-> IF m \in seen THEN bid[m] ELSE marks[m]]
            value == cash + Conservative(marked)
        IN  /\ marks' = marked
            /\ equity' = value
            /\ start' = IF newDay = 1 THEN value ELSE start
            /\ peak' = IF value > peak THEN value ELSE peak
  BY DEF Mark
<1>2. PICK marked : marked = [m \in Markets |-> IF m \in seen THEN bid[m] ELSE marks[m]]
  OBVIOUS
<1>3. marked \in [Markets -> Nat]
  <2>1. marks \in [Markets -> Nat] /\ \A m \in seen : bid[m] \in Nat
    BY Caps DEF FundsInv, LossType
  <2> QED BY <1>2, <2>1
<1>4. PICK k \in Nat : k = Conservative(marked) /\ k <= Sum(cost)
  BY <1>3, ConservativeType DEF StreakType
<1>5. PICK value \in Int : value = cash + k
  BY Amounts
<1>6. /\ marks' = marked /\ equity' = value
      /\ start' = value \/ start' = start
      /\ (peak' = value /\ value > peak) \/ peak' = peak
  <2>1. value = cash + Conservative(marked)
    BY <1>4, <1>5
  <2> QED BY <1>1, <1>2, <2>1
<1>7. UNCHANGED <<cash, cost, order>> /\ pc' = "limits"
  BY DEF Mark
<1>8. Pending' = Pending /\ Exposure' = Exposure /\ Worst' = Worst /\ AtCost' = AtCost /\ Slack' = Slack
  BY <1>7 DEF Pending, Exposure, Worst, AtCost, Slack
<1>9. PICK t \in Nat, p \in Nat, w \in Int :
        t = Sum(cost) /\ p = Pending /\ t + p <= MaxExposure /\ w = Worst /\ w = cash - p
  BY Amounts
<1>10. LossType'
  <2>1. start' \in Int /\ peak' \in Nat \ {0}
    BY <1>6, Amounts
  <2> QED BY <1>3, <1>6, <1>7, <2>1, Amounts DEF LossType
<1>11. PositionInv' /\ ExposureInv'
  BY <1>7, <1>8 DEF FundsInv, PositionInv, ExposureInv, Bought
<1>12. MarkedInv'
  <2>1. value <= AtCost
    BY <1>4, <1>5, Amounts
  <2> QED BY <1>6, <1>7, <1>8, <2>1 DEF MarkedInv
<1>13. value - w <= MaxExposure /\ value - w \in Int
  <2>1. k <= t /\ cash \in Int /\ MaxExposure \in Int
    BY <1>4, <1>9, Amounts, Caps
  <2> QED BY ONLY <1>5, <1>9, <2>1, k \in Nat, t \in Nat, p \in Nat
<1>14. LossBounded'
  <2>1. PICK s \in Int : s = Slack /\ s > MaxExposure
    BY Caps DEF Slack
  <2>2. start' - w < MaxDailyLoss + s
    <3>1. start - w < MaxDailyLoss + s
      BY <1>9, <2>1 DEF FundsInv, LossBounded
    <3>2. value - w < MaxDailyLoss + s
      BY <1>13, <2>1, Caps
    <3> QED BY <1>6, <3>1, <3>2
  <2>3. 100 * (peak' - w) < DrawdownPct * peak' + 100 * s
    <3>1. CASE peak' = peak
      <4>1. 100 * (peak - w) < DrawdownPct * peak + 100 * s
        BY <1>9, <2>1 DEF FundsInv, LossBounded
      <4> QED BY <3>1, <4>1
    <3>2. CASE peak' = value /\ value > peak
      <4>1. value \in Nat
        BY <3>2, Amounts
      <4>2. PICK cap \in Nat : cap = DrawdownPct * value
        BY <4>1, Caps
      <4>3. 100 * (value - w) < cap + 100 * s
        <5>1. MaxExposure \in Int
          BY Caps
        <5> QED BY ONLY <1>13, <2>1, <4>2, <5>1, value \in Int, w \in Int, s \in Int, cap \in Nat
      <4> QED BY <3>2, <4>2, <4>3
    <3> QED BY <1>6, <3>1, <3>2
  <2>4. Worst' = w /\ Slack' = s
    BY <1>8, <1>9, <2>1
  <2> QED BY <2>2, <2>3, <2>4 DEF LossBounded
<1> QED BY <1>10, <1>11, <1>12, <1>14 DEF FundsInv

(* An entry: what is left of the limits covers the position found after    *)
(* the mark, the cap of exposure all that is held and in flight.           *)
LEMMA EnterFunds ==
  ASSUME StreakType, FundsInv, MarkedInv, NEW m \in Markets, NEW usd \in 1..MaxOrder, EnterMarket(m, usd)
  PROVE  FundsInv'
<1>1. PICK unknown \in BOOLEAN :
        order' = [kind |-> "buy", market |-> m, usd |-> usd, unknown |-> unknown]
  BY DEF EnterMarket, Submits
<1>2. /\ order = NoOrder /\ ~Breach /\ Fits(m, usd) /\ UNCHANGED portfolio
      /\ pc = "entries" /\ usd \in Nat
  BY Caps DEF EnterMarket, MayEnter
<1>3. Pending' = usd /\ Pending = 0
  BY <1>1, <1>2 DEF Pending, NoOrder
<1>4. PICK t \in Nat : t = Sum(cost)
  BY Amounts
<1>5. AtCost = cash + t /\ cash \in Int /\ start \in Int /\ peak \in Nat \ {0} /\ equity \in Int
  BY <1>4, Amounts
<1>6. /\ Exposure = t + 0 /\ Exposure' = t + usd /\ Worst' = cash - usd
  BY <1>2, <1>3, <1>4 DEF Exposure, Worst, portfolio
<1>7. usd <= MaxPosition - cost[m] /\ usd <= MaxExposure - t
  BY <1>2, <1>6 DEF Fits
<1>8. LossType'
  BY <1>2 DEF FundsInv, LossType, portfolio
<1>9. PositionInv'
  <2>1. ASSUME NEW x \in Markets PROVE cost'[x] + Bought(x)' <= MaxPosition
    <3>1. cost'[x] = cost[x] /\ cost[x] \in Nat
      BY <1>2, Amounts DEF portfolio
    <3>2. CASE x = m
      <4>1. Bought(x)' = usd
        BY <1>1, <3>2 DEF Bought
      <4> QED BY <1>2, <1>7, <3>1, <3>2, <4>1, Caps
    <3>3. CASE x # m
      <4>1. Bought(x)' = 0
        BY <1>1, <3>3 DEF Bought
      <4> QED BY <3>1, <4>1, Amounts, Caps
    <3> QED BY <3>2, <3>3
  <2> QED BY <2>1 DEF PositionInv
<1>10. ExposureInv'
  BY <1>2, <1>4, <1>6, <1>7, Caps DEF ExposureInv
<1>11. LossBounded'
  <2>1. PICK cap \in Nat : cap = DrawdownPct * peak
    BY <1>5, Caps
  <2>2. start - equity < MaxDailyLoss /\ 100 * (peak - equity) < cap
    <3>1. start - equity \in Int /\ 100 * (peak - equity) \in Int /\ peak > 0 /\ MaxDailyLoss \in Int
      BY <1>5, Caps
    <3>2. ~(start - equity >= MaxDailyLoss) /\ ~(100 * (peak - equity) >= DrawdownPct * peak)
      BY <1>2, <3>1 DEF Breach
    <3> QED BY <2>1, <3>1, <3>2
  <2>3. equity <= cash + t + MaxPosition
    BY <1>2, <1>5 DEF MarkedInv
  <2>4. PICK e \in Nat, q \in Nat, d \in Nat : e = MaxExposure /\ q = MaxPosition /\ d = MaxDailyLoss
    BY Caps
  <2>5. start - (cash - usd) < d + (e + q) /\ 100 * (peak - (cash - usd)) < cap + 100 * (e + q)
    <3>1. usd <= e - t /\ equity <= cash + t + q /\ start - equity < d /\ 100 * (peak - equity) < cap
      BY <1>7, <2>2, <2>3, <2>4
    <3>2. /\ usd \in Nat /\ e \in Nat /\ q \in Nat /\ d \in Nat /\ t \in Nat /\ cap \in Nat
          /\ cash \in Int /\ equity \in Int /\ start \in Int /\ peak \in Int
      BY <1>2, <1>5
    <3> QED BY ONLY <3>1, <3>2
  <2>6. Slack' = e + q /\ start' = start /\ peak' = peak
    BY <1>2, <2>4 DEF Slack, portfolio
  <2> QED BY <1>6, <2>1, <2>4, <2>5, <2>6 DEF LossBounded
<1> QED BY <1>8, <1>9, <1>10, <1>11 DEF FundsInv

(* A process starts with its cash and nothing else.                        *)
Fresh ==
  /\ cash = Cash /\ start = Cash /\ peak = Cash /\ equity = Cash
  /\ cost = [m \in Markets |-> 0] /\ marks = [m \in Markets |-> 0]
  /\ order = NoOrder /\ pc = "poll"

LEMMA FreshFunds == Fresh => LossInv
<1> SUFFICES ASSUME Fresh PROVE LossInv
  OBVIOUS
<1> USE DEF Fresh
<1>1. Pending = 0 /\ \A m \in Markets : Bought(m) = 0
  BY DEF Pending, Bought, NoOrder
<1>2. Sum(cost) = 0
  <2>1. DOMAIN cost = Markets /\ \A m \in Markets : cost[m] = 0
    OBVIOUS
  <2> QED BY <2>1, SumIs, SumZero, Caps
<1>3. Exposure = 0 /\ Worst = Cash
  BY <1>1, <1>2, Caps DEF Exposure, Worst
<1>4. LossType /\ PositionInv /\ ExposureInv /\ MarkedInv
  BY <1>1, <1>3, Caps DEF LossType, PositionInv, ExposureInv, MarkedInv
<1>5. LossBounded
  <2>1. PICK cap \in Nat, s \in Nat \ {0} : cap = DrawdownPct * Cash /\ s = Slack
    BY Caps DEF Slack
  <2>2. Cash - Cash < MaxDailyLoss + s /\ 100 * (Cash - Cash) < cap + 100 * s
    BY Caps
  <2> QED BY <1>3, <2>1, <2>2 DEF LossBounded
<1> QED BY <1>4, <1>5 DEF LossInv, FundsInv

LEMMA InitFunds == Init => LossInv
BY FreshFunds DEF Init, Fresh

LEMMA LossStep == StreakType /\ LossInv /\ [Next]_vars => LossInv'
<1> SUFFICES ASSUME StreakType, FundsInv, MarkedInv, [Next]_vars PROVE LossInv'
  BY DEF LossInv
<1>0. (order.kind = "none" <=> order = NoOrder) /\ (order.unknown => order # NoOrder)
  BY DEF StreakType, Orders, NoOrder
<1>1. ASSUME UNCHANGED portfolio, order' = order PROVE FundsInv' /\ AtCost' = AtCost /\ equity' = equity
  <2>1. Pending' = Pending /\ \A x \in Markets : Bought(x)' = Bought(x)
    BY <1>1 DEF Pending, Bought
  <2> QED BY <1>1, <2>1, QuietFunds
<1>2. ASSUME SoldWithoutPosition PROVE LossInv'
  <2>1. FundsInv' /\ pc' = "poll"
    BY <1>1, <1>2 DEF SoldWithoutPosition
  <2> QED BY <2>1 DEF LossInv, MarkedInv
<1>3. CASE Poll
  <2>1. CASE pc' = "settle" /\ order # NoOrder /\ Ends /\ UNCHANGED <<start, peak, equity>>
    BY <2>1, EndFunds DEF LossInv, MarkedInv
  <2>2. CASE pc' = "settle" /\ order' = order /\ UNCHANGED portfolio
    BY <1>1, <2>2 DEF LossInv, MarkedInv
  <2> QED BY <1>0, <1>2, <1>3, <2>1, <2>2 DEF Poll, portfolio
<1>4. CASE Settle
  <2>1. CASE \E m \in Held, payout \in {0, Payout} :
               Closes(m, payout) /\ UNCHANGED <<pc, start, peak, equity, order>> /\ pc = "settle"
    <3>1. Pending' = Pending /\ \A x \in Markets : Bought(x)' = Bought(x)
      BY <2>1 DEF Pending, Bought
    <3>2. {0, Payout} \subseteq Nat
      BY Caps
    <3>3. FundsInv'
      BY <2>1, <3>1, <3>2, CloseFunds
    <3> QED BY <2>1, <3>3 DEF LossInv, MarkedInv
  <2>2. CASE pc' = "mark" /\ order' = order /\ UNCHANGED portfolio
    BY <1>1, <2>2 DEF LossInv, MarkedInv
  <2> QED BY <1>4, <2>1, <2>2 DEF Settle
<1>5. CASE Mark
  BY <1>5, MarkFunds DEF LossInv
<1>6. CASE CheckLimits
  <2>1. FundsInv' /\ AtCost' = AtCost /\ equity' = equity
    BY <1>1, <1>6 DEF CheckLimits
  <2> QED BY <1>6, <2>1 DEF LossInv, MarkedInv, CheckLimits
<1>7. CASE Resolve
  <2>1. CASE pc = "resolve" /\ pc' = "exits" /\ order.unknown /\ Ends /\ UNCHANGED <<start, peak, equity>>
    <3>1. FundsInv' /\ AtCost' \in Int /\ AtCost' >= AtCost - MaxPosition
      BY <1>0, <2>1, EndFunds
    <3>2. equity' <= AtCost' + MaxPosition
      BY <2>1, <3>1, Amounts, Caps DEF MarkedInv
    <3> QED BY <2>1, <3>1, <3>2 DEF LossInv, MarkedInv
  <2>2. CASE /\ pc = "resolve" /\ pc' = "exits" /\ UNCHANGED portfolio
             /\ order' = order \/ (order' = [order EXCEPT !.unknown = FALSE] /\ order.unknown)
    <3>1. Pending' = Pending /\ \A x \in Markets : Bought(x)' = Bought(x)
      <4>1. order'.kind = order.kind /\ order'.usd = order.usd /\ order'.market = order.market
        BY <1>0, <2>2 DEF StreakType, Orders
      <4> QED BY <4>1 DEF Pending, Bought
    <3>2. FundsInv' /\ AtCost' = AtCost /\ equity' = equity
      BY <2>2, <3>1, QuietFunds
    <3>3. equity' <= AtCost' + MaxPosition
      BY <2>2, <3>2, Amounts, Caps DEF MarkedInv
    <3> QED BY <2>2, <3>2, <3>3 DEF LossInv, MarkedInv
  <2> QED BY <1>2, <1>7, <2>1, <2>2 DEF Resolve, portfolio
<1>8. CASE Exit
  <2>1. Pending' = Pending /\ \A x \in Markets : Bought(x)' = Bought(x)
    <3>1. CASE \E m \in Markets : MayExit(m) /\ Submits("sell", m, 0)
      <4>1. order = NoOrder /\ order'.kind = "sell"
        BY <3>1 DEF MayExit, Submits
      <4> QED BY <4>1 DEF Pending, Bought, NoOrder
    <3>2. CASE order' = order
      BY <3>2 DEF Pending, Bought
    <3> QED BY <1>8, <3>1, <3>2 DEF Exit
  <2>2. UNCHANGED portfolio /\ pc = "exits" /\ pc' = "entries"
    BY <1>8 DEF Exit
  <2>3. FundsInv' /\ AtCost' = AtCost /\ equity' = equity
    BY <2>1, <2>2, QuietFunds
  <2> QED BY <2>2, <2>3 DEF LossInv, MarkedInv
<1>9. CASE Enter
  <2>1. FundsInv' /\ pc' = "poll"
    BY <1>9, EnterFunds DEF Enter, EnterMarket
  <2> QED BY <2>1 DEF LossInv, MarkedInv
<1>10. CASE StepDone
  <2>1. FundsInv' /\ pc' = "poll"
    BY <1>1, <1>10 DEF StepDone
  <2> QED BY <2>1 DEF LossInv, MarkedInv
<1>11. CASE OperatorResets
  <2>1. FundsInv' /\ AtCost' = AtCost /\ equity' = equity /\ pc' = pc
    BY <1>1, <1>11 DEF OperatorResets
  <2> QED BY <2>1 DEF LossInv, MarkedInv
<1>12. CASE Restart
  <2>1. Fresh'
    BY <1>12 DEF Restart, Fresh
  <2>2. (Fresh => LossInv)'
    BY FreshFunds, PTL
  <2> QED BY <2>1, <2>2
<1>13. CASE UNCHANGED vars
  <2>1. FundsInv' /\ AtCost' = AtCost /\ equity' = equity /\ pc' = pc
    BY <1>1, <1>13 DEF vars
  <2> QED BY <2>1 DEF LossInv, MarkedInv
<1> QED
  BY <1>3, <1>4, <1>5, <1>6, <1>7, <1>8, <1>9, <1>10, <1>11, <1>12, <1>13 DEF Next

(***************************************************************************)
(* However books, fills found late, settlements, days and restarts come    *)
(* together, everything held and in flight becoming worthless would take   *)
(* the day no further than its limit, the cap of exposure and one position *)
(* more, and the drop from the peak likewise.                              *)
(***************************************************************************)
THEOREM LossIsBounded == Spec => []LossBounded
<1>1. IInv => StreakType
  BY DEF IInv, CountInv
<1>2. LossInv => LossBounded
  BY DEF LossInv, FundsInv
<1> QED BY <1>1, <1>2, InitFunds, LossStep, Invariance, PTL DEF Spec

-----------------------------------------------------------------------------
(***************************************************************************)
(* Types.  That the cash is never negative needs the purchase in flight to *)
(* be within it.                                                           *)
(***************************************************************************)
CashInv == Pending <= cash
TypeInv == TypeOK /\ CashInv

LEMMA TypedOrder ==
  ASSUME TypeOK
  PROVE  order \in Orders /\ cost \in [Markets -> Nat]
BY Caps DEF TypeOK, Orders

\* Whatever the order in flight has come to.
LEMMA EndsType ==
  ASSUME TypeInv, PositionInv, Ends
  PROVE  /\ order' = NoOrder /\ cash' \in Nat /\ streak' \in Nat
         /\ cost' \in [Markets -> 0..MaxPosition] /\ marks' \in [Markets -> 0..Payout]
<1>1. /\ cash \in Nat /\ streak \in Nat /\ cost \in [Markets -> 0..MaxPosition]
      /\ marks \in [Markets -> 0..Payout] /\ MaxPosition \in Nat /\ Payout \in Nat
  BY Caps DEF TypeInv, TypeOK
<1>2. CASE UNCHANGED <<cash, cost, marks, streak>>
  BY <1>1, <1>2 DEF Ends
<1>3. ASSUME order.kind = "buy", NEW usd \in 1..order.usd, cash' = cash - usd,
             cost' = [cost EXCEPT ![order.market] = @ + usd], UNCHANGED <<marks, streak>>
      PROVE  cash' \in Nat /\ cost' \in [Markets -> 0..MaxPosition]
  <2>1. order \in Orders
    BY TypedOrder DEF TypeInv
  <2>2. PICK u \in Nat, m \in Markets :
          u = order.usd /\ m = order.market /\ Pending = u /\ Bought(m) = u
    BY <1>3, <2>1, OrderType
  <2>3. u <= cash /\ cost[m] + u <= MaxPosition
    BY <2>2 DEF TypeInv, CashInv, PositionInv
  <2>4. PICK c \in 0..MaxPosition : c = cost[m] + usd
    <3>1. cost[m] \in Nat /\ usd \in Nat /\ usd <= u
      BY <1>1, <2>2, <1>3
    <3> QED BY <1>1, <2>3, <3>1
  <2>5. cost' = [cost EXCEPT ![m] = c]
    BY <1>3, <2>2, <2>4
  <2> QED BY <1>1, <1>3, <2>2, <2>3, <2>4, <2>5
<1>4. ASSUME order.market \in Held, NEW proceeds \in 1..Payout, Closes(order.market, proceeds)
      PROVE  /\ cash' \in Nat /\ cost' \in [Markets -> 0..MaxPosition]
             /\ marks' \in [Markets -> 0..Payout] /\ streak' \in Nat
  BY <1>1, <1>4 DEF Closes, Counts, Held
<1> QED BY <1>1, <1>2, <1>3, <1>4 DEF Ends, Fills

LEMMA TypeStep ==
  ASSUME TypeInv, PositionInv, [Next]_vars
  PROVE  TypeInv'
<1>1. /\ cash \in Nat /\ streak \in Nat /\ cost \in [Markets -> 0..MaxPosition]
      /\ marks \in [Markets -> 0..Payout] /\ MaxPosition \in Nat /\ Payout \in Nat /\ Cash \in Nat
      /\ start \in Nat /\ peak \in Nat /\ equity \in Nat /\ MaxOrder \in Nat
      /\ TypeOK /\ CashInv
  BY Caps DEF TypeInv, TypeOK
<1>2. Pending \in Nat /\ order \in Orders
  BY <1>1, TypedOrder, OrderType
<1>3. ASSUME UNCHANGED <<cash, order>>, TypeOK' PROVE TypeInv'
  BY <1>1, <1>3 DEF TypeInv, CashInv, Pending
<1>4. ASSUME order' = NoOrder, TypeOK' PROVE TypeInv'
  <2>1. cash' \in Nat /\ Pending' = 0
    BY <1>4 DEF TypeOK, Pending, NoOrder
  <2> QED BY <1>4, <2>1 DEF TypeInv, CashInv
<1>5. CASE SoldWithoutPosition
  <2>1. TypeOK'
    BY <1>1, <1>5 DEF TypeOK, SoldWithoutPosition, portfolio, bounds
  <2> QED BY <1>3, <1>5, <2>1 DEF SoldWithoutPosition, portfolio
<1>6. CASE Poll
  <2>1. CASE Ends /\ pc' = "settle"
             /\ UNCHANGED <<start, peak, equity, flag, killed, tripped, bounds>>
    <3>1. TypeOK'
      BY <1>1, <2>1, EndsType DEF TypeInv, TypeOK, bounds
    <3> QED BY <1>4, <2>1, <3>1 DEF Ends
  <2>2. CASE UNCHANGED <<order, cash, cost, marks, streak>> /\ pc' = "settle"
             /\ UNCHANGED <<start, peak, equity, flag, killed, tripped, bounds>>
    <3>1. TypeOK'
      BY <1>1, <2>2 DEF TypeOK, bounds
    <3> QED BY <1>3, <2>2, <3>1
  <2> QED BY <1>5, <1>6, <2>1, <2>2 DEF Poll
<1>7. CASE Settle
  <2>1. ASSUME NEW m \in Held, NEW payout \in {0, Payout}, Closes(m, payout),
               UNCHANGED <<pc, start, peak, equity, order, flag, killed, tripped, bounds>>
        PROVE  TypeInv'
    <3>1. /\ cash' \in Nat /\ cash' >= cash /\ cost' \in [Markets -> 0..MaxPosition]
          /\ marks' \in [Markets -> 0..Payout] /\ streak' \in Nat
      BY <1>1, <2>1 DEF Closes, Counts, Held
    <3>2. TypeOK'
      BY <1>1, <2>1, <3>1 DEF TypeOK, bounds
    <3>3. Pending' = Pending
      BY <2>1 DEF Pending
    <3> QED BY <1>1, <1>2, <3>1, <3>2, <3>3 DEF TypeInv, CashInv
  <2>2. CASE pc' = "mark" /\ UNCHANGED <<portfolio, order, flag, killed, tripped, bounds>>
    <3>1. TypeOK'
      BY <1>1, <2>2 DEF TypeOK, portfolio, bounds
    <3> QED BY <1>3, <2>2, <3>1 DEF portfolio
  <2> QED BY <1>7, <2>1, <2>2 DEF Settle
<1>8. CASE Mark
  <2>1. PICK bid \in [Held -> 0..Payout], seen \in SUBSET Held, newDay \in {0, 1} :
          /\ days + newDay <= MaxDays
          /\ marks' = [m \in Markets |-> IF m \in seen THEN bid[m] ELSE marks[m]]
          /\ equity' = cash + Conservative(marks')
          /\ start' = IF newDay = 1 THEN equity' ELSE start
          /\ peak' = IF equity' > peak THEN equity' ELSE peak
          /\ days' = days + newDay
    BY <1>8 DEF Mark
  <2>2. marks' \in [Markets -> 0..Payout] /\ marks' \in [Markets -> Nat]
    BY <1>1, <2>1
  <2>3. Conservative(marks') \in Nat
    BY <1>1, <2>2, ConservativeType, TypedOrder
  <2>4. equity' \in Nat /\ start' \in Nat /\ peak' \in Nat
    BY <1>1, <2>1, <2>3
  <2>5. days' \in 0..MaxDays
    <3>1. days \in 0..MaxDays /\ MaxDays \in Nat
      BY <1>1, ConstantsOK DEF TypeOK
    <3> QED BY <2>1, <3>1
  <2>6. pc' = "limits" /\ UNCHANGED <<cash, cost, streak, order, flag, killed, tripped, trades, restarts>>
    BY <1>8 DEF Mark
  <2>7. TypeOK'
    BY <1>1, <2>2, <2>4, <2>5, <2>6 DEF TypeOK
  <2> QED BY <1>3, <2>6, <2>7
<1>9. CASE CheckLimits \/ StepDone \/ OperatorResets \/ UNCHANGED vars
  <2>1. TypeOK'
    BY <1>1, <1>9 DEF TypeOK, CheckLimits, StepDone, OperatorResets, vars, portfolio, bounds
  <2>2. UNCHANGED <<cash, order>>
    BY <1>9 DEF CheckLimits, StepDone, OperatorResets, vars, portfolio
  <2> QED BY <1>3, <2>1, <2>2
<1>10. CASE Resolve
  <2>1. CASE Ends /\ pc' = "exits"
             /\ UNCHANGED <<start, peak, equity, flag, killed, tripped, bounds>>
    <3>1. TypeOK'
      BY <1>1, <2>1, EndsType DEF TypeInv, TypeOK, bounds
    <3> QED BY <1>4, <2>1, <3>1 DEF Ends
  <2>2. CASE order.unknown /\ order' = [order EXCEPT !.unknown = FALSE]
             /\ UNCHANGED <<cash, cost, marks, streak>> /\ pc' = "exits"
             /\ UNCHANGED <<start, peak, equity, flag, killed, tripped, bounds>>
    <3>1. PICK o : o = [order EXCEPT !.unknown = FALSE]
      OBVIOUS
    <3>2. o \in Orders /\ o.kind = order.kind /\ o.usd = order.usd
      <4>1. order \in [kind : {"buy", "sell"}, market : Markets, usd : 0..MaxOrder,
                        unknown : BOOLEAN]
        <5>1. order # NoOrder
          BY <2>2 DEF NoOrder
        <5> QED BY <1>2, <5>1 DEF Orders
      <4>2. /\ o.kind = order.kind /\ o.usd = order.usd
            /\ o \in [kind : {"buy", "sell"}, market : Markets, usd : 0..MaxOrder,
                      unknown : BOOLEAN]
        BY <3>1, <4>1
      <4> QED BY <4>2 DEF Orders
    <3>3. order' = o
      BY <2>2, <3>1
    <3>4. TypeOK'
      BY <1>1, <2>2, <3>2, <3>3 DEF TypeOK, Orders, bounds
    <3>5. Pending' = Pending
      BY <3>2, <3>3 DEF Pending
    <3> QED BY <1>1, <2>2, <3>4, <3>5 DEF TypeInv, CashInv
  <2>3. CASE UNCHANGED <<order, cash, cost, marks, streak>> /\ pc' = "exits"
             /\ UNCHANGED <<start, peak, equity, flag, killed, tripped, bounds>>
    <3>1. TypeOK'
      BY <1>1, <2>3 DEF TypeOK, bounds
    <3> QED BY <1>3, <2>3, <3>1
  <2> QED BY <1>5, <1>10, <2>1, <2>2, <2>3 DEF Resolve
<1>11. CASE Exit
  <2>1. ASSUME NEW m \in Markets, Submits("sell", m, 0), pc' = "entries",
               UNCHANGED <<portfolio, flag, killed, tripped, bounds>>
        PROVE  TypeInv'
    <3>1. PICK u \in BOOLEAN : order' = [kind |-> "sell", market |-> m, usd |-> 0, unknown |-> u]
      BY <2>1 DEF Submits
    <3>2. order' \in Orders /\ order'.kind = "sell"
      BY <1>1, <3>1 DEF Orders
    <3>3. TypeOK'
      BY <1>1, <2>1, <3>2 DEF TypeOK, Orders, portfolio, bounds
    <3>4. Pending' = 0 /\ cash' = cash
      BY <2>1, <3>2 DEF Pending, portfolio
    <3> QED BY <1>1, <3>3, <3>4 DEF TypeInv, CashInv
  <2>2. CASE pc' = "entries" /\ UNCHANGED <<portfolio, order, flag, killed, tripped, bounds>>
    <3>1. TypeOK'
      BY <1>1, <2>2 DEF TypeOK, portfolio, bounds
    <3> QED BY <1>3, <2>2, <3>1 DEF portfolio
  <2> QED BY <1>11, <2>1, <2>2 DEF Exit
<1>12. CASE Enter
  <2>1. PICK m \in Markets, usd \in 1..MaxOrder : EnterMarket(m, usd)
    BY <1>12 DEF Enter
  <2>2. PICK u \in BOOLEAN : order' = [kind |-> "buy", market |-> m, usd |-> usd, unknown |-> u]
    BY <2>1 DEF EnterMarket, Submits
  <2>3. order' \in Orders /\ Pending' = usd
    BY <1>1, <2>2 DEF Orders, Pending
  <2>4. usd <= cash /\ UNCHANGED portfolio
    <3>1. usd <= cash - Pending /\ UNCHANGED portfolio
      BY <2>1 DEF EnterMarket, Fits
    <3> QED BY <1>1, <1>2, <3>1
  <2>5. trades' \in 0..MaxTrades
    <3>1. trades \in 0..MaxTrades /\ MaxTrades \in Nat
      BY <1>1, ConstantsOK DEF TypeOK
    <3> QED BY <2>1, <3>1 DEF EnterMarket
  <2>6. TypeOK'
    BY <1>1, <2>1, <2>3, <2>4, <2>5 DEF EnterMarket, TypeOK, Orders, portfolio
  <2> QED BY <2>3, <2>4, <2>6 DEF TypeInv, CashInv, portfolio
<1>13. CASE Restart
  <2>1. restarts' \in 0..MaxRestarts
    <3>1. restarts \in 0..MaxRestarts /\ MaxRestarts \in Nat
      BY <1>1, ConstantsOK DEF TypeOK
    <3> QED BY <1>13, <3>1 DEF Restart
  <2>2. order' = NoOrder /\ TypeOK'
    BY <1>1, <1>13, <2>1 DEF Restart, TypeOK
  <2> QED BY <1>4, <2>2
<1> QED
  BY <1>6, <1>7, <1>8, <1>9, <1>10, <1>11, <1>12, <1>13 DEF Next

(* Every variable keeps its type: no purchase in flight, found late or     *)
(* not, takes the cash below zero, and no position outgrows its cap, for   *)
(* any markets, amounts, limits and restarts.                              *)
THEOREM TypeCorrect == Spec => []TypeOK
<1>1. Init => TypeInv
  <2> SUFFICES ASSUME Init PROVE TypeInv
    OBVIOUS
  <2>1. /\ Cash \in Nat /\ MaxPosition \in Nat /\ Payout \in Nat
        /\ MaxTrades \in Nat /\ MaxDays \in Nat /\ MaxRestarts \in Nat
    BY ConstantsOK
  <2>2. TypeOK
    <3>1. cost \in [Markets -> 0..MaxPosition] /\ marks \in [Markets -> 0..Payout]
      BY <2>1 DEF Init
    <3>2. trades \in 0..MaxTrades /\ days \in 0..MaxDays /\ restarts \in 0..MaxRestarts
      BY <2>1 DEF Init
    <3>3. cash \in Nat /\ start \in Nat /\ peak \in Nat /\ equity \in Nat /\ streak \in Nat
      BY <2>1 DEF Init
    <3> QED BY <3>1, <3>2, <3>3 DEF Init, TypeOK
  <2>3. Pending = 0
    BY DEF Init, Pending, NoOrder
  <2> QED BY <2>1, <2>2, <2>3 DEF Init, TypeInv, CashInv
<1>2. TypeInv /\ LossInv /\ [Next]_vars => TypeInv'
  BY TypeStep DEF LossInv, FundsInv
<1>3. IInv => StreakType
  BY DEF IInv, CountInv
<1>4. TypeInv => TypeOK
  BY DEF TypeInv
<1> QED BY <1>1, <1>2, <1>3, <1>4, InitFunds, LossStep, Invariance, PTL DEF Spec
=============================================================================
