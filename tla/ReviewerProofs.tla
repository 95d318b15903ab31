---------------------------- MODULE ReviewerProofs ----------------------------
(***************************************************************************)
(* Proofs about Reviewer: what a day of reviews costs at most, and that    *)
(* trades follow Claude's last answer, for any keys, costs, caps, times to *)
(* live and windows, any number of calls that overlap, and any number of   *)
(* restarts.                                                               *)
(***************************************************************************)
EXTENDS Reviewer, FiniteSetTheorems, TLAPS

Task == [key : Keys, price : Prices]
Flying == Cardinality(inFlight)
Bound == Cap + (K - 1) * Worst

SpendType ==
  /\ now \in 0..MaxTime /\ restarts \in Nat
  /\ tasks \in Seq(Task) /\ inFlight \subseteq Keys
  /\ spent \in Nat /\ day \in Nat /\ day <= DayOf(now)
  /\ booked \in [Days -> Nat] /\ billed \in [Days -> Nat]

\* The budget in memory is the table's, and no day is booked before it has begun.
BookedInv ==
  /\ booked[DayOf(now)] = SpentAt(now)
  /\ \A d \in Days : d > DayOf(now) => booked[d] = 0

\* A call starts only if its worst case still fits what is booked; those in flight do not count.
RoomInv == SpentAt(now) + Worst * Flying <= Bound
RoomUsed == inFlight # {} => Worst <= Cap
DaysInv == \A d \in Days : booked[d] <= Bound

\* What is billed and not booked was in flight at a crash.
BilledInv == \A d \in Days : billed[d] <= booked[d] + restarts * (K * Worst)

IInv == SpendType /\ BookedInv /\ RoomInv /\ RoomUsed /\ DaysInv /\ BilledInv

-----------------------------------------------------------------------------
LEMMA Numbers ==
  /\ {Worst, Cap, MaxTime} \subseteq Nat /\ Day \in Nat \ {0}
  /\ IsFiniteSet(Keys) /\ K \in Nat \ {0}
  /\ (K - 1) * Worst \in Nat /\ K * Worst \in Nat /\ Bound \in Nat
  /\ K * Worst = (K - 1) * Worst + Worst
<1>1. {Worst, Cap, MaxTime} \subseteq Nat /\ Day \in Nat \ {0} /\ IsFiniteSet(Keys) /\ Keys # {}
  BY ConstantsOK
<1>2. K \in Nat \ {0}
  BY <1>1, FS_CardinalityType, FS_EmptySet DEF K
<1>3. (K - 1) * Worst \in Nat /\ K * Worst \in Nat
  BY <1>1, <1>2
<1>4. K * Worst = (K - 1) * Worst + Worst
  BY <1>1, <1>2
<1> QED
  BY <1>1, <1>2, <1>3, <1>4 DEF Bound

(* Days follow each other as the clock does.                               *)
LEMMA DayMonotone ==
  ASSUME NEW t \in Nat, NEW u \in Nat, t <= u
  PROVE  DayOf(t) \in Nat /\ DayOf(t) <= DayOf(u)
<1>1. Day \in Nat \ {0}
  BY Numbers
<1>2. DayOf(t) \in Nat /\ DayOf(u) \in Nat
  BY <1>1 DEF DayOf
<1>3. Day * DayOf(t) <= t /\ u < Day * (DayOf(u) + 1)
  BY <1>1 DEF DayOf
<1> QED
  BY <1>1, <1>2, <1>3

LEMMA DayType ==
  ASSUME NEW t \in 0..MaxTime
  PROVE  DayOf(t) \in Days /\ DayOf(t) \in Nat
<1>1. t \in Nat /\ MaxTime \in Nat /\ t <= MaxTime
  BY Numbers
<1>2. DayOf(t) \in Nat /\ DayOf(t) <= DayOf(MaxTime) /\ DayOf(MaxTime) \in Nat
  BY <1>1, DayMonotone
<1> QED
  BY <1>2 DEF Days, DayOf

(* The set of calls in flight is finite, and never larger than Keys.       *)
LEMMA FlyingType ==
  ASSUME SpendType
  PROVE  /\ IsFiniteSet(inFlight) /\ Flying \in Nat /\ Flying <= K
         /\ SpentAt(now) \in Nat /\ Worst * Flying \in Nat /\ Worst * Flying <= K * Worst
<1>1. IsFiniteSet(inFlight) /\ Flying \in Nat /\ Flying <= K /\ K \in Nat
  BY Numbers, FS_Subset, FS_CardinalityType DEF SpendType, Flying, K
<1>2. SpentAt(now) \in Nat
  BY DEF SpendType, SpentAt
<1>3. Worst * Flying \in Nat /\ Worst * Flying <= K * Worst
  BY <1>1, Numbers
<1> QED
  BY <1>1, <1>2, <1>3

LEMMA InitIInv == Init => IInv
<1> SUFFICES ASSUME Init PROVE IInv
  OBVIOUS
<1>1. now \in 0..MaxTime /\ DayOf(now) \in Days /\ DayOf(now) \in Nat
  BY Numbers, DayType DEF Init
<1>2. SpendType
  BY <1>1 DEF Init, SpendType, Days
<1>3. BookedInv /\ SpentAt(now) = 0
  BY <1>1 DEF Init, BookedInv, SpentAt
<1>4. Flying = 0
  BY FS_EmptySet DEF Init, Flying
<1>5. RoomInv /\ RoomUsed
  BY <1>3, <1>4, Numbers DEF RoomInv, RoomUsed, Init
<1>6. DaysInv
  BY Numbers DEF DaysInv, Init
<1>7. BilledInv
  BY Numbers DEF BilledInv, Init
<1> QED
  BY <1>2, <1>3, <1>5, <1>6, <1>7 DEF IInv

(* A step that starts, answers and books nothing; _roll may run in it.     *)
LEMMA IdleStep ==
  ASSUME IInv, tasks' \in Seq(Task), SpentAt(now)' = SpentAt(now),
         spent' \in Nat, day' \in Nat, day' <= DayOf(now),
         UNCHANGED <<now, inFlight, booked, billed, restarts>>
  PROVE  IInv'
<1>1. SpendType'
  BY DEF IInv, SpendType, Days, DayOf
<1>2. BookedInv'
  BY DEF IInv, BookedInv, DayOf, Days
<1>3. RoomInv' /\ RoomUsed' /\ DaysInv' /\ BilledInv'
  BY DEF IInv, RoomInv, RoomUsed, DaysInv, BilledInv, Flying, Bound, K, Days
<1> QED
  BY <1>1, <1>2, <1>3 DEF IInv

(* _roll forgets the spend of an earlier day only.                         *)
LEMMA RollStep ==
  ASSUME SpendType, Roll, now' = now
  PROVE  SpentAt(now)' = SpentAt(now) /\ spent' \in Nat /\ day' \in Nat /\ day' <= DayOf(now)
BY DayType, FlyingType DEF Roll, SpendType, SpentAt, DayOf

LEMMA TaskType ==
  ASSUME SpendType, tasks # <<>>
  PROVE  Head(tasks).key \in Keys /\ Tail(tasks) \in Seq(Task)
<1>1. Head(tasks) \in Task /\ Tail(tasks) \in Seq(Task)
  BY DEF SpendType
<1> QED
  BY <1>1 DEF Task

(* A completed call of cost c: what was reserved for it becomes spend.     *)
LEMMA CompleteStep ==
  ASSUME IInv, NEW k, NEW p, NEW o, NEW c \in Nat, Completes(k, p, o, c),
         tasks' \in Seq(Task), inFlight' \subseteq inFlight,
         UNCHANGED <<now, restarts>>,
         Worst * Flying' + c <= Worst * Flying
  PROVE  IInv'
<1>0. DayOf(now) \in Days /\ DayOf(now) \in Nat /\ now \in 0..MaxTime
  BY DayType DEF IInv, SpendType
<1>1. SpentAt(now) \in Nat /\ Worst * Flying \in Nat /\ Bound \in Nat
  BY FlyingType, Numbers DEF IInv
<1>2. SpentAt(now)' = SpentAt(now) + c /\ spent' = SpentAt(now) + c /\ day' = DayOf(now)
  BY DEF Completes, SpentAt, DayOf
<1>3. booked' = [booked EXCEPT ![DayOf(now)] = @ + c] /\ billed' = [billed EXCEPT ![DayOf(now)] = @ + c]
  BY DEF Completes
<1>4. SpendType'
  <2>1. booked' \in [Days -> Nat] /\ billed' \in [Days -> Nat]
    BY <1>0, <1>3 DEF IInv, SpendType
  <2>2. spent' \in Nat /\ day' \in Nat /\ day' <= DayOf(now)'
    BY <1>0, <1>1, <1>2 DEF DayOf
  <2> QED
    BY <1>0, <2>1, <2>2 DEF IInv, SpendType, Days
<1>5. BookedInv'
  <2>1. booked'[DayOf(now)] = SpentAt(now) + c
    BY <1>0, <1>3 DEF IInv, SpendType, BookedInv
  <2>2. \A d \in Days : d > DayOf(now) => booked'[d] = 0
    BY <1>0, <1>3 DEF IInv, SpendType, BookedInv
  <2> QED
    BY <1>2, <2>1, <2>2 DEF BookedInv, DayOf, Days
<1>6. Flying' \in Nat /\ Worst * Flying' \in Nat
  <2>1. IsFiniteSet(inFlight) /\ inFlight' \in SUBSET inFlight
    BY FlyingType DEF IInv
  <2>2. IsFiniteSet(inFlight')
    BY <2>1, FS_Subset
  <2>3. Flying' \in Nat
    BY <2>2, FS_CardinalityType DEF Flying
  <2> QED
    BY <2>3, Numbers
<1>7. RoomInv'
  <2>1. SpentAt(now) + Worst * Flying <= Bound
    BY DEF IInv, RoomInv
  <2>2. SpentAt(now) + c + Worst * Flying' <= Bound
    BY <1>1, <1>6, <2>1
  <2> QED
    BY <1>2, <2>2 DEF RoomInv, Bound, K
<1>8. RoomUsed'
  BY DEF IInv, RoomUsed
<1>9. DaysInv'
  <2>1. SpentAt(now) + c <= Bound
    BY <1>1, <1>6 DEF IInv, RoomInv
  <2>2. booked'[DayOf(now)] <= Bound
    BY <1>0, <1>3, <2>1 DEF IInv, SpendType, BookedInv
  <2>3. \A d \in Days \ {DayOf(now)} : booked'[d] = booked[d]
    BY <1>3 DEF IInv, SpendType
  <2> QED
    BY <2>2, <2>3 DEF IInv, DaysInv, Bound, K, Days
<1>10. BilledInv'
  <2>1. restarts * (K * Worst) \in Nat
    BY Numbers DEF IInv, SpendType
  <2>2. ASSUME NEW d \in Days PROVE billed'[d] <= booked'[d] + restarts * (K * Worst)
    <3>1. booked[d] \in Nat /\ billed[d] \in Nat /\ billed[d] <= booked[d] + restarts * (K * Worst)
      BY DEF IInv, SpendType, BilledInv
    <3>2. CASE d = DayOf(now)
      <4>1. booked'[d] = booked[d] + c /\ billed'[d] = billed[d] + c
        BY <1>0, <1>3, <3>2 DEF IInv, SpendType
      <4> QED
        BY <2>1, <3>1, <4>1
    <3>3. CASE d # DayOf(now)
      BY <1>3, <3>1, <3>3 DEF IInv, SpendType
    <3> QED
      BY <3>2, <3>3
  <2> QED
    BY <2>2 DEF BilledInv, K, Days
<1> QED
  BY <1>4, <1>5, <1>7, <1>8, <1>9, <1>10 DEF IInv

(* A call that starts: what it may cost still fits beside those in flight. *)
LEMMA StartStep == IInv /\ CallStarts => IInv'
<1> SUFFICES ASSUME IInv, CallStarts PROVE IInv'
  OBVIOUS
<1>1. PICK k \in Keys : /\ k \notin inFlight /\ inFlight' = inFlight \union {k}
                        /\ MayCall(k) /\ tasks' \in Seq(Task)
  BY TaskType DEF IInv, CallStarts
<1>2. /\ Roll /\ UNCHANGED <<now, booked, billed, restarts>>
  BY DEF CallStarts
<1>3. SpentAt(now)' = SpentAt(now) /\ spent' \in Nat /\ day' \in Nat /\ day' <= DayOf(now)
  BY <1>2, RollStep DEF IInv
<1>4. SpentAt(now) + Worst <= Cap
  BY <1>1 DEF MayCall
<1>5. Flying \in Nat /\ Flying' = Flying + 1 /\ Flying' <= K
  <2>1. Flying \in Nat /\ Flying' = Flying + 1
    BY <1>1, FlyingType, FS_AddElement DEF IInv, Flying
  <2>2. inFlight' \in SUBSET Keys
    BY <1>1 DEF IInv, SpendType
  <2>3. Flying' <= K
    BY <2>2, Numbers, FS_Subset DEF Flying, K
  <2> QED
    BY <2>1, <2>3
<1>6. SpendType'
  <2>1. inFlight' \subseteq Keys
    BY <1>1 DEF IInv, SpendType
  <2> QED
    BY <1>1, <1>2, <1>3, <2>1 DEF IInv, SpendType, Days, DayOf
<1>7. BookedInv'
  BY <1>2, <1>3 DEF IInv, BookedInv, DayOf, Days
<1>8. RoomInv'
  <2>1. SpentAt(now) \in Nat /\ Worst \in Nat /\ Cap \in Nat /\ K \in Nat
    BY FlyingType, Numbers DEF IInv
  <2>2. Flying <= K - 1 /\ Worst * Flying' = Worst * Flying + Worst
    BY <1>5, <2>1
  <2>3. Worst * Flying <= (K - 1) * Worst
    BY <1>5, <2>1, <2>2
  <2>4. SpentAt(now) + Worst * Flying' <= Cap + (K - 1) * Worst
    BY <1>4, <1>5, <2>1, <2>2, <2>3
  <2> QED
    BY <1>3, <2>4 DEF RoomInv, Bound, K
<1>9. RoomUsed'
  BY <1>4, FlyingType, Numbers DEF IInv, RoomUsed
<1>10. DaysInv' /\ BilledInv'
  BY <1>2 DEF IInv, DaysInv, BilledInv, Bound, K, Days
<1> QED
  BY <1>6, <1>7, <1>8, <1>9, <1>10 DEF IInv

(* The clock: a new day starts with nothing spent, and with the calls in   *)
(* flight still to be booked, on it.                                       *)
LEMMA ClockStep == IInv /\ ClockAdvances => IInv'
<1> SUFFICES ASSUME IInv, ClockAdvances PROVE IInv'
  OBVIOUS
<1>1. /\ now \in Nat /\ now' \in 0..MaxTime /\ now' = now + 1
      /\ UNCHANGED <<tasks, inFlight, spent, day, booked, billed, restarts>>
  BY Numbers DEF IInv, SpendType, ClockAdvances, memory
<1>2. /\ DayOf(now') \in Days /\ DayOf(now') \in Nat /\ DayOf(now) \in Days /\ DayOf(now) \in Nat
      /\ DayOf(now) <= DayOf(now')
  BY <1>1, DayType, DayMonotone DEF IInv, SpendType
<1>3. SpendType'
  BY <1>1, <1>2 DEF IInv, SpendType, Days, DayOf
<1>4. CASE DayOf(now') = DayOf(now)
  <2>1. SpentAt(now)' = SpentAt(now)
    BY <1>1, <1>4 DEF SpentAt, DayOf
  <2> QED
    BY <1>1, <1>3, <1>4, <2>1 DEF IInv, BookedInv, RoomInv, RoomUsed, DaysInv, BilledInv, Flying, Bound, K, Days, DayOf
<1>5. CASE DayOf(now') > DayOf(now)
  <2>1. SpentAt(now)' = 0 /\ booked[DayOf(now')] = 0
    BY <1>1, <1>2, <1>5 DEF IInv, SpendType, BookedInv, SpentAt, DayOf
  <2>2. BookedInv'
    BY <1>1, <1>2, <1>5, <2>1 DEF IInv, BookedInv, Days, DayOf
  <2>3. RoomInv'
    <3>1. Flying' = Flying /\ Flying \in Nat /\ Worst * Flying <= K * Worst /\ Worst * Flying \in Nat
      BY <1>1, FlyingType DEF IInv, Flying
    <3>2. CASE inFlight = {}
      <4>1. Flying = 0
        BY <3>2, FS_EmptySet DEF Flying
      <4>2. Worst * Flying = 0
        BY <4>1, Numbers
      <4> QED
        BY <2>1, <3>1, <4>2, Numbers DEF RoomInv, Bound, K
    <3>3. CASE inFlight # {}
      <4>1. Worst <= Cap
        BY <3>3 DEF IInv, RoomUsed
      <4>2. Worst * Flying <= Cap + (K - 1) * Worst
        BY <3>1, <4>1, Numbers
      <4> QED
        BY <2>1, <3>1, <4>2 DEF RoomInv, Bound, K
    <3> QED
      BY <3>2, <3>3
  <2>4. RoomUsed' /\ DaysInv' /\ BilledInv'
    BY <1>1 DEF IInv, RoomUsed, DaysInv, BilledInv, Bound, K, Days
  <2> QED
    BY <1>3, <2>2, <2>3, <2>4 DEF IInv
<1> QED
  BY <1>2, <1>4, <1>5

(* A crash forgets the calls in flight; the next session reads the table.  *)
LEMMA CrashStep == IInv /\ Crash => IInv'
<1> SUFFICES ASSUME IInv, Crash PROVE IInv'
  OBVIOUS
<1>0. /\ DayOf(now) \in Days /\ DayOf(now) \in Nat
      /\ K * Worst \in Nat /\ restarts \in Nat /\ restarts * (K * Worst) \in Nat
  BY SMTT(30), DayType, Numbers DEF IInv, SpendType
<1>1. PICK lost \in 0..(Worst * Cardinality(inFlight)) :
        billed' = [billed EXCEPT ![DayOf(now)] = @ + lost]
  BY DEF Crash
<1>2. lost \in Nat /\ lost <= K * Worst
  BY <1>0, FlyingType DEF IInv, Flying
<1>3. /\ spent' = booked[DayOf(now)] /\ day' = DayOf(now) /\ tasks' = <<>> /\ inFlight' = {}
      /\ restarts' = restarts + 1 /\ now' = now /\ booked' = booked
  BY DEF Crash
<1>4. SpendType'
  <2>1. billed' \in [Days -> Nat]
    BY <1>0, <1>1, <1>2 DEF IInv, SpendType
  <2>2. tasks' \in Seq(Task) /\ inFlight' \subseteq Keys
    BY <1>3
  <2>3. spent' \in Nat /\ day' \in Nat /\ day' <= DayOf(now)'
    BY <1>0, <1>3 DEF IInv, SpendType, DayOf
  <2> QED
    BY <1>0, <1>3, <2>1, <2>2, <2>3 DEF IInv, SpendType, Days
<1>5. SpentAt(now)' = booked[DayOf(now)] /\ booked[DayOf(now)] \in Nat
  BY <1>0, <1>3 DEF IInv, SpendType, SpentAt, DayOf
<1>6. BookedInv'
  BY <1>3, <1>5 DEF IInv, BookedInv, DayOf, Days
<1>7. RoomInv' /\ RoomUsed'
  <2>1. Flying' = 0
    BY <1>3, FS_EmptySet DEF Flying
  <2>2. Worst * Flying' = 0
    BY <2>1, Numbers
  <2>3. booked[DayOf(now)] <= Bound
    BY <1>0 DEF IInv, DaysInv
  <2> QED
    BY <1>3, <1>5, <2>2, <2>3, Numbers DEF RoomInv, RoomUsed, Bound, K
<1>8. DaysInv'
  BY <1>3 DEF IInv, DaysInv, Bound, K, Days
<1>9. BilledInv'
  <2>1. restarts' * (K * Worst) = restarts * (K * Worst) + K * Worst
    BY <1>0, <1>3
  <2>2. ASSUME NEW d \in Days PROVE billed'[d] <= booked'[d] + restarts' * (K * Worst)
    <3>1. booked[d] \in Nat /\ billed[d] \in Nat /\ billed[d] <= booked[d] + restarts * (K * Worst)
      BY DEF IInv, SpendType, BilledInv
    <3>2. billed'[d] <= billed[d] + K * Worst
      BY SMTT(30), <1>0, <1>1, <1>2, <3>1 DEF IInv, SpendType
    <3>3. billed'[d] \in Nat
      BY <1>4 DEF SpendType, Days
    <3> QED
      BY SMTT(30), <1>0, <1>3, <2>1, <3>1, <3>2, <3>3
  <2> QED
    BY <2>2 DEF BilledInv, K, Days
<1> QED
  BY <1>4, <1>6, <1>7, <1>8, <1>9 DEF IInv

LEMMA NextStep == IInv /\ [Next]_vars => IInv'
<1> SUFFICES ASSUME IInv, [Next]_vars PROVE IInv'
  OBVIOUS
<1>0. SpendType
  BY DEF IInv
<1>1. CASE \E k \in Keys, p \in Prices : ScheduleReview(k, p)
  <2>1. PICK k \in Keys, p \in Prices : ScheduleReview(k, p)
    BY <1>1
  <2>2. /\ tasks' = Append(tasks, [key |-> k, price |-> p])
        /\ UNCHANGED <<now, inFlight, spent, day, booked, billed, restarts>>
    BY <2>1 DEF ScheduleReview
  <2>3. [key |-> k, price |-> p] \in Task
    BY DEF Task
  <2>4. tasks' \in Seq(Task)
    BY <1>0, <2>2, <2>3 DEF SpendType
  <2> QED
    BY <1>0, <2>2, <2>4, IdleStep DEF SpendType, SpentAt, DayOf
<1>2. CASE ReviewSkipped
  <2>1. tasks' \in Seq(Task) /\ UNCHANGED <<now, inFlight, spent, day, booked, billed, restarts>>
    BY <1>0, <1>2, TaskType DEF ReviewSkipped
  <2> QED
    BY <1>0, <2>1, IdleStep DEF SpendType, SpentAt, DayOf
<1>3. CASE ReviewRefused
  <2>1. tasks' \in Seq(Task) /\ Roll /\ UNCHANGED <<now, inFlight, booked, billed, restarts>>
    BY <1>0, <1>3, TaskType DEF ReviewRefused
  <2> QED
    BY <1>0, <2>1, RollStep, IdleStep
<1>4. CASE CallStarts
  BY <1>4, StartStep
<1>5. CASE PromptBlocked
  <2>1. /\ Completes(Head(tasks).key, Head(tasks).price, "blocked", 0)
        /\ tasks' \in Seq(Task) /\ UNCHANGED <<now, inFlight, restarts>>
    BY <1>0, <1>5, TaskType DEF PromptBlocked
  <2>2. Worst * Flying' + 0 <= Worst * Flying
    BY <1>0, <2>1, FlyingType DEF Flying
  <2> QED
    BY <2>1, <2>2, CompleteStep
<1>6. CASE \E k \in Keys : CallAnswered(k)
  <2>1. PICK k \in Keys, o \in Outcomes \ {"blocked"} :
          /\ k \in inFlight /\ inFlight' = inFlight \ {k}
          /\ \E cost \in Costs(o) : Completes(k, asked[k], o, cost)
          /\ UNCHANGED <<now, tasks, restarts>>
    BY <1>6 DEF CallAnswered
  <2>2. PICK cost \in Costs(o) : Completes(k, asked[k], o, cost)
    BY <2>1
  <2>3. cost \in Nat /\ cost <= Worst /\ Worst \in Nat
    BY <2>2, Numbers DEF Costs
  <2>4. Flying' = Flying - 1 /\ Flying \in Nat
    BY <1>0, <2>1, FlyingType, FS_RemoveElement DEF Flying
  <2>5. Worst * Flying' + cost <= Worst * Flying
    <3>1. Worst * Flying' = Worst * Flying - Worst /\ Worst * Flying \in Nat
      BY <1>0, <2>3, <2>4, FlyingType
    <3> QED
      BY <2>3, <3>1
  <2>6. tasks' \in Seq(Task) /\ inFlight' \subseteq inFlight
    BY <1>0, <2>1 DEF SpendType
  <2> QED
    BY <2>1, <2>2, <2>3, <2>5, <2>6, CompleteStep
<1>7. CASE ClockAdvances
  BY <1>7, ClockStep
<1>8. CASE Crash
  BY <1>8, CrashStep
<1>9. CASE UNCHANGED vars
  <2>1. UNCHANGED <<now, tasks, inFlight, spent, day, booked, billed, restarts>>
    BY <1>9 DEF vars, memory
  <2> QED
    BY <1>0, <2>1, IdleStep DEF SpendType, SpentAt, DayOf
<1> QED
  BY <1>1, <1>2, <1>3, <1>4, <1>5, <1>6, <1>7, <1>8, <1>9 DEF Next

-----------------------------------------------------------------------------
(* The inductive invariant holds in every reachable state.                 *)
THEOREM Invariance == Spec => []IInv
<1>1. IInv /\ [Next]_vars => IInv'
  BY NextStep
<1> QED
  BY <1>1, InitIInv, PTL DEF Spec

(* The reviews of a day cost no more than the cap, the worst case of the   *)
(* calls that overlapped, and that of the calls each crash forgot.         *)
THEOREM SpendIsBounded == Spec => []SpendBounded
<1>1. IInv => SpendBounded
  <2> SUFFICES ASSUME IInv, NEW d \in Days
               PROVE  billed[d] <= Cap + (K - 1) * Worst + restarts * (K * Worst)
    BY DEF SpendBounded
  <2>1. /\ booked[d] \in Nat /\ billed[d] \in Nat /\ restarts * (K * Worst) \in Nat
        /\ Bound \in Nat
    BY Numbers DEF IInv, SpendType
  <2>2. booked[d] <= Bound /\ billed[d] <= booked[d] + restarts * (K * Worst)
    BY DEF IInv, DaysInv, BilledInv
  <2>3. billed[d] <= Bound + restarts * (K * Worst)
    BY <2>1, <2>2
  <2> QED
    BY <2>3 DEF Bound
<1> QED
  BY <1>1, Invariance, PTL
-----------------------------------------------------------------------------
(* The entries the decision loop looks up, and Claude's last answers.      *)
AnswerType ==
  /\ entries \in [Keys -> Entry] /\ answer \in [Keys -> LastAnswer]
  /\ asked \in [Keys -> Nat]

\* An approval in memory is the last answer: no later task has overwritten that.
ApprovalsInv == \A k \in Keys : entries[k].kind = "approve" => answer[k] = entries[k]

\* A rejection is in memory for as long as it holds, although a refused call overwrites entries.
Expired(k) == now - answer[k].at > CacheTTL
RejectionsInv ==
  \A k \in Keys : answer[k].kind = "reject" => answer[k] = entries[k] \/ Expired(k)

\* Nothing is scheduled under a rejection, and none arrives while a task of the key waits.
QueuedInv ==
  \A i \in DOMAIN tasks, k \in Keys :
    tasks[i].key = k /\ answer[k].kind = "reject" => Expired(k)

AnswersInv == AnswerType /\ ApprovalsInv /\ RejectionsInv /\ QueuedInv

(* The tasks that wait after the first one has started were waiting.       *)
LEMMA TailWaits ==
  ASSUME SpendType, tasks # <<>>
  PROVE  /\ Head(tasks).key \in Keys /\ Head(tasks).price \in Nat
         /\ \E i \in DOMAIN tasks : tasks[i] = Head(tasks)
         /\ \A j \in DOMAIN Tail(tasks) : \E i \in DOMAIN tasks : Tail(tasks)[j] = tasks[i]
<1>1. tasks \in Seq(Task) /\ Prices \subseteq Nat
  BY ConstantsOK DEF SpendType
<1>2. Head(tasks) \in Task /\ Head(tasks) = tasks[1] /\ 1 \in DOMAIN tasks
  BY <1>1
<1>3. \A j \in DOMAIN Tail(tasks) : j + 1 \in DOMAIN tasks /\ Tail(tasks)[j] = tasks[j + 1]
  BY <1>1
<1> QED
  BY <1>1, <1>2, <1>3 DEF Task

(* A step that answers nothing and schedules nothing.                      *)
LEMMA AnswersCarry ==
  ASSUME SpendType, AnswersInv, UNCHANGED <<now, entries, answer>>, asked' \in [Keys -> Nat],
         \A j \in DOMAIN tasks' : \E i \in DOMAIN tasks : tasks'[j] = tasks[i]
  PROVE  AnswersInv'
<1>1. AnswerType' /\ ApprovalsInv'
  BY DEF AnswersInv, AnswerType, ApprovalsInv
<1>2. RejectionsInv'
  BY DEF AnswersInv, RejectionsInv, Expired
<1>3. QueuedInv'
  BY DEF AnswersInv, QueuedInv, Expired
<1> QED
  BY <1>1, <1>2, <1>3 DEF AnswersInv

(* A completed review of k: an entry and its answer, unless it was blocked,*)
(* and no rejection while a task of k waits.                               *)
LEMMA AnswersComplete ==
  ASSUME SpendType, AnswersInv, NEW k \in Keys, NEW p \in Nat, NEW o \in Answers,
         NEW c, Completes(k, p, o, c), asked' \in [Keys -> Nat], UNCHANGED now,
         \A j \in DOMAIN tasks' : \E i \in DOMAIN tasks : tasks'[j] = tasks[i],
         o # "blocked" => \A i \in DOMAIN tasks' : tasks'[i].key # k
  PROVE  AnswersInv'
<1>1. PICK e, a : /\ e = [kind |-> Classify(o), at |-> now, price |-> p]
                  /\ a = [kind |-> IF o = "blocked" THEN o ELSE Classify(o), at |-> now, price |-> p]
  OBVIOUS
<1>2. now \in Nat /\ Classify(o) \in Kind
  BY Numbers DEF SpendType, Classify, Kind, Answers
<1>3. /\ e \in Entry /\ a \in LastAnswer
      /\ o # "blocked" => a = e
      /\ o = "blocked" => e.kind = "reject" /\ a.kind = "blocked"
  BY <1>1, <1>2 DEF Entry, LastAnswer, Classify
<1>4. entries' = [entries EXCEPT ![k] = e] /\ answer' = [answer EXCEPT ![k] = a]
  BY <1>1 DEF Completes, Enters
<1>5. AnswerType'
  BY <1>3, <1>4 DEF AnswersInv, AnswerType
<1>6. /\ entries'[k] = e /\ answer'[k] = a
      /\ \A l \in Keys \ {k} : entries'[l] = entries[l] /\ answer'[l] = answer[l]
  BY <1>4 DEF AnswersInv, AnswerType
<1>7. ApprovalsInv'
  BY <1>3, <1>6 DEF AnswersInv, ApprovalsInv
<1>8. RejectionsInv'
  BY <1>3, <1>6 DEF AnswersInv, RejectionsInv, Expired
<1>9. QueuedInv'
  <2> SUFFICES ASSUME NEW j \in DOMAIN tasks', NEW l \in Keys,
                      tasks'[j].key = l, answer'[l].kind = "reject"
               PROVE  Expired(l)'
    BY DEF QueuedInv
  <2>1. PICK i \in DOMAIN tasks : tasks'[j] = tasks[i]
    OBVIOUS
  <2>2. l # k
    BY <1>3, <1>6
  <2>3. answer'[l] = answer[l]
    BY <1>6, <2>2
  <2> QED
    BY <2>1, <2>3 DEF AnswersInv, QueuedInv, Expired
<1> QED
  BY <1>5, <1>7, <1>8, <1>9 DEF AnswersInv

LEMMA AnswersStep ==
  ASSUME SpendType, AnswersInv, [Next]_vars
  PROVE  AnswersInv'
<1>1. CASE \E k \in Keys, p \in Prices : ScheduleReview(k, p)
  <2>1. PICK k \in Keys, p \in Prices : ScheduleReview(k, p)
    BY <1>1
  <2>2. /\ tasks' = Append(tasks, [key |-> k, price |-> p])
        /\ UNCHANGED <<now, entries, answer, asked>> /\ Verdict(k, p, FALSE) = "needs_call"
    BY <2>1 DEF ScheduleReview
  <2>3. mode # "off" /\ k \notin inFlight /\ ~Lives(k, "reject", CacheTTL)
    BY <2>2 DEF Verdict
  <2>4. answer[k].kind = "reject" => Expired(k)
    <3>1. now \in Nat /\ CacheTTL \in Nat /\ answer[k].at \in Nat
      BY Numbers, ConstantsOK DEF SpendType, AnswersInv, AnswerType, LastAnswer
    <3> QED
      BY <2>3, <3>1 DEF AnswersInv, RejectionsInv, Lives, Expired
  <2>5. \A j \in DOMAIN tasks' : \/ j \in DOMAIN tasks /\ tasks'[j] = tasks[j]
                                 \/ tasks'[j].key = k
    BY <2>2 DEF SpendType
  <2>6. QueuedInv'
    BY <2>2, <2>4, <2>5 DEF AnswersInv, QueuedInv, Expired
  <2> QED
    BY <2>2, <2>6 DEF AnswersInv, AnswerType, ApprovalsInv, RejectionsInv, Expired
<1>2. CASE ReviewSkipped
  <2>1. tasks # <<>> /\ tasks' = Tail(tasks) /\ UNCHANGED <<now, entries, answer, asked>>
    BY <1>2 DEF ReviewSkipped
  <2>2. asked' \in [Keys -> Nat]
    BY <2>1 DEF AnswersInv, AnswerType
  <2> QED
    BY <2>1, <2>2, TailWaits, AnswersCarry
<1>3. CASE ReviewRefused
  <2>1. PICK k, p, e : /\ k = Head(tasks).key /\ p = Head(tasks).price
                       /\ e = [kind |-> "not_reviewed", at |-> now, price |-> p]
    OBVIOUS
  <2>2. /\ tasks # <<>> /\ tasks' = Tail(tasks) /\ UNCHANGED <<now, answer, asked>>
        /\ entries' = [entries EXCEPT ![k] = e]
    BY <1>3, <2>1 DEF ReviewRefused, Enters
  <2>3. k \in Keys /\ p \in Nat /\ now \in Nat
    BY <2>1, <2>2, TailWaits, Numbers DEF SpendType
  <2>4. e \in Entry /\ e.kind = "not_reviewed"
    BY <2>1, <2>3 DEF Entry, Kind
  <2>5. entries'[k] = e /\ \A l \in Keys \ {k} : entries'[l] = entries[l]
    BY <2>2, <2>3 DEF AnswersInv, AnswerType
  <2>6. AnswerType' /\ ApprovalsInv'
    BY <2>2, <2>4, <2>5 DEF AnswersInv, AnswerType, ApprovalsInv
  <2>7. answer[k].kind = "reject" => Expired(k)
    <3>1. PICK i \in DOMAIN tasks : tasks[i] = Head(tasks)
      BY <2>2, TailWaits
    <3> QED
      BY <2>1, <2>3, <3>1 DEF AnswersInv, QueuedInv
  <2>8. RejectionsInv'
    BY <2>2, <2>5, <2>7 DEF AnswersInv, RejectionsInv, Expired
  <2>9. QueuedInv'
    <3>1. \A j \in DOMAIN tasks' : \E i \in DOMAIN tasks : tasks'[j] = tasks[i]
      BY <2>2, TailWaits
    <3> QED
      BY <2>2, <3>1 DEF AnswersInv, QueuedInv, Expired
  <2> QED
    BY <2>6, <2>8, <2>9 DEF AnswersInv
<1>4. CASE CallStarts
  <2>1. /\ tasks # <<>> /\ tasks' = Tail(tasks) /\ UNCHANGED <<now, entries, answer>>
        /\ asked' = [asked EXCEPT ![Head(tasks).key] = Head(tasks).price]
    BY <1>4 DEF CallStarts
  <2>2. Head(tasks).key \in Keys /\ Head(tasks).price \in Nat
    BY <2>1, TailWaits
  <2>3. asked' \in [Keys -> Nat]
    BY <2>1, <2>2 DEF AnswersInv, AnswerType
  <2> QED
    BY <2>1, <2>3, TailWaits, AnswersCarry
<1>5. CASE PromptBlocked
  <2>1. /\ tasks # <<>> /\ tasks' = Tail(tasks) /\ UNCHANGED <<now, asked>>
        /\ Completes(Head(tasks).key, Head(tasks).price, "blocked", 0)
    BY <1>5 DEF PromptBlocked
  <2>2. Head(tasks).key \in Keys /\ Head(tasks).price \in Nat /\ "blocked" \in Answers
    BY <2>1, TailWaits DEF Answers
  <2>3. asked' \in [Keys -> Nat]
    BY <2>1 DEF AnswersInv, AnswerType
  <2>4. \A j \in DOMAIN tasks' : \E i \in DOMAIN tasks : tasks'[j] = tasks[i]
    BY <2>1, TailWaits
  <2> QED
    BY <2>1, <2>2, <2>3, <2>4, AnswersComplete
<1>6. CASE \E k \in Keys : CallAnswered(k)
  <2>1. PICK k \in Keys, o \in Outcomes \ {"blocked"} :
          /\ \A i \in DOMAIN tasks : tasks[i].key # k
          /\ \E cost \in Costs(o) : Completes(k, asked[k], o, cost)
          /\ asked' = [asked EXCEPT ![k] = 0] /\ UNCHANGED <<now, tasks>>
    BY <1>6 DEF CallAnswered
  <2>2. PICK cost \in Costs(o) : Completes(k, asked[k], o, cost)
    BY <2>1
  <2>3. o \in Answers /\ asked[k] \in Nat /\ asked' \in [Keys -> Nat]
    BY <2>1, ConstantsOK DEF AnswersInv, AnswerType
  <2> QED
    BY <2>1, <2>2, <2>3, AnswersComplete
<1>7. CASE ClockAdvances
  <2>1. /\ UNCHANGED <<entries, answer, asked, tasks>> /\ now' = now + 1 /\ now \in Nat
        /\ CacheTTL \in Nat
    BY <1>7, Numbers, ConstantsOK DEF ClockAdvances, memory, SpendType
  <2>2. ASSUME NEW k \in Keys, Expired(k) PROVE Expired(k)'
    <3>1. answer[k].at \in Nat
      BY DEF AnswersInv, AnswerType, LastAnswer
    <3> QED
      BY <2>1, <2>2, <3>1 DEF Expired
  <2>3. QueuedInv'
    BY <2>1, <2>2 DEF AnswersInv, QueuedInv
  <2>4. RejectionsInv'
    BY <2>1, <2>2 DEF AnswersInv, RejectionsInv
  <2> QED
    BY <2>1, <2>3, <2>4 DEF AnswersInv, AnswerType, ApprovalsInv
<1>8. CASE Crash
  <2>1. /\ entries' = [k \in Keys |-> NoEntry] /\ answer' = [k \in Keys |-> NoEntry]
        /\ tasks' = <<>> /\ asked' = [k \in Keys |-> 0]
    BY <1>8 DEF Crash
  <2>2. NoEntry \in Entry /\ NoEntry \in LastAnswer /\ NoEntry.kind = "none"
    BY DEF NoEntry, Entry, LastAnswer, Kind
  <2>3. DOMAIN tasks' = {}
    BY <2>1
  <2> QED
    BY <2>1, <2>2, <2>3 DEF AnswersInv, AnswerType, ApprovalsInv, RejectionsInv, QueuedInv
<1>9. CASE UNCHANGED vars
  BY <1>9 DEF vars, memory, AnswersInv, AnswerType, ApprovalsInv, RejectionsInv, QueuedInv, Expired
<1> QED
  BY <1>1, <1>2, <1>3, <1>4, <1>5, <1>6, <1>7, <1>8, <1>9 DEF Next

(* A trade agrees with Claude's last answer on the market, in every order  *)
(* in which reviews are scheduled, refused, answered, blocked, expire and  *)
(* are forgotten: never while a review is out, never under a rejection     *)
(* that holds, and where reviews are required only on a young approval     *)
(* near its price.                                                         *)
THEOREM AnswersAreFollowed == Spec => []TradesFollowAnswers
<1>1. Init => AnswersInv
  <2> SUFFICES ASSUME Init PROVE AnswersInv
    OBVIOUS
  <2>1. NoEntry \in Entry /\ NoEntry \in LastAnswer /\ NoEntry.kind = "none"
    BY DEF NoEntry, Entry, LastAnswer, Kind
  <2>2. DOMAIN tasks = {}
    BY DEF Init
  <2> QED
    BY <2>1, <2>2 DEF Init, AnswersInv, AnswerType, ApprovalsInv, RejectionsInv, QueuedInv
<1>2. IInv /\ AnswersInv /\ [Next]_vars => AnswersInv'
  BY AnswersStep DEF IInv
<1>3. IInv /\ AnswersInv => TradesFollowAnswers
  <2> SUFFICES ASSUME IInv, AnswersInv, NEW k \in Keys, NEW p \in Prices, NEW weak \in BOOLEAN,
                      mode # "off", MayTrade(k, p, weak)
               PROVE  /\ k \notin inFlight
                      /\ ~Answered(k, "reject", CacheTTL)
                      /\ mode = "required" => /\ Answered(k, "approve", ApprovalTTL)
                                              /\ Distance(p, answer[k].price) <= MaxMove
    BY DEF TradesFollowAnswers
  <2>1. PICK v : v = Verdict(k, p, weak) /\ Allows(v)
    BY DEF MayTrade
  <2>2. k \notin inFlight
    BY <2>1 DEF Verdict, Allows
  <2>3. ~Lives(k, "reject", CacheTTL)
    <3> SUFFICES ASSUME Lives(k, "reject", CacheTTL) PROVE FALSE
      OBVIOUS
    <3>1. v = "rejected"
      <4>1. Verdict(k, p, weak) =
              CASE Lives(k, "reject", CacheTTL) -> "rejected"
                [] Lives(k, "not_reviewed", CacheTTL) -> "not_reviewed"
                [] ApprovalLives(k, p) -> "approved"
                [] OTHER -> IF weak THEN "not_reviewed" ELSE "needs_call"
        BY <2>2 DEF Verdict
      <4>2. ~Lives(k, "not_reviewed", CacheTTL) /\ ~ApprovalLives(k, p)
        BY DEF Lives, ApprovalLives
      <4> QED
        BY <2>1, <4>1, <4>2
    <3> QED
      BY <2>1, <3>1 DEF Allows
  <2>4. ~Answered(k, "reject", CacheTTL)
    <3>1. now \in Nat /\ CacheTTL \in Nat /\ answer[k].at \in Nat
      BY Numbers, ConstantsOK DEF IInv, SpendType, AnswersInv, AnswerType, LastAnswer
    <3> QED
      BY <2>3, <3>1 DEF AnswersInv, RejectionsInv, Expired, Answered, Lives
  <2>5. ASSUME mode = "required"
        PROVE  Answered(k, "approve", ApprovalTTL) /\ Distance(p, answer[k].price) <= MaxMove
    <3>1. v = "approved"
      BY <2>1, <2>2, <2>5 DEF Verdict, Allows
    <3>2. ApprovalLives(k, p)
      BY <2>1, <2>2, <2>3, <2>5, <3>1 DEF Verdict
    <3> QED
      BY <3>2 DEF ApprovalLives, Lives, Answered, AnswersInv, ApprovalsInv
  <2> QED
    BY <2>2, <2>4, <2>5
<1> QED
  BY <1>1, <1>2, <1>3, Invariance, PTL DEF Spec
=============================================================================
