---------------------------- MODULE InputProofs ----------------------------
(***************************************************************************)
(* Proofs about what reaches the bot from outside: the order books         *)
(* (BookSync), the proposals of MCP clients (Proposals) and the prices to  *)
(* beat (PriceToBeat), for any values of their constants.                  *)
(*                                                                         *)
(* The module extends BookSync and has the other two as instances, with    *)
(* parameters of the same names.  A theorem about an instance is about its *)
(* Spec alone, and takes the assumption on its constants, ConstantsOK, as  *)
(* a hypothesis.                                                           *)
(***************************************************************************)
EXTENDS BookSync, Integers, SequenceTheorems, FiniteSetTheorems, TLAPS

CONSTANTS
  \* Proposals, but for Tokens
  Servers, PerMinute, Minute, TTL, MaxInFlight, MaxProposals, MaxBreaks, MaxRestarts,
  \* PriceToBeat
  N, Matched, Missing, StreamPrices, Prices, Resolving, MinWindows, Policy, Keep, Lookback,
  MaxFaults,
  \* both
  MaxTime

VARIABLES
  \* Proposals
  inbox, checked, stepNow, queue, open, orders, breaks,
  \* PriceToBeat, but for losses
  tick, gamma, rtds, last, held, hub, obs, new, position, halted, store, incidents, traded, found,
  \* both
  now, pc, restarts

Inbox == INSTANCE Proposals
Ptb == INSTANCE PriceToBeat

-----------------------------------------------------------------------------
(***************************************************************************)
(* BookSync.                                                               *)
(***************************************************************************)
Histories == Seq(Feed!Change)

\* Every version of a book has a best price that one of its changes made.
GoodHistory(h) ==
  /\ h \in Histories
  /\ \A v \in 0..Len(h) : Feed!TopOf(h, v) \in 0..v /\ Feed!StampOf(h, v) \in Nat

\* What r shows was the exchange's.
Shows(r, h) ==
  /\ r.valid
  /\ r.seen \in 0..Len(h) /\ r.top \in 0..Len(h)
  /\ r.stamp = Feed!StampOf(h, r.seen)
  /\ Feed!MayShow(h, r.seen, r.top)

GoodBook(b, h) == b = Invalid \/ (b \in Book /\ Shows(b, h))

\* The message speaks of a version the exchange's book has had.
GoodMessage(m) ==
  /\ m.token \in Tokens /\ m.version \in 0..Now(m.token)
  /\ m.type = "change" => m.version # 0
GoodMessages == {m \in Message : GoodMessage(m)}

HistInv == /\ DOMAIN hist = Tokens
           /\ \A t \in Tokens : GoodHistory(hist[t])
BufferInv == buffer \in Seq(GoodMessages)
RestInv ==
  /\ rest.state # "idle" => rest.token \in Tokens
  /\ rest.state = "answered" => rest.version \in 0..Now(rest.token)
BookInv == /\ DOMAIN book = Tokens
           /\ \A t \in Tokens : GoodBook(book[t], hist[t])
FramesInv == subscribed \subseteq Tokens /\ frames \subseteq Tokens

BooksInv == HistInv /\ BookInv
PushInv == BufferInv /\ RestInv /\ FramesInv
IInv == BooksInv /\ PushInv

-----------------------------------------------------------------------------
(* Books and histories. *)

\* A version that the history had before a change is what it was.
LEMMA VersionsStay ==
  ASSUME NEW h, GoodHistory(h), NEW c \in Feed!Change, NEW v \in 0..Len(h)
  PROVE  /\ Feed!StampOf(Append(h, c), v) = Feed!StampOf(h, v)
         /\ Feed!TopOf(Append(h, c), v) = Feed!TopOf(h, v)
         /\ \A u : Feed!MayShow(Append(h, c), v, u) <=> Feed!MayShow(h, v, u)
<1> DEFINE g == Append(h, c)
<1>1. /\ Len(h) \in Nat
      /\ \A i \in 1..Len(h) : g[i] = h[i]
  BY AppendProperties DEF GoodHistory, Histories
<1> HIDE DEF g
<1>2. Feed!StampOf(g, v) = Feed!StampOf(h, v)
  BY <1>1 DEF Feed!StampOf
<1>3. Feed!TopChanges(g, v) = Feed!TopChanges(h, v)
  BY <1>1 DEF Feed!TopChanges
<1>4. Feed!TopOf(g, v) = Feed!TopOf(h, v)
  BY <1>3 DEF Feed!TopOf
<1>5. Feed!TopOf(h, v) \in 0..v
  BY DEF GoodHistory
<1>6. Feed!EmptyTop(g, v) <=> Feed!EmptyTop(h, v)
  BY <1>1, <1>4, <1>5 DEF Feed!EmptyTop
<1> QED BY <1>2, <1>4, <1>6 DEF Feed!MayShow, g

LEMMA TopOfNew ==
  ASSUME NEW h, NEW v \in Nat, v # 0, h[v].kind # "depth"
  PROVE  Feed!TopOf(h, v) = v
<1>1. /\ v \in Feed!TopChanges(h, v)
      /\ \A w \in Feed!TopChanges(h, v) : w \in 1..v
  BY DEF Feed!TopChanges
<1>2. \A u \in Feed!TopChanges(h, v) :
        (\A w \in Feed!TopChanges(h, v) : w <= u) => u = v
  BY <1>1
<1>3. \A w \in Feed!TopChanges(h, v) : w <= v
  BY <1>1
<1> QED BY <1>1, <1>2, <1>3 DEF Feed!TopOf

LEMMA HistoryGrows ==
  ASSUME NEW h, GoodHistory(h), NEW c \in Feed!Change
  PROVE  GoodHistory(Append(h, c))
<1> DEFINE g == Append(h, c)
           n == Len(h) + 1
<1>1. /\ g \in Histories /\ Len(g) = n /\ n \in Nat /\ Len(h) \in Nat
      /\ \A i \in 1..Len(h) : g[i] = h[i]
      /\ g[n] = c
  BY AppendProperties DEF GoodHistory, Histories
<1>2. \A v \in 0..Len(h) : Feed!TopOf(g, v) \in 0..v /\ Feed!StampOf(g, v) \in Nat
  BY VersionsStay DEF GoodHistory
<1>3. Feed!StampOf(g, n) \in Nat
  <2>1. Feed!StampOf(g, n) = c.stamp
    BY <1>1 DEF Feed!StampOf
  <2> QED BY <2>1 DEF Feed!Change
<1>4. Feed!TopOf(g, n) \in 0..n
  <2> HIDE DEF g, n
  <2>1. CASE c.kind = "depth"
    <3>1. Feed!TopChanges(g, n) = Feed!TopChanges(g, Len(h))
      BY <1>1, <2>1 DEF Feed!TopChanges, n
    <3>2. Feed!TopOf(g, n) = Feed!TopOf(g, Len(h))
      BY <3>1 DEF Feed!TopOf
    <3>3. Len(h) \in 0..Len(h)
      BY <1>1
    <3>4. Feed!TopOf(g, Len(h)) \in 0..Len(h)
      BY <1>2, <3>3
    <3> QED BY <1>1, <3>2, <3>4 DEF n
  <2>2. CASE c.kind # "depth"
    <3>1. n # 0 /\ g[n].kind # "depth"
      BY <1>1, <2>2 DEF n
    <3> QED BY <1>1, <3>1, TopOfNew
  <2> QED BY <2>1, <2>2
<1>5. \A v \in 0..n : v = n \/ v \in 0..Len(h)
  BY <1>1
<1> HIDE DEF g, n
<1>6. \A v \in 0..n : Feed!TopOf(g, v) \in 0..v /\ Feed!StampOf(g, v) \in Nat
  BY <1>2, <1>3, <1>4, <1>5
<1>7. GoodHistory(g)
  BY <1>1, <1>6 DEF GoodHistory
<1> QED BY <1>7 DEF g

LEMMA BookOutlivesChange ==
  ASSUME NEW h, GoodHistory(h), NEW c \in Feed!Change, NEW b, GoodBook(b, h)
  PROVE  GoodBook(b, Append(h, c))
<1>1. Len(Append(h, c)) = Len(h) + 1 /\ Len(h) \in Nat
  BY AppendProperties DEF GoodHistory, Histories
<1>2. CASE b = Invalid
  BY <1>2 DEF GoodBook
<1>3. CASE b # Invalid
  <2>1. b \in Book /\ Shows(b, h) /\ b.seen \in 0..Len(h)
    BY <1>3 DEF GoodBook, Shows
  <2>2. Shows(b, Append(h, c))
    <3>1. /\ Feed!StampOf(Append(h, c), b.seen) = Feed!StampOf(h, b.seen)
          /\ Feed!MayShow(Append(h, c), b.seen, b.top) <=> Feed!MayShow(h, b.seen, b.top)
      BY <2>1, VersionsStay
    <3> QED BY <1>1, <2>1, <3>1 DEF Shows
  <2> QED BY <2>1, <2>2 DEF GoodBook
<1> QED BY <1>2, <1>3

-----------------------------------------------------------------------------
(* What one message or one answer does to a book. *)

\* r is b, or hides, or shows what QuoteFeed lets a reader see after b.
Follows(b, r, h) ==
  /\ GoodBook(r, h)
  /\ \/ r = b
     \/ r = Invalid
     \/ Shows(r, h) /\ (b.valid => Feed!StampOf(h, r.seen) >= Feed!StampOf(h, b.seen))

LEMMA GoodBookFacts ==
  ASSUME NEW b, NEW h, GoodBook(b, h)
  PROVE  /\ b \in Book
         /\ b.valid => Shows(b, h)
         /\ ~b.valid => b = Invalid
<1>1. Invalid \in Book /\ ~Invalid.valid
  BY DEF Invalid, Book
<1>2. Shows(b, h) => b.valid
  BY DEF Shows
<1> QED BY <1>1, <1>2 DEF GoodBook

LEMMA SnapshotFollows ==
  ASSUME NEW t \in Tokens, GoodHistory(hist[t]), NEW b, GoodBook(b, hist[t]),
         NEW v \in 0..Now(t)
  PROVE  Follows(b, ApplySnapshot(b, t, v), hist[t])
<1> DEFINE h == hist[t]
           result == [valid |-> TRUE, top |-> Top(t, v), stamp |-> Stamp(t, v), seen |-> v]
<1>1. /\ Top(t, v) = Feed!TopOf(h, v) /\ Stamp(t, v) = Feed!StampOf(h, v)
      /\ Top(t, v) \in 0..v /\ Stamp(t, v) \in Nat
      /\ Len(h) \in Nat /\ v \in 0..Len(h)
  BY DEF GoodHistory, Histories, Top, Stamp, Now
<1>2. result \in Book
  BY <1>1 DEF Book
<1>3. Shows(result, h)
  <2>1. result.top \in 0..Len(h)
    BY <1>1
  <2>2. Feed!MayShow(h, v, Top(t, v))
    BY <1>1 DEF Feed!MayShow
  <2> QED BY <1>1, <2>1, <2>2 DEF Shows
<1>4. CASE b.valid /\ Stamp(t, v) < b.stamp
  BY <1>4 DEF ApplySnapshot, Follows
<1>5. CASE ~(b.valid /\ Stamp(t, v) < b.stamp)
  <2>1. ApplySnapshot(b, t, v) = result
    BY <1>5 DEF ApplySnapshot
  <2>2. b.valid => /\ b.stamp = Feed!StampOf(h, b.seen)
                   /\ b.stamp \in Nat
    BY GoodBookFacts DEF Shows, Book
  <2>3. b.valid => Feed!StampOf(h, v) >= Feed!StampOf(h, b.seen)
    BY <1>1, <1>5, <2>2
  <2>4. result.seen = v
    OBVIOUS
  <2> HIDE DEF result, h
  <2>5. Follows(b, result, h)
    BY <1>2, <1>3, <2>3, <2>4 DEF Follows, GoodBook
  <2> QED BY <2>1, <2>5 DEF h
<1> QED BY <1>4, <1>5

LEMMA ChangeFollows ==
  ASSUME NEW t \in Tokens, GoodHistory(hist[t]), NEW b, GoodBook(b, hist[t]),
         NEW v \in 1..Now(t)
  PROVE  Follows(b, ApplyChange(b, t, v), hist[t])
<1> DEFINE h == hist[t]
           depth == h[v].kind = "depth"
           result == [b EXCEPT !.top = IF depth THEN @ ELSE v, !.stamp = Stamp(t, v), !.seen = v]
<1>1. /\ Top(t, v) = Feed!TopOf(h, v) /\ Stamp(t, v) = Feed!StampOf(h, v)
      /\ Stamp(t, v) \in Nat /\ (EmptyTop(t, v) <=> Feed!EmptyTop(h, v))
      /\ Len(h) \in Nat /\ v \in 0..Len(h) /\ v \in Nat /\ v # 0
  BY DEF GoodHistory, Histories, Top, Stamp, EmptyTop, Now
<1>2. Follows(b, Invalid, h) /\ Follows(b, b, h)
  BY DEF Follows, GoodBook
<1>3. CASE ~b.valid
  BY <1>2, <1>3 DEF ApplyChange
<1>4. CASE b.valid /\ Stamp(t, v) < b.stamp
  BY <1>2, <1>4 DEF ApplyChange
<1>5. CASE b.valid /\ ~(Stamp(t, v) < b.stamp)
  <2>1. b \in Book /\ Shows(b, h)
    BY <1>5, GoodBookFacts
  <2>2. b.top \in 0..Len(h) /\ b.stamp = Feed!StampOf(h, b.seen) /\ b.stamp \in Nat
        /\ b.valid
    BY <2>1 DEF Shows, Book
  <2>3. ApplyChange(b, t, v) = VerifyTop(result, t, v)
    BY <1>5 DEF ApplyChange
  <2>4. result \in Book /\ result.valid /\ result.seen = v /\ result.stamp = Stamp(t, v)
        /\ result.top = IF depth THEN b.top ELSE v
    BY <1>1, <2>1, <2>2 DEF Book
  <2>5. result.top \in 0..Len(h)
    BY <1>1, <2>2, <2>4
  <2> HIDE DEF result, depth, h
  <2>6. CASE ~EmptyTop(t, v) /\ result.top # Top(t, v)
    BY <1>2, <2>3, <2>6 DEF VerifyTop, h
  <2>7. CASE EmptyTop(t, v) \/ result.top = Top(t, v)
    <3>1. ApplyChange(b, t, v) = result
      BY <2>3, <2>7 DEF VerifyTop
    <3>2. Feed!MayShow(h, v, result.top)
      BY <1>1, <2>7 DEF Feed!MayShow
    <3>3. Shows(result, h)
      BY <1>1, <2>4, <2>5, <3>2 DEF Shows
    <3>4. Feed!StampOf(h, result.seen) >= Feed!StampOf(h, b.seen)
      BY <1>1, <1>5, <2>2, <2>4
    <3>5. Follows(b, result, h)
      BY <2>4, <3>3, <3>4 DEF Follows, GoodBook
    <3> QED BY <3>1, <3>5 DEF h
  <2> QED BY <2>6, <2>7
<1> QED BY <1>3, <1>4, <1>5

LEMMA MessageFollows ==
  ASSUME HistInv, BookInv, NEW m \in Message, GoodMessage(m)
  PROVE  Follows(book[m.token], ApplyMessage(m), hist[m.token])
<1>1. /\ m.token \in Tokens /\ m.type \in {"book", "change"}
      /\ GoodHistory(hist[m.token]) /\ GoodBook(book[m.token], hist[m.token])
      /\ m.version \in 0..Now(m.token)
  BY DEF HistInv, BookInv, GoodMessage, Message
<1>2. CASE m.type = "book"
  BY <1>1, <1>2, SnapshotFollows DEF ApplyMessage
<1>3. CASE m.type = "change"
  <2>1. m.version \in 1..Now(m.token)
    BY <1>1, <1>3 DEF GoodMessage
  <2> QED BY <1>1, <1>3, <2>1, ChangeFollows DEF ApplyMessage
<1> QED BY <1>1, <1>2, <1>3

-----------------------------------------------------------------------------
(* What one step does to the books of the exchange and to those of the hub. *)

OneBook ==
  /\ hist' = hist
  /\ \E t \in Tokens, r \in Book :
       Follows(book[t], r, hist[t]) /\ book' = [book EXCEPT ![t] = r]

BookStep ==
  \/ Exchange /\ book' = book
  \/ OneBook
  \/ hist' = hist /\ book' = [t \in Tokens |-> Invalid]
  \/ hist' = hist /\ book' = book

LEMMA OneBookStep ==
  ASSUME BooksInv, NEW t \in Tokens, NEW r, Follows(book[t], r, hist[t]),
         hist' = hist, book' = [book EXCEPT ![t] = r]
  PROVE  BookStep
<1>1. r \in Book
  BY GoodBookFacts DEF Follows
<1> QED BY <1>1 DEF BookStep, OneBook

LEMMA GoodInvalid ==
  ASSUME NEW b, NEW h
  PROVE  Follows(b, Invalid, h)
BY DEF Follows, GoodBook

LEMMA BookSteps == IInv /\ [Next]_vars => BookStep
<1> SUFFICES ASSUME IInv, [Next]_vars PROVE BookStep
  OBVIOUS
<1>1. CASE Exchange
  <2>1. book' = book
    BY <1>1 DEF Exchange, ExchangeMoves
  <2> QED BY <1>1, <2>1 DEF BookStep
<1>2. CASE ReadFrame
  <2> DEFINE m == Head(buffer)
  <2>1. m \in GoodMessages
    BY <1>2, HeadTailProperties DEF ReadFrame, IInv, PushInv, BufferInv
  <2>2. hist' = hist /\ book' = [book EXCEPT ![m.token] = ApplyMessage(m)]
    BY <1>2 DEF ReadFrame
  <2> HIDE DEF m
  <2>3. m \in Message /\ GoodMessage(m) /\ m.token \in Tokens
    BY <2>1 DEF GoodMessages, GoodMessage
  <2>4. Follows(book[m.token], ApplyMessage(m), hist[m.token])
    BY <2>3, MessageFollows DEF IInv, BooksInv
  <2> QED BY <2>2, <2>3, <2>4, OneBookStep DEF IInv
<1>3. CASE ReadBadFrame
  <2>1. Head(buffer).token \in Tokens
    <3>1. Head(buffer) \in GoodMessages
      BY <1>3, HeadTailProperties DEF ReadBadFrame, IInv, PushInv, BufferInv
    <3> QED BY <3>1 DEF GoodMessages, GoodMessage
  <2>2. CASE book' = book
    BY <1>3, <2>2 DEF ReadBadFrame, BookStep
  <2>3. CASE book' = [book EXCEPT ![Head(buffer).token] = Invalid]
    <3>1. hist' = hist
      BY <1>3 DEF ReadBadFrame
    <3> QED BY <2>1, <2>3, <3>1, GoodInvalid, OneBookStep DEF IInv
  <2> QED BY <1>3, <2>2, <2>3 DEF ReadBadFrame
<1>4. CASE ResyncApply
  <2>1. /\ hist' = hist /\ rest.token \in Tokens /\ rest.version \in 0..Now(rest.token)
        /\ book' = [book EXCEPT
             ![rest.token] = ApplySnapshot(book[rest.token], rest.token, rest.version)]
    BY <1>4 DEF ResyncApply, IInv, PushInv, RestInv
  <2>2. Follows(book[rest.token], ApplySnapshot(book[rest.token], rest.token, rest.version),
                hist[rest.token])
    BY <2>1, SnapshotFollows DEF IInv, BooksInv, HistInv, BookInv
  <2> QED BY <2>1, <2>2, OneBookStep DEF IInv
<1>5. CASE ResyncFails
  <2>1. rest.token \in Tokens /\ hist' = hist
    BY <1>5 DEF ResyncFails, IInv, PushInv, RestInv
  <2>2. CASE book' = book
    BY <2>1, <2>2 DEF BookStep
  <2>3. CASE book' = [book EXCEPT ![rest.token] = Invalid]
    BY <2>1, <2>3, GoodInvalid, OneBookStep DEF IInv
  <2> QED BY <1>5, <2>2, <2>3 DEF ResyncFails
<1>6. CASE Disconnect
  BY <1>6 DEF Disconnect, BookStep
<1>7. CASE LinkLost \/ Connect \/ SendInitialFrames \/ UnsubscribeStale \/ ExchangeAnswers
  <2>1. hist' = hist /\ book' = book
    BY <1>7 DEF LinkLost, Connect, SendInitialFrames, UnsubscribeStale, ExchangeAnswers
  <2> QED BY <2>1 DEF BookStep
<1>8. ASSUME NEW t \in Tokens, Discover(t) \/ WindowEnds(t) \/ ResyncAsk(t)
      PROVE  BookStep
  <2>1. hist' = hist /\ book' = book
    BY <1>8 DEF Discover, WindowEnds, ResyncAsk
  <2> QED BY <2>1 DEF BookStep
<1>9. CASE UNCHANGED vars
  BY <1>9 DEF vars, BookStep
<1> QED BY <1>1, <1>2, <1>3, <1>4, <1>5, <1>6, <1>7, <1>8, <1>9 DEF Next

\* The change that the exchange makes to one of its books.
LEMMA ExchangeFacts ==
  ASSUME HistInv, Exchange
  PROVE  \E t \in Tokens, c \in Feed!Change :
           hist' = [hist EXCEPT ![t] = Append(hist[t], c)]
<1>1. PICK t \in Tokens, k \in Feed!Kind, later \in {0, 1} : ExchangeMoves(t, k, later)
  BY DEF Exchange
<1> DEFINE c == Feed!NextChange(hist[t], k, later)
<1>2. GoodHistory(hist[t]) /\ Len(hist[t]) \in 0..Len(hist[t])
  BY DEF HistInv, GoodHistory, Histories
<1>3. Feed!StampOf(hist[t], Len(hist[t])) \in Nat
  BY <1>2 DEF GoodHistory
<1>4. c \in Feed!Change
  BY <1>3 DEF Feed!NextChange, Feed!Change
<1>5. hist' = [hist EXCEPT ![t] = Append(hist[t], c)]
  BY <1>1 DEF ExchangeMoves
<1> HIDE DEF c
<1> QED BY <1>4, <1>5

LEMMA BooksKept == BooksInv /\ BookStep => BooksInv'
<1> SUFFICES ASSUME BooksInv, BookStep PROVE BooksInv'
  OBVIOUS
<1>1. CASE Exchange /\ book' = book
  <2>1. PICK t \in Tokens, c \in Feed!Change :
          hist' = [hist EXCEPT ![t] = Append(hist[t], c)]
    BY <1>1, ExchangeFacts DEF BooksInv
  <2>2. /\ DOMAIN hist' = Tokens
        /\ hist'[t] = Append(hist[t], c)
        /\ \A u \in Tokens : u # t => hist'[u] = hist[u]
    BY <2>1 DEF BooksInv, HistInv
  <2>3. GoodHistory(hist'[t]) /\ GoodBook(book[t], hist'[t])
    BY <2>2, HistoryGrows, BookOutlivesChange DEF BooksInv, HistInv, BookInv
  <2>4. \A u \in Tokens : GoodHistory(hist'[u]) /\ GoodBook(book[u], hist'[u])
    BY <2>2, <2>3 DEF BooksInv, HistInv, BookInv
  <2> QED BY <1>1, <2>2, <2>4 DEF BooksInv, HistInv, BookInv
<1>2. CASE OneBook
  <2>1. PICK t \in Tokens, r \in Book :
          Follows(book[t], r, hist[t]) /\ book' = [book EXCEPT ![t] = r]
    BY <1>2 DEF OneBook
  <2>2. GoodBook(r, hist[t])
    BY <2>1 DEF Follows
  <2>3. \A u \in Tokens : book'[u] = IF u = t THEN r ELSE book[u]
    BY <2>1 DEF BooksInv, BookInv
  <2>4. DOMAIN book' = Tokens /\ hist' = hist
    BY <1>2, <2>1 DEF OneBook, BooksInv, BookInv
  <2>5. \A u \in Tokens : GoodBook(book'[u], hist[u])
    BY <2>2, <2>3 DEF BooksInv, BookInv
  <2> QED BY <2>4, <2>5 DEF BooksInv, HistInv, BookInv
<1>3. CASE hist' = hist /\ book' = [t \in Tokens |-> Invalid]
  <2>1. \A u \in Tokens : GoodBook(book'[u], hist[u])
    BY <1>3 DEF GoodBook
  <2> QED BY <1>3, <2>1 DEF BooksInv, HistInv, BookInv
<1>4. CASE hist' = hist /\ book' = book
  BY <1>4 DEF BooksInv, HistInv, BookInv
<1> QED BY <1>1, <1>2, <1>3, <1>4 DEF BookStep

-----------------------------------------------------------------------------
(* What is pushed, asked and subscribed. *)

LEMMA VersionsGrow ==
  ASSUME BooksInv, BookStep
  PROVE  \A t \in Tokens : Now(t) \in Nat /\ Now(t)' \in Nat /\ Now(t) <= Now(t)'
<1>1. \A t \in Tokens : hist[t] \in Histories /\ Len(hist[t]) \in Nat
  BY DEF BooksInv, HistInv, GoodHistory, Histories
<1>2. CASE hist' = hist
  BY <1>1, <1>2 DEF Now
<1>3. CASE Exchange
  <2>1. PICK t \in Tokens, c \in Feed!Change :
          hist' = [hist EXCEPT ![t] = Append(hist[t], c)]
    BY <1>3, ExchangeFacts DEF BooksInv
  <2>2. Len(hist'[t]) = Len(hist[t]) + 1
    BY <1>1, <2>1, AppendProperties DEF BooksInv, HistInv, Histories
  <2>3. \A u \in Tokens : u # t => hist'[u] = hist[u]
    BY <2>1 DEF BooksInv, HistInv
  <2> QED BY <1>1, <2>2, <2>3 DEF Now
<1> QED BY <1>2, <1>3 DEF BookStep, OneBook

LEMMA MessagesStayGood ==
  ASSUME BooksInv, BookStep
  PROVE  Seq(GoodMessages) \subseteq Seq(GoodMessages')
<1>1. \A m \in GoodMessages : m \in GoodMessages'
  <2> SUFFICES ASSUME NEW m \in GoodMessages PROVE m \in GoodMessages'
    OBVIOUS
  <2>1. m \in Message /\ GoodMessage(m) /\ m.token \in Tokens
    BY DEF GoodMessages, GoodMessage
  <2>2. m.version \in 0..Now(m.token)'
    BY <2>1, VersionsGrow DEF GoodMessage
  <2> QED BY <2>1, <2>2 DEF GoodMessages, GoodMessage
<1> QED BY <1>1

LEMMA SubscriptionIsAnswered ==
  ASSUME BooksInv, BufferInv, NEW T \in SUBSET Tokens, Subscribe(T)
  PROVE  buffer' \in Seq(GoodMessages)
<1>1. CASE link = "up"
  <2>1. PICK s \in Orders(T) : buffer' = buffer \o [i \in DOMAIN s |-> FullBook(s[i])]
    BY <1>1 DEF Subscribe
  <2> DEFINE f == [i \in DOMAIN s |-> FullBook(s[i])]
  <2>2. Cardinality(T) \in Nat
    BY BoundsAreNat, FS_Subset, FS_CardinalityType
  <2>3. DOMAIN s = 1..Cardinality(T) /\ \A i \in DOMAIN s : s[i] \in Tokens
    BY <2>1 DEF Orders
  <2>4. \A t \in Tokens : FullBook(t) \in GoodMessages
    <3>1. \A t \in Tokens : Now(t) \in Nat
      BY DEF BooksInv, HistInv, GoodHistory, Histories, Now
    <3> QED BY <3>1 DEF FullBook, Message, GoodMessages, GoodMessage
  <2>5. f \in Seq(GoodMessages)
    <3>1. \A i \in 1..Cardinality(T) : f[i] \in GoodMessages
      BY <2>3, <2>4
    <3>2. DOMAIN f = 1..Cardinality(T) /\ f = [i \in 1..Cardinality(T) |-> f[i]]
      BY <2>3
    <3> HIDE DEF f
    <3> QED BY <2>2, <3>1, <3>2
  <2>6. buffer' = buffer \o f
    BY <2>1
  <2> HIDE DEF f
  <2> QED BY <2>5, <2>6, ConcatProperties DEF BufferInv
<1>2. CASE link # "up"
  BY <1>2 DEF Subscribe, BufferInv
<1> QED BY <1>1, <1>2

LEMMA BufferKept == IInv /\ [Next]_vars => BufferInv'
<1> SUFFICES ASSUME IInv, [Next]_vars PROVE BufferInv'
  OBVIOUS
<1>0. /\ BookStep /\ BooksInv
      /\ buffer \in Seq(GoodMessages)
      /\ Seq(GoodMessages) \subseteq Seq(GoodMessages')
      /\ <<>> \in Seq(GoodMessages)
  BY BookSteps, MessagesStayGood DEF IInv, PushInv, BufferInv
<1>1. CASE Exchange
  <2>1. PICK t \in Tokens, k \in Feed!Kind, later \in {0, 1} : ExchangeMoves(t, k, later)
    BY <1>1 DEF Exchange
  <2> DEFINE m == [type |-> "change", token |-> t, version |-> Now(t) + 1]
  <2>2. CASE buffer' = buffer
    BY <1>0, <2>2 DEF BufferInv
  <2>3. CASE buffer' = Append(buffer, m)
    <3>1. hist[t] \in Histories /\ DOMAIN hist = Tokens
      BY <1>0 DEF BooksInv, HistInv, GoodHistory
    <3>2. PICK c : hist' = [hist EXCEPT ![t] = Append(hist[t], c)]
      BY <2>1 DEF ExchangeMoves
    <3>3. Now(t)' = Now(t) + 1 /\ Now(t) \in Nat
      BY <3>1, <3>2 DEF Now, Histories
    <3>4. m \in GoodMessages'
      BY <3>3 DEF Message, GoodMessages, GoodMessage
    <3>5. buffer \in Seq(GoodMessages')
      BY <1>0
    <3> HIDE DEF m
    <3>6. Append(buffer, m) \in Seq(GoodMessages')
      BY <3>4, <3>5, AppendProperties
    <3> QED BY <2>3, <3>6 DEF BufferInv
  <2> QED BY <2>1, <2>2, <2>3 DEF ExchangeMoves
<1>2. CASE buffer' \in Seq(GoodMessages)
  BY <1>0, <1>2 DEF BufferInv
<1>3. CASE LinkLost
  <2>1. PICK n \in 0..Len(buffer) : buffer' = SubSeq(buffer, 1, n)
    BY <1>3 DEF LinkLost
  <2>2. Len(buffer) \in Nat /\ \A i \in 1..n : buffer[i] \in GoodMessages
    BY <1>0
  <2>3. buffer' \in Seq(GoodMessages)
    BY <2>1, <2>2, SubSeqProperties
  <2> QED BY <1>2, <2>3
<1>4. CASE ReadFrame \/ ReadBadFrame
  <2>1. buffer # <<>> /\ buffer' = Tail(buffer)
    BY <1>4 DEF ReadFrame, ReadBadFrame
  <2>2. buffer' \in Seq(GoodMessages)
    BY <1>0, <2>1, HeadTailProperties
  <2> QED BY <1>2, <2>2
<1>5. CASE Connect \/ Disconnect
  <2>1. buffer' = <<>>
    BY <1>5 DEF Connect, Disconnect
  <2> QED BY <1>0, <1>2, <2>1
<1>6. CASE SendInitialFrames
  <2>1. Subscribe(frames) /\ frames \in SUBSET Tokens
    BY <1>6 DEF SendInitialFrames, IInv, PushInv, FramesInv
  <2> QED BY <1>0, <1>2, <2>1, SubscriptionIsAnswered DEF BufferInv
<1>7. ASSUME NEW t \in Tokens, Discover(t)
      PROVE  BufferInv'
  <2>1. CASE ws
    <3>1. Subscribe({t}) /\ {t} \in SUBSET Tokens
      BY <1>7, <2>1 DEF Discover
    <3> QED BY <1>0, <1>2, <3>1, SubscriptionIsAnswered DEF BufferInv
  <2>2. CASE ~ws
    BY <1>0, <1>2, <1>7, <2>2 DEF Discover
  <2> QED BY <2>1, <2>2
<1>8. ASSUME NEW t \in Tokens, WindowEnds(t) \/ ResyncAsk(t)
      PROVE  BufferInv'
  <2>1. buffer' = buffer
    BY <1>8 DEF WindowEnds, ResyncAsk, feed
  <2> QED BY <1>0, <1>2, <2>1
<1>9. CASE UnsubscribeStale \/ ExchangeAnswers \/ ResyncApply \/ ResyncFails \/ UNCHANGED vars
  <2>1. buffer' = buffer
    BY <1>9 DEF UnsubscribeStale, ExchangeAnswers, ResyncApply, ResyncFails, vars, feed
  <2> QED BY <1>0, <1>2, <2>1
<1> QED BY <1>1, <1>3, <1>4, <1>5, <1>6, <1>7, <1>8, <1>9 DEF Next

LEMMA RestKept == IInv /\ [Next]_vars => RestInv'
<1> SUFFICES ASSUME IInv, [Next]_vars PROVE RestInv'
  OBVIOUS
<1>0. /\ RestInv /\ BookStep
      /\ \A t \in Tokens : Now(t) \in Nat /\ Now(t)' \in Nat /\ Now(t) <= Now(t)'
  BY BookSteps, VersionsGrow DEF IInv, PushInv
<1>1. CASE rest' = rest
  <2>1. \A t \in Tokens : rest.state = "answered" /\ t = rest.token
                            => rest.version \in 0..Len(hist'[t])
    BY <1>0 DEF RestInv, Now
  <2> QED BY <1>0, <1>1, <2>1 DEF RestInv, Now
<1>2. ASSUME NEW t \in Tokens, ResyncAsk(t)
      PROVE  RestInv'
  BY <1>2 DEF ResyncAsk, RestInv, Asked
<1>3. CASE ExchangeAnswers
  <2>1. /\ rest.token \in Tokens /\ hist' = hist
        /\ rest' = Answered(rest.token, Now(rest.token))
    BY <1>0, <1>3 DEF ExchangeAnswers, RestInv
  <2>2. Now(rest.token) = Len(hist'[rest.token])
    BY <2>1 DEF Now
  <2>3. rest'.token = rest.token /\ rest'.version = Now(rest.token) /\ rest'.state = "answered"
    BY <2>1 DEF Answered
  <2>4. rest'.version \in 0..Len(hist'[rest'.token])
    BY <1>0, <2>1, <2>2, <2>3 DEF Now
  <2> QED BY <2>1, <2>3, <2>4 DEF RestInv, Now
<1>4. CASE ResyncApply \/ ResyncFails
  BY <1>4 DEF ResyncApply, ResyncFails, RestInv, Idle
<1>5. CASE \/ Exchange \/ LinkLost \/ Connect \/ SendInitialFrames \/ ReadFrame
           \/ ReadBadFrame \/ Disconnect \/ UnsubscribeStale
  BY <1>1, <1>5 DEF Exchange, ExchangeMoves, LinkLost, Connect, SendInitialFrames, ReadFrame,
                   ReadBadFrame, Disconnect, UnsubscribeStale
<1>6. ASSUME NEW t \in Tokens, Discover(t) \/ WindowEnds(t)
      PROVE  RestInv'
  BY <1>1, <1>6 DEF Discover, WindowEnds
<1>7. CASE UNCHANGED vars
  BY <1>1, <1>7 DEF vars
<1> QED BY <1>2, <1>3, <1>4, <1>5, <1>6, <1>7 DEF Next

LEMMA FramesKept == FramesInv /\ [Next]_vars => FramesInv'
<1> SUFFICES ASSUME FramesInv, [Next]_vars PROVE FramesInv'
  OBVIOUS
<1>1. CASE subscribed' = subscribed /\ (frames' = frames \/ frames' = {} \/ frames' = subscribed)
  BY <1>1 DEF FramesInv
<1>2. CASE LinkLost \/ Connect \/ SendInitialFrames \/ ReadFrame \/ ReadBadFrame \/ Disconnect
  BY <1>1, <1>2 DEF LinkLost, Connect, SendInitialFrames, ReadFrame, ReadBadFrame, Disconnect
<1>3. CASE Exchange \/ ExchangeAnswers \/ ResyncApply \/ ResyncFails \/ UNCHANGED vars
  BY <1>1, <1>3 DEF Exchange, ExchangeMoves, ExchangeAnswers, ResyncApply, ResyncFails, vars, feed
<1>4. CASE UnsubscribeStale
  BY <1>4 DEF UnsubscribeStale, FramesInv
<1>5. ASSUME NEW t \in Tokens, Discover(t) \/ WindowEnds(t) \/ ResyncAsk(t)
      PROVE  FramesInv'
  BY <1>5 DEF Discover, WindowEnds, ResyncAsk, feed, FramesInv
<1> QED BY <1>2, <1>3, <1>4, <1>5 DEF Next

-----------------------------------------------------------------------------
LEMMA InitIInv == Init => IInv
<1> SUFFICES ASSUME Init PROVE IInv
  OBVIOUS
<1>1. GoodHistory(<<>>)
  <2>1. Feed!TopChanges(<<>>, 0) = {}
    BY DEF Feed!TopChanges
  <2>2. Feed!TopOf(<<>>, 0) = 0 /\ Feed!StampOf(<<>>, 0) = 0
    BY <2>1 DEF Feed!TopOf, Feed!StampOf
  <2>3. \A v \in 0..Len(<<>>) : v = 0
    OBVIOUS
  <2> QED BY <2>2, <2>3 DEF GoodHistory, Histories
<1>2. HistInv
  BY <1>1 DEF Init, HistInv
<1>3. BookInv
  BY DEF Init, BookInv, GoodBook
<1>4. BufferInv /\ RestInv /\ FramesInv
  BY DEF Init, BufferInv, RestInv, FramesInv, Idle
<1> QED BY <1>2, <1>3, <1>4 DEF IInv, BooksInv, PushInv

(* The books show what the exchange had, the pushes and answers under way  *)
(* speak of versions it has had, after every step of every task.           *)
THEOREM Invariance == Spec => []IInv
<1>1. IInv /\ [Next]_vars => IInv'
  BY BookSteps, BooksKept, BufferKept, RestKept, FramesKept DEF IInv, PushInv
<1> QED BY <1>1, InitIInv, PTL DEF Spec

-----------------------------------------------------------------------------
\* What a book shows, as QuoteFeed has it.
QuoteOf(b) == [shown |-> b.valid, at |-> b.seen, top |-> b.top]
Quotes == [t \in Tokens |-> QuoteOf(book[t])]

(* BookSync implements QuoteFeed: whatever the websocket, the resync loop, *)
(* discovery and the exchange do, a token's book shows a best price the    *)
(* exchange had, and its exchange time never goes back while it is shown   *)
(* (OrderBookState.apply_snapshot, apply_level, verify_top, invalidate).   *)
THEOREM ShowsTheExchange == Spec => ImplementsQuoteFeed
<1>1. Init => Feed!QuoteInit
  BY DEF Init, Feed!QuoteInit, Feed!NoQuote, Invalid
<1>2. IInv /\ [Next]_vars => [Feed!QuoteNext]_(Feed!qvars)
  <2> SUFFICES ASSUME IInv, [Next]_vars
               PROVE  Feed!QuoteNext \/ (hist' = hist /\ Quotes' = Quotes)
    BY DEF Feed!qvars, Quotes, QuoteOf
  <2>0. BookStep /\ BooksInv
    BY BookSteps DEF IInv
  <2>1. CASE Exchange /\ book' = book
    <3>1. Quotes' = Quotes
      BY <2>1 DEF Quotes, QuoteOf
    <3>2. \E t \in Tokens, k \in Feed!Kind, later \in {0, 1} :
            hist' = [hist EXCEPT ![t] = Append(hist[t], Feed!NextChange(hist[t], k, later))]
      BY <2>1 DEF Exchange, ExchangeMoves
    <3>3. Feed!ExchangeMoves
      BY <3>1, <3>2 DEF Feed!ExchangeMoves, Quotes, QuoteOf
    <3> QED BY <3>3 DEF Feed!QuoteNext
  <2>2. CASE OneBook
    <3>1. PICK t \in Tokens, r \in Book :
            Follows(book[t], r, hist[t]) /\ book' = [book EXCEPT ![t] = r]
      BY <2>2 DEF OneBook
    <3>2. hist' = hist /\ DOMAIN book = Tokens
      BY <2>0, <2>2 DEF OneBook, BooksInv, BookInv
    <3>3. /\ \A u \in Tokens : book'[u] = IF u = t THEN r ELSE book[u]
          /\ Quotes' = [Quotes EXCEPT ![t] = QuoteOf(r)]
      <4>1. \A u \in Tokens : book'[u] = IF u = t THEN r ELSE book[u]
        BY <3>1, <3>2
      <4>2. Quotes' = [u \in Tokens |-> QuoteOf(book'[u])]
        BY DEF Quotes, QuoteOf
      <4>3. Quotes' = [u \in Tokens |-> IF u = t THEN QuoteOf(r) ELSE Quotes[u]]
        BY <4>1, <4>2 DEF Quotes
      <4> QED BY <4>1, <4>3 DEF Quotes
    <3>4. CASE r = book[t]
      <4>1. Quotes' = Quotes
        BY <3>3, <3>4 DEF Quotes
      <4> QED BY <3>2, <4>1
    <3>5. CASE r = Invalid
      <4>1. QuoteOf(r) = Feed!NoQuote
        BY <3>5 DEF QuoteOf, Invalid, Feed!NoQuote
      <4>2. Quotes' = [u \in Tokens |-> IF u \in {t} THEN Feed!NoQuote ELSE Quotes[u]]
        BY <3>3, <4>1 DEF Quotes
      <4>3. Feed!Hide
        BY ZenonT(40), <3>2, <4>2 DEF Feed!Hide, Quotes, QuoteOf
      <4> QED BY <4>3 DEF Feed!QuoteNext
    <3>6. CASE /\ Shows(r, hist[t])
               /\ book[t].valid => Feed!StampOf(hist[t], r.seen)
                                     >= Feed!StampOf(hist[t], book[t].seen)
      <4>1. QuoteOf(r) = [shown |-> TRUE, at |-> r.seen, top |-> r.top]
        BY <3>6 DEF QuoteOf, Shows
      <4>2. Quotes[t].shown = book[t].valid /\ Quotes[t].at = book[t].seen
        BY DEF Quotes, QuoteOf
      <4>3. /\ r.seen \in 0..Len(hist[t]) /\ r.top \in 0..Len(hist[t])
            /\ Feed!MayShow(hist[t], r.seen, r.top)
        BY <3>6 DEF Shows
      <4>4. /\ Quotes[t].shown => Feed!StampOf(hist[t], r.seen)
                                    >= Feed!StampOf(hist[t], Quotes[t].at)
            /\ Quotes' = [Quotes EXCEPT ![t] = [shown |-> TRUE, at |-> r.seen, top |-> r.top]]
        BY <3>3, <3>6, <4>1, <4>2
      <4>5. Feed!Show(t)
        BY <3>2, <4>3, <4>4 DEF Feed!Show, Quotes, QuoteOf
      <4> QED BY <4>5 DEF Feed!QuoteNext
    <3> QED BY <3>1, <3>4, <3>5, <3>6 DEF Follows
  <2>3. CASE hist' = hist /\ book' = [t \in Tokens |-> Invalid]
    <3>1. Quotes' = [t \in Tokens |-> IF t \in Tokens THEN Feed!NoQuote ELSE Quotes[t]]
      BY <2>3 DEF Quotes, QuoteOf, Invalid, Feed!NoQuote
    <3>2. Feed!Hide
      BY <2>3, <3>1 DEF Feed!Hide, Quotes, QuoteOf
    <3> QED BY <3>2 DEF Feed!QuoteNext
  <2>4. CASE hist' = hist /\ book' = book
    BY <2>4 DEF Quotes, QuoteOf
  <2> QED BY <2>0, <2>1, <2>2, <2>3, <2>4 DEF BookStep
<1> QED BY <1>1, <1>2, Invariance, PTL DEF Spec, ImplementsQuoteFeed, Feed!QuoteSpec

-----------------------------------------------------------------------------
(* Decisions and the present connection. *)

\* The exchange's clock does not go back.
Timed(h) == \A u, v \in 0..Len(h) : u <= v => Feed!StampOf(h, u) <= Feed!StampOf(h, v)

\* A message in the buffer was sent on this connection, after its token was subscribed.
OnConnection(m) ==
  /\ m.version >= since[m.token] /\ market[m.token] # "unknown"
  /\ m.token \in subs \/ market[m.token] = "over"

FlowType ==
  /\ subs \subseteq Tokens /\ since \in [Tokens -> Nat] /\ samples \in Nat
  /\ market \in [Tokens -> {"unknown", "tracked", "over"}]

ClockInv == \A t \in Tokens : Timed(hist[t]) /\ since[t] <= Now(t)

\* What was subscribed or asked for was tracked.
KnownInv ==
  /\ \A t \in subscribed \union subs \union frames : market[t] # "unknown"
  /\ rest.state # "idle" => market[rest.token] # "unknown"

LinkInv == connected => ws /\ frames = {}

\* Nothing is pushed of a token whose initial frame is not sent yet.
FreshInv ==
  \A t \in frames : t \notin subs /\ \A i \in DOMAIN buffer : buffer[i].token # t

PushedInv == \A i \in DOMAIN buffer : OnConnection(buffer[i])
RestNowInv == rest.state = "answered" => rest.version >= since[rest.token]

FlowInv == ClockInv /\ KnownInv /\ LinkInv /\ FreshInv /\ PushedInv /\ RestNowInv

\* Once a frame of the connection was read, the book is of the connection, too.
ReadInv ==
  samples > 0 =>
    /\ connected
    /\ \A t \in Tokens : /\ t \in subs \/ market[t] = "over"
                         /\ book[t].valid => book[t].seen >= since[t]

ConnInv == IInv /\ FlowType /\ FlowInv

LEMMA TimedAppend ==
  ASSUME NEW h, GoodHistory(h), Timed(h), NEW k \in Feed!Kind, NEW later \in {0, 1}
  PROVE  Timed(Append(h, Feed!NextChange(h, k, later)))
<1>1. PICK c : c = Feed!NextChange(h, k, later)
  OBVIOUS
<1>2. PICK n \in Nat : n = Len(h)
  BY DEF GoodHistory, Histories
<1>3. /\ Feed!StampOf(h, n) \in Nat
      /\ c.stamp = Feed!StampOf(h, n) + later /\ c \in Feed!Change
  BY <1>1, <1>2 DEF GoodHistory, Feed!NextChange, Feed!Change
<1>4. PICK g : g = Append(h, c)
  OBVIOUS
<1>5. Len(g) = n + 1 /\ g[n + 1] = c
  BY <1>2, <1>4, AppendProperties DEF GoodHistory, Histories
<1>6. Feed!StampOf(g, n + 1) = c.stamp
  BY <1>2, <1>5 DEF Feed!StampOf
<1>7. \A v \in 0..n : Feed!StampOf(g, v) = Feed!StampOf(h, v) /\ Feed!StampOf(h, v) \in Nat
  BY <1>2, <1>3, <1>4, VersionsStay DEF GoodHistory
<1>8. \A v \in 0..n : Feed!StampOf(h, v) <= Feed!StampOf(h, n)
  BY <1>2 DEF Timed
<1>9. ASSUME NEW u \in 0..(n + 1), NEW v \in 0..(n + 1), u <= v
      PROVE  Feed!StampOf(g, u) <= Feed!StampOf(g, v)
  <2>1. CASE v = n + 1 /\ u = n + 1
    BY <1>3, <1>6, <2>1
  <2>2. CASE v = n + 1 /\ u \in 0..n
    BY <1>3, <1>6, <1>7, <1>8, <2>2
  <2>3. CASE v \in 0..n
    <3>1. u \in 0..n
      BY <1>9, <2>3
    <3> QED BY <1>2, <1>7, <1>9, <2>3, <3>1 DEF Timed
  <2> QED BY <2>1, <2>2, <2>3
<1> QED BY <1>1, <1>4, <1>5, <1>9 DEF Timed

\* What a message or an answer leaves in a book is no older than the message.
LEMMA AppliedIsNew ==
  ASSUME NEW t \in Tokens, GoodHistory(hist[t]), Timed(hist[t]),
         NEW b, GoodBook(b, hist[t]), NEW v \in 0..Now(t), NEW s \in Nat, s <= v
  PROVE  /\ ApplySnapshot(b, t, v).valid => ApplySnapshot(b, t, v).seen >= s
         /\ ApplyChange(b, t, v).valid => ApplyChange(b, t, v).seen >= s
<1>1. Len(hist[t]) \in Nat /\ v \in Nat /\ v <= Len(hist[t])
  BY DEF GoodHistory, Histories, Now
<1>2. Stamp(t, v) = Feed!StampOf(hist[t], v) /\ Stamp(t, v) \in Nat
  BY <1>1 DEF Stamp, GoodHistory
<1>3. ApplySnapshot(b, t, v).valid => ApplySnapshot(b, t, v).seen >= s
  <2>1. CASE b.valid /\ Stamp(t, v) < b.stamp
    <3>1. /\ b.seen \in 0..Len(hist[t]) /\ b.stamp = Feed!StampOf(hist[t], b.seen)
      BY <2>1, GoodBookFacts DEF Shows
    <3>2. ~(b.seen <= v)
      <4>1. SUFFICES ASSUME b.seen <= v PROVE FALSE
        OBVIOUS
      <4>2. Feed!StampOf(hist[t], b.seen) <= Feed!StampOf(hist[t], v)
        BY <1>1, <3>1, <4>1 DEF Timed
      <4>3. Feed!StampOf(hist[t], b.seen) \in Nat
        BY <3>1 DEF GoodHistory
      <4> QED BY <1>2, <2>1, <3>1, <4>2, <4>3
    <3>3. ApplySnapshot(b, t, v) = b
      BY <2>1 DEF ApplySnapshot
    <3> QED BY <1>1, <3>1, <3>2, <3>3
  <2>2. CASE ~(b.valid /\ Stamp(t, v) < b.stamp)
    <3>1. ApplySnapshot(b, t, v).seen = v
      BY <2>2 DEF ApplySnapshot
    <3> QED BY <1>1, <3>1
  <2> QED BY <2>1, <2>2
<1>4. ApplyChange(b, t, v).valid => ApplyChange(b, t, v).seen >= s
  <2>1. CASE ~b.valid \/ Stamp(t, v) < b.stamp
    BY <2>1 DEF ApplyChange, Invalid
  <2>2. CASE b.valid /\ ~(Stamp(t, v) < b.stamp)
    <3>1. PICK r : r = [b EXCEPT !.top = IF hist[t][v].kind = "depth" THEN @ ELSE v,
                                 !.stamp = Stamp(t, v), !.seen = v]
      OBVIOUS
    <3>2. b \in Book
      BY GoodBookFacts
    <3>3. r.seen = v
      BY <3>1, <3>2 DEF Book
    <3>4. ApplyChange(b, t, v) = r \/ ApplyChange(b, t, v) = Invalid
      BY <2>2, <3>1 DEF ApplyChange, VerifyTop
    <3> QED BY <1>1, <3>3, <3>4 DEF Invalid
  <2> QED BY <2>1, <2>2
<1> QED BY <1>3, <1>4

\* The messages a subscription brings.
LEMMA SubscribeBrings ==
  ASSUME IInv, NEW T \in SUBSET Tokens, Subscribe(T)
  PROVE  \A i \in DOMAIN buffer' : \/ i \in DOMAIN buffer /\ buffer'[i] = buffer[i]
                                   \/ link = "up" /\ \E t \in T : buffer'[i] = FullBook(t)
<1>1. CASE link = "up"
  <2>1. PICK s \in Orders(T) : buffer' = buffer \o [i \in DOMAIN s |-> FullBook(s[i])]
    BY <1>1 DEF Subscribe
  <2>2. PICK n \in Nat : n = Cardinality(T)
    BY BoundsAreNat, FS_Subset, FS_CardinalityType
  <2>3. s \in [1..n -> T]
    BY <2>1, <2>2 DEF Orders
  <2>4. PICK f : f = [i \in DOMAIN s |-> FullBook(s[i])]
    OBVIOUS
  <2>5. f \in Seq({FullBook(t) : t \in T}) /\ Len(f) = n
        /\ \A i \in 1..n : \E t \in T : f[i] = FullBook(t)
    BY <2>3, <2>4
  <2>6. PICK m \in Nat : m = Len(buffer) /\ DOMAIN buffer = 1..m /\ buffer \in Seq(GoodMessages)
    BY DEF IInv, PushInv, BufferInv
  <2>7. buffer' = buffer \o f
    BY <2>1, <2>4
  <2>8. /\ DOMAIN buffer' = 1..(m + n)
        /\ \A i \in 1..m : buffer'[i] = buffer[i]
        /\ \A i \in (m + 1)..(m + n) : buffer'[i] = f[i - m]
    BY <2>5, <2>6, <2>7
  <2>9. ASSUME NEW i \in 1..(m + n), i \notin 1..m
        PROVE  \E t \in T : buffer'[i] = FullBook(t)
    <3>1. i \in (m + 1)..(m + n) /\ i - m \in 1..n
      BY <2>9
    <3> QED BY <2>5, <2>8, <3>1
  <2> QED BY <1>1, <2>6, <2>8, <2>9
<1>2. CASE link # "up"
  BY <1>2 DEF Subscribe
<1> QED BY <1>1, <1>2

\* What a subscription does to the tokens.
LEMMA SubscribeFacts ==
  ASSUME NEW T \in SUBSET Tokens, Subscribe(T), FlowType
  PROVE  /\ \A t \in Tokens : \/ since'[t] = since[t]
                              \/ t \in T /\ t \notin subs /\ since'[t] = Now(t)
         /\ link = "up" => /\ subs' = subs \union T
                           /\ \A t \in T : t \notin subs => since'[t] = Now(t)
         /\ link # "up" => subs' = subs
BY DEF Subscribe, FlowType

LEMMA NowIsNat == ASSUME HistInv PROVE \A t \in Tokens : Now(t) \in Nat
BY DEF HistInv, GoodHistory, Histories, Now

\* The steps that change neither the subscriptions nor the tokens' state.
Aside ==
  \/ Exchange \/ LinkLost \/ ReadFrame \/ ReadBadFrame \/ ExchangeAnswers \/ ResyncApply
  \/ ResyncFails \/ UNCHANGED vars
  \/ \E t \in Tokens : ResyncAsk(t)

LEMMA AsideFacts ==
  ASSUME Aside
  PROVE  UNCHANGED <<subs, since, ws, frames, connected, subscribed, market>>
BY DEF Aside, Exchange, ExchangeMoves, LinkLost, ReadFrame, ReadBadFrame, ExchangeAnswers,
       ResyncApply, ResyncFails, ResyncAsk, vars, feed

LEMMA StepKinds ==
  ASSUME [Next]_vars
  PROVE  \/ Aside \/ Connect \/ SendInitialFrames \/ Disconnect \/ UnsubscribeStale
         \/ \E t \in Tokens : Discover(t) \/ WindowEnds(t)
BY DEF Next, Aside

LEMMA TypeKept == IInv /\ FlowType /\ [Next]_vars => FlowType'
<1> SUFFICES ASSUME IInv, FlowType, [Next]_vars PROVE FlowType'
  OBVIOUS
<1>0. (\A t \in Tokens : Now(t) \in Nat) /\ frames \subseteq Tokens
  BY NowIsNat DEF IInv, BooksInv, PushInv, FramesInv
<1>1. samples' \in Nat
  <2>1. CASE ReadFrame \/ Disconnect
    BY <2>1 DEF ReadFrame, Disconnect, FlowType
  <2>2. CASE ~ReadFrame /\ ~Disconnect
    <3>1. samples' = samples
      BY <2>2 DEF Next, Exchange, ExchangeMoves, LinkLost, Connect, SendInitialFrames,
         ReadBadFrame, ExchangeAnswers, ResyncApply, ResyncFails, ResyncAsk, Discover,
         WindowEnds, UnsubscribeStale, vars, feed
    <3> QED BY <3>1 DEF FlowType
  <2> QED BY <2>1, <2>2
<1>2. market' \in [Tokens -> {"unknown", "tracked", "over"}]
  BY StepKinds, AsideFacts DEF FlowType, Connect, SendInitialFrames, Disconnect,
     UnsubscribeStale, Discover, WindowEnds
<1>3. subs' \subseteq Tokens /\ since' \in [Tokens -> Nat]
  <2>1. ASSUME NEW T \in SUBSET Tokens, Subscribe(T)
        PROVE  subs' \subseteq Tokens /\ since' \in [Tokens -> Nat]
    BY <1>0, <2>1 DEF Subscribe, FlowType
  <2>2. CASE SendInitialFrames
    BY <1>0, <2>1, <2>2 DEF SendInitialFrames
  <2>3. ASSUME NEW t \in Tokens, Discover(t)
        PROVE  subs' \subseteq Tokens /\ since' \in [Tokens -> Nat]
    <3>1. {t} \in SUBSET Tokens
      OBVIOUS
    <3> QED BY <2>1, <2>3, <3>1 DEF Discover, FlowType
  <2>4. CASE Aside
    BY <2>4, AsideFacts DEF FlowType
  <2>5. CASE Connect \/ Disconnect \/ UnsubscribeStale \/ \E t \in Tokens : WindowEnds(t)
    BY <2>5 DEF Connect, Disconnect, UnsubscribeStale, WindowEnds, feed, FlowType
  <2> QED BY <2>2, <2>3, <2>4, <2>5, StepKinds
<1> QED BY <1>1, <1>2, <1>3 DEF FlowType

LEMMA ClockKept == IInv /\ FlowType /\ ClockInv /\ [Next]_vars => ClockInv'
<1> SUFFICES ASSUME IInv, FlowType, ClockInv, [Next]_vars, NEW t \in Tokens
             PROVE  (Timed(hist[t]) /\ since[t] <= Now(t))'
  BY DEF ClockInv
<1>0. /\ BooksInv /\ BookStep /\ HistInv /\ Timed(hist[t]) /\ since[t] <= Now(t)
      /\ since[t] \in Nat
  BY BookSteps DEF IInv, BooksInv, ClockInv, FlowType
<1>1. Now(t) \in Nat /\ Now(t)' \in Nat /\ Now(t) <= Now(t)'
  BY <1>0, VersionsGrow
<1>2. Timed(hist'[t])
  <2>1. CASE hist' = hist
    BY <1>0, <2>1
  <2>2. CASE Exchange
    <3>1. PICK u \in Tokens, k \in Feed!Kind, later \in {0, 1} : ExchangeMoves(u, k, later)
      BY <2>2 DEF Exchange
    <3>2. hist' = [hist EXCEPT ![u] = Append(hist[u], Feed!NextChange(hist[u], k, later))]
      BY <3>1 DEF ExchangeMoves
    <3>3. CASE u = t
      <4>1. Timed(Append(hist[t], Feed!NextChange(hist[t], k, later)))
        BY <1>0, TimedAppend DEF HistInv
      <4> QED BY <1>0, <3>2, <3>3, <4>1 DEF HistInv
    <3>4. CASE u # t
      BY <1>0, <3>2, <3>4 DEF HistInv
    <3> QED BY <3>3, <3>4
  <2> QED BY <1>0, <2>1, <2>2 DEF BookStep, OneBook
<1>3. since'[t] \in Nat /\ since'[t] <= Now(t)
  <2>1. CASE since' = since
    BY <1>0, <2>1
  <2>2. ASSUME NEW T \in SUBSET Tokens, Subscribe(T)
        PROVE  since'[t] \in Nat /\ since'[t] <= Now(t)
    BY <1>0, <1>1, <2>2, SubscribeFacts
  <2>3. CASE SendInitialFrames
    BY <2>2, <2>3 DEF SendInitialFrames, IInv, PushInv, FramesInv
  <2>4. ASSUME NEW u \in Tokens, Discover(u)
        PROVE  since'[t] \in Nat /\ since'[t] <= Now(t)
    <3>1. {u} \in SUBSET Tokens
      OBVIOUS
    <3> QED BY <2>1, <2>2, <2>4, <3>1 DEF Discover
  <2>5. CASE Aside \/ Connect \/ Disconnect \/ UnsubscribeStale \/ \E u \in Tokens : WindowEnds(u)
    <3>1. since' = since
      BY <2>5, AsideFacts DEF Connect, Disconnect, UnsubscribeStale, WindowEnds, feed
    <3> QED BY <2>1, <3>1
  <2> QED BY <2>3, <2>4, <2>5, StepKinds
<1>4. (since[t] <= Now(t))'
  <2>1. since'[t] <= Now(t)'
    BY <1>1, <1>3
  <2> QED BY <2>1
<1> QED BY <1>2, <1>4

\* A market that is known stays known, one that is over stays over.
LEMMA MarketMoves ==
  ASSUME FlowType, [Next]_vars, NEW t \in Tokens
  PROVE  /\ market[t] # "unknown" => market'[t] # "unknown"
         /\ market[t] = "over" => market'[t] = "over"
BY StepKinds, AsideFacts DEF FlowType, Connect, SendInitialFrames, Disconnect,
   UnsubscribeStale, Discover, WindowEnds

LEMMA KnownKept == IInv /\ FlowType /\ KnownInv /\ [Next]_vars => KnownInv'
<1> SUFFICES ASSUME IInv, FlowType, KnownInv, [Next]_vars PROVE KnownInv'
  OBVIOUS
<1>0. /\ subs \subseteq Tokens /\ frames \subseteq Tokens /\ subscribed \subseteq Tokens
      /\ rest.state # "idle" => rest.token \in Tokens
  BY DEF IInv, PushInv, RestInv, FramesInv, FlowType
<1>1. \A t \in subscribed' \union subs' \union frames' : market'[t] # "unknown"
  <2>1. CASE subscribed' \union subs' \union frames' \subseteq subscribed \union subs \union frames
    BY <1>0, <2>1, MarketMoves DEF KnownInv
  <2>2. CASE Connect \/ Disconnect \/ UnsubscribeStale \/ \E u \in Tokens : WindowEnds(u)
    <3>1. subscribed' \union subs' \union frames' \subseteq subscribed \union subs \union frames
      BY <2>2 DEF Connect, Disconnect, UnsubscribeStale, WindowEnds, feed
    <3> QED BY <2>1, <3>1
  <2>3. CASE Aside
    <3>1. subscribed' = subscribed /\ subs' = subs /\ frames' = frames
      BY <2>3, AsideFacts
    <3> QED BY <2>1, <3>1
  <2>4. CASE SendInitialFrames
    <3>1. subs' \subseteq subs \union frames /\ frames' = {} /\ subscribed' = subscribed
      BY <2>4 DEF SendInitialFrames, Subscribe
    <3> QED BY <2>1, <3>1
  <2>5. ASSUME NEW u \in Tokens, Discover(u)
        PROVE  \A t \in subscribed' \union subs' \union frames' : market'[t] # "unknown"
    <3>1. /\ subscribed' = subscribed \union {u} /\ subs' \subseteq subs \union {u}
          /\ frames' = frames
      BY <2>5 DEF Discover, Subscribe
    <3>2. market'[u] # "unknown"
      BY <2>5 DEF Discover, FlowType
    <3> QED BY <1>0, <3>1, <3>2, MarketMoves DEF KnownInv
  <2> QED BY <2>2, <2>3, <2>4, <2>5, StepKinds
<1>2. rest'.state # "idle" => market'[rest'.token] # "unknown"
  <2>1. CASE rest' = rest
    BY <1>0, <2>1, MarketMoves DEF KnownInv
  <2>2. ASSUME NEW u \in Tokens, ResyncAsk(u)
        PROVE  market'[rest'.token] # "unknown"
    BY <2>2 DEF ResyncAsk, Asked
  <2>3. CASE ExchangeAnswers
    BY <2>3 DEF ExchangeAnswers, Answered, KnownInv
  <2>4. CASE ResyncApply \/ ResyncFails
    BY <2>4 DEF ResyncApply, ResyncFails, Idle
  <2>5. \/ rest' = rest \/ ExchangeAnswers \/ ResyncApply \/ ResyncFails
        \/ \E u \in Tokens : ResyncAsk(u)
    BY DEF Next, Exchange, ExchangeMoves, LinkLost, Connect, SendInitialFrames, ReadFrame,
       ReadBadFrame, Disconnect, UnsubscribeStale, Discover, WindowEnds, vars
  <2> QED BY <2>1, <2>2, <2>3, <2>4, <2>5
<1> QED BY <1>1, <1>2 DEF KnownInv

LEMMA LinkKept == LinkInv /\ [Next]_vars => LinkInv'
<1> SUFFICES ASSUME LinkInv, [Next]_vars PROVE LinkInv'
  OBVIOUS
<1>1. CASE Aside
  BY <1>1, AsideFacts DEF LinkInv
<1>2. CASE Connect \/ SendInitialFrames \/ Disconnect \/ UnsubscribeStale
  BY <1>2 DEF Connect, SendInitialFrames, Disconnect, UnsubscribeStale, LinkInv
<1>3. ASSUME NEW t \in Tokens, Discover(t) \/ WindowEnds(t)
      PROVE  LinkInv'
  BY <1>3 DEF Discover, WindowEnds, feed, LinkInv
<1> QED BY <1>1, <1>2, <1>3, StepKinds

\* A message in the buffer was there, or is a change or a full book sent by this step.
LEMMA BufferMoves ==
  ASSUME IInv, [Next]_vars, NEW i \in DOMAIN buffer'
  PROVE  \/ \E j \in DOMAIN buffer : buffer'[i] = buffer[j]
         \/ \E t \in subs : /\ t \in Tokens /\ Exchange
                            /\ buffer'[i] = [type |-> "change", token |-> t, version |-> Now(t) + 1]
         \/ SendInitialFrames /\ link = "up" /\ \E t \in frames : buffer'[i] = FullBook(t)
         \/ link = "up" /\ \E t \in Tokens : Discover(t) /\ ws /\ buffer'[i] = FullBook(t)
<1> DEFINE Old == \E j \in DOMAIN buffer : buffer'[i] = buffer[j]
<1>0. PICK n \in Nat : n = Len(buffer) /\ DOMAIN buffer = 1..n /\ buffer \in Seq(GoodMessages)
  BY DEF IInv, PushInv, BufferInv
<1>1. CASE buffer' = buffer \/ buffer' = <<>>
  BY <1>1
<1>2. CASE Exchange
  <2>1. PICK t \in Tokens, k \in Feed!Kind, later \in {0, 1} : ExchangeMoves(t, k, later)
    BY <1>2 DEF Exchange
  <2>2. PICK m : m = [type |-> "change", token |-> t, version |-> Now(t) + 1]
    OBVIOUS
  <2>3. CASE t \in subs /\ buffer' = Append(buffer, m)
    <3>1. Len(buffer') = n + 1 /\ DOMAIN buffer' = 1..(n + 1) /\ buffer'[n + 1] = m
          /\ \A j \in 1..n : buffer'[j] = buffer[j]
      BY <1>0, <2>3
    <3>2. i \in 1..n \/ i = n + 1
      BY <1>0, <3>1
    <3> QED BY <1>0, <1>2, <2>2, <2>3, <3>1, <3>2
  <2> QED BY <1>1, <2>1, <2>2, <2>3 DEF ExchangeMoves
<1>3. CASE LinkLost
  <2>1. PICK k \in 0..n : buffer' = SubSeq(buffer, 1, k)
    BY <1>0, <1>3 DEF LinkLost
  <2>2. i \in 1..k /\ buffer'[i] = buffer[i]
    BY <1>0, <2>1
  <2> QED BY <1>0, <2>1, <2>2
<1>4. CASE ReadFrame \/ ReadBadFrame
  <2>1. buffer # <<>> /\ buffer' = Tail(buffer)
    BY <1>4 DEF ReadFrame, ReadBadFrame
  <2>2. DOMAIN buffer' = 1..(n - 1) /\ \A j \in 1..(n - 1) : buffer'[j] = buffer[j + 1]
    BY <1>0, <2>1
  <2>3. i + 1 \in DOMAIN buffer /\ buffer'[i] = buffer[i + 1]
    BY <1>0, <2>2
  <2> QED BY <2>3
<1>5. CASE SendInitialFrames
  <2>1. Subscribe(frames) /\ frames \in SUBSET Tokens
    BY <1>5 DEF SendInitialFrames, IInv, PushInv, FramesInv
  <2> QED BY <1>5, <2>1, SubscribeBrings
<1>6. ASSUME NEW t \in Tokens, Discover(t)
      PROVE  Old \/ (link = "up" /\ Discover(t) /\ ws /\ buffer'[i] = FullBook(t))
  <2>1. CASE ws
    <3>1. Subscribe({t}) /\ {t} \in SUBSET Tokens
      BY <1>6, <2>1 DEF Discover
    <3> QED BY <1>6, <2>1, <3>1, SubscribeBrings
  <2>2. CASE ~ws
    <3>1. buffer' = buffer
      BY <1>6, <2>2 DEF Discover
    <3> QED BY <3>1
  <2> QED BY <2>1, <2>2
<1>7. CASE \/ Connect \/ Disconnect \/ UnsubscribeStale \/ ExchangeAnswers \/ ResyncApply
           \/ ResyncFails \/ UNCHANGED vars
  BY <1>1, <1>7 DEF Connect, Disconnect, UnsubscribeStale, ExchangeAnswers, ResyncApply,
     ResyncFails, vars, feed
<1>8. ASSUME NEW t \in Tokens, WindowEnds(t) \/ ResyncAsk(t)
      PROVE  Old
  BY <1>1, <1>8 DEF WindowEnds, ResyncAsk, feed
<1> QED BY <1>2, <1>3, <1>4, <1>5, <1>6, <1>7, <1>8 DEF Next

LEMMA FreshKept == IInv /\ FlowType /\ FlowInv /\ [Next]_vars => FreshInv'
<1> SUFFICES ASSUME IInv, FlowType, FlowInv, [Next]_vars, NEW t \in frames'
             PROVE  t \notin subs' /\ \A i \in DOMAIN buffer' : buffer'[i].token # t
  BY DEF FreshInv
<1>1. CASE Connect
  BY <1>1 DEF Connect
<1>2. CASE SendInitialFrames \/ Disconnect
  BY <1>2 DEF SendInitialFrames, Disconnect
<1>3. CASE ~Connect /\ ~SendInitialFrames /\ ~Disconnect
  <2>1. frames' = frames
    BY <1>3, StepKinds, AsideFacts DEF UnsubscribeStale, Discover, WindowEnds, feed
  <2>2. t \in frames /\ t \notin subs /\ market[t] # "unknown"
        /\ \A i \in DOMAIN buffer : buffer[i].token # t
    BY <2>1 DEF FlowInv, FreshInv, KnownInv
  <2>3. t \notin subs'
    <3>1. CASE Aside \/ UnsubscribeStale \/ \E u \in Tokens : WindowEnds(u)
      BY <2>2, <3>1, AsideFacts DEF UnsubscribeStale, WindowEnds, feed
    <3>2. ASSUME NEW u \in Tokens, Discover(u)
          PROVE  t \notin subs'
      <4>1. u # t /\ subs' \subseteq subs \union {u}
        BY <2>2, <3>2 DEF Discover, Subscribe
      <4> QED BY <2>2, <4>1
    <3> QED BY <1>3, <3>1, <3>2, StepKinds
  <2>4. ASSUME NEW i \in DOMAIN buffer'
        PROVE  buffer'[i].token # t
    <3>1. ASSUME NEW u \in Tokens, Discover(u), buffer'[i] = FullBook(u)
          PROVE  buffer'[i].token # t
      BY <2>2, <3>1 DEF Discover, FullBook
    <3> QED BY <1>3, <2>2, <3>1, BufferMoves
  <2> QED BY <2>3, <2>4
<1> QED BY <1>1, <1>2, <1>3

\* When a token in the buffer or in an answer keeps the version it was subscribed at.
LEMMA SinceKept ==
  ASSUME IInv, FlowType, FlowInv, [Next]_vars, NEW t \in Tokens, market[t] # "unknown",
         SendInitialFrames => t \notin frames
  PROVE  since'[t] = since[t]
<1>1. CASE Aside \/ Connect \/ Disconnect \/ UnsubscribeStale \/ \E u \in Tokens : WindowEnds(u)
  BY <1>1, AsideFacts DEF Connect, Disconnect, UnsubscribeStale, WindowEnds, feed
<1>2. CASE SendInitialFrames
  BY <1>2, SubscribeFacts DEF SendInitialFrames, IInv, PushInv, FramesInv
<1>3. ASSUME NEW u \in Tokens, Discover(u)
      PROVE  since'[t] = since[t]
  <2>1. u # t /\ {u} \in SUBSET Tokens
    BY <1>3 DEF Discover
  <2> QED BY <1>3, <2>1, SubscribeFacts DEF Discover
<1> QED BY <1>1, <1>2, <1>3, StepKinds

LEMMA PushedKept == IInv /\ FlowType /\ FlowInv /\ [Next]_vars => PushedInv'
<1> SUFFICES ASSUME IInv, FlowType, FlowInv, [Next]_vars, NEW i \in DOMAIN buffer'
             PROVE  /\ buffer'[i].version >= since'[buffer'[i].token]
                    /\ market'[buffer'[i].token] # "unknown"
                    /\ buffer'[i].token \in subs' \/ market'[buffer'[i].token] = "over"
  BY DEF PushedInv, OnConnection
<1>0. (\A t \in Tokens : Now(t) \in Nat) /\ frames \subseteq Tokens /\ subs \subseteq Tokens
  BY NowIsNat DEF IInv, BooksInv, PushInv, FramesInv, FlowType
<1>1. ASSUME NEW j \in DOMAIN buffer, buffer'[i] = buffer[j]
      PROVE  /\ buffer'[i].version >= since'[buffer'[i].token]
             /\ market'[buffer'[i].token] # "unknown"
             /\ buffer'[i].token \in subs' \/ market'[buffer'[i].token] = "over"
  <2>1. PICK m \in GoodMessages : m = buffer[j]
    BY DEF IInv, PushInv, BufferInv
  <2>2. PICK t \in Tokens : t = m.token
    BY <2>1 DEF GoodMessages, GoodMessage
  <2>3. m.version >= since[t] /\ market[t] # "unknown" /\ (t \in subs \/ market[t] = "over")
    BY <2>1, <2>2 DEF FlowInv, PushedInv, OnConnection
  <2>4. since'[t] = since[t]
    <3>1. t \notin frames
      BY <2>1, <2>2 DEF FlowInv, FreshInv
    <3> QED BY <2>3, <3>1, SinceKept
  <2>5. market'[t] # "unknown" /\ (market[t] = "over" => market'[t] = "over")
    BY <2>3, MarketMoves
  <2>6. t \in subs => t \in subs' \/ market'[t] = "over"
    <3>1. CASE Aside \/ \E u \in Tokens : WindowEnds(u)
      BY <3>1, AsideFacts DEF WindowEnds, feed
    <3>2. CASE Connect \/ Disconnect
      BY <3>2 DEF Connect, Disconnect
    <3>3. CASE SendInitialFrames
      BY <3>3 DEF SendInitialFrames, Subscribe
    <3>4. CASE \E u \in Tokens : Discover(u)
      BY <3>4 DEF Discover, Subscribe
    <3>5. CASE UnsubscribeStale
      <4>1. market' = market /\ \A u \in subs : u \in subs' \/ market[u] # "tracked"
        BY <3>5 DEF UnsubscribeStale
      <4> QED BY <2>3, <4>1 DEF FlowType
    <3> QED BY <3>1, <3>2, <3>3, <3>4, <3>5, StepKinds
  <2> QED BY <1>1, <2>1, <2>2, <2>3, <2>4, <2>5, <2>6
<1>2. ASSUME NEW t \in subs, Exchange,
             buffer'[i] = [type |-> "change", token |-> t, version |-> Now(t) + 1]
      PROVE  /\ buffer'[i].version >= since'[t] /\ market'[t] # "unknown"
             /\ t \in subs' /\ buffer'[i].token = t
  <2>1. since' = since /\ subs' = subs /\ market' = market
    BY <1>2, AsideFacts DEF Aside
  <2>2. since[t] <= Now(t) /\ since[t] \in Nat /\ market[t] # "unknown"
    BY <1>0 DEF FlowInv, ClockInv, KnownInv, FlowType
  <2>3. Now(t) + 1 >= since[t]
    BY <1>0, <2>2
  <2> QED BY <1>2, <2>1, <2>2, <2>3
<1>3. ASSUME NEW t \in frames, SendInitialFrames, link = "up", buffer'[i] = FullBook(t)
      PROVE  /\ buffer'[i].version >= since'[t] /\ market'[t] # "unknown"
             /\ t \in subs' /\ buffer'[i].token = t
  <2>1. since'[t] = Now(t) /\ t \in subs'
    BY <1>0, <1>3, SubscribeFacts DEF SendInitialFrames, FlowInv, FreshInv
  <2>2. market'[t] # "unknown"
    BY <1>0, MarketMoves DEF FlowInv, KnownInv
  <2> QED BY <1>0, <1>3, <2>1, <2>2 DEF FullBook
<1>4. ASSUME NEW t \in Tokens, Discover(t), ws, link = "up", buffer'[i] = FullBook(t)
      PROVE  /\ buffer'[i].version >= since'[t] /\ market'[t] # "unknown"
             /\ t \in subs' /\ buffer'[i].token = t
  <2>1. t \notin subs
    BY <1>4 DEF Discover, FlowInv, KnownInv
  <2>2. since'[t] = Now(t) /\ t \in subs'
    <3>1. Subscribe({t}) /\ {t} \in SUBSET Tokens
      BY <1>4 DEF Discover
    <3> QED BY <1>4, <2>1, <3>1, SubscribeFacts
  <2>3. market'[t] # "unknown"
    BY <1>4 DEF Discover, FlowType
  <2> QED BY <1>0, <1>4, <2>2, <2>3 DEF FullBook
<1> QED BY <1>1, <1>2, <1>3, <1>4, BufferMoves

\* An answer is of this connection when none is on its way while one is set up.
LEMMA RestNowKept == ~SlowAnswers /\ IInv /\ FlowType /\ FlowInv /\ [Next]_vars => RestNowInv'
<1> SUFFICES ASSUME ~SlowAnswers, IInv, FlowType, FlowInv, [Next]_vars PROVE RestNowInv'
  OBVIOUS
<1>1. CASE rest' = rest /\ rest.state = "answered"
  <2>1. PICK t \in Tokens : t = rest.token
    BY <1>1 DEF IInv, PushInv, RestInv
  <2>2. market[t] # "unknown" /\ ~SendInitialFrames
    BY <1>1, <2>1 DEF FlowInv, KnownInv, SendInitialFrames, NoLateAnswer
  <2>3. since'[t] = since[t]
    BY <2>2, SinceKept
  <2> QED BY <1>1, <2>1, <2>3 DEF FlowInv, RestNowInv
<1>2. CASE rest' = rest /\ rest.state # "answered"
  BY <1>2 DEF RestNowInv
<1>3. CASE ExchangeAnswers
  <2>1. PICK t \in Tokens : t = rest.token
    BY <1>3 DEF ExchangeAnswers, IInv, PushInv, RestInv
  <2>2. rest' = Answered(t, Now(t)) /\ since' = since
    BY <1>3, <2>1 DEF ExchangeAnswers, feed
  <2>3. since[t] <= Now(t) /\ Now(t) \in Nat /\ since[t] \in Nat
    BY NowIsNat DEF FlowInv, ClockInv, FlowType, IInv, BooksInv
  <2>4. rest'.token = t /\ rest'.version = Now(t)
    BY <2>2 DEF Answered
  <2>5. rest'.version >= since'[rest'.token]
    BY <2>2, <2>3, <2>4
  <2> QED BY <2>5 DEF RestNowInv
<1>4. CASE ResyncApply \/ ResyncFails \/ \E u \in Tokens : ResyncAsk(u)
  BY <1>4 DEF ResyncApply, ResyncFails, ResyncAsk, Idle, Asked, RestNowInv
<1>5. \/ rest' = rest \/ ExchangeAnswers \/ ResyncApply \/ ResyncFails
      \/ \E u \in Tokens : ResyncAsk(u)
  BY DEF Next, Exchange, ExchangeMoves, LinkLost, Connect, SendInitialFrames, ReadFrame,
     ReadBadFrame, Disconnect, UnsubscribeStale, Discover, WindowEnds, vars
<1> QED BY <1>1, <1>2, <1>3, <1>4, <1>5

\* With one token, the frame that makes the first sample is of the token.
LEMMA ReadKept ==
  ASSUME NEW t \in Tokens, Tokens = {t}, IInv, FlowType, FlowInv, ReadInv, [Next]_vars
  PROVE  ReadInv'
<1> SUFFICES ASSUME samples' > 0
             PROVE  /\ connected'
                    /\ t \in subs' \/ market'[t] = "over"
                    /\ book'[t].valid => book'[t].seen >= since'[t]
  BY DEF ReadInv
<1>0. /\ GoodHistory(hist[t]) /\ Timed(hist[t]) /\ GoodBook(book[t], hist[t])
      /\ DOMAIN book = Tokens /\ since[t] \in Nat /\ samples \in Nat /\ Now(t) \in Nat
  BY NowIsNat DEF IInv, BooksInv, HistInv, BookInv, FlowInv, ClockInv, FlowType
<1>1. CASE ReadFrame
  <2>1. PICK m \in GoodMessages : m = Head(buffer) /\ OnConnection(m)
    <3>1. buffer \in Seq(GoodMessages) /\ buffer # <<>>
      BY <1>1 DEF ReadFrame, IInv, PushInv, BufferInv
    <3>2. 1 \in DOMAIN buffer /\ buffer[1] = Head(buffer) /\ Head(buffer) \in GoodMessages
      BY <3>1
    <3> QED BY <3>2 DEF FlowInv, PushedInv
  <2>2. m.token = t /\ m.version \in 0..Now(t) /\ since[t] <= m.version
    BY <1>0, <2>1 DEF GoodMessages, GoodMessage, OnConnection
  <2>3. book'[t] = ApplyMessage(m)
    BY <1>0, <1>1, <2>1, <2>2 DEF ReadFrame
  <2>4. book'[t].valid => book'[t].seen >= since[t]
    BY <1>0, <2>2, <2>3, AppliedIsNew DEF ApplyMessage
  <2>5. connected' /\ subs' = subs /\ market' = market /\ since' = since
    BY <1>1 DEF ReadFrame
  <2> QED BY <2>1, <2>2, <2>4, <2>5 DEF OnConnection
<1>2. CASE ~ReadFrame
  <2>1. samples' = samples /\ ~Disconnect
    BY <1>2 DEF Next, Exchange, ExchangeMoves, LinkLost, Connect, SendInitialFrames,
       ReadBadFrame, Disconnect, ExchangeAnswers, ResyncApply, ResyncFails, ResyncAsk,
       Discover, WindowEnds, UnsubscribeStale, vars, feed
  <2>2. /\ connected
        /\ t \in subs \/ market[t] = "over"
        /\ book[t].valid => book[t].seen >= since[t]
    BY <2>1 DEF ReadInv
  <2>3. connected /\ ws /\ market[t] # "unknown"
    BY <2>1, <2>2 DEF ReadInv, FlowInv, LinkInv, KnownInv
  <2>4. ~Connect /\ ~SendInitialFrames /\ ~Discover(t)
    BY <2>3 DEF Connect, SendInitialFrames, Discover
  <2>5. connected' = connected /\ since' = since
    BY <2>1, <2>4, StepKinds, AsideFacts DEF UnsubscribeStale, WindowEnds, feed
  <2>6. t \in subs' \/ market'[t] = "over"
    <3>1. CASE UnsubscribeStale
      BY <2>2, <2>3, <3>1 DEF UnsubscribeStale, FlowType
    <3>2. CASE Aside \/ WindowEnds(t)
      BY <2>2, <3>2, AsideFacts DEF WindowEnds, feed, FlowType
    <3> QED BY <2>1, <2>4, <3>1, <3>2, StepKinds
  <2>7. book'[t].valid => book'[t].seen >= since[t]
    <3>1. CASE ResyncApply
      <4>1. rest.token = t /\ rest.version \in 0..Now(t) /\ since[t] <= rest.version
        BY <1>0, <3>1 DEF ResyncApply, IInv, PushInv, RestInv, FlowInv, RestNowInv
      <4>2. book'[t] = ApplySnapshot(book[t], t, rest.version)
        BY <1>0, <3>1, <4>1 DEF ResyncApply
      <4> QED BY <1>0, <4>1, <4>2, AppliedIsNew
    <3>2. CASE book'[t] = book[t]
      BY <2>2, <3>2
    <3>3. CASE book'[t] = Invalid
      BY <3>3 DEF Invalid
    <3>4. CASE ReadBadFrame \/ ResyncFails
      BY <1>0, <3>2, <3>3, <3>4 DEF ReadBadFrame, ResyncFails
    <3>5. CASE ~ResyncApply /\ ~ReadBadFrame /\ ~ResyncFails
      <4>1. book' = book
        BY <1>2, <2>1, <3>5 DEF Next, Exchange, ExchangeMoves, LinkLost, Connect,
           SendInitialFrames, ExchangeAnswers, ResyncAsk, Discover, WindowEnds,
           UnsubscribeStale, vars, feed
      <4> QED BY <3>2, <4>1
    <3> QED BY <3>1, <3>4, <3>5
  <2> QED BY <2>3, <2>5, <2>6, <2>7
<1> QED BY <1>1, <1>2

(* With one token, and no REST answer on its way while a connection is set *)
(* up, no decision rests on a book from before the present connection,     *)
(* whatever losses, resync answers, discoveries and bad frames come        *)
(* between: the drift samples start again with the connection              *)
(* (hub._on_clob_ws, snapshot), and the first frame read on it is the      *)
(* token's.  Both hypotheses are the run's; without either the property    *)
(* is false.                                                               *)
THEOREM DecisionsAreOfThisConnection ==
  ASSUME NEW CONSTANT t \in Tokens, Tokens = {t}, ~SlowAnswers
  PROVE  Spec => []DecidedOnThisConnection
<1>1. Init => FlowType /\ FlowInv /\ ReadInv
  <2> SUFFICES ASSUME Init PROVE FlowType /\ FlowInv /\ ReadInv
    OBVIOUS
  <2>1. Timed(<<>>)
    BY DEF Timed, Feed!StampOf
  <2>2. FlowType /\ ReadInv /\ LinkInv /\ FreshInv /\ PushedInv /\ KnownInv /\ RestNowInv
    BY DEF Init, FlowType, ReadInv, LinkInv, FreshInv, PushedInv, KnownInv, RestNowInv, Idle
  <2>3. ClockInv
    BY <2>1 DEF Init, ClockInv, Now
  <2> QED BY <2>2, <2>3 DEF FlowInv
<1>2. IInv /\ FlowType /\ FlowInv /\ ReadInv /\ [Next]_vars => (FlowType /\ FlowInv /\ ReadInv)'
  <2> SUFFICES ASSUME IInv, FlowType, FlowInv, ReadInv, [Next]_vars
               PROVE  (FlowType /\ FlowInv /\ ReadInv)'
    OBVIOUS
  <2>1. ClockInv' /\ KnownInv' /\ LinkInv' /\ FreshInv' /\ PushedInv' /\ RestNowInv'
    BY ClockKept, KnownKept, LinkKept, FreshKept, PushedKept, RestNowKept DEF FlowInv
  <2> QED BY <2>1, TypeKept, ReadKept DEF FlowInv
<1>3. FlowType /\ FlowInv /\ ReadInv => DecidedOnThisConnection
  <2> SUFFICES ASSUME FlowType, ReadInv, Decidable(t)
               PROVE  t \in subs /\ book[t].seen >= since[t]
    BY DEF DecidedOnThisConnection
  <2>1. samples > 0
    BY BoundsAreNat DEF Decidable
  <2> QED BY <2>1 DEF Decidable, ReadInv
<1> QED BY <1>1, <1>2, <1>3, Invariance, PTL DEF Spec

-----------------------------------------------------------------------------
\* The types that nothing else here needs.
Requests ==
  {Idle} \union [state : {"asked"}, token : Tokens]
         \union [state : {"answered"}, token : Tokens, version : Nat]

LinkType ==
  /\ link \in {"down", "up", "lost"} /\ ws \in BOOLEAN /\ connected \in BOOLEAN
  /\ samples \in 0..MinSamples /\ losses \in 0..MaxLosses /\ bad \in 0..MaxBad

LEMMA LinkTypeKept == LinkType /\ [Next]_vars => LinkType'
<1> SUFFICES ASSUME LinkType, [Next]_vars PROVE LinkType'
  OBVIOUS
<1>1. MinSamples \in Nat /\ MaxLosses \in Nat /\ MaxBad \in Nat
  BY BoundsAreNat
<1>2. link' \in {"down", "up", "lost"} /\ ws' \in BOOLEAN /\ connected' \in BOOLEAN
  BY DEF LinkType, Next, Exchange, ExchangeMoves, LinkLost, Connect, SendInitialFrames, ReadFrame,
     ReadBadFrame, Disconnect, Discover, WindowEnds, ResyncAsk, UnsubscribeStale, ExchangeAnswers,
     ResyncApply, ResyncFails, feed, vars
<1>3. /\ samples' \in {samples, 0} \/ (samples < MinSamples /\ samples' = samples + 1)
      /\ losses' = losses \/ (losses < MaxLosses /\ losses' = losses + 1)
      /\ bad' = bad \/ (bad < MaxBad /\ bad' = bad + 1)
  BY DEF Next, Exchange, ExchangeMoves, LinkLost, Connect, SendInitialFrames, ReadFrame,
     ReadBadFrame, Disconnect, Discover, WindowEnds, ResyncAsk, UnsubscribeStale, ExchangeAnswers,
     ResyncApply, ResyncFails, feed, vars
<1>4. samples' \in 0..MinSamples /\ losses' \in 0..MaxLosses /\ bad' \in 0..MaxBad
  BY <1>1, <1>3 DEF LinkType
<1> QED BY <1>2, <1>4 DEF LinkType

LEMMA RequestKept == IInv /\ rest \in Requests /\ [Next]_vars => rest' \in Requests
<1> SUFFICES ASSUME IInv, rest \in Requests, [Next]_vars PROVE rest' \in Requests
  OBVIOUS
<1>1. ASSUME NEW t \in Tokens, ResyncAsk(t) PROVE rest' \in Requests
  BY <1>1 DEF ResyncAsk, Asked, Requests
<1>2. CASE ExchangeAnswers
  <2>1. rest.token \in Tokens
    BY <1>2 DEF ExchangeAnswers, IInv, PushInv, RestInv
  <2>2. Now(rest.token) \in Nat
    BY <2>1, NowIsNat DEF IInv, BooksInv
  <2> QED BY <1>2, <2>1, <2>2 DEF ExchangeAnswers, Answered, Requests
<1>3. CASE ResyncApply \/ ResyncFails
  BY <1>3 DEF ResyncApply, ResyncFails, Requests
<1>4. CASE rest' = rest
  BY <1>4
<1> QED BY <1>1, <1>2, <1>3, <1>4 DEF Next, Exchange, ExchangeMoves, LinkLost, Connect,
     SendInitialFrames, ReadFrame, ReadBadFrame, Disconnect, Discover, WindowEnds,
     UnsubscribeStale, vars

BooksType == book = [t \in Tokens |-> book[t]]

LEMMA BooksTypeKept == BooksType /\ [Next]_vars => BooksType'
<1> SUFFICES ASSUME BooksType, [Next]_vars PROVE BooksType'
  OBVIOUS
<1>1. ASSUME NEW u, NEW b, book' = [book EXCEPT ![u] = b] PROVE BooksType'
  <2>1. book' = [t \in Tokens |-> IF t = u THEN b ELSE book[t]]
    BY <1>1 DEF BooksType
  <2> QED BY <2>1 DEF BooksType
<1>2. CASE book' = book
  BY <1>2 DEF BooksType
<1>3. CASE Disconnect
  BY <1>3 DEF Disconnect, BooksType
<1>4. CASE ReadFrame \/ ReadBadFrame \/ ResyncApply \/ ResyncFails
  BY <1>1, <1>2, <1>4 DEF ReadFrame, ReadBadFrame, ResyncApply, ResyncFails
<1> QED BY <1>2, <1>3, <1>4 DEF Next, Exchange, ExchangeMoves, LinkLost, Connect,
     SendInitialFrames, Discover, WindowEnds, ResyncAsk, UnsubscribeStale, ExchangeAnswers, vars

(* Every variable of the feeds keeps its type: the books hold numbers, the *)
(* pushes and answers under way name known tokens, for any tokens, changes *)
(* and losses.                                                             *)
THEOREM FeedsTypeCorrect == Spec => []TypeOK
<1>1. Init => FlowType /\ LinkType /\ BooksType /\ rest \in Requests
  <2> SUFFICES ASSUME Init
               PROVE  FlowType /\ LinkType /\ BooksType /\ rest \in Requests
    OBVIOUS
  <2>1. MinSamples \in Nat /\ MaxLosses \in Nat /\ MaxBad \in Nat
    BY BoundsAreNat
  <2>2. FlowType
    BY DEF Init, FlowType
  <2>3. LinkType
    <3>1. samples \in 0..MinSamples /\ losses \in 0..MaxLosses /\ bad \in 0..MaxBad
      BY <2>1 DEF Init
    <3> QED BY <3>1 DEF Init, LinkType
  <2> QED BY <2>2, <2>3 DEF Init, BooksType, Requests
<1>2. IInv /\ FlowType /\ LinkType /\ BooksType /\ rest \in Requests /\ [Next]_vars
        => (FlowType /\ LinkType /\ BooksType /\ rest \in Requests)'
  BY TypeKept, LinkTypeKept, BooksTypeKept, RequestKept
<1>3. IInv /\ FlowType /\ LinkType /\ BooksType /\ rest \in Requests => TypeOK
  <2> SUFFICES ASSUME IInv, FlowType, LinkType, BooksType, rest \in Requests PROVE TypeOK
    OBVIOUS
  <2>1. \A t \in Tokens : \A v \in DOMAIN hist[t] : hist[t][v] \in Feed!Change
    <3>1. \A t \in Tokens : hist[t] \in Seq(Feed!Change)
      BY DEF IInv, BooksInv, HistInv, GoodHistory, Histories
    <3> QED BY <3>1
  <2>2. \A i \in DOMAIN buffer : buffer[i] \in Message
    BY DEF IInv, PushInv, BufferInv, GoodMessages
  <2>3. book \in [Tokens -> Book]
    <3>1. DOMAIN book = Tokens /\ \A t \in Tokens : book[t] \in Book
      <4>1. Invalid \in Book
        BY DEF Invalid, Book
      <4> QED BY <4>1 DEF IInv, BooksInv, BookInv, GoodBook
    <3> QED BY <3>1 DEF BooksType
  <2>4. {subs, frames, subscribed} \subseteq SUBSET Tokens
    BY DEF IInv, PushInv, FramesInv, FlowType
  <2> QED BY <2>1, <2>2, <2>3, <2>4 DEF TypeOK, FlowType, LinkType, Requests
<1> QED BY <1>1, <1>2, <1>3, Invariance, PTL DEF Spec

-----------------------------------------------------------------------------
(***************************************************************************)
(* Proposals: the rows, what the step still has to answer, and the orders. *)
(***************************************************************************)
RowsType ==
  /\ now \in 0..MaxTime /\ inbox \in Seq(Inbox!Proposal) /\ Len(inbox) <= MaxProposals
  /\ checked \in [Servers -> {Inbox!NoRequest} \union 0..now]
  /\ orders \in [Inbox!Ids -> Nat] /\ breaks \in [Inbox!Ids -> Nat]

\* What is still to be answered is pending, each once.
QueueInv ==
  /\ queue \in Seq(Inbox!Pending)
  /\ \A k, l \in DOMAIN queue : k # l => queue[k] # queue[l]
  /\ pc = "acted" => queue # <<>>

Accepted(i) == i \in DOMAIN inbox /\ inbox[i].status = "ACCEPTED"

\* Each break may cost one more order, and acting on a trade makes one.
OrdersInv ==
  \A i \in Inbox!Ids :
    /\ orders[i] <= 1 + breaks[i]
    /\ ~Inbox!ActedOn(i) /\ ~Accepted(i) => orders[i] <= breaks[i]
    /\ /\ Inbox!ActedOn(i) \/ Accepted(i)
       /\ i \in DOMAIN inbox /\ inbox[i].kind = "trade"
       => orders[i] >= 1

AnswerInv == RowsType /\ QueueInv /\ OrdersInv

(* The instance has names of its own for what it extends.                  *)
LEMMA InboxFinite == \A S : Inbox!IsFiniteSet(S) <=> IsFiniteSet(S)
BY DEF Inbox!IsFiniteSet, IsFiniteSet

LEMMA InboxSize == \A S : Inbox!Cardinality(S) = Cardinality(S)
BY DEF Inbox!Cardinality, Cardinality, Inbox!IsFiniteSet, IsFiniteSet

LEMMA InboxLimits ==
  Inbox!ConstantsOK =>
    /\ IsFiniteSet(Servers) /\ Servers # {}
    /\ {PerMinute, Minute, TTL, MaxInFlight, MaxTime, MaxProposals} \subseteq Nat
BY InboxFinite DEF Inbox!ConstantsOK

(* Only rows are in the queue, and they have a number. *)
LEMMA QueuedRow ==
  ASSUME RowsType, QueueInv, queue # <<>>
  PROVE  /\ Head(queue) \in Inbox!Pending /\ Head(queue) \in DOMAIN inbox
         /\ Head(queue) \in Nat \ {0} /\ inbox[Head(queue)].status = "PENDING"
<1>1. Head(queue) \in Inbox!Pending
  BY DEF QueueInv
<1>2. DOMAIN inbox = 1 .. Len(inbox) /\ Len(inbox) \in Nat
  BY DEF RowsType
<1> QED BY <1>1, <1>2 DEF Inbox!Pending

LEMMA RowIsId ==
  ASSUME Inbox!ConstantsOK, RowsType, NEW i \in DOMAIN inbox
  PROVE  i \in Inbox!Ids
<1>1. Len(inbox) \in Nat /\ DOMAIN inbox = 1 .. Len(inbox) /\ Len(inbox) <= MaxProposals
  BY DEF RowsType
<1>2. MaxProposals \in Nat
  BY InboxLimits
<1> QED BY <1>1, <1>2 DEF Inbox!Ids

(* A row that is answered leaves the queue. *)
LEMMA MarkKept ==
  ASSUME RowsType, QueueInv, queue # <<>>, NEW s \in Inbox!Statuses, s # "PENDING",
         Inbox!Mark(Head(queue), s)
  PROVE  /\ inbox' \in Seq(Inbox!Proposal) /\ Len(inbox') = Len(inbox)
         /\ DOMAIN inbox' = DOMAIN inbox
         /\ \A i \in DOMAIN inbox : inbox'[i].kind = inbox[i].kind
                                    /\ inbox'[i].created = inbox[i].created
         /\ inbox'[Head(queue)].status = s
         /\ \A i \in DOMAIN inbox : i # Head(queue) => inbox'[i] = inbox[i]
         /\ queue' \in Seq(Inbox!Pending)'
         /\ \A k, l \in DOMAIN queue' : k # l => queue'[k] # queue'[l]
<1> DEFINE h == Head(queue)
<1>1. h \in DOMAIN inbox /\ h = queue[1] /\ inbox \in Seq(Inbox!Proposal)
  BY QueuedRow DEF RowsType, QueueInv
<1>2. PICK r : r = [inbox[h] EXCEPT !.status = s]
  OBVIOUS
<1>3. inbox[h] \in Inbox!Proposal
  BY <1>1
<1>4. r \in Inbox!Proposal /\ r.status = s /\ r.kind = inbox[h].kind /\ r.created = inbox[h].created
  BY <1>2, <1>3 DEF Inbox!Proposal, Inbox!Statuses
<1>5. inbox' = [inbox EXCEPT ![h] = r] /\ queue' = Tail(queue)
  BY <1>2 DEF Inbox!Mark
<1>6. /\ inbox' \in Seq(Inbox!Proposal) /\ Len(inbox') = Len(inbox)
      /\ DOMAIN inbox' = DOMAIN inbox
      /\ \A i \in DOMAIN inbox : inbox'[i] = IF i = h THEN r ELSE inbox[i]
  BY <1>1, <1>4, <1>5, ExceptSeq
<1>7. \A k \in DOMAIN queue' : /\ k + 1 \in DOMAIN queue /\ k + 1 # 1
                               /\ queue'[k] = queue[k + 1]
  BY <1>5 DEF QueueInv
<1>8. \A k \in DOMAIN queue' : queue'[k] # h /\ queue'[k] \in Inbox!Pending
  BY <1>1, <1>7 DEF QueueInv
<1>9. \A k \in DOMAIN queue' : queue'[k] \in Inbox!Pending'
  <2>1. \A i \in Inbox!Pending : i # h => i \in Inbox!Pending'
    BY <1>6 DEF Inbox!Pending
  <2> QED BY <1>8, <2>1
<1>10. queue' \in Seq(Inbox!Pending)
  BY <1>5 DEF QueueInv
<1>11. queue' \in Seq(Inbox!Pending)'
  BY <1>9, <1>10
<1>12. \A k, l \in DOMAIN queue' : k # l => queue'[k] # queue'[l]
  BY <1>5, <1>7 DEF QueueInv
<1> QED BY <1>1, <1>4, <1>6, <1>11, <1>12

(* A step that leaves the rows, the queue and the orders. *)
LEMMA AnswersIdle ==
  ASSUME Inbox!ConstantsOK, AnswerInv, now' \in now .. MaxTime,
         UNCHANGED <<inbox, queue, orders, breaks>>, pc' = pc \/ ("acted" \notin {pc, pc'}),
         checked' \in [Servers -> {Inbox!NoRequest} \union 0..now']
  PROVE  AnswerInv'
<1>1. now \in Nat /\ MaxTime \in Nat
  BY InboxLimits DEF AnswerInv, RowsType
<1>2. RowsType'
  BY <1>1 DEF AnswerInv, RowsType
<1>3. QueueInv'
  BY DEF AnswerInv, QueueInv, Inbox!Pending
<1>4. OrdersInv'
  BY DEF AnswerInv, OrdersInv, Inbox!ActedOn, Accepted
<1> QED BY <1>2, <1>3, <1>4 DEF AnswerInv

(* The head of the queue is answered. *)
LEMMA AnswersMark ==
  ASSUME Inbox!ConstantsOK, AnswerInv, queue # <<>>, NEW s \in Inbox!Statuses,
         s # "PENDING", Inbox!Mark(Head(queue), s), pc' = "answering",
         s = "ACCEPTED" <=> pc = "acted", UNCHANGED <<now, orders, breaks>>
  PROVE  AnswerInv'
<1> DEFINE h == Head(queue)
<1>1. RowsType /\ QueueInv /\ OrdersInv
  BY DEF AnswerInv
<1>2. RowsType'
  BY <1>1, MarkKept DEF RowsType, Inbox!Mark
<1>3. QueueInv'
  BY <1>1, MarkKept DEF QueueInv
<1>4. OrdersInv'
  <2> SUFFICES ASSUME NEW i \in Inbox!Ids
               PROVE  /\ orders[i] <= 1 + breaks[i]
                      /\ ~Accepted(i)' => orders[i] <= breaks[i]
                      /\ Accepted(i)' /\ inbox'[i].kind = "trade" => orders[i] >= 1
    BY DEF OrdersInv, Inbox!ActedOn, Accepted
  <2>1. CASE i = h
    BY <1>1, <2>1, MarkKept, QueuedRow DEF OrdersInv, Accepted, Inbox!ActedOn
  <2>2. CASE i # h
    <3>1. ~Inbox!ActedOn(i) /\ (Accepted(i)' <=> Accepted(i))
      BY <1>1, <2>2, MarkKept DEF Accepted, Inbox!ActedOn
    <3>2. Accepted(i) => inbox'[i] = inbox[i]
      BY <1>1, <2>2, MarkKept DEF Accepted
    <3> QED BY <1>1, <3>1, <3>2 DEF OrdersInv, Accepted
  <2> QED BY <2>1, <2>2
<1> QED BY <1>2, <1>3, <1>4 DEF AnswerInv

(* The step or the process ends between an order and its mark, or anywhere else. *)
LEMMA AnswersBreak ==
  ASSUME Inbox!ConstantsOK, AnswerInv, pc' = "idle", queue' = <<>>,
         breaks' = Inbox!Unmarked, UNCHANGED <<now, inbox, checked, orders>>
  PROVE  AnswerInv'
<1>1. RowsType /\ QueueInv /\ OrdersInv
  BY DEF AnswerInv
<1>2. pc = "acted" => Head(queue) \in Inbox!Ids
  BY <1>1, QueuedRow, RowIsId DEF QueueInv
<1>3. /\ breaks' \in [Inbox!Ids -> Nat]
      /\ \A i \in Inbox!Ids : breaks'[i] = IF Inbox!ActedOn(i) THEN breaks[i] + 1 ELSE breaks[i]
  BY <1>1, <1>2 DEF RowsType, Inbox!Unmarked, Inbox!ActedOn
<1>4. RowsType'
  BY <1>1, <1>3 DEF RowsType
<1>5. QueueInv'
  BY DEF QueueInv
<1>6. OrdersInv'
  <2> SUFFICES ASSUME NEW i \in Inbox!Ids
               PROVE  /\ orders[i] <= 1 + breaks'[i]
                      /\ ~Accepted(i) => orders[i] <= breaks'[i]
                      /\ Accepted(i) /\ inbox[i].kind = "trade" => orders[i] >= 1
    BY DEF OrdersInv, Inbox!ActedOn, Accepted
  <2>1. orders[i] \in Nat /\ breaks[i] \in Nat
    BY <1>1 DEF RowsType
  <2> QED BY <1>1, <1>3, <2>1 DEF OrdersInv, Accepted
<1> QED BY <1>4, <1>5, <1>6 DEF AnswerInv

LEMMA AnswersPlace ==
  ASSUME Inbox!ConstantsOK, AnswerInv, NEW kind, Inbox!Acting(kind), NEW t,
         Inbox!Places(Head(queue), t)
  PROVE  AnswerInv'
<1> DEFINE h == Head(queue)
<1>1. /\ RowsType /\ QueueInv /\ OrdersInv
      /\ pc = "answering" /\ queue # <<>> /\ pc' = "acted"
      /\ UNCHANGED <<now, inbox, checked, queue, breaks>>
      /\ orders' = [orders EXCEPT ![h] = @ + 1]
  BY DEF AnswerInv, Inbox!Acting, Inbox!Answering, Inbox!Places, Inbox!rows
<1>2. h \in DOMAIN inbox /\ h \in Inbox!Ids /\ inbox[h].status = "PENDING"
  BY <1>1, QueuedRow, RowIsId
<1>3. /\ orders' \in [Inbox!Ids -> Nat]
      /\ \A i \in Inbox!Ids : orders'[i] = IF i = h THEN orders[i] + 1 ELSE orders[i]
  BY <1>1, <1>2 DEF RowsType
<1>4. RowsType'
  BY <1>1, <1>3 DEF RowsType
<1>5. QueueInv'
  BY <1>1 DEF QueueInv, Inbox!Pending
<1>6. OrdersInv'
  <2> SUFFICES ASSUME NEW i \in Inbox!Ids
               PROVE  /\ orders'[i] <= 1 + breaks[i]
                      /\ i # h /\ ~Accepted(i) => orders'[i] <= breaks[i]
                      /\ (i = h \/ Accepted(i)) /\ inbox[i].kind = "trade" => orders'[i] >= 1
    BY <1>1 DEF OrdersInv, Inbox!ActedOn, Accepted
  <2>1. orders[i] \in Nat /\ breaks[i] \in Nat /\ ~Inbox!ActedOn(i)
    BY <1>1 DEF RowsType, Inbox!ActedOn
  <2>2. ~Accepted(h)
    BY <1>2 DEF Accepted
  <2> QED BY <1>1, <1>3, <2>1, <2>2 DEF OrdersInv, Accepted
<1> QED BY <1>4, <1>5, <1>6 DEF AnswerInv

LEMMA AnswersStored ==
  ASSUME Inbox!ConstantsOK, AnswerInv, NEW s \in Servers, Inbox!RequestIsStored(s)
  PROVE  AnswerInv'
<1>1. PICK k \in Inbox!Kinds :
        inbox' = Append(inbox, [created |-> checked[s], kind |-> k, status |-> "PENDING"])
  BY DEF Inbox!RequestIsStored
<1>2. /\ checked[s] # Inbox!NoRequest /\ Len(inbox) < MaxProposals
      /\ checked' = [checked EXCEPT ![s] = Inbox!NoRequest]
      /\ UNCHANGED <<now, pc, stepNow, queue, open, orders, breaks>>
  BY DEF Inbox!RequestIsStored, Inbox!loop, Inbox!history
<1>3. RowsType /\ QueueInv /\ OrdersInv /\ MaxProposals \in Nat /\ MaxTime \in Nat
  BY InboxLimits DEF AnswerInv
<1> DEFINE row == [created |-> checked[s], kind |-> k, status |-> "PENDING"]
<1>4. row \in Inbox!Proposal
  <2>1. checked[s] \in Nat
    BY <1>2, <1>3 DEF RowsType
  <2> QED BY <2>1 DEF Inbox!Proposal, Inbox!Statuses
<1>5. /\ inbox' \in Seq(Inbox!Proposal) /\ Len(inbox') = Len(inbox) + 1
      /\ DOMAIN inbox' = DOMAIN inbox \union {Len(inbox) + 1}
      /\ \A i \in DOMAIN inbox : inbox'[i] = inbox[i]
      /\ inbox'[Len(inbox) + 1] = row
  <2>1. inbox' = Append(inbox, row) /\ inbox \in Seq(Inbox!Proposal)
    BY <1>1, <1>3 DEF RowsType
  <2> HIDE DEF row
  <2> QED BY <1>4, <2>1
<1>6. RowsType'
  BY <1>2, <1>3, <1>5 DEF RowsType
<1>7. QueueInv'
  <2>1. Inbox!Pending \subseteq Inbox!Pending'
    BY <1>5 DEF Inbox!Pending
  <2>2. queue \in Seq(Inbox!Pending)'
    BY <1>3, <2>1 DEF QueueInv
  <2> QED BY <1>2, <1>3, <2>2 DEF QueueInv
<1>8. OrdersInv'
  <2> SUFFICES ASSUME NEW i \in Inbox!Ids
               PROVE  /\ orders[i] <= 1 + breaks[i]
                      /\ ~Inbox!ActedOn(i) /\ ~Accepted(i)' => orders[i] <= breaks[i]
                      /\ /\ Inbox!ActedOn(i) \/ Accepted(i)'
                         /\ i \in DOMAIN inbox' /\ inbox'[i].kind = "trade"
                         => orders[i] >= 1
    BY <1>2 DEF OrdersInv, Inbox!ActedOn, Accepted
  <2>1. Accepted(i)' <=> Accepted(i)
    <3>1. inbox'[Len(inbox) + 1].status = "PENDING" /\ Len(inbox) + 1 \notin DOMAIN inbox
      BY <1>3, <1>5 DEF RowsType
    <3> HIDE DEF row
    <3> QED BY <1>5, <3>1 DEF Accepted
  <2>2. Inbox!ActedOn(i) => i \in DOMAIN inbox
    BY <1>3, QueuedRow DEF Inbox!ActedOn, QueueInv
  <2>3. i \in DOMAIN inbox => inbox'[i] = inbox[i]
    BY <1>5
  <2> HIDE DEF row
  <2> QED BY <1>3, <2>1, <2>2, <2>3 DEF OrdersInv, Accepted
<1> QED BY <1>6, <1>7, <1>8 DEF AnswerInv

LEMMA AnswersRead ==
  ASSUME Inbox!ConstantsOK, AnswerInv, Inbox!ReadInbox
  PROVE  AnswerInv'
<1>1. /\ pc = "working" /\ pc' = "answering"
      /\ queue' \in [1..Inbox!Cardinality(Inbox!Pending) -> Inbox!Pending]
      /\ \A k, l \in DOMAIN queue' : k < l => Inbox!Before(queue'[k], queue'[l])
      /\ UNCHANGED <<now, inbox, checked, orders, breaks>>
  BY DEF Inbox!ReadInbox, Inbox!rows, Inbox!history
<1>2. RowsType /\ OrdersInv /\ DOMAIN inbox = 1 .. Len(inbox) /\ Len(inbox) \in Nat
  BY DEF AnswerInv, RowsType
<1>3. Inbox!Cardinality(Inbox!Pending) \in Nat
  <2>1. IsFiniteSet(DOMAIN inbox)
    <3>1. PICK n \in Nat : n = Len(inbox)
      BY <1>2
    <3> QED BY <1>2, <3>1, FS_Interval
  <2>2. IsFiniteSet(Inbox!Pending)
    BY <2>1, FS_Subset DEF Inbox!Pending
  <2> QED BY <2>2, FS_CardinalityType, InboxSize
<1>4. PICK n \in Nat : n = Inbox!Cardinality(Inbox!Pending)
  BY <1>3
<1>5. queue' \in Seq(Inbox!Pending) /\ DOMAIN queue' = 1 .. n
  BY <1>1, <1>4
<1>6. \A k, l \in 1 .. n : k < l => queue'[k] # queue'[l]
  <2> SUFFICES ASSUME NEW k \in 1 .. n, NEW l \in 1 .. n, k < l, queue'[k] = queue'[l]
               PROVE  FALSE
    OBVIOUS
  <2>1. PICK i : i = queue'[k] /\ i \in DOMAIN inbox
    BY <1>5 DEF Inbox!Pending
  <2>2. Inbox!Before(i, i)
    BY <1>1, <1>5, <2>1
  <2>3. inbox[i].created \in Nat /\ i \in Nat
    <3>1. inbox[i] \in Inbox!Proposal /\ i \in Nat
      BY <1>2, <2>1 DEF RowsType
    <3> QED BY <3>1 DEF Inbox!Proposal
  <2> QED BY <2>2, <2>3 DEF Inbox!Before
<1>7. \A k, l \in 1 .. n : k # l => k < l \/ l < k
  OBVIOUS
<1>8. QueueInv'
  <2>1. Inbox!Pending' = Inbox!Pending
    BY <1>1 DEF Inbox!Pending
  <2> QED BY <1>1, <1>5, <1>6, <1>7, <2>1 DEF QueueInv
<1>9. RowsType'
  BY <1>1, <1>2 DEF RowsType
<1>10. OrdersInv'
  BY <1>1, <1>2 DEF OrdersInv, Inbox!ActedOn, Accepted
<1> QED BY <1>8, <1>9, <1>10 DEF AnswerInv

LEMMA AnswersStep ==
  ASSUME Inbox!ConstantsOK, AnswerInv, [Inbox!Next]_(Inbox!vars)
  PROVE  AnswerInv'
<1> USE DEF Inbox!rows, Inbox!loop, Inbox!history
<1>0. /\ now \in Nat /\ MaxTime \in Nat /\ now <= MaxTime
      /\ checked \in [Servers -> {Inbox!NoRequest} \union 0..now]
  BY InboxLimits DEF AnswerInv, RowsType
<1>1. CASE Inbox!ClockAdvances
  BY <1>0, <1>1, AnswersIdle DEF Inbox!ClockAdvances
<1>2. CASE \E s \in Servers : Inbox!RequestIsChecked(s)
  BY <1>0, <1>2, AnswersIdle DEF Inbox!RequestIsChecked
<1>3. CASE \E s \in Servers : Inbox!RequestIsStored(s)
  BY <1>3, AnswersStored
<1>4. CASE Inbox!StepBegins
  BY <1>0, <1>4, AnswersIdle DEF Inbox!StepBegins
<1>5. CASE Inbox!ReadInbox
  BY <1>5, AnswersRead
<1>6. CASE Inbox!Expires
  BY <1>6, AnswersMark DEF Inbox!Expires, Inbox!Answering, Inbox!Statuses
<1>7. CASE Inbox!Rejects
  BY <1>7, AnswersMark DEF Inbox!Rejects, Inbox!Answering, Inbox!Statuses
<1>8. CASE \E t \in Tokens : Inbox!PlacesEntry(t) \/ Inbox!PlacesExit(t)
  BY <1>8, AnswersPlace DEF Inbox!PlacesEntry, Inbox!PlacesExit
<1>9. CASE Inbox!ExitIsRefused
  <2>1. /\ pc = "answering" /\ queue # <<>> /\ inbox[Head(queue)].kind = "close" /\ pc' = "acted"
        /\ UNCHANGED <<now, inbox, checked, queue, orders, breaks>>
    BY <1>9 DEF Inbox!ExitIsRefused, Inbox!Acting, Inbox!Answering
  <2>2. RowsType'
    BY <2>1 DEF AnswerInv, RowsType
  <2>3. QueueInv'
    BY <2>1 DEF AnswerInv, QueueInv, Inbox!Pending
  <2>4. OrdersInv'
    BY <2>1 DEF AnswerInv, OrdersInv, Inbox!ActedOn, Accepted
  <2> QED BY <2>2, <2>3, <2>4 DEF AnswerInv
<1>10. CASE Inbox!Accepts
  <2>1. queue # <<>>
    BY <1>10 DEF Inbox!Accepts, AnswerInv, QueueInv
  <2> QED BY <1>10, <2>1, AnswersMark DEF Inbox!Accepts, Inbox!Statuses
<1>11. CASE Inbox!StepEnds
  BY <1>0, <1>11, AnswersIdle DEF Inbox!StepEnds
<1>12. CASE Inbox!StepFails
  BY <1>12, AnswersBreak DEF Inbox!StepFails
<1>13. CASE Inbox!Crash
  BY <1>13, AnswersBreak DEF Inbox!Crash
<1>14. CASE UNCHANGED Inbox!vars
  BY <1>0, <1>14, AnswersIdle DEF Inbox!vars
<1> QED BY <1>1, <1>2, <1>3, <1>4, <1>5, <1>6, <1>7, <1>8, <1>9, <1>10, <1>11, <1>12, <1>13, <1>14
        DEF Inbox!Next, Inbox!LoopGoesOn

LEMMA AnswersInit == Inbox!ConstantsOK /\ Inbox!Init => AnswerInv
<1> SUFFICES ASSUME Inbox!ConstantsOK, Inbox!Init PROVE AnswerInv
  OBVIOUS
<1>1. MaxTime \in Nat /\ MaxProposals \in Nat
  BY InboxLimits
<1>2. RowsType
  BY <1>1 DEF Inbox!Init, RowsType
<1>3. QueueInv
  BY DEF Inbox!Init, QueueInv
<1>4. OrdersInv
  BY DEF Inbox!Init, OrdersInv, Accepted, Inbox!ActedOn
<1> QED BY <1>2, <1>3, <1>4 DEF AnswerInv

LEMMA AnswersInvariance == Inbox!ConstantsOK => (Inbox!Spec => []AnswerInv)
<1> SUFFICES ASSUME Inbox!ConstantsOK PROVE Inbox!Spec => []AnswerInv
  OBVIOUS
<1>1. AnswerInv /\ [Inbox!Next]_(Inbox!vars) => AnswerInv'
  BY AnswersStep
<1> QED BY <1>1, AnswersInit, PTL DEF Inbox!Spec

(* Answers are true: a proposal marked REJECTED or EXPIRED has never       *)
(* become an order and an accepted trade has become exactly one, whatever  *)
(* the loop does and wherever it fails, crashes or restarts, but for one   *)
(* more order per break between the order and its mark                     *)
(* (TradingCore._proposals, ProposalInbox.mark).                           *)
THEOREM ProposalsAreAnsweredTruly == Inbox!ConstantsOK => (Inbox!Spec => []Inbox!AnswersAreTrue)
<1> SUFFICES ASSUME Inbox!ConstantsOK PROVE Inbox!Spec => []Inbox!AnswersAreTrue
  OBVIOUS
<1>1. AnswerInv => Inbox!AnswersAreTrue
  <2> SUFFICES ASSUME AnswerInv, NEW i \in DOMAIN inbox
               PROVE  /\ orders[i] <= 1 + breaks[i]
                      /\ breaks[i] = 0 =>
                           /\ inbox[i].status # "ACCEPTED" /\ ~Inbox!ActedOn(i) => orders[i] = 0
                           /\ inbox[i].status = "ACCEPTED" /\ inbox[i].kind = "trade" => orders[i] = 1
    BY DEF Inbox!AnswersAreTrue
  <2>1. i \in Inbox!Ids
    BY RowIsId DEF AnswerInv
  <2>2. orders[i] \in Nat /\ breaks[i] \in Nat
    BY <2>1 DEF AnswerInv, RowsType
  <2> QED BY <2>1, <2>2 DEF AnswerInv, OrdersInv, Accepted
<1> QED BY <1>1, AnswersInvariance, PTL

\* The types that the answers do not need.
InboxLoopType ==
  /\ stepNow \in 0..now /\ pc \in {"idle", "working", "answering", "acted"}
  /\ open \subseteq Tokens /\ restarts \in 0..MaxRestarts

LEMMA InboxLoopKept ==
  ASSUME Inbox!ConstantsOK, AnswerInv, InboxLoopType, [Inbox!Next]_(Inbox!vars)
  PROVE  InboxLoopType'
<1> USE DEF Inbox!rows, Inbox!loop, Inbox!history, InboxLoopType
<1>1. now \in Nat /\ MaxRestarts \in Nat
  BY InboxLimits DEF AnswerInv, RowsType, Inbox!ConstantsOK
<1>2. CASE Inbox!ClockAdvances
  <2>1. 0..now \subseteq 0..(now + 1)
    BY <1>1
  <2> QED BY <1>2, <2>1 DEF Inbox!ClockAdvances
<1>3. CASE Inbox!StepBegins
  <2>1. open' \subseteq Tokens
    BY <1>3 DEF Inbox!StepBegins
  <2> QED BY <1>1, <1>3, <2>1 DEF Inbox!StepBegins
<1>4. CASE Inbox!Crash
  BY <1>1, <1>4 DEF Inbox!Crash
<1>5. CASE \E t \in Tokens : Inbox!PlacesEntry(t) \/ Inbox!PlacesExit(t)
  BY <1>5 DEF Inbox!PlacesEntry, Inbox!PlacesExit, Inbox!Places
<1>6. CASE \E s \in Servers : Inbox!RequestIsChecked(s) \/ Inbox!RequestIsStored(s)
  BY <1>6 DEF Inbox!RequestIsChecked, Inbox!RequestIsStored
<1>7. CASE \/ Inbox!ReadInbox \/ Inbox!Expires \/ Inbox!Rejects \/ Inbox!ExitIsRefused
           \/ Inbox!Accepts \/ Inbox!StepEnds \/ Inbox!StepFails
  BY <1>7 DEF Inbox!ReadInbox, Inbox!Expires, Inbox!Rejects, Inbox!ExitIsRefused,
     Inbox!Accepts, Inbox!StepEnds, Inbox!StepFails
<1>8. CASE UNCHANGED Inbox!vars
  BY <1>8 DEF Inbox!vars
<1> QED BY <1>2, <1>3, <1>4, <1>5, <1>6, <1>7, <1>8 DEF Inbox!Next, Inbox!LoopGoesOn

(* The inbox, the step and the history keep their types: what a step still *)
(* has to answer are pending rows, each once, for any servers and bounds.  *)
THEOREM InboxTypeCorrect == Inbox!ConstantsOK => (Inbox!Spec => []Inbox!TypeOK)
<1> SUFFICES ASSUME Inbox!ConstantsOK PROVE Inbox!Spec => []Inbox!TypeOK
  OBVIOUS
<1>1. Inbox!Init => AnswerInv /\ InboxLoopType
  <2> SUFFICES ASSUME Inbox!Init PROVE AnswerInv /\ InboxLoopType
    OBVIOUS
  <2>1. AnswerInv
    BY AnswersInit
  <2>2. MaxRestarts \in Nat
    BY DEF Inbox!ConstantsOK
  <2> QED BY <2>1, <2>2 DEF Inbox!Init, InboxLoopType
<1>2. AnswerInv /\ InboxLoopType /\ [Inbox!Next]_(Inbox!vars) => (AnswerInv /\ InboxLoopType)'
  BY AnswersStep, InboxLoopKept
<1>3. AnswerInv /\ InboxLoopType => Inbox!TypeOK
  BY DEF AnswerInv, RowsType, QueueInv, InboxLoopType, Inbox!TypeOK
<1> QED BY <1>1, <1>2, <1>3, PTL DEF Inbox!Spec

-----------------------------------------------------------------------------
(* The rate limit. *)
Span(t) == t .. (t + Minute)
RowsIn(t) == {i \in DOMAIN inbox : inbox[i].created \in Span(t)}
AskedIn(t) == {s \in Servers : checked[s] \in Span(t)}

\* What has passed the check in a minute, stored or not.
RoomLeft(t) ==
  Cardinality(RowsIn(t)) + Cardinality(AskedIn(t)) <= PerMinute + Cardinality(Servers) - 1
RateInv == \A t \in Nat : RoomLeft(t)

LEMMA RateSets ==
  ASSUME Inbox!ConstantsOK, RowsType, NEW t \in Nat
  PROVE  /\ IsFiniteSet(RowsIn(t)) /\ IsFiniteSet(AskedIn(t))
         /\ Cardinality(RowsIn(t)) \in Nat /\ Cardinality(AskedIn(t)) \in Nat
         /\ Cardinality(AskedIn(t)) <= Cardinality(Servers)
         /\ Cardinality(Servers) \in Nat \ {0}
<1>1. PICK n \in Nat : n = Len(inbox) /\ DOMAIN inbox = 1 .. n
  BY DEF RowsType
<1>2. IsFiniteSet(RowsIn(t))
  <2>1. IsFiniteSet(1 .. n)
    BY FS_Interval
  <2> QED BY <1>1, <2>1, FS_Subset DEF RowsIn
<1>3. IsFiniteSet(Servers) /\ AskedIn(t) \subseteq Servers /\ Servers # {}
  BY InboxLimits DEF AskedIn
<1> QED BY <1>2, <1>3, FS_Subset, FS_CardinalityType, FS_EmptySet

(* A request is checked: the rows of any minute it falls into are below the limit. *)
LEMMA RateChecked ==
  ASSUME Inbox!ConstantsOK, RowsType, RateInv, NEW s \in Servers, Inbox!RequestIsChecked(s)
  PROVE  RateInv'
<1>1. /\ checked' = [checked EXCEPT ![s] = now] /\ inbox' = inbox
      /\ Inbox!CountSince(now - Minute) < PerMinute
  BY DEF Inbox!RequestIsChecked, Inbox!MayPropose
<1>2. now \in Nat /\ Minute \in Nat /\ PerMinute \in Nat /\ MaxTime \in Nat /\ RowsType'
  <2>1. MaxTime \in Nat /\ now \in Nat /\ now \in 0 .. now
    BY InboxLimits DEF RowsType
  <2>2. /\ checked' \in [Servers -> {Inbox!NoRequest} \union 0 .. now]
        /\ UNCHANGED <<now, inbox, orders, breaks>>
    BY <1>1, <2>1 DEF RowsType, Inbox!RequestIsChecked, Inbox!history
  <2>3. RowsType'
    BY <2>1, <2>2 DEF RowsType
  <2> QED BY <2>1, <2>3, InboxLimits
<1> SUFFICES ASSUME NEW t \in Nat PROVE RoomLeft(t)'
  BY DEF RateInv
<1>3. RowsIn(t)' = RowsIn(t)
  BY <1>1 DEF RowsIn
<1>4. CASE now \in Span(t)
  <2>1. RowsIn(t) \subseteq {i \in DOMAIN inbox : inbox[i].created >= now - Minute}
    <3> SUFFICES ASSUME NEW i \in RowsIn(t) PROVE inbox[i].created >= now - Minute
      BY DEF RowsIn
    <3>1. inbox[i].created \in Span(t)
      BY DEF RowsIn
    <3> QED BY <1>2, <1>4, <3>1 DEF Span
  <2>2. PICK c \in Nat : /\ c = Cardinality({i \in DOMAIN inbox : inbox[i].created >= now - Minute})
                         /\ Cardinality(RowsIn(t)) <= c
    <3>1. PICK n \in Nat : DOMAIN inbox = 1 .. n
      BY DEF RowsType
    <3>2. IsFiniteSet(1 .. n)
      BY FS_Interval
    <3>3. IsFiniteSet({i \in DOMAIN inbox : inbox[i].created >= now - Minute})
      BY <3>1, <3>2, FS_Subset
    <3> QED BY <2>1, <3>3, FS_Subset, FS_CardinalityType
  <2>3. c < PerMinute
    BY <1>1, <2>2, InboxSize DEF Inbox!CountSince
  <2>4. /\ Cardinality(AskedIn(t)') <= Cardinality(Servers)
        /\ Cardinality(AskedIn(t)') \in Nat /\ Cardinality(Servers) \in Nat
        /\ Cardinality(RowsIn(t)) \in Nat
    <3>1. AskedIn(t)' \subseteq Servers /\ IsFiniteSet(Servers)
      BY InboxLimits DEF AskedIn
    <3> QED BY <3>1, RateSets, FS_Subset, FS_CardinalityType
  <2> QED BY <1>2, <1>3, <2>2, <2>3, <2>4 DEF RoomLeft
<1>5. CASE now \notin Span(t)
  <2>1. AskedIn(t)' \subseteq AskedIn(t)
    BY <1>1, <1>5 DEF AskedIn, RowsType
  <2>2. Cardinality(AskedIn(t)') <= Cardinality(AskedIn(t)) /\ Cardinality(AskedIn(t)') \in Nat
    BY <2>1, RateSets, FS_Subset, FS_CardinalityType
  <2>3. /\ RoomLeft(t) /\ Cardinality(AskedIn(t)) \in Nat /\ Cardinality(RowsIn(t)) \in Nat
        /\ Cardinality(Servers) \in Nat
    BY RateSets DEF RateInv
  <2> QED BY <1>2, <1>3, <2>2, <2>3 DEF RoomLeft
<1> QED BY <1>4, <1>5

(* A request becomes a row of the minute it was checked in. *)
LEMMA RateStored ==
  ASSUME Inbox!ConstantsOK, RowsType, RateInv, NEW s \in Servers, Inbox!RequestIsStored(s)
  PROVE  RateInv'
<1>0. PICK k \in Inbox!Kinds, c \in Nat :
        /\ c = checked[s]
        /\ inbox' = Append(inbox, [created |-> c, kind |-> k, status |-> "PENDING"])
        /\ checked' = [checked EXCEPT ![s] = Inbox!NoRequest]
  BY DEF Inbox!RequestIsStored, RowsType
<1>1. PICK row : /\ row.created = c /\ inbox' = Append(inbox, row)
                 /\ c = checked[s] /\ checked' = [checked EXCEPT ![s] = Inbox!NoRequest]
  BY <1>0
<1>2. PICK n \in Nat : n = Len(inbox) /\ DOMAIN inbox = 1 .. n
  BY DEF RowsType
<1>3. /\ DOMAIN inbox' = 1 .. n + 1 /\ inbox'[n + 1] = row
      /\ \A i \in 1 .. n : inbox'[i] = inbox[i]
  <2>1. inbox \in Seq(Inbox!Proposal)
    BY DEF RowsType
  <2> QED BY <1>1, <1>2, <2>1
<1> SUFFICES ASSUME NEW t \in Nat PROVE RoomLeft(t)'
  BY DEF RateInv
<1>4. /\ RoomLeft(t) /\ IsFiniteSet(RowsIn(t)) /\ IsFiniteSet(AskedIn(t))
      /\ Cardinality(RowsIn(t)) \in Nat /\ Cardinality(AskedIn(t)) \in Nat
      /\ Cardinality(Servers) \in Nat /\ PerMinute \in Nat /\ Minute \in Nat
  BY RateSets, InboxLimits DEF RateInv
<1>5. AskedIn(t)' = AskedIn(t) \ {s}
  <2>1. Inbox!NoRequest \notin Span(t)
    BY <1>4 DEF Span, Inbox!NoRequest
  <2> QED BY <1>1, <2>1 DEF AskedIn, RowsType
<1>6. CASE c \in Span(t)
  <2>1. RowsIn(t)' = RowsIn(t) \union {n + 1} /\ n + 1 \notin RowsIn(t)
    BY <1>1, <1>2, <1>3, <1>6 DEF RowsIn
  <2>2. s \in AskedIn(t)
    BY <1>1, <1>6 DEF AskedIn
  <2>3. Cardinality(RowsIn(t)') = Cardinality(RowsIn(t)) + 1
    BY <1>4, <2>1, FS_AddElement
  <2>4. Cardinality(AskedIn(t)') = Cardinality(AskedIn(t)) - 1
    BY <1>4, <1>5, <2>2, FS_RemoveElement
  <2> QED BY <1>4, <2>3, <2>4 DEF RoomLeft
<1>7. CASE c \notin Span(t)
  <2>1. RowsIn(t)' = RowsIn(t)
    BY <1>1, <1>2, <1>3, <1>7 DEF RowsIn
  <2>2. AskedIn(t)' = AskedIn(t)
    BY <1>1, <1>5, <1>7 DEF AskedIn
  <2> QED BY <1>4, <2>1, <2>2 DEF RoomLeft
<1> QED BY <1>6, <1>7

(* No other step creates a row or checks a request. *)
LEMMA RateStep ==
  ASSUME Inbox!ConstantsOK, AnswerInv, RateInv, [Inbox!Next]_(Inbox!vars)
  PROVE  RateInv'
<1>1. RowsType /\ QueueInv
  BY DEF AnswerInv
<1>2. CASE \E s \in Servers : Inbox!RequestIsChecked(s)
  BY <1>1, <1>2, RateChecked
<1>3. CASE \E s \in Servers : Inbox!RequestIsStored(s)
  BY <1>1, <1>3, RateStored
<1>4. CASE checked' = checked /\ inbox' = inbox
  BY <1>4 DEF RateInv, RoomLeft, RowsIn, AskedIn
<1>5. CASE \E st \in Inbox!Statuses \ {"PENDING"} : queue # <<>> /\ Inbox!Mark(Head(queue), st)
  <2>1. /\ DOMAIN inbox' = DOMAIN inbox /\ checked' = checked
        /\ \A i \in DOMAIN inbox : inbox'[i].created = inbox[i].created
    BY <1>1, <1>5, MarkKept DEF Inbox!Mark
  <2>2. \A t : RowsIn(t)' = RowsIn(t) /\ AskedIn(t)' = AskedIn(t)
    BY <2>1 DEF RowsIn, AskedIn
  <2> QED BY <2>2 DEF RateInv, RoomLeft
<1>6. CASE Inbox!Expires \/ Inbox!Rejects \/ Inbox!Accepts
  BY <1>1, <1>5, <1>6 DEF Inbox!Expires, Inbox!Rejects, Inbox!Accepts, Inbox!Answering,
                          Inbox!Statuses, QueueInv
<1>7. CASE \/ Inbox!ClockAdvances \/ Inbox!StepBegins \/ Inbox!ReadInbox
           \/ \E t \in Tokens : Inbox!PlacesEntry(t) \/ Inbox!PlacesExit(t)
           \/ Inbox!ExitIsRefused \/ Inbox!StepEnds \/ Inbox!StepFails \/ Inbox!Crash
           \/ UNCHANGED Inbox!vars
  BY <1>4, <1>7 DEF Inbox!ClockAdvances, Inbox!StepBegins, Inbox!ReadInbox, Inbox!PlacesEntry,
                    Inbox!PlacesExit, Inbox!Places, Inbox!ExitIsRefused, Inbox!StepEnds,
                    Inbox!StepFails, Inbox!Crash, Inbox!vars, Inbox!rows
<1> QED BY <1>2, <1>3, <1>6, <1>7 DEF Inbox!Next, Inbox!LoopGoesOn

LEMMA RateInit == Inbox!ConstantsOK /\ Inbox!Init => RateInv
<1> SUFFICES ASSUME Inbox!ConstantsOK, Inbox!Init, NEW t \in Nat PROVE RoomLeft(t)
  BY DEF RateInv
<1>1. Minute \in Nat /\ PerMinute \in Nat /\ Cardinality(Servers) \in Nat \ {0}
  BY InboxLimits, FS_CardinalityType, FS_EmptySet
<1>2. RowsIn(t) = {} /\ AskedIn(t) = {}
  BY <1>1 DEF Inbox!Init, RowsIn, AskedIn, Span, Inbox!NoRequest
<1> QED BY <1>1, <1>2, FS_EmptySet DEF RoomLeft

(* The rate limit holds for any number of server processes: they read the  *)
(* count and insert in two steps, so a minute may have the limit and one   *)
(* proposal for each other server, and never more (BotReadModel._submit).  *)
THEOREM ProposalRateHolds == Inbox!ConstantsOK => (Inbox!Spec => []Inbox!RateBounded)
<1> SUFFICES ASSUME Inbox!ConstantsOK PROVE Inbox!Spec => []Inbox!RateBounded
  OBVIOUS
<1>1. RateInv /\ AnswerInv /\ [Inbox!Next]_(Inbox!vars) => RateInv'
  BY RateStep
<1>2. RateInv /\ AnswerInv => Inbox!RateBounded
  <2> SUFFICES ASSUME RateInv, AnswerInv, NEW t \in 0 .. now
               PROVE  Cardinality(RowsIn(t)) <= PerMinute + Cardinality(Servers) - 1
    BY InboxSize DEF Inbox!RateBounded, RowsIn, Span
  <2>1. t \in Nat /\ RowsType
    BY InboxLimits DEF AnswerInv, RowsType
  <2>2. RoomLeft(t)
    BY <2>1 DEF RateInv
  <2>3. PerMinute \in Nat
    BY InboxLimits
  <2> QED BY <2>1, <2>2, <2>3, RateSets DEF RoomLeft
<1> QED BY <1>1, <1>2, RateInit, AnswersInvariance, PTL DEF Inbox!Spec

-----------------------------------------------------------------------------
(***************************************************************************)
(* PriceToBeat: the evidence and the trades on it.                         *)
(***************************************************************************)
Hubs == [tracked : BOOLEAN, official : Nat,
         winner : Ptb!Outcomes \union {"none"}, consistent : BOOLEAN]
Gammas == [ptb : Nat, final : Nat, winner : Ptb!Outcomes \union {"none"}]
Trades == [source : {"none", "gamma+rtds", "gamma", "rtds"}, price : Nat, session : Nat]
PtbType ==
  /\ now \in Nat /\ last \in Nat /\ restarts \in Nat
  /\ tick \in [Ptb!Windows -> Nat] /\ held \in [Ptb!Windows -> Nat]
  /\ gamma \in [Ptb!Windows -> Gammas] /\ hub \in [Ptb!Windows -> Hubs]
  /\ obs \in Seq(Ptb!Observation)
  /\ store \in [Ptb!Past \union Ptb!Windows -> Ptb!Diffs \union {"no"}]
  /\ traded \in [Ptb!Windows -> Trades]
  /\ found \subseteq Ptb!Windows

Observed(w) == \E i \in DOMAIN obs : obs[i].window = w
OnceEach == \A i, j \in DOMAIN obs : obs[i].window = obs[j].window => i = j

\* What Gamma tells of a window it tells after the window.
AfterWindow(w) ==
  store[w] # "no" \/ gamma[w].ptb # Ptb!NoPrice \/ Observed(w) => now >= Ptb!End(w)

\* The series holds the tick of the start or nothing.
HoldsTick(w) == held[w] # Ptb!NoPrice => held[w] = tick[w] /\ now >= Ptb!Start(w)

\* A match in the database is one; who has observed a window before has no tick of it.
Judged(w) ==
  /\ store[w] = "match" => gamma[w].ptb # Ptb!NoPrice /\ tick[w] = gamma[w].ptb
  /\ Observed(w) /\ hub[w].official = Ptb!NoPrice => held[w] = Ptb!NoPrice

\* A mismatch that was found is in the evidence, unless the database had the window without tick.
FoundInv(w) ==
  w \in found => /\ store[w] \in {"none", "mismatch"}
                 /\ store[w] = "mismatch" =>
                      \E i \in DOMAIN obs : obs[i] = [window |-> w, diff |-> "mismatch"]
EvidenceInv ==
  OnceEach /\ \A w \in Ptb!Windows : AfterWindow(w) /\ HoldsTick(w) /\ Judged(w) /\ FoundInv(w)

\* A trade on the stream's price: the tick is held as long as it is kept, and the
\* process has not observed the window before Gamma's price is in the hub.
Late(w) == now > Ptb!Start(w) + Keep
OnStream(w) == traded[w].source = "rtds" /\ traded[w].session = restarts
TradeInv ==
  \A w \in Ptb!Windows :
    /\ traded[w].session <= restarts
    /\ traded[w].source = "rtds" =>
         traded[w].price = tick[w] /\ tick[w] # Ptb!NoPrice /\ now >= Ptb!Start(w)
    /\ OnStream(w) /\ ~Late(w) => held[w] = tick[w]
    /\ OnStream(w) /\ hub[w].official = Ptb!NoPrice => ~Observed(w)
    /\ OnStream(w) /\ Ptb!WrongPrice(w) => w \in new \union incidents \/ Late(w)

PtbInv == PtbType /\ EvidenceInv /\ TradeInv

LEMMA PtbSame ==
  /\ \A S : Ptb!IsFiniteSet(S) <=> IsFiniteSet(S)
  /\ \A S : Ptb!Cardinality(S) = Cardinality(S)
BY DEF Ptb!Cardinality, Cardinality, Ptb!IsFiniteSet, IsFiniteSet

LEMMA FiniteIndices == \A n \in Nat : IsFiniteSet(1 .. n)
BY FS_Interval

LEMMA PtbNumbers ==
  ASSUME Ptb!ConstantsOK
  PROVE  /\ N \in Nat /\ MinWindows \in Nat /\ Keep \in Nat
         /\ StreamPrices \subseteq Nat \ {0} /\ Prices \subseteq Nat \ {0}
         /\ IsFiniteSet(Ptb!Past \union Ptb!Windows)
         /\ \A w \in Ptb!Windows : /\ w \in Nat /\ Ptb!Start(w) \in Nat /\ Ptb!End(w) \in Nat
                                   /\ Ptb!Start(w) < Ptb!End(w)
<1>1. N \in Nat /\ MinWindows \in Nat /\ Keep \in Nat
      /\ StreamPrices \subseteq Nat \ {0} /\ Prices \subseteq Nat \ {0}
      /\ IsFiniteSet(Matched \union Missing)
  BY PtbSame DEF Ptb!ConstantsOK
<1>2. IsFiniteSet(Ptb!Past \union Ptb!Windows)
  <2>1. PICK n \in Nat : n = N
    BY <1>1
  <2>2. IsFiniteSet(1 .. n)
    BY FiniteIndices
  <2> QED BY <1>1, <2>1, <2>2, FS_Union DEF Ptb!Past, Ptb!Windows
<1>3. \A w \in Ptb!Windows : /\ w \in Nat /\ Ptb!Start(w) \in Nat /\ Ptb!End(w) \in Nat
                             /\ Ptb!Start(w) < Ptb!End(w)
  BY <1>1 DEF Ptb!Windows, Ptb!Start, Ptb!End
<1> QED BY <1>1, <1>2, <1>3

(* The rows of the database as a sequence: each once. *)
LEMMA SeqOfSet ==
  ASSUME NEW S, IsFiniteSet(S)
  PROVE  /\ Ptb!SetToSeq(S) \in Seq(S)
         /\ \A i, j \in DOMAIN Ptb!SetToSeq(S) :
              Ptb!SetToSeq(S)[i] = Ptb!SetToSeq(S)[j] => i = j
         /\ \A x \in S : \E i \in DOMAIN Ptb!SetToSeq(S) : Ptb!SetToSeq(S)[i] = x
<1>1. PICK n \in Nat : n = Cardinality(S) /\ ExistsBijection(1 .. n, S)
  BY FS_CardinalityType
<1>2. PICK g \in Bijection(1 .. n, S) : TRUE
  BY <1>1 DEF ExistsBijection
<1>3. g \in [1 .. n -> S] /\ Ptb!IsInjective(g)
  BY <1>2 DEF Bijection, Injection, IsInjective, Ptb!IsInjective
<1>4. PICK f : f = Ptb!SetToSeq(S)
  OBVIOUS
<1>5. f = CHOOSE h \in [1 .. n -> S] : Ptb!IsInjective(h)
  BY <1>1, <1>4, PtbSame DEF Ptb!SetToSeq
<1>6. f \in [1 .. n -> S] /\ Ptb!IsInjective(f)
  BY <1>3, <1>5
<1> DEFINE R == {f[i] : i \in 1 .. n}
<1>7. f \in Bijection(1 .. n, R)
  BY <1>6 DEF Bijection, Injection, Surjection, IsInjective, Ptb!IsInjective
<1>8. ExistsBijection(1 .. n, R) /\ R \subseteq S
  BY <1>6, <1>7 DEF ExistsBijection
<1> HIDE DEF R
<1>9. Cardinality(R) = n
  BY <1>8, FS_CountingElements
<1>10. R = S
  BY <1>1, <1>8, <1>9, FS_Subset
<1>11. \A x \in S : \E i \in 1 .. n : f[i] = x
  BY <1>10 DEF R
<1> QED BY <1>4, <1>6, <1>11 DEF Ptb!IsInjective

(* What a process starts from: one observation for each row. *)
FromRows(q, s) ==
  /\ q \in Seq(Ptb!Observation)
  /\ \A i, j \in DOMAIN q : q[i].window = q[j].window => i = j
  /\ \A i \in DOMAIN q : q[i].window \in DOMAIN s /\ s[q[i].window] = q[i].diff
                         /\ q[i].diff # "no"
  /\ \A w \in DOMAIN s : s[w] # "no" =>
       \E i \in DOMAIN q : q[i] = [window |-> w, diff |-> s[w]]

LEMMA Seeding ==
  ASSUME Ptb!ConstantsOK
  PROVE  \A s \in [Ptb!Past \union Ptb!Windows -> Ptb!Diffs \union {"no"}] :
           FromRows(Ptb!Seeded(s), s)
<1> SUFFICES ASSUME NEW s \in [Ptb!Past \union Ptb!Windows -> Ptb!Diffs \union {"no"}]
             PROVE  FromRows(Ptb!Seeded(s), s)
  OBVIOUS
<1> DEFINE q == Ptb!Seeded(s)
<1> DEFINE V == {v \in DOMAIN s : s[v] # "no"}
           row == [w \in V |-> [window |-> w, diff |-> s[w]]]
           R == {[window |-> w, diff |-> s[w]] : w \in V}
<1>1. IsFiniteSet(V)
  BY PtbNumbers, FS_Subset
<1>2. IsFiniteSet(R)
  <2>1. R = {row[w] : w \in V}
    OBVIOUS
  <2>2. IsFiniteSet({row[w] : w \in V})
    <3>1. row \in Bijection(V, R)
      BY <2>1 DEF Bijection, Injection, Surjection, IsInjective
    <3> HIDE DEF V, row, R
    <3> QED BY <1>1, <2>1, <3>1, FS_Bijection DEF ExistsBijection
  <2> QED BY <2>1, <2>2
<1>3. q = Ptb!SetToSeq(R)
  BY DEF Ptb!Seeded
<1>4. R \subseteq Ptb!Observation
  BY DEF Ptb!Observation
<1>5. \A x \in R : x.window \in DOMAIN s /\ s[x.window] = x.diff /\ x.diff # "no"
  OBVIOUS
<1>6. \A x, y \in R : x.window = y.window => x = y
  OBVIOUS
<1>7. \A w \in DOMAIN s : s[w] # "no" => [window |-> w, diff |-> s[w]] \in R
  OBVIOUS
<1> HIDE DEF q, R
<1>8. /\ q \in Seq(R)
      /\ \A i, j \in DOMAIN q : q[i] = q[j] => i = j
      /\ \A x \in R : \E i \in DOMAIN q : q[i] = x
  BY <1>2, <1>3, SeqOfSet
<1>9. \A i \in DOMAIN q : q[i] \in R
  BY <1>8
<1>10. q \in Seq(Ptb!Observation)
  BY <1>4, <1>8
<1>11. \A i, j \in DOMAIN q : q[i].window = q[j].window => i = j
  BY <1>6, <1>8, <1>9
<1>12. \A i \in DOMAIN q : q[i].window \in DOMAIN s /\ s[q[i].window] = q[i].diff
                           /\ q[i].diff # "no"
  BY <1>5, <1>9
<1>13. \A w \in DOMAIN s : s[w] # "no" =>
         \E i \in DOMAIN q : q[i] = [window |-> w, diff |-> s[w]]
  BY <1>7, <1>8
<1> QED BY <1>10, <1>11, <1>12, <1>13 DEF FromRows, q

LEMMA PtbStarts ==
  ASSUME Ptb!ConstantsOK, Ptb!Init
  PROVE  PtbInv
<1> USE PtbNumbers
<1>1. PICK p \in StreamPrices : tick = [w \in Ptb!Windows |-> IF w = 1 THEN p ELSE Ptb!NoPrice]
  BY DEF Ptb!Init
<1>2. \A w \in Ptb!Windows : store[w] = "no"
  BY DEF Ptb!Init, Ptb!ConstantsOK, Ptb!Windows, Ptb!Past
<1>3. store \in [Ptb!Past \union Ptb!Windows -> Ptb!Diffs \union {"no"}]
  BY DEF Ptb!Init, Ptb!Diffs
<1>4. obs = Ptb!Seeded(store)
  BY DEF Ptb!Init
<1>5. /\ obs \in Seq(Ptb!Observation) /\ OnceEach
      /\ \A w \in Ptb!Windows : ~Observed(w)
  <2>1. PICK q : q = Ptb!Seeded(store)
    OBVIOUS
  <2>2. FromRows(q, store)
    BY <1>3, <2>1, Seeding
  <2> QED BY <1>2, <1>4, <2>1, <2>2 DEF FromRows, OnceEach, Observed
<1>6. PtbType
  BY <1>1, <1>3, <1>5
     DEF PtbType, Ptb!Init, Hubs, Gammas, Trades, Ptb!Untracked, Ptb!NotTraded, Ptb!NoPrice
<1>7. \A w \in Ptb!Windows : AfterWindow(w) /\ HoldsTick(w) /\ Judged(w) /\ FoundInv(w)
  BY <1>2, <1>5
     DEF Ptb!Init, Ptb!NoPrice, AfterWindow, HoldsTick, Judged, FoundInv
<1>8. TradeInv
  BY <1>5 DEF Ptb!Init, Ptb!NotTraded, TradeInv, OnStream
<1> QED BY <1>5, <1>6, <1>7, <1>8 DEF PtbInv, EvidenceInv

(* What a tick does to the series. *)
LEMMA PtbAccept ==
  ASSUME Ptb!ConstantsOK, PtbType, NEW r \in BOOLEAN, Ptb!Accept(r)
  PROVE  /\ last' \in Nat /\ held' \in [Ptb!Windows -> Nat]
         /\ \A w \in Ptb!Windows : \/ held'[w] = held[w]
                                   \/ held'[w] = tick[w] /\ now = Ptb!Start(w)
                                   \/ held'[w] = Ptb!NoPrice /\ Late(w)
<1>1. CASE ~(last < now)
  BY <1>1 DEF PtbType, Ptb!Accept
<1>2. CASE last < now
  <2>1. /\ last' = now
        /\ held' = [w \in Ptb!Windows |->
                      IF now > Ptb!Start(w) + Keep THEN Ptb!NoPrice
                      ELSE IF Ptb!Start(w) = now /\ ~r THEN tick[w] ELSE held[w]]
    BY <1>2 DEF Ptb!Accept, Ptb!Retained
  <2> QED BY <2>1 DEF PtbType, Late, Ptb!NoPrice
<1> QED BY <1>1, <1>2

LEMMA PtbTicks ==
  ASSUME Ptb!ConstantsOK, PtbInv, Ptb!Backfill \/ Ptb!LiveTick
  PROVE  PtbInv'
<1>1. PICK r \in BOOLEAN : Ptb!Accept(r)
  BY DEF Ptb!Backfill, Ptb!LiveTick
<1>2. UNCHANGED <<now, tick, gamma, hub, obs, new, store, incidents, traded, found, restarts>>
  BY DEF Ptb!Backfill, Ptb!LiveTick
<1>3. /\ last' \in Nat /\ held' \in [Ptb!Windows -> Nat]
      /\ \A w \in Ptb!Windows : \/ held'[w] = held[w]
                                \/ held'[w] = tick[w] /\ now = Ptb!Start(w)
                                \/ held'[w] = Ptb!NoPrice /\ Late(w)
  BY <1>1, PtbAccept DEF PtbInv
<1>4. PtbType'
  BY <1>2, <1>3 DEF PtbInv, PtbType
<1>5. OnceEach'
  BY <1>2 DEF PtbInv, EvidenceInv, OnceEach
<1>6. ASSUME NEW w \in Ptb!Windows
      PROVE  (AfterWindow(w) /\ HoldsTick(w) /\ Judged(w) /\ FoundInv(w))'
  <2>1. AfterWindow(w) /\ HoldsTick(w) /\ Judged(w) /\ FoundInv(w)
    BY DEF PtbInv, EvidenceInv
  <2>2. AfterWindow(w)' /\ FoundInv(w)'
    BY <1>2, <2>1 DEF AfterWindow, FoundInv, Observed
  <2>3. now \in Nat /\ w \in Nat /\ Ptb!Start(w) \in Nat /\ Ptb!End(w) \in Nat
        /\ Ptb!Start(w) < Ptb!End(w)
    BY PtbNumbers DEF PtbInv, PtbType
  <2>4. HoldsTick(w)'
    BY <1>2, <1>3, <2>1, <2>3 DEF HoldsTick
  <2>5. Judged(w)'
    BY <1>2, <1>3, <2>1, <2>3 DEF Judged, AfterWindow, Observed
  <2> QED BY <2>2, <2>4, <2>5
<1>7. TradeInv'
  BY <1>2, <1>3 DEF PtbInv, TradeInv, OnStream, Late, Observed, Ptb!WrongPrice
<1> QED BY <1>4, <1>5, <1>6, <1>7 DEF PtbInv, EvidenceInv

LEMMA PtbClock ==
  ASSUME Ptb!ConstantsOK, PtbInv, Ptb!ClockAdvances
  PROVE  PtbInv'
<1>1. /\ now' = now + 1 /\ now \in Nat
      /\ UNCHANGED <<gamma, last, held, hub, obs, new, store, incidents, traded, found, restarts>>
  BY DEF Ptb!ClockAdvances, Ptb!stream, PtbInv, PtbType
<1>2. PICK p \in StreamPrices :
        tick' = [w \in Ptb!Windows |-> IF Ptb!Start(w) = now + 1 THEN p ELSE tick[w]]
  BY DEF Ptb!ClockAdvances
<1>3. PtbType'
  BY <1>1, <1>2, PtbNumbers DEF PtbInv, PtbType
<1>4. OnceEach'
  BY <1>1 DEF PtbInv, EvidenceInv, OnceEach
<1>5. \A w \in Ptb!Windows : now >= Ptb!Start(w) => tick'[w] = tick[w]
  BY <1>1, <1>2, PtbNumbers
<1>6. ASSUME NEW w \in Ptb!Windows
      PROVE  (AfterWindow(w) /\ HoldsTick(w) /\ Judged(w) /\ FoundInv(w))'
  <2>1. AfterWindow(w) /\ HoldsTick(w) /\ Judged(w) /\ FoundInv(w)
    BY DEF PtbInv, EvidenceInv
  <2>2. w \in Nat /\ Ptb!Start(w) \in Nat /\ Ptb!End(w) \in Nat
        /\ Ptb!Start(w) < Ptb!End(w)
    BY PtbNumbers
  <2>3. AfterWindow(w)' /\ HoldsTick(w)'
    BY <1>1, <1>5, <2>1, <2>2 DEF AfterWindow, HoldsTick, Observed
  <2>4. Judged(w)'
    BY <1>1, <1>5, <2>1, <2>2 DEF Judged, AfterWindow, Observed
  <2>5. FoundInv(w)'
    BY <1>1, <2>1 DEF FoundInv
  <2> QED BY <2>3, <2>4, <2>5
<1>7. ASSUME NEW w \in Ptb!Windows
      PROVE  (/\ traded[w].session <= restarts
              /\ traded[w].source = "rtds" =>
                   traded[w].price = tick[w] /\ tick[w] # Ptb!NoPrice /\ now >= Ptb!Start(w)
              /\ OnStream(w) /\ ~Late(w) => held[w] = tick[w]
              /\ OnStream(w) /\ hub[w].official = Ptb!NoPrice => ~Observed(w)
              /\ OnStream(w) /\ Ptb!WrongPrice(w) => w \in new \union incidents \/ Late(w))'
  <2>1. /\ traded[w].session <= restarts
        /\ traded[w].source = "rtds" =>
             traded[w].price = tick[w] /\ tick[w] # Ptb!NoPrice /\ now >= Ptb!Start(w)
        /\ OnStream(w) /\ ~Late(w) => held[w] = tick[w]
        /\ OnStream(w) /\ hub[w].official = Ptb!NoPrice => ~Observed(w)
        /\ OnStream(w) /\ Ptb!WrongPrice(w) => w \in new \union incidents \/ Late(w)
    BY DEF PtbInv, TradeInv
  <2>2. w \in Nat /\ Ptb!Start(w) \in Nat /\ Keep \in Nat
    BY PtbNumbers
  <2>3. /\ OnStream(w)' => OnStream(w)
        /\ Observed(w)' <=> Observed(w)
        /\ Ptb!WrongPrice(w)' <=> Ptb!WrongPrice(w)
        /\ Late(w) => Late(w)'
    BY <1>1, <2>2 DEF OnStream, Observed, Ptb!WrongPrice, Late
  <2>4. OnStream(w) => traded[w].source = "rtds"
    BY DEF OnStream
  <2>5. traded[w].source = "rtds" => now >= Ptb!Start(w) /\ tick'[w] = tick[w]
    BY <1>5, <2>1
  <2> QED BY <1>1, <2>1, <2>2, <2>3, <2>4, <2>5
<1>8. TradeInv'
  BY <1>7 DEF TradeInv
<1> QED BY <1>3, <1>4, <1>6, <1>8 DEF PtbInv, EvidenceInv

LEMMA PtbPublishes ==
  ASSUME Ptb!ConstantsOK, PtbInv, NEW v \in Ptb!Windows, Ptb!GammaPublishes(v)
  PROVE  PtbInv'
<1>1. /\ now >= Ptb!End(v)
      /\ UNCHANGED <<now, tick, last, held, hub, obs, new, store, incidents, traded, found,
                     restarts>>
  BY DEF Ptb!GammaPublishes, Ptb!stream
<1>2. /\ gamma' \in [Ptb!Windows -> Gammas]
      /\ \A w \in Ptb!Windows : gamma'[w].ptb # gamma[w].ptb =>
           w = v /\ gamma[w].ptb = Ptb!NoPrice
  <2>1. PICK g : g = gamma[v]
    OBVIOUS
  <2>2. g \in Gammas /\ gamma \in [Ptb!Windows -> Gammas]
    BY <2>1 DEF PtbInv, PtbType
  <2>3. PICK r \in Gammas : /\ gamma' = [gamma EXCEPT ![v] = r]
                            /\ r.ptb # g.ptb => g.ptb = Ptb!NoPrice
    <3>1. CASE g.ptb = Ptb!NoPrice /\ \E p \in Prices : gamma' = [gamma EXCEPT ![v].ptb = p]
      <4>1. PICK p \in Prices : gamma' = [gamma EXCEPT ![v].ptb = p]
        BY <3>1
      <4>2. PICK r : r = [g EXCEPT !.ptb = p]
        OBVIOUS
      <4>3. p \in Nat
        BY PtbNumbers
      <4>4. r \in Gammas
        BY <2>2, <4>2, <4>3 DEF Gammas
      <4>5. gamma' = [gamma EXCEPT ![v] = r]
        BY <2>1, <4>1, <4>2
      <4> QED BY <3>1, <4>4, <4>5
    <3>2. CASE \E p \in Prices : gamma' = [gamma EXCEPT ![v].final = p]
      <4>1. PICK p \in Prices : gamma' = [gamma EXCEPT ![v].final = p]
        BY <3>2
      <4>2. PICK r : r = [g EXCEPT !.final = p]
        OBVIOUS
      <4>3. p \in Nat
        BY PtbNumbers
      <4>4. r \in Gammas /\ r.ptb = g.ptb
        BY <2>2, <4>2, <4>3 DEF Gammas
      <4>5. gamma' = [gamma EXCEPT ![v] = r]
        BY <2>1, <4>1, <4>2
      <4> QED BY <4>4, <4>5
    <3>3. CASE \E o \in Ptb!Outcomes : gamma' = [gamma EXCEPT ![v].winner = o]
      <4>1. PICK o \in Ptb!Outcomes : gamma' = [gamma EXCEPT ![v].winner = o]
        BY <3>3
      <4>2. PICK r : r = [g EXCEPT !.winner = o]
        OBVIOUS
      <4>4. r \in Gammas /\ r.ptb = g.ptb
        BY <2>2, <4>2 DEF Gammas
      <4>5. gamma' = [gamma EXCEPT ![v] = r]
        BY <2>1, <4>1, <4>2
      <4> QED BY <4>4, <4>5
    <3> QED BY <2>1, <3>1, <3>2, <3>3 DEF Ptb!GammaPublishes
  <2> QED BY <2>1, <2>2, <2>3
<1>3. PtbType'
  BY <1>1, <1>2 DEF PtbInv, PtbType
<1>4. OnceEach'
  BY <1>1 DEF PtbInv, EvidenceInv, OnceEach
<1>5. \A w \in Ptb!Windows : (AfterWindow(w) /\ HoldsTick(w) /\ Judged(w) /\ FoundInv(w))'
  BY <1>1, <1>2 DEF PtbInv, EvidenceInv, AfterWindow, HoldsTick, Judged, FoundInv, Observed
<1>6. TradeInv'
  BY <1>1 DEF PtbInv, TradeInv, OnStream, Late, Observed, Ptb!WrongPrice
<1> QED BY <1>3, <1>4, <1>5, <1>6 DEF PtbInv, EvidenceInv

LEMMA PtbStream ==
  ASSUME Ptb!ConstantsOK, PtbInv,
         \/ Ptb!StreamConnects \/ Ptb!StreamLost \/ Ptb!Settle \/ Ptb!CheckEvidence \/ Ptb!StepDone
         \/ UNCHANGED Ptb!vars
  PROVE  PtbInv'
<1>1. /\ UNCHANGED <<now, tick, gamma, last, held, hub, obs, store, traded, found, restarts>>
      /\ new \union incidents \subseteq (new \union incidents)'
  BY DEF Ptb!StreamConnects, Ptb!StreamLost, Ptb!Settle, Ptb!CheckEvidence, Ptb!StepDone,
         Ptb!vars, Ptb!stream, Ptb!core
<1>2. PtbType'
  BY <1>1 DEF PtbInv, PtbType
<1>3. EvidenceInv'
  BY <1>1 DEF PtbInv, EvidenceInv, OnceEach, AfterWindow, HoldsTick, Judged, FoundInv, Observed
<1>4. TradeInv'
  BY <1>1 DEF PtbInv, TradeInv, OnStream, Late, Observed, Ptb!WrongPrice
<1> QED BY <1>2, <1>3, <1>4 DEF PtbInv

LEMMA PtbCli ==
  ASSUME Ptb!ConstantsOK, PtbInv, NEW v \in Ptb!Windows, Ptb!CliValidates(v)
  PROVE  PtbInv'
<1>1. /\ UNCHANGED <<now, tick, gamma, last, held, hub, obs, new, incidents, traded, found,
                     restarts>>
      /\ gamma[v].ptb # Ptb!NoPrice /\ store[v] = "no"
  BY DEF Ptb!CliValidates, Ptb!stream
<1>2. PICK d \in {"none", "match", "mismatch"} :
        /\ store' = [store EXCEPT ![v] = d]
        /\ d = "match" => tick[v] = gamma[v].ptb
  BY <1>1 DEF Ptb!CliValidates, Ptb!Stored
<1>3. /\ store' \in [Ptb!Past \union Ptb!Windows -> Ptb!Diffs \union {"no"}]
      /\ store'[v] = d
      /\ \A w \in Ptb!Windows : w # v => store'[w] = store[w]
  BY <1>2 DEF PtbInv, PtbType, Ptb!Diffs
<1>4. PtbType'
  BY <1>1, <1>3 DEF PtbInv, PtbType
<1>5. OnceEach'
  BY <1>1 DEF PtbInv, EvidenceInv, OnceEach
<1>6. ASSUME NEW w \in Ptb!Windows
      PROVE  (AfterWindow(w) /\ HoldsTick(w) /\ Judged(w) /\ FoundInv(w))'
  <2>1. AfterWindow(w) /\ HoldsTick(w) /\ Judged(w) /\ FoundInv(w)
    BY DEF PtbInv, EvidenceInv
  <2>2. AfterWindow(w)' /\ HoldsTick(w)'
    BY <1>1, <1>3, <2>1 DEF AfterWindow, HoldsTick, Observed
  <2>3. Judged(w)'
    BY <1>1, <1>2, <1>3, <2>1 DEF Judged, Observed
  <2>4. FoundInv(w)'
    BY <1>1, <1>3, <2>1 DEF FoundInv
  <2> QED BY <2>2, <2>3, <2>4
<1>7. TradeInv'
  BY <1>1 DEF PtbInv, TradeInv, OnStream, Late, Observed, Ptb!WrongPrice
<1> QED BY <1>4, <1>5, <1>6, <1>7 DEF PtbInv, EvidenceInv

LEMMA PtbEnter ==
  ASSUME Ptb!ConstantsOK, PtbInv, NEW v \in Ptb!Windows, Ptb!Enter(v)
  PROVE  PtbInv'
<1>1. /\ UNCHANGED <<now, tick, gamma, last, held, hub, obs, new, store, incidents, found,
                     restarts>>
      /\ Ptb!Start(v) <= now /\ now < Ptb!End(v)
  BY DEF Ptb!Enter, Ptb!MayEnter, Ptb!stream
<1>2. PICK r \in Trades :
        /\ traded' = [traded EXCEPT ![v] = r]
        /\ r.session = restarts
        /\ r.source = "rtds" => /\ r.price = held[v] /\ held[v] # Ptb!NoPrice
                                /\ hub[v].official = Ptb!NoPrice
  <2>1. PICK r : r = [source |-> Ptb!VerifiedBy(v),
                      price |-> IF Ptb!VerifiedBy(v) = "rtds" THEN held[v] ELSE hub[v].official,
                      session |-> restarts]
    OBVIOUS
  <2>2. /\ Ptb!VerifiedBy(v) \in {"none", "gamma+rtds", "gamma", "rtds"}
        /\ Ptb!VerifiedBy(v) = "rtds" => held[v] # Ptb!NoPrice /\ hub[v].official = Ptb!NoPrice
    BY DEF Ptb!VerifiedBy
  <2>3. held[v] \in Nat /\ hub[v].official \in Nat /\ restarts \in Nat
    BY DEF PtbInv, PtbType, Hubs
  <2>4. r \in Trades
    BY <2>1, <2>2, <2>3 DEF Trades
  <2> QED BY <2>1, <2>2, <2>4 DEF Ptb!Enter
<1>3. /\ traded' \in [Ptb!Windows -> Trades] /\ traded'[v] = r
      /\ \A w \in Ptb!Windows : w # v => traded'[w] = traded[w]
  BY <1>2 DEF PtbInv, PtbType
<1>4. PtbType'
  BY <1>1, <1>3 DEF PtbInv, PtbType
<1>5. EvidenceInv'
  BY <1>1 DEF PtbInv, EvidenceInv, OnceEach, AfterWindow, HoldsTick, Judged, FoundInv, Observed
<1>6. ASSUME NEW w \in Ptb!Windows, w # v
      PROVE  (/\ traded[w].session <= restarts
              /\ traded[w].source = "rtds" =>
                   traded[w].price = tick[w] /\ tick[w] # Ptb!NoPrice /\ now >= Ptb!Start(w)
              /\ OnStream(w) /\ ~Late(w) => held[w] = tick[w]
              /\ OnStream(w) /\ hub[w].official = Ptb!NoPrice => ~Observed(w)
              /\ OnStream(w) /\ Ptb!WrongPrice(w) => w \in new \union incidents \/ Late(w))'
  BY <1>1, <1>3, <1>6 DEF PtbInv, TradeInv, OnStream, Late, Observed, Ptb!WrongPrice
<1>7. (/\ traded[v].session <= restarts
       /\ traded[v].source = "rtds" =>
            traded[v].price = tick[v] /\ tick[v] # Ptb!NoPrice /\ now >= Ptb!Start(v)
       /\ OnStream(v) /\ ~Late(v) => held[v] = tick[v]
       /\ OnStream(v) /\ hub[v].official = Ptb!NoPrice => ~Observed(v)
       /\ OnStream(v) /\ Ptb!WrongPrice(v) => v \in new \union incidents \/ Late(v))'
  <2>1. restarts \in Nat /\ now \in Nat /\ Ptb!Start(v) \in Nat /\ Ptb!End(v) \in Nat
    BY PtbNumbers DEF PtbInv, PtbType
  <2>2. HoldsTick(v) /\ AfterWindow(v)
    BY DEF PtbInv, EvidenceInv
  <2>3. ~Observed(v)
    BY <1>1, <2>1, <2>2 DEF AfterWindow
  <2>4. ~Observed(v)'
    BY <1>1, <2>3 DEF Observed
  <2>5. r.source = "rtds" => held[v] = tick[v]
    BY <1>2, <2>2 DEF HoldsTick
  <2>6. OnStream(v)' => r.source = "rtds"
    BY <1>3 DEF OnStream
  <2>7. ~(OnStream(v)' /\ Ptb!WrongPrice(v)')
    BY <1>1, <1>2, <2>6 DEF Ptb!WrongPrice
  <2> QED BY <1>1, <1>2, <1>3, <2>1, <2>4, <2>5, <2>6, <2>7
<1>8. TradeInv'
  BY <1>6, <1>7 DEF TradeInv
<1> QED BY <1>4, <1>5, <1>8 DEF PtbInv

LEMMA PtbCrash ==
  ASSUME Ptb!ConstantsOK, PtbInv, Ptb!Crash
  PROVE  PtbInv'
<1>1. /\ UNCHANGED <<now, tick, gamma, store, incidents, traded, found>>
      /\ restarts' = restarts + 1 /\ last' = 0
      /\ held' = [w \in Ptb!Windows |-> Ptb!NoPrice]
      /\ hub' = [w \in Ptb!Windows |-> Ptb!Untracked]
      /\ obs' = Ptb!Seeded(store)
  BY DEF Ptb!Crash
<1>2. store \in [Ptb!Past \union Ptb!Windows -> Ptb!Diffs \union {"no"}] /\ restarts \in Nat
  BY DEF PtbInv, PtbType
<1>3. PICK q : q = Ptb!Seeded(store)
  OBVIOUS
<1>4. FromRows(q, store)
  BY <1>2, <1>3, Seeding
<1>5. obs' = q
  BY <1>1, <1>3
<1>6. PtbType'
  BY <1>1, <1>2, <1>4, <1>5
     DEF FromRows, PtbInv, PtbType, Hubs, Ptb!Untracked, Ptb!NoPrice
<1>7. OnceEach'
  BY <1>4, <1>5 DEF FromRows, OnceEach
<1>8. ASSUME NEW w \in Ptb!Windows
      PROVE  (AfterWindow(w) /\ HoldsTick(w) /\ Judged(w) /\ FoundInv(w))'
  <2>1. AfterWindow(w) /\ HoldsTick(w) /\ Judged(w) /\ FoundInv(w)
    BY DEF PtbInv, EvidenceInv
  <2>2. Observed(w)' => store[w] # "no"
    BY <1>4, <1>5 DEF FromRows, Observed
  <2>3. AfterWindow(w)' /\ HoldsTick(w)'
    BY <1>1, <2>1, <2>2 DEF AfterWindow, HoldsTick
  <2>4. Judged(w)'
    BY <1>1, <2>1 DEF Judged
  <2>5. FoundInv(w)'
    <3>1. CASE w \in found /\ store[w] = "mismatch"
      <4>1. w \in DOMAIN store
        BY <1>2
      <4>2. \E i \in DOMAIN q : q[i] = [window |-> w, diff |-> "mismatch"]
        BY <1>4, <3>1, <4>1 DEF FromRows
      <4> QED BY <1>1, <1>5, <2>1, <4>2 DEF FoundInv
    <3>2. CASE w \notin found \/ store[w] # "mismatch"
      BY <1>1, <2>1, <3>2 DEF FoundInv
    <3> QED BY <3>1, <3>2
  <2> QED BY <2>3, <2>4, <2>5
<1>9. \A w \in Ptb!Windows : traded[w].session <= restarts /\ traded[w].session \in Nat
  BY DEF PtbInv, PtbType, TradeInv, Trades
<1>10. \A w \in Ptb!Windows : OnStream(w)' => FALSE
  BY <1>1, <1>2, <1>9 DEF OnStream
<1>11. \A w \in Ptb!Windows : traded[w].session <= restarts + 1
  BY <1>2, <1>9
<1>12. TradeInv'
  BY <1>1, <1>10, <1>11 DEF PtbInv, TradeInv
<1> QED BY <1>6, <1>7, <1>8, <1>12 DEF PtbInv, EvidenceInv

LEMMA PtbGamma ==
  ASSUME Ptb!ConstantsOK, PtbInv, NEW v \in Ptb!Windows, Ptb!OnGamma(v)
  PROVE  PtbInv'
<1>1. UNCHANGED <<now, tick, gamma, last, held, incidents, traded, restarts>>
  BY DEF Ptb!OnGamma, Ptb!stream
<1>2. PICK g, h, d : g = gamma[v] /\ h = hub[v] /\ d = Ptb!DiffOf(v, g.ptb)
  OBVIOUS
<1>3. /\ g \in Gammas /\ h \in Hubs /\ held[v] \in Nat /\ d \in Ptb!Diffs
      /\ v \in Nat /\ now \in Nat /\ Ptb!Start(v) \in Nat /\ Ptb!End(v) \in Nat
      /\ obs \in Seq(Ptb!Observation)
  BY <1>2, PtbNumbers DEF PtbInv, PtbType, Ptb!DiffOf, Ptb!Diffs
<1> DEFINE published == g.ptb # Ptb!NoPrice /\ h.official = Ptb!NoPrice
<1>4. PICK r \in Hubs : /\ hub' = [hub EXCEPT ![v] = r]
                        /\ r.official = IF published THEN g.ptb ELSE h.official
  <2>1. PICK r : r = [tracked |-> TRUE,
                      official |-> IF published THEN g.ptb ELSE h.official,
                      winner |-> IF g.winner # "none" /\ h.winner = "none" THEN g.winner
                                 ELSE h.winner,
                      consistent |-> IF g.winner # "none" /\ h.winner = "none"
                                     THEN Ptb!Consistent(g) ELSE h.consistent]
    OBVIOUS
  <2>2. Ptb!Consistent(g) \in BOOLEAN
    BY DEF Ptb!Consistent
  <2>3. r \in Hubs
    BY <1>3, <2>1, <2>2 DEF Hubs, Gammas
  <2>4. hub' = [hub EXCEPT ![v] = r]
    BY <1>2, <2>1 DEF Ptb!OnGamma
  <2> QED BY <2>1, <2>3, <2>4
<1>5. /\ hub' \in [Ptb!Windows -> Hubs] /\ hub'[v] = r
      /\ \A w \in Ptb!Windows : w # v => hub'[w] = hub[w]
  BY <1>4 DEF PtbInv, PtbType
<1>6. CASE ~published
  <2>1. UNCHANGED <<obs, store, new, found>>
    BY <1>2, <1>6 DEF Ptb!OnGamma
  <2>2. \A w \in Ptb!Windows : hub'[w].official = hub[w].official
    BY <1>2, <1>4, <1>5, <1>6
  <2>3. PtbType'
    BY <1>1, <1>5, <2>1 DEF PtbInv, PtbType
  <2>4. EvidenceInv'
    BY <1>1, <2>1, <2>2
       DEF PtbInv, EvidenceInv, OnceEach, AfterWindow, HoldsTick, Judged, FoundInv, Observed
  <2>5. TradeInv'
    BY <1>1, <2>1, <2>2 DEF PtbInv, TradeInv, OnStream, Late, Observed, Ptb!WrongPrice
  <2> QED BY <2>3, <2>4, <2>5 DEF PtbInv
<1>7. CASE published /\ Observed(v)
  <2>1. held[v] = Ptb!NoPrice
    BY <1>2, <1>7 DEF PtbInv, EvidenceInv, Judged
  <2>2. d = "none"
    BY <1>2, <2>1 DEF Ptb!DiffOf
  <2>3. UNCHANGED <<obs, store, new, found>>
    BY <1>2, <1>7, <2>2 DEF Ptb!OnGamma, Ptb!Observe, Observed
  <2>4. ~OnStream(v)
    BY <1>2, <1>7 DEF PtbInv, TradeInv
  <2>5. PtbType'
    BY <1>1, <1>5, <2>3 DEF PtbInv, PtbType
  <2>6. \A w \in Ptb!Windows : hub'[w].official # Ptb!NoPrice \/ hub'[w].official = hub[w].official
    BY <1>2, <1>4, <1>5, <1>7
  <2>7. EvidenceInv'
    BY <1>1, <2>3, <2>6
       DEF PtbInv, EvidenceInv, OnceEach, AfterWindow, HoldsTick, Judged, FoundInv, Observed
  <2>8. TradeInv'
    BY <1>1, <1>5, <2>3, <2>4 DEF PtbInv, TradeInv, OnStream, Late, Observed, Ptb!WrongPrice
  <2> QED BY <2>5, <2>7, <2>8 DEF PtbInv
<1>8. CASE published /\ ~Observed(v)
  <2>1. /\ obs' = Append(obs, [window |-> v, diff |-> d])
        /\ store' = Ptb!Stored(store, v, d)
        /\ new' = IF d = "mismatch" THEN new \union {v} ELSE new
        /\ found' = IF d = "mismatch" THEN found \union {v} ELSE found
    BY <1>2, <1>8 DEF Ptb!OnGamma, Ptb!Observe, Observed
  <2>2. PICK e : e = [window |-> v, diff |-> d]
    OBVIOUS
  <2>3. e \in Ptb!Observation
    BY <1>3, <2>2 DEF Ptb!Observation
  <2>4. /\ obs' \in Seq(Ptb!Observation)
        /\ DOMAIN obs' = DOMAIN obs \union {Len(obs) + 1}
        /\ \A i \in DOMAIN obs : obs'[i] = obs[i]
        /\ obs'[Len(obs) + 1] = e
    BY <1>3, <2>1, <2>2, <2>3
  <2>5. \A w : Observed(w)' <=> Observed(w) \/ w = v
    BY <2>2, <2>4 DEF Observed
  <2>6. /\ store' \in [Ptb!Past \union Ptb!Windows -> Ptb!Diffs \union {"no"}]
        /\ store'[v] = IF store[v] = "no" THEN d ELSE store[v]
        /\ \A w \in Ptb!Windows : w # v => store'[w] = store[w]
    BY <1>3, <2>1 DEF PtbInv, PtbType, Ptb!Stored
  <2>7. PtbType'
    BY <1>1, <1>3, <1>5, <2>1, <2>4, <2>6 DEF PtbInv, PtbType
  <2>8. OnceEach'
    BY <1>8, <2>2, <2>4 DEF PtbInv, EvidenceInv, OnceEach, Observed
  <2>9. /\ AfterWindow(v) /\ HoldsTick(v) /\ Judged(v) /\ FoundInv(v)
        /\ now >= Ptb!End(v)
        /\ r.official = g.ptb /\ g.ptb # Ptb!NoPrice
    BY <1>2, <1>4, <1>8 DEF PtbInv, EvidenceInv, AfterWindow
  <2>10. d = IF held[v] = Ptb!NoPrice THEN "none"
             ELSE IF held[v] = g.ptb THEN "match" ELSE "mismatch"
    BY <1>2 DEF Ptb!DiffOf
  <2>11. ASSUME NEW w \in Ptb!Windows, w # v
         PROVE  (AfterWindow(w) /\ HoldsTick(w) /\ Judged(w) /\ FoundInv(w))'
    <3>1. AfterWindow(w) /\ HoldsTick(w) /\ Judged(w) /\ FoundInv(w)
      BY DEF PtbInv, EvidenceInv
    <3>2. hub'[w] = hub[w] /\ store'[w] = store[w] /\ (Observed(w)' <=> Observed(w))
          /\ (w \in found' => w \in found)
      BY <1>5, <2>1, <2>5, <2>6, <2>11
    <3>3. (AfterWindow(w) /\ HoldsTick(w) /\ Judged(w))'
      BY <1>1, <3>1, <3>2 DEF AfterWindow, HoldsTick, Judged
    <3>4. FoundInv(w)'
      BY <2>4, <3>1, <3>2 DEF FoundInv
    <3> QED BY <3>3, <3>4
  <2>12. (AfterWindow(v) /\ HoldsTick(v) /\ Judged(v))'
    BY <1>1, <1>2, <1>5, <2>6, <2>9, <2>10 DEF AfterWindow, HoldsTick, Judged
  <2>13. FoundInv(v)'
    <3>1. v \in found => store[v] = "none"
      BY <1>8, <2>9 DEF FoundInv, Observed
    <3>2. d = "mismatch" => store[v] # "match"
      BY <1>2, <2>9, <2>10 DEF Judged, HoldsTick
    <3>3. d = "mismatch" => e = [window |-> v, diff |-> "mismatch"]
      BY <2>2
    <3>4. store[v] \in Ptb!Diffs \union {"no"}
      BY DEF PtbInv, PtbType
    <3>5. v \in found' => v \in found \/ d = "mismatch"
      BY <2>1
    <3>6. CASE d = "mismatch"
      <4>1. store'[v] \in {"none", "mismatch"}
        BY <2>6, <3>2, <3>4, <3>6 DEF Ptb!Diffs
      <4>2. \E i \in DOMAIN obs' : obs'[i] = [window |-> v, diff |-> "mismatch"]
        BY <2>4, <3>3, <3>6
      <4> QED BY <4>1, <4>2 DEF FoundInv
    <3>7. CASE d # "mismatch"
      BY <2>6, <3>1, <3>5, <3>7 DEF FoundInv
    <3> QED BY <3>6, <3>7
  <2>14. EvidenceInv'
    BY <2>8, <2>11, <2>12, <2>13 DEF EvidenceInv
  <2>15. \A w \in Ptb!Windows : w # v =>
           hub'[w] = hub[w] /\ (Observed(w)' <=> Observed(w)) /\ (w \in new => w \in new')
    BY <1>5, <2>1, <2>5
  <2>16. ASSUME OnStream(v), ~Late(v), Ptb!WrongPrice(v)'
         PROVE  v \in new'
    <3>1. traded[v].price # g.ptb
      BY <1>1, <1>5, <2>9, <2>16 DEF Ptb!WrongPrice
    <3>2. held[v] = tick[v] /\ traded[v].price = tick[v] /\ tick[v] # Ptb!NoPrice
      BY <2>16 DEF PtbInv, TradeInv, OnStream
    <3> QED BY <2>1, <2>10, <3>1, <3>2
  <2>17. hub'[v].official # Ptb!NoPrice
    BY <1>5, <2>9
  <2>18. TradeInv'
    <3>1. \A w \in Ptb!Windows : /\ OnStream(w)' <=> OnStream(w)
                                 /\ Late(w)' <=> Late(w)
      BY <1>1 DEF OnStream, Late
    <3>2. ASSUME NEW w \in Ptb!Windows
          PROVE  (/\ traded[w].session <= restarts
                  /\ traded[w].source = "rtds" =>
                       traded[w].price = tick[w] /\ tick[w] # Ptb!NoPrice /\ now >= Ptb!Start(w)
                  /\ OnStream(w) /\ ~Late(w) => held[w] = tick[w])'
      BY <1>1, <3>1 DEF PtbInv, TradeInv
    <3>3. ASSUME NEW w \in Ptb!Windows, w # v
          PROVE  (/\ OnStream(w) /\ hub[w].official = Ptb!NoPrice => ~Observed(w)
                  /\ OnStream(w) /\ Ptb!WrongPrice(w) => w \in new \union incidents \/ Late(w))'
      <4>1. /\ OnStream(w) /\ hub[w].official = Ptb!NoPrice => ~Observed(w)
            /\ OnStream(w) /\ Ptb!WrongPrice(w) => w \in new \union incidents \/ Late(w)
        BY DEF PtbInv, TradeInv
      <4>2. Ptb!WrongPrice(w)' <=> Ptb!WrongPrice(w)
        BY <1>1, <2>15, <3>3 DEF Ptb!WrongPrice
      <4> QED BY <1>1, <2>15, <3>1, <3>3, <4>1, <4>2
    <3>4. (/\ OnStream(v) /\ hub[v].official = Ptb!NoPrice => ~Observed(v)
           /\ OnStream(v) /\ Ptb!WrongPrice(v) => v \in new \union incidents \/ Late(v))'
      BY <2>16, <2>17, <3>1
    <3> QED BY <3>2, <3>3, <3>4 DEF TradeInv
  <2> QED BY <2>7, <2>14, <2>18 DEF PtbInv
<1> QED BY <1>6, <1>7, <1>8

LEMMA PtbStep ==
  ASSUME Ptb!ConstantsOK, PtbInv, [Ptb!Next]_(Ptb!vars)
  PROVE  PtbInv'
<1>1. CASE Ptb!Backfill \/ Ptb!LiveTick
  BY <1>1, PtbTicks
<1>2. CASE Ptb!ClockAdvances
  BY <1>2, PtbClock
<1>3. CASE \E w \in Ptb!Windows : Ptb!GammaPublishes(w)
  BY <1>3, PtbPublishes
<1>4. CASE \E w \in Ptb!Windows : Ptb!OnGamma(w)
  BY <1>4, PtbGamma
<1>5. CASE \E w \in Ptb!Windows : Ptb!CliValidates(w)
  BY <1>5, PtbCli
<1>6. CASE \E w \in Ptb!Windows : Ptb!Enter(w)
  BY <1>6, PtbEnter
<1>7. CASE \/ Ptb!StreamConnects \/ Ptb!StreamLost \/ Ptb!Settle \/ Ptb!CheckEvidence
           \/ Ptb!StepDone \/ UNCHANGED Ptb!vars
  BY <1>7, PtbStream
<1>8. CASE Ptb!Crash
  BY <1>8, PtbCrash
<1> QED BY <1>1, <1>2, <1>3, <1>4, <1>5, <1>6, <1>7, <1>8 DEF Ptb!Next

LEMMA PtbInvariant ==
  Ptb!ConstantsOK => (Ptb!Spec => []PtbInv)
<1> SUFFICES ASSUME Ptb!ConstantsOK PROVE Ptb!Spec => []PtbInv
  OBVIOUS
<1>1. Ptb!Init => PtbInv
  BY PtbStarts
<1>2. PtbInv /\ [Ptb!Next]_(Ptb!vars) => PtbInv'
  BY PtbStep
<1> QED BY <1>1, <1>2, PTL DEF Ptb!Spec

(* What an open gate says of the observations. *)
LEMMA OpenGate ==
  ASSUME Ptb!ConstantsOK, PtbInv, Ptb!Allowed
  PROVE  /\ Ptb!Cardinality(Ptb!MatchedWindows) >= MinWindows
         /\ \A w \in found : store[w] = "none"
<1> DEFINE M == {i \in DOMAIN obs : obs[i].diff \in {"match"}}
           J == {i \in DOMAIN obs : obs[i].diff \in {"match", "mismatch"}}
<1>1. Cardinality(M) = Cardinality(J) /\ Cardinality(J) >= MinWindows
  BY PtbSame DEF Ptb!Allowed, Ptb!NWindows, Ptb!MatchCount, Ptb!CountOf
<1>2. M \subseteq J /\ IsFiniteSet(J) /\ IsFiniteSet(M)
  <2>1. obs \in Seq(Ptb!Observation)
    BY DEF PtbInv, PtbType
  <2>2. PICK n \in Nat : DOMAIN obs = 1 .. n
    BY <2>1
  <2>3. IsFiniteSet(1 .. n)
    BY FiniteIndices
  <2>4. M \subseteq 1 .. n /\ J \subseteq 1 .. n /\ M \subseteq J
    BY <2>2
  <2> HIDE DEF M, J
  <2> QED BY <2>3, <2>4, FS_Subset
<1>3. M = J
  <2> HIDE DEF M, J
  <2> QED BY <1>1, <1>2, FS_Subset
<1>4. Cardinality(Ptb!MatchedWindows) = Cardinality(M)
  <2> DEFINE f == [i \in M |-> obs[i].window]
  <2>1. Ptb!MatchedWindows = {f[i] : i \in M}
    BY DEF Ptb!MatchedWindows
  <2>2. \A i, j \in M : f[i] = f[j] => i = j
    BY DEF PtbInv, EvidenceInv, OnceEach
  <2>3. f \in Bijection(M, Ptb!MatchedWindows)
    BY <2>1, <2>2 DEF Bijection, Injection, Surjection, IsInjective
  <2> HIDE DEF M, f
  <2> QED BY <1>2, <2>3, FS_Bijection DEF ExistsBijection
<1>5. ASSUME NEW w \in found
      PROVE  store[w] = "none"
  <2>1. FoundInv(w)
    BY DEF PtbInv, PtbType, EvidenceInv
  <2>2. \A i \in DOMAIN obs : obs[i].diff # "mismatch"
    BY <1>3
  <2> QED BY <2>1, <2>2 DEF FoundInv
<1> QED BY <1>1, <1>4, <1>5, PtbSame

(* A trade priced by the stream alone rests on MinWindows different        *)
(* windows that matched, and no process has found a mismatch that the      *)
(* table did not already have without its tick: for any windows, prices,   *)
(* losses and crashes (PriceToBeatValidator.gate, observe, seed).          *)
THEOREM StreamTradesAreProven ==
  Ptb!ConstantsOK => (Ptb!Spec => Ptb!StreamTradesHaveEvidence)
<1> SUFFICES ASSUME Ptb!ConstantsOK PROVE Ptb!Spec => Ptb!StreamTradesHaveEvidence
  OBVIOUS
<1>1. ASSUME PtbInv, Ptb!Next, NEW w \in Ptb!Windows,
             traded'[w] # traded[w], traded'[w].source = "rtds"
      PROVE  /\ Ptb!Cardinality(Ptb!MatchedWindows) >= MinWindows
             /\ \A v \in found : store[v] = "none"
  <2>1. PICK v \in Ptb!Windows : Ptb!Enter(v)
    BY <1>1 DEF Ptb!Next, Ptb!ClockAdvances, Ptb!GammaPublishes, Ptb!Backfill, Ptb!LiveTick,
         Ptb!StreamConnects, Ptb!StreamLost, Ptb!OnGamma, Ptb!CliValidates, Ptb!Settle,
         Ptb!CheckEvidence, Ptb!StepDone, Ptb!Crash
  <2>2. Ptb!VerifiedBy(v) = "rtds"
    BY <1>1, <2>1 DEF Ptb!Enter, PtbInv, PtbType
  <2>3. Ptb!Allowed
    BY <2>2 DEF Ptb!VerifiedBy
  <2> QED BY <1>1, <2>3, OpenGate
<1>2. PtbInv /\ [Ptb!Next]_(Ptb!vars) =>
        [\A w \in Ptb!Windows : traded'[w] # traded[w] /\ traded'[w].source = "rtds" =>
           /\ Ptb!Cardinality(Ptb!MatchedWindows) >= MinWindows
           /\ \A v \in found : store[v] = "none"]_(Ptb!vars)
  BY <1>1
<1> QED BY <1>2, PtbInvariant, PTL DEF Ptb!Spec, Ptb!StreamTradesHaveEvidence

(* A trade whose stream price Gamma contradicts is queued for an incident  *)
(* or has one, if Gamma answers in the lifetime of the process and before  *)
(* the series forgets the tick (hub._record_ptb_check).                    *)
THEOREM WrongPricesAreNoticed ==
  Ptb!ConstantsOK => (Ptb!Spec => []Ptb!WrongPriceIsNoticed)
<1> SUFFICES ASSUME Ptb!ConstantsOK PROVE Ptb!Spec => []Ptb!WrongPriceIsNoticed
  OBVIOUS
<1>1. PtbInv => Ptb!WrongPriceIsNoticed
  BY DEF PtbInv, TradeInv, OnStream, Late, Ptb!WrongPriceIsNoticed, Ptb!WrongPrice
<1> QED BY <1>1, PtbInvariant, PTL

\* What the types of the price to beat need beyond PtbType.
PricesType ==
  /\ tick \in [Ptb!Windows -> Ptb!Price] /\ held \in [Ptb!Windows -> Ptb!Price]
  /\ \A w \in Ptb!Windows :
       /\ gamma[w].ptb \in Ptb!Price /\ gamma[w].final \in Ptb!Price
       /\ hub[w].official \in Ptb!Price /\ traded[w].price \in Ptb!Price

ModesType ==
  /\ rtds \in {"down", "fresh", "live"} /\ pc \in {"settle", "check", "enter"}
  /\ new \subseteq Ptb!Windows /\ position \subseteq Ptb!Windows
  /\ incidents \subseteq Ptb!Windows /\ halted \in BOOLEAN

BoundsType ==
  /\ now <= MaxTime /\ last <= now
  /\ restarts \in 0..MaxFaults /\ losses \in 0..MaxFaults

LEMMA PricesKept ==
  ASSUME Ptb!ConstantsOK, PtbInv, PtbType', PricesType, [Ptb!Next]_(Ptb!vars)
  PROVE  PricesType'
<1> USE DEF Ptb!stream, Ptb!core
<1>0. /\ Ptb!NoPrice \in Ptb!Price /\ Prices \subseteq Ptb!Price /\ StreamPrices \subseteq Ptb!Price
      /\ gamma \in [Ptb!Windows -> Gammas] /\ hub \in [Ptb!Windows -> Hubs]
      /\ traded \in [Ptb!Windows -> Trades]
  BY DEF Ptb!Price, PtbInv, PtbType
<1>1. CASE Ptb!ClockAdvances
  BY <1>0, <1>1 DEF Ptb!ClockAdvances, PricesType
<1>2. CASE Ptb!Backfill \/ Ptb!LiveTick
  <2>1. PICK r \in BOOLEAN : Ptb!Accept(r)
    BY <1>2 DEF Ptb!Backfill, Ptb!LiveTick
  <2>2. held' \in [Ptb!Windows -> Ptb!Price]
    BY <1>0, <2>1 DEF Ptb!Accept, Ptb!Retained, PricesType
  <2>3. UNCHANGED <<tick, gamma, hub, traded>>
    BY <1>2 DEF Ptb!Backfill, Ptb!LiveTick
  <2> QED BY <2>2, <2>3 DEF PricesType
<1>3. CASE Ptb!StreamConnects \/ Ptb!StreamLost
  BY <1>3 DEF Ptb!StreamConnects, Ptb!StreamLost, PricesType
<1>4. ASSUME NEW v \in Ptb!Windows, Ptb!GammaPublishes(v) PROVE PricesType'
  <2>1. UNCHANGED <<tick, held, hub, traded>>
    BY <1>4 DEF Ptb!GammaPublishes
  <2>2. \A w \in Ptb!Windows : gamma'[w].ptb \in Ptb!Price /\ gamma'[w].final \in Ptb!Price
    <3>1. CASE \E p \in Prices : gamma' = [gamma EXCEPT ![v].ptb = p]
      BY <1>0, <3>1 DEF PricesType, Gammas
    <3>2. CASE \E p \in Prices : gamma' = [gamma EXCEPT ![v].final = p]
      BY <1>0, <3>2 DEF PricesType, Gammas
    <3>3. CASE \E o \in Ptb!Outcomes : gamma' = [gamma EXCEPT ![v].winner = o]
      BY <1>0, <3>3 DEF PricesType, Gammas
    <3> QED BY <1>4, <3>1, <3>2, <3>3 DEF Ptb!GammaPublishes
  <2> QED BY <2>1, <2>2 DEF PricesType
<1>5. ASSUME NEW v \in Ptb!Windows, Ptb!OnGamma(v) PROVE PricesType'
  <2>1. UNCHANGED <<tick, held, gamma, traded>>
    BY <1>5 DEF Ptb!OnGamma
  <2>2. PICK t, o, c, e : hub' = [hub EXCEPT ![v] =
                 [tracked |-> t,
                  official |-> IF o THEN gamma[v].ptb ELSE hub[v].official,
                  winner |-> c, consistent |-> e]]
    BY <1>5 DEF Ptb!OnGamma
  <2>3. PICK p \in Ptb!Price : p = IF o THEN gamma[v].ptb ELSE hub[v].official
    BY DEF PricesType
  <2>4. \A w \in Ptb!Windows : hub'[w].official \in Ptb!Price
    BY <1>0, <2>2, <2>3 DEF PricesType
  <2> QED BY <2>1, <2>4 DEF PricesType
<1>6. ASSUME NEW v \in Ptb!Windows, Ptb!CliValidates(v) PROVE PricesType'
  BY <1>6 DEF Ptb!CliValidates, PricesType
<1>7. ASSUME NEW v \in Ptb!Windows, Ptb!Enter(v) PROVE PricesType'
  <2>1. UNCHANGED <<tick, held, gamma, hub>>
    BY <1>7 DEF Ptb!Enter
  <2>2. PICK p \in Ptb!Price : p = IF Ptb!VerifiedBy(v) = "rtds" THEN held[v] ELSE hub[v].official
    BY DEF PricesType
  <2>3. traded' = [traded EXCEPT ![v] =
          [source |-> Ptb!VerifiedBy(v), price |-> p, session |-> restarts]]
    BY <1>7, <2>2 DEF Ptb!Enter
  <2>4. \A w \in Ptb!Windows : traded'[w].price \in Ptb!Price
    BY <1>0, <2>3 DEF PricesType
  <2> QED BY <2>1, <2>4 DEF PricesType
<1>8. CASE Ptb!Settle \/ Ptb!CheckEvidence \/ Ptb!StepDone
  BY <1>8 DEF Ptb!Settle, Ptb!CheckEvidence, Ptb!StepDone, PricesType
<1>9. CASE Ptb!Crash
  <2>1. /\ UNCHANGED <<tick, gamma, traded>>
        /\ held' = [w \in Ptb!Windows |-> Ptb!NoPrice] /\ hub' = [w \in Ptb!Windows |-> Ptb!Untracked]
    BY <1>9 DEF Ptb!Crash
  <2>2. \A w \in Ptb!Windows : hub'[w].official = Ptb!NoPrice
    BY <2>1 DEF Ptb!Untracked
  <2> QED BY <1>0, <2>1, <2>2 DEF PricesType
<1>10. CASE UNCHANGED Ptb!vars
  BY <1>10 DEF Ptb!vars, PricesType
<1> QED BY <1>1, <1>2, <1>3, <1>4, <1>5, <1>6, <1>7, <1>8, <1>9, <1>10 DEF Ptb!Next

LEMMA ModesKept ==
  ASSUME Ptb!ConstantsOK, PtbInv, ModesType, [Ptb!Next]_(Ptb!vars)
  PROVE  ModesType'
<1> USE DEF Ptb!stream, Ptb!core, ModesType
<1>1. CASE Ptb!ClockAdvances \/ Ptb!Backfill \/ Ptb!LiveTick \/ Ptb!StreamConnects \/ Ptb!StreamLost
  BY <1>1 DEF Ptb!ClockAdvances, Ptb!Backfill, Ptb!LiveTick, Ptb!StreamConnects, Ptb!StreamLost
<1>2. ASSUME NEW v \in Ptb!Windows, Ptb!GammaPublishes(v) \/ Ptb!CliValidates(v)
      PROVE  ModesType'
  BY <1>2 DEF Ptb!GammaPublishes, Ptb!CliValidates
<1>3. ASSUME NEW v \in Ptb!Windows, Ptb!OnGamma(v) PROVE ModesType'
  <2>1. UNCHANGED <<rtds, pc, position, incidents, halted>>
    BY <1>3 DEF Ptb!OnGamma
  <2>2. UNCHANGED new \/ new' = new \union {v}
    <3>1. UNCHANGED <<obs, store, new>> \/ Ptb!Observe(v, Ptb!DiffOf(v, gamma[v].ptb))
      BY <1>3 DEF Ptb!OnGamma
    <3> QED BY <3>1 DEF Ptb!Observe
  <2> QED BY <2>1, <2>2
<1>4. ASSUME NEW v \in Ptb!Windows, Ptb!Enter(v) PROVE ModesType'
  BY <1>4 DEF Ptb!Enter
<1>5. CASE Ptb!Settle
  <2>1. position' \subseteq position /\ pc' = "check" /\ UNCHANGED <<rtds, new, incidents>>
    BY <1>5 DEF Ptb!Settle
  <2>2. halted' \in BOOLEAN
    BY <1>5, Zenon DEF Ptb!Settle
  <2> QED BY <2>1, <2>2
<1>6. CASE Ptb!CheckEvidence
  <2>1. /\ incidents' = incidents \union new /\ new' = {} /\ pc' = "enter"
        /\ UNCHANGED <<rtds, position>>
    BY <1>6 DEF Ptb!CheckEvidence
  <2>2. halted' \in BOOLEAN
    BY <1>6, Zenon DEF Ptb!CheckEvidence
  <2> QED BY <2>1, <2>2
<1>7. CASE Ptb!StepDone \/ Ptb!Crash
  BY <1>7 DEF Ptb!StepDone, Ptb!Crash
<1>8. CASE UNCHANGED Ptb!vars
  BY <1>8 DEF Ptb!vars
<1> QED BY <1>1, <1>2, <1>3, <1>4, <1>5, <1>6, <1>7, <1>8 DEF Ptb!Next

LEMMA BoundsKept ==
  ASSUME Ptb!ConstantsOK, PtbInv, BoundsType, [Ptb!Next]_(Ptb!vars)
  PROVE  BoundsType'
<1> USE DEF Ptb!stream, BoundsType
<1>0. now \in Nat /\ last \in Nat /\ MaxTime \in Nat /\ MaxFaults \in Nat
  BY DEF PtbInv, PtbType, Ptb!ConstantsOK
<1>1. CASE Ptb!ClockAdvances
  BY <1>0, <1>1 DEF Ptb!ClockAdvances
<1>2. CASE Ptb!Backfill \/ Ptb!LiveTick
  <2>1. last' = now \/ UNCHANGED last
    BY <1>2 DEF Ptb!Backfill, Ptb!LiveTick, Ptb!Accept
  <2> QED BY <1>0, <1>2, <2>1 DEF Ptb!Backfill, Ptb!LiveTick
<1>3. CASE Ptb!StreamConnects \/ Ptb!StreamLost \/ Ptb!Crash
  BY <1>0, <1>3 DEF Ptb!StreamConnects, Ptb!StreamLost, Ptb!Crash
<1>4. CASE \E w \in Ptb!Windows :
             Ptb!GammaPublishes(w) \/ Ptb!OnGamma(w) \/ Ptb!CliValidates(w) \/ Ptb!Enter(w)
  <2>1. UNCHANGED <<now, last, restarts, losses>>
    BY <1>4 DEF Ptb!GammaPublishes, Ptb!OnGamma, Ptb!CliValidates, Ptb!Enter
  <2> QED BY <2>1
<1>5. CASE Ptb!Settle \/ Ptb!CheckEvidence \/ Ptb!StepDone
  BY <1>5 DEF Ptb!Settle, Ptb!CheckEvidence, Ptb!StepDone
<1>6. CASE UNCHANGED Ptb!vars
  BY <1>6 DEF Ptb!vars
<1> QED BY <1>1, <1>2, <1>3, <1>4, <1>5, <1>6 DEF Ptb!Next

(* Every variable of the price to beat keeps its type: all prices are the  *)
(* stream's or Gamma's, no tick is later than the clock.  The model begins *)
(* in the first window, at time 2.                                         *)
THEOREM EvidenceTypeCorrect ==
  Ptb!ConstantsOK /\ 2 <= MaxTime => (Ptb!Spec => []Ptb!TypeOK)
<1> SUFFICES ASSUME Ptb!ConstantsOK, 2 <= MaxTime PROVE Ptb!Spec => []Ptb!TypeOK
  OBVIOUS
<1> DEFINE More == PricesType /\ ModesType /\ BoundsType
<1>1. Ptb!Init => More
  <2> SUFFICES ASSUME Ptb!Init PROVE More
    OBVIOUS
  <2>1. PricesType
    <3>1. Ptb!NoPrice \in Ptb!Price /\ StreamPrices \subseteq Ptb!Price
      BY DEF Ptb!Price
    <3>2. tick \in [Ptb!Windows -> Ptb!Price]
      BY <3>1 DEF Ptb!Init
    <3>3. held \in [Ptb!Windows -> Ptb!Price]
      BY <3>1 DEF Ptb!Init
    <3>4. \A w \in Ptb!Windows :
            /\ gamma[w].ptb = Ptb!NoPrice /\ gamma[w].final = Ptb!NoPrice
            /\ hub[w].official = Ptb!NoPrice /\ traded[w].price = Ptb!NoPrice
      BY DEF Ptb!Init, Ptb!Untracked, Ptb!NotTraded
    <3> QED BY <3>1, <3>2, <3>3, <3>4 DEF PricesType
  <2>2. ModesType
    BY DEF Ptb!Init, ModesType
  <2>3. BoundsType
    <3>1. MaxFaults \in Nat /\ MaxTime \in Nat
      BY DEF Ptb!ConstantsOK
    <3> QED BY <3>1 DEF Ptb!Init, BoundsType
  <2> QED BY <2>1, <2>2, <2>3
<1>2. PtbInv /\ PtbInv' /\ More /\ [Ptb!Next]_(Ptb!vars) => More'
  BY PricesKept, ModesKept, BoundsKept DEF PtbInv
<1>3. PtbInv /\ More => Ptb!TypeOK
  <2> SUFFICES ASSUME PtbInv, More PROVE Ptb!TypeOK
    OBVIOUS
  <2>1. gamma \in [Ptb!Windows -> [ptb : Ptb!Price, final : Ptb!Price,
                                   winner : Ptb!Outcomes \union {"none"}]]
    BY DEF PtbInv, PtbType, PricesType, Gammas
  <2>2. hub \in [Ptb!Windows -> [tracked : BOOLEAN, official : Ptb!Price,
                                 winner : Ptb!Outcomes \union {"none"}, consistent : BOOLEAN]]
    BY DEF PtbInv, PtbType, PricesType, Hubs
  <2>3. traded \in [Ptb!Windows -> [source : {"none", "gamma+rtds", "gamma", "rtds"},
                                    price : Ptb!Price, session : Nat]]
    BY DEF PtbInv, PtbType, PricesType, Trades
  <2>4. now \in 0..MaxTime /\ last \in 0..now
    BY DEF PtbInv, PtbType, BoundsType, Ptb!ConstantsOK
  <2> QED BY <2>1, <2>2, <2>3, <2>4
       DEF PtbInv, PtbType, PricesType, ModesType, BoundsType, Ptb!TypeOK
<1> HIDE DEF More
<1>4. Ptb!Spec => []PtbInv
  BY PtbInvariant
<1> QED BY <1>1, <1>2, <1>3, <1>4, PTL DEF Ptb!Spec
=============================================================================
