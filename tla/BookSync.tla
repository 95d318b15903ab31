------------------------------ MODULE BookSync ------------------------------
(***************************************************************************)
(* The order books of MarketDataHub as the feeds keep them: the market     *)
(* websocket (ResilientWebSocket.stream), its subscriptions, the books     *)
(* (OrderBookState) with their validity rules, the discovery of markets,   *)
(* and the REST resync loop, all of them tasks of one event loop that      *)
(* interleave at their awaits.                                             *)
(*                                                                         *)
(* The exchange is external: its book of a token is a list of changes, it  *)
(* answers a subscription with a full book and then pushes the changes in  *)
(* order.  Prices and sizes are abstracted to the version that set the     *)
(* best price; a level below the best changes nothing the books verify.    *)
(***************************************************************************)
EXTENDS Naturals, Sequences, FiniteSets

CONSTANTS
  Tokens,       \* outcome tokens of the markets Gamma lists
  MinSamples,   \* ClockDriftEstimator: samples needed for an estimate
  SlowAnswers,  \* may a REST answer be in transit while a connection is set up?
  MaxVersion,   \* bound: changes of one exchange book
  MaxBuffer,    \* bound: messages the socket holds unread
  MaxLosses,    \* bound: losses of the connection
  MaxBad        \* bound: unreadable or malformed messages

ASSUME BoundsAreNat ==
  /\ IsFiniteSet(Tokens)
  /\ MinSamples \in Nat \ {0} /\ SlowAnswers \in BOOLEAN
  /\ {MaxVersion, MaxBuffer, MaxLosses, MaxBad} \subseteq Nat

VARIABLES
  hist,        \* the exchange's books (external), see QuoteFeed
  link,        \* the connection as it is: "down", "up", or "lost" and not noticed
  subs,        \* tokens the exchange pushes on this connection
  since,       \* since[t]: version the exchange sent when it took t's subscription
  buffer,      \* pushed and not yet read
  ws,          \* ResilientWebSocket._ws is set
  frames,      \* tokens of the initial frames, computed and not yet sent
  connected,   \* hub.market_ws_connected
  subscribed,  \* feeds._subscribed
  market,      \* market[t]: "unknown", "tracked", or "over" (window ended)
  book,        \* hub.books
  samples,     \* clock drift samples, counted up to MinSamples
  rest,        \* the resync loop's request
  losses, bad  \* counters of the bounds

feed == <<link, subs, since, buffer, ws, frames, connected>>
vars == <<hist, feed, subscribed, market, book, samples, rest, losses, bad>>

Feed == INSTANCE QuoteFeed WITH
  quote <- [t \in Tokens |-> [shown |-> book[t].valid, at |-> book[t].seen, top |-> book[t].top]]

Now(t) == Len(hist[t])
Stamp(t, v) == Feed!StampOf(hist[t], v)
Top(t, v) == Feed!TopOf(hist[t], v)
EmptyTop(t, v) == Feed!EmptyTop(hist[t], v)

-----------------------------------------------------------------------------
(***************************************************************************)
(* OrderBookState.  "seen" is the version of the last message applied.  An *)
(* invalid book keeps its levels and its exchange time but nothing reads   *)
(* them again, so all invalid books are one value.                         *)
(***************************************************************************)
Book == [valid : BOOLEAN, top : Nat, stamp : Nat, seen : Nat]
Invalid == [valid |-> FALSE, top |-> 0, stamp |-> 0, seen |-> 0]

\* Mutant: the exchange time of a snapshot is not compared.
SnapshotOfAnyAge(b, t, v) ==
  [valid |-> TRUE, top |-> Top(t, v), stamp |-> Stamp(t, v), seen |-> v]

\* A full book of version v; an older one never replaces a valid book.
ApplySnapshot(b, t, v) ==
  IF b.valid /\ Stamp(t, v) < b.stamp
  THEN b
  ELSE [valid |-> TRUE, top |-> Top(t, v), stamp |-> Stamp(t, v), seen |-> v]

\* Our best price against the one the exchange repeats with the change.  The echo
\* of a side without levels (bid 0, ask 1) is not compared.
VerifyTop(b, t, v) ==
  IF ~EmptyTop(t, v) /\ b.top # Top(t, v) THEN Invalid ELSE b

\* One change: a book out of order with it is given up.
ApplyChange(b, t, v) ==
  IF ~b.valid THEN b
  ELSE IF Stamp(t, v) < b.stamp THEN Invalid
  ELSE VerifyTop([b EXCEPT !.top = IF hist[t][v].kind = "depth" THEN @ ELSE v,
                           !.stamp = Stamp(t, v),
                           !.seen = v], t, v)

Message == [type : {"book", "change"}, token : Tokens, version : Nat]
FullBook(t) == [type |-> "book", token |-> t, version |-> Now(t)]
ApplyMessage(m) ==
  IF m.type = "book" THEN ApplySnapshot(book[m.token], m.token, m.version)
  ELSE ApplyChange(book[m.token], m.token, m.version)

Idle == [state |-> "idle"]
Asked(t) == [state |-> "asked", token |-> t]
Answered(t, v) == [state |-> "answered", token |-> t, version |-> v]

Init ==
  /\ hist = [t \in Tokens |-> <<>>]
  /\ link = "down" /\ subs = {} /\ since = [t \in Tokens |-> 0] /\ buffer = <<>>
  /\ ws = FALSE /\ frames = {} /\ connected = FALSE
  /\ subscribed = {}
  /\ market = [t \in Tokens |-> "unknown"]
  /\ book = [t \in Tokens |-> Invalid]
  /\ samples = 0 /\ rest = Idle /\ losses = 0 /\ bad = 0
-----------------------------------------------------------------------------
(***************************************************************************)
(* The exchange.  A subscription is answered with the full book of every   *)
(* token in it, in some order, before any later change.                    *)
(***************************************************************************)
Orders(T) == {s \in [1..Cardinality(T) -> T] : \A t \in T : \E i \in DOMAIN s : s[i] = t}

\* A frame sent on a link that is already lost goes nowhere.
Subscribe(T) ==
  IF link = "up"
  THEN /\ subs' = subs \union T
       /\ since' = [t \in Tokens |-> IF t \in T \ subs THEN Now(t) ELSE since[t]]
       /\ \E s \in Orders(T) : buffer' = buffer \o [i \in DOMAIN s |-> FullBook(s[i])]
  ELSE UNCHANGED <<subs, since, buffer>>

ExchangeMoves(t, kind, later) ==
  /\ Now(t) < MaxVersion
  /\ hist' = [hist EXCEPT ![t] = Append(@, Feed!NextChange(@, kind, later))]
  /\ IF link = "up" /\ t \in subs
     THEN /\ Len(buffer) < MaxBuffer
          /\ buffer' = Append(buffer, [type |-> "change", token |-> t, version |-> Now(t) + 1])
     ELSE UNCHANGED buffer
  /\ UNCHANGED <<link, subs, since, ws, frames, connected, subscribed, market, book,
                 samples, rest, losses, bad>>

\* What was pushed last may be lost with the connection.
LinkLost ==
  /\ link = "up" /\ losses < MaxLosses
  /\ link' = "lost"
  /\ \E n \in 0..Len(buffer) : buffer' = SubSeq(buffer, 1, n)
  /\ losses' = losses + 1
  /\ UNCHANGED <<hist, subs, since, ws, frames, connected, subscribed, market, book,
                 samples, rest, bad>>

-----------------------------------------------------------------------------
(***************************************************************************)
(* ResilientWebSocket.stream and LiveDataFeeds.pump.                       *)
(***************************************************************************)
\* The assumption SlowAnswers = FALSE makes: a reconnect sleeps for a second or more
\* before it connects, an answer on its way arrives sooner.
NoLateAnswer == SlowAnswers \/ rest.state # "answered"

\* Mutant: a reconnect does not renew the subscriptions.
ConnectForgets ==
  /\ ~ws /\ NoLateAnswer
  /\ link' = "up" /\ ws' = TRUE /\ frames' = {}
  /\ subs' = {} /\ buffer' = <<>>
  /\ UNCHANGED <<hist, since, connected, subscribed, market, book, samples, rest, losses, bad>>

\* The socket opens; the frames that renew the subscriptions are computed now.
Connect ==
  /\ ~ws /\ NoLateAnswer
  /\ link' = "up" /\ ws' = TRUE /\ frames' = subscribed
  /\ subs' = {} /\ buffer' = <<>>
  /\ UNCHANGED <<hist, since, connected, subscribed, market, book, samples, rest, losses, bad>>

\* After the await of the last initial frame the connection is announced.
SendInitialFrames ==
  /\ ws /\ ~connected /\ NoLateAnswer
  /\ Subscribe(frames)
  /\ frames' = {} /\ connected' = TRUE
  /\ UNCHANGED <<hist, link, ws, subscribed, market, book, samples, rest, losses, bad>>

\* A frame is read and applied by the hub; its exchange time is a drift sample.
ReadFrame ==
  /\ connected /\ buffer # <<>>
  /\ LET m == Head(buffer)
     IN  /\ book' = [book EXCEPT ![m.token] = ApplyMessage(m)]
         /\ samples' = IF samples < MinSamples THEN samples + 1 ELSE samples
  /\ buffer' = Tail(buffer)
  /\ UNCHANGED <<hist, link, subs, since, ws, frames, connected, subscribed, market, rest,
                 losses, bad>>

\* A frame that is not JSON is counted and dropped; a malformed event or level
\* costs the book of its token.
ReadBadFrame ==
  /\ connected /\ buffer # <<>> /\ bad < MaxBad
  /\ \/ UNCHANGED book
     \/ book' = [book EXCEPT ![Head(buffer).token] = Invalid]
  /\ buffer' = Tail(buffer)
  /\ bad' = bad + 1
  /\ UNCHANGED <<hist, link, subs, since, ws, frames, connected, subscribed, market,
                 samples, rest, losses>>

\* Mutant: the drift samples outlive the connection.
DisconnectKeepsSamples ==
  /\ ws /\ link = "lost" /\ (connected => buffer = <<>>)
  /\ link' = "down" /\ ws' = FALSE /\ connected' = FALSE
  /\ frames' = {} /\ subs' = {} /\ buffer' = <<>>
  /\ book' = [t \in Tokens |-> Invalid]
  /\ UNCHANGED <<hist, since, subscribed, market, samples, rest, losses, bad>>

\* The loss is noticed once what was received is read: the socket is given up, and
\* the hub drops every book and the drift samples.
Disconnect ==
  /\ ws /\ link = "lost" /\ (connected => buffer = <<>>)
  /\ link' = "down" /\ ws' = FALSE /\ connected' = FALSE
  /\ frames' = {} /\ subs' = {} /\ buffer' = <<>>
  /\ book' = [t \in Tokens |-> Invalid]
  /\ samples' = 0
  /\ UNCHANGED <<hist, since, subscribed, market, rest, losses, bad>>

-----------------------------------------------------------------------------
(***************************************************************************)
(* Discovery: a market Gamma lists and the hub accepts is tracked and its  *)
(* tokens subscribed, on the connection if there is one, else by the       *)
(* initial frames of the next; a market whose window is over is dropped.   *)
(***************************************************************************)
Discover(t) ==
  /\ market[t] = "unknown"
  /\ market' = [market EXCEPT ![t] = "tracked"]
  /\ subscribed' = subscribed \union {t}
  /\ IF ws THEN Subscribe({t}) ELSE UNCHANGED <<subs, since, buffer>>
  /\ UNCHANGED <<hist, link, ws, frames, connected, book, samples, rest, losses, bad>>

WindowEnds(t) ==
  /\ market[t] = "tracked"
  /\ market' = [market EXCEPT ![t] = "over"]
  /\ UNCHANGED <<hist, feed, subscribed, book, samples, rest, losses, bad>>

UnsubscribeStale ==
  LET stale == {t \in subscribed : market[t] # "tracked"}
  IN  /\ stale # {}
      /\ subscribed' = subscribed \ stale
      /\ subs' = IF ws /\ link = "up" THEN subs \ stale ELSE subs
      /\ UNCHANGED <<hist, link, since, buffer, ws, frames, connected, market, book,
                     samples, rest, losses, bad>>

-----------------------------------------------------------------------------
(***************************************************************************)
(* LiveDataFeeds.resync_loop: one request at a time, for a tracked token   *)
(* whose book is invalid while the socket is open.  The exchange answers   *)
(* with the book it has then; the answer is applied whenever it arrives.   *)
(* PublicHttp retries inside the request and may give up.                  *)
(***************************************************************************)
ResyncAsk(t) ==
  /\ rest = Idle /\ ws
  /\ market[t] = "tracked" /\ ~book[t].valid
  /\ rest' = Asked(t)
  /\ UNCHANGED <<hist, feed, subscribed, market, book, samples, losses, bad>>

ExchangeAnswers ==
  /\ rest.state = "asked"
  /\ rest' = Answered(rest.token, Now(rest.token))
  /\ UNCHANGED <<hist, feed, subscribed, market, book, samples, losses, bad>>

\* Nothing is checked again: neither the socket nor the book's validity.
ResyncApply ==
  /\ rest.state = "answered"
  /\ book' = [book EXCEPT ![rest.token] = ApplySnapshot(@, rest.token, rest.version)]
  /\ rest' = Idle
  /\ UNCHANGED <<hist, feed, subscribed, market, samples, losses, bad>>

\* No answer (PublicDataError), or one that does not parse (REST book rejected).
ResyncFails ==
  /\ rest.state # "idle"
  /\ \/ UNCHANGED book
     \/ book' = [book EXCEPT ![rest.token] = Invalid]
  /\ rest' = Idle
  /\ UNCHANGED <<hist, feed, subscribed, market, samples, losses, bad>>

-----------------------------------------------------------------------------
Exchange == \E t \in Tokens, k \in Feed!Kind, later \in {0, 1} : ExchangeMoves(t, k, later)

Next ==
  \/ Exchange \/ LinkLost
  \/ Connect \/ SendInitialFrames \/ ReadFrame \/ ReadBadFrame \/ Disconnect
  \/ \E t \in Tokens : Discover(t) \/ WindowEnds(t) \/ ResyncAsk(t)
  \/ UnsubscribeStale
  \/ ExchangeAnswers \/ ResyncApply \/ ResyncFails

Spec == Init /\ [][Next]_vars

(***************************************************************************)
(* The tasks of the event loop run on; every pass of the resync loop       *)
(* visits every tracked token; a request that keeps being made is answered *)
(* in the end.  Nothing is assumed of the exchange's books, of the losses  *)
(* or of the markets.                                                      *)
(***************************************************************************)
Fairness ==
  /\ WF_vars(Connect) /\ WF_vars(SendInitialFrames) /\ WF_vars(ReadFrame) /\ WF_vars(Disconnect)
  /\ WF_vars(UnsubscribeStale)
  /\ \A t \in Tokens : SF_vars(ResyncAsk(t))
  /\ SF_vars(ExchangeAnswers) /\ SF_vars(ResyncApply)

FairSpec == Spec /\ Fairness

-----------------------------------------------------------------------------
TypeOK ==
  /\ \A t \in Tokens : \A v \in DOMAIN hist[t] : hist[t][v] \in Feed!Change
  /\ link \in {"down", "up", "lost"}
  /\ {subs, frames, subscribed} \subseteq SUBSET Tokens
  /\ since \in [Tokens -> Nat]
  /\ \A i \in DOMAIN buffer : buffer[i] \in Message
  /\ ws \in BOOLEAN /\ connected \in BOOLEAN
  /\ market \in [Tokens -> {"unknown", "tracked", "over"}]
  /\ book \in [Tokens -> Book]
  /\ samples \in 0..MinSamples
  /\ rest \in {Idle} \union [state : {"asked"}, token : Tokens]
                     \union [state : {"answered"}, token : Tokens, version : Nat]
  /\ losses \in 0..MaxLosses /\ bad \in 0..MaxBad

(***************************************************************************)
(* Every best price the books show was the exchange's, and the exchange    *)
(* time of what they show never goes back, whatever the order in which     *)
(* pushes, resync answers, losses and bad frames arrive                    *)
(* (OrderBookState.apply_snapshot, apply_level, verify_top).               *)
(***************************************************************************)
ImplementsQuoteFeed == Feed!QuoteSpec

\* MarketDataHub.snapshot names no reason against the book of t: it is valid, the
\* websocket is up and the clock drift is known (its age is not modelled).
Decidable(t) == market[t] = "tracked" /\ book[t].valid /\ connected /\ samples = MinSamples

(***************************************************************************)
(* A decision never rests on a book from before the present connection,    *)
(* although a resync answer may revive a book while the socket is down:    *)
(* the drift samples start again with the connection, and by the time they *)
(* suffice the book has been sent again (hub._on_clob_ws, snapshot).  The  *)
(* samples are the connection's, the book is the token's: this is what one *)
(* token is promised.  With more, the frames of the others can make up the *)
(* samples before the token's own book has come.                           *)
(***************************************************************************)
DecidedOnThisConnection ==
  \A t \in Tokens : Decidable(t) => t \in subs /\ book[t].seen >= since[t]

(***************************************************************************)
(* When the connection stops being lost, every tracked token ends up       *)
(* subscribed on it with a valid book, however a subscription, a loss and  *)
(* a resync met (LiveDataFeeds._subscribe, _market_frames, resync_loop).   *)
(***************************************************************************)
StreamHeals ==
  <>[](\A t \in Tokens : market[t] = "tracked" => t \in subs /\ book[t].valid)
=============================================================================
