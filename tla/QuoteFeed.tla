------------------------------ MODULE QuoteFeed ------------------------------
(***************************************************************************)
(* What the order book kept for a token promises its readers, whatever the *)
(* websocket, the REST interface and the resync loop do underneath: a best *)
(* price is shown only if the exchange had it, and while prices are shown  *)
(* their exchange time never goes back.  Between two runs of shown prices  *)
(* nothing is shown: the book is invalid.                                  *)
(***************************************************************************)
EXTENDS Naturals, Sequences

CONSTANT Tokens   \* the outcome tokens

VARIABLES
  hist,   \* hist[t]: the changes of the exchange's book of t, oldest first
  quote   \* quote[t]: NoQuote, or the version shown and its best price

qvars == <<hist, quote>>

NoQuote == [shown |-> FALSE, at |-> 0, top |-> 0]

(***************************************************************************)
(* A change is a new best price ("quote"), the removal of the last level   *)
(* of a side ("clear") or a change of a level below the best ("depth").    *)
(* Version v of a book is the book after its first v changes; a best price *)
(* is named by the version that made it.                                   *)
(***************************************************************************)
Kind == {"quote", "clear", "depth"}
Change == [kind : Kind, stamp : Nat]

StampOf(h, v) == IF v = 0 THEN 0 ELSE h[v].stamp
TopChanges(h, v) == {u \in 1..v : h[u].kind # "depth"}
TopOf(h, v) == IF TopChanges(h, v) = {} THEN 0
               ELSE CHOOSE u \in TopChanges(h, v) : \A w \in TopChanges(h, v) : w <= u
EmptyTop(h, v) == TopOf(h, v) # 0 /\ h[TopOf(h, v)].kind = "clear"

\* The exchange's clock is in milliseconds: two changes may carry the same stamp.
NextChange(h, k, later) == [kind |-> k, stamp |-> StampOf(h, Len(h)) + later]

\* The best price u may be shown for version v.  A side the exchange has emptied
\* is the one case in which an older price may still be shown.
MayShow(h, v, u) == u = TopOf(h, v) \/ EmptyTop(h, v)

QuoteInit ==
  /\ hist = [t \in Tokens |-> <<>>]
  /\ quote = [t \in Tokens |-> NoQuote]

ExchangeMoves ==
  /\ \E t \in Tokens, k \in Kind, later \in {0, 1} :
       hist' = [hist EXCEPT ![t] = Append(@, NextChange(@, k, later))]
  /\ UNCHANGED quote

Show(t) ==
  /\ \E v \in 0..Len(hist[t]), u \in 0..Len(hist[t]) :
       /\ MayShow(hist[t], v, u)
       /\ quote[t].shown => StampOf(hist[t], v) >= StampOf(hist[t], quote[t].at)
       /\ quote' = [quote EXCEPT ![t] = [shown |-> TRUE, at |-> v, top |-> u]]
  /\ UNCHANGED hist

\* Any number of books may become invalid at once: a lost connection hides all.
Hide ==
  /\ \E T \in SUBSET Tokens :
       quote' = [t \in Tokens |-> IF t \in T THEN NoQuote ELSE quote[t]]
  /\ UNCHANGED hist

QuoteNext == ExchangeMoves \/ Hide \/ \E t \in Tokens : Show(t)

QuoteSpec == QuoteInit /\ [][QuoteNext]_qvars
=============================================================================
