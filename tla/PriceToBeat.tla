----------------------------- MODULE PriceToBeat -----------------------------
(***************************************************************************)
(* The price to beat of the five-minute windows: the reference stream with *)
(* its backfills and its bounded series (ReferencePriceState), what Gamma  *)
(* publishes after a window (MarketDataHub._on_gamma, resolution.py), the  *)
(* evidence that the stream predicts it (PriceToBeatValidator, its table,  *)
(* the ptb-validate command), and the steps of the decision loop that use  *)
(* it: settlement, the evidence check and the entries.                     *)
(*                                                                         *)
(* Time goes in halves of a window: window w starts at 2w.  A backfill     *)
(* covers about a minute, so it holds the tick of a window's start only    *)
(* in the window's first half.  Only ticks at window starts have a value.  *)
(***************************************************************************)
EXTENDS Naturals, Sequences, FiniteSets, SequencesExt

CONSTANTS
  N,            \* number of windows
  Matched,      \* windows of earlier sessions that matched
  Missing,      \* and those whose tick was missing
  StreamPrices, \* prices of the stream at a window's start
  Prices,       \* prices Gamma publishes
  Resolving,    \* bound: windows that Gamma resolves, the others stay open
  MinWindows,   \* fair_value.stream_price_to_beat_min_windows
  Policy,       \* fair_value.stream_price_to_beat_policy
  Keep,         \* PriceSeries: observation time kept, in half windows
  Lookback,     \* discovery: how long an ended window is asked for
  MaxTime,      \* bound: the clock
  MaxFaults     \* bound: losses of the reference stream and crashes of the bot

ASSUME ConstantsOK ==
  /\ {N, MinWindows, Keep, Lookback, MaxTime, MaxFaults} \subseteq Nat
  /\ StreamPrices \union Prices \subseteq Nat \ {0}
  /\ Policy \in {"off", "evidence_gated"}
  /\ IsFiniteSet(Matched \union Missing)
  /\ Matched \intersect Missing = {} /\ (Matched \union Missing) \intersect (1..N) = {}

Windows == 1..N
Past == Matched \union Missing
Start(w) == 2 * w
End(w) == 2 * w + 2

VARIABLES
  now,         \* the clock
  tick,        \* tick[w]: the 60 s TWAP at the start of w, 0 before it (external)
  gamma,       \* gamma[w]: what Gamma shows of w (external)
  rtds,        \* the reference stream: "down", "fresh" (subscribed), "live"
  last,        \* twap60: observation time of the latest tick
  held,        \* twap60: price of the tick exactly at the start of w, 0 if not held
  hub,         \* hub.markets
  obs,         \* validator.observations
  new,         \* validator.new_mismatches
  pc,          \* the part of the decision step to run next
  position,    \* windows in which the portfolio holds shares
  halted,      \* HALTED, manual only
  store,       \* table price_to_beat_observations
  incidents,   \* windows with a price_to_beat_mismatch incident in the database
  traded,      \* history: how the entry in w was priced
  found,       \* history: windows a process of the bot found to mismatch
  restarts, losses

stream == <<rtds, last, held>>
core == <<pc, position, halted>>
vars == <<now, tick, gamma, stream, hub, obs, new, core, store, incidents,
          traded, found, restarts, losses>>

NoPrice == 0
Outcomes == {"Up", "Down"}
Diffs == {"match", "mismatch", "none"}   \* "none": no tick exactly at the start
Observation == [window : Past \union Windows, diff : Diffs]

Untracked == [tracked |-> FALSE, official |-> NoPrice, winner |-> "none", consistent |-> TRUE]
NotTraded == [source |-> "none", price |-> NoPrice, session |-> 0]

\* What earlier sessions stored, as validator.seed reads it.
Seeded(s) == SetToSeq({[window |-> w, diff |-> s[w]] : w \in {v \in DOMAIN s : s[v] # "no"}})

Init ==
  /\ now = 2 /\ losses = 0 /\ restarts = 0
  /\ \E p \in StreamPrices : tick = [w \in Windows |-> IF w = 1 THEN p ELSE NoPrice]
  /\ gamma = [w \in Windows |-> [ptb |-> NoPrice, final |-> NoPrice, winner |-> "none"]]
  /\ rtds = "down" /\ last = 0 /\ held = [w \in Windows |-> NoPrice]
  /\ hub = [w \in Windows |-> Untracked]
  /\ store = [w \in Past \union Windows |->
                CASE w \in Matched -> "match" [] w \in Missing -> "none" [] OTHER -> "no"]
  /\ obs = Seeded(store) /\ new = {}
  /\ pc = "settle" /\ position = {} /\ halted = FALSE
  /\ incidents = {} /\ traded = [w \in Windows |-> NotTraded]
  /\ found = {}
-----------------------------------------------------------------------------
(***************************************************************************)
(* Outside: time and the stream's prices, and Gamma, which publishes the   *)
(* price to beat after the window, the final price later still, and the    *)
(* outcome at any time (docs/research.md, section 5).                      *)
(***************************************************************************)
ClockAdvances ==
  /\ now < MaxTime
  /\ now' = now + 1
  /\ \E p \in StreamPrices :
       tick' = [w \in Windows |-> IF Start(w) = now + 1 THEN p ELSE tick[w]]
  /\ UNCHANGED <<gamma, stream, hub, obs, new, core, store, incidents, traded, found,
                 restarts, losses>>

GammaPublishes(w) ==
  /\ now >= End(w)
  /\ \/ /\ gamma[w].ptb = NoPrice
        /\ \E p \in Prices : gamma' = [gamma EXCEPT ![w].ptb = p]
     \/ /\ w \in Resolving /\ gamma[w].ptb # NoPrice /\ gamma[w].final = NoPrice
        /\ \E p \in Prices : gamma' = [gamma EXCEPT ![w].final = p]
     \/ /\ w \in Resolving /\ gamma[w].winner = "none"
        /\ \E o \in Outcomes : gamma' = [gamma EXCEPT ![w].winner = o]
  /\ UNCHANGED <<now, tick, stream, hub, obs, new, core, store, incidents, traded, found,
                 restarts, losses>>

-----------------------------------------------------------------------------
(***************************************************************************)
(* ReferencePriceState: ticks in order of observation only, a bounded      *)
(* series, the first ticks of a connection from its backfill.  A tick may  *)
(* be rejected (implausible, malformed, wrong unit); a later one follows.  *)
(***************************************************************************)
\* Mutant: the tick at the edge of the kept time is dropped as well.
RetainedTooShort(h, latest) ==
  [w \in Windows |-> IF latest >= Start(w) + Keep THEN NoPrice ELSE h[w]]

\* PriceSeries.add: drop what is older than Keep.
Retained(h, latest) == [w \in Windows |-> IF latest > Start(w) + Keep THEN NoPrice ELSE h[w]]

Accept(rejected) ==
  IF last < now
  THEN /\ last' = now
       /\ held' = Retained([w \in Windows |-> IF Start(w) = now /\ ~rejected
                                               THEN tick[w] ELSE held[w]], now)
  ELSE UNCHANGED <<last, held>>

Backfill ==
  /\ rtds = "fresh"
  /\ rtds' = "live"
  /\ \E rejected \in BOOLEAN : Accept(rejected)
  /\ UNCHANGED <<now, tick, gamma, hub, obs, new, core, store, incidents, traded, found,
                 restarts, losses>>

LiveTick ==
  /\ rtds = "live" /\ last < now
  /\ \E rejected \in BOOLEAN : Accept(rejected)
  /\ UNCHANGED <<now, tick, gamma, rtds, hub, obs, new, core, store, incidents, traded,
                 found, restarts, losses>>

StreamConnects ==
  /\ rtds = "down"
  /\ rtds' = "fresh"
  /\ UNCHANGED <<now, tick, gamma, last, held, hub, obs, new, core, store, incidents,
                 traded, found, restarts, losses>>

StreamLost ==
  /\ rtds # "down" /\ losses + restarts < MaxFaults
  /\ rtds' = "down" /\ losses' = losses + 1
  /\ UNCHANGED <<now, tick, gamma, last, held, hub, obs, new, core, store, incidents,
                 traded, found, restarts>>

-----------------------------------------------------------------------------
(***************************************************************************)
(* The evidence: one observation per window, when the hub first sees       *)
(* Gamma's price to beat, kept in memory and in the database.              *)
(***************************************************************************)
DiffOf(w, official) ==
  IF held[w] = NoPrice THEN "none" ELSE IF held[w] = official THEN "match" ELSE "mismatch"

\* insert_ptb_observation: INSERT OR IGNORE.
Stored(s, w, d) == IF s[w] = "no" THEN [s EXCEPT ![w] = d] ELSE s

Observe(w, d) ==
  IF \E i \in DOMAIN obs : obs[i].window = w
  THEN UNCHANGED <<obs, store, new>>
  ELSE /\ obs' = Append(obs, [window |-> w, diff |-> d])
       /\ store' = Stored(store, w, d)
       /\ new' = IF d = "mismatch" THEN new \union {w} ELSE new

CountOf(D) == Cardinality({i \in DOMAIN obs : obs[i].diff \in D})
NWindows == CountOf({"match", "mismatch"})
MatchCount == CountOf({"match"})

\* Mutant: windows observed without a tick count as evidence.
AllowedByCount ==
  /\ Policy = "evidence_gated"
  /\ Len(obs) >= MinWindows
  /\ MatchCount = NWindows

\* PriceToBeatValidator.allowed and gate.
Allowed ==
  /\ Policy = "evidence_gated"
  /\ NWindows >= MinWindows
  /\ MatchCount = NWindows

\* ReferencePriceState.price_to_beat: the source of a verified price, or "none".
VerifiedBy(w) ==
  LET official == hub[w].official
  IN  CASE official # NoPrice /\ held[w] = official -> "gamma+rtds"
        [] official # NoPrice /\ held[w] = NoPrice -> "gamma"
        [] official = NoPrice /\ held[w] # NoPrice /\ Allowed -> "rtds"
        [] OTHER -> "none"

\* resolved_outcome: Up is paid if the final price has reached the price to beat.
Consistent(g) ==
  \/ g.ptb = NoPrice \/ g.final = NoPrice
  \/ g.winner = IF g.final >= g.ptb THEN "Up" ELSE "Down"

\* discovery_slugs: the windows Gamma is asked for.
Asked(w) ==
  \/ now < End(w)
  \/ /\ hub[w].tracked /\ now <= End(w) + Lookback
     /\ hub[w].winner = "none" \/ hub[w].official = NoPrice

OnGamma(w) ==
  /\ Asked(w)
  /\ LET g == gamma[w]
         h == hub[w]
         published == g.ptb # NoPrice /\ h.official = NoPrice
         resolved == g.winner # "none" /\ h.winner = "none"
     IN  /\ hub' = [hub EXCEPT ![w] =
                      [tracked |-> TRUE,
                       official |-> IF published THEN g.ptb ELSE h.official,
                       winner |-> IF resolved THEN g.winner ELSE h.winner,
                       consistent |-> IF resolved THEN Consistent(g) ELSE h.consistent]]
         /\ IF published THEN Observe(w, DiffOf(w, g.ptb)) ELSE UNCHANGED <<obs, store, new>>
         /\ found' = IF published /\ DiffOf(w, g.ptb) = "mismatch"
                     THEN found \union {w} ELSE found
  /\ UNCHANGED <<now, tick, gamma, stream, core, incidents, traded, restarts, losses>>

\* ptb-validate scans recordings in a process of its own; a recording may lack the tick.
CliValidates(w) ==
  /\ gamma[w].ptb # NoPrice /\ store[w] = "no"
  /\ \E d \in {"none", IF tick[w] = gamma[w].ptb THEN "match" ELSE "mismatch"} :
       store' = Stored(store, w, d)
  /\ UNCHANGED <<now, tick, gamma, stream, hub, obs, new, core, incidents, traded, found,
                 restarts, losses>>

-----------------------------------------------------------------------------
(***************************************************************************)
(* The decision step, cut where it awaits.                                 *)
(***************************************************************************)
Settle ==
  /\ pc = "settle"
  /\ LET settled == {w \in position : hub[w].winner # "none"}
     IN  /\ position' = position \ settled
         /\ halted' = (halted \/ \E w \in settled : ~hub[w].consistent)
  /\ pc' = "check"
  /\ UNCHANGED <<now, tick, gamma, stream, hub, obs, new, store, incidents, traded, found,
                 restarts, losses>>

CheckEvidence ==
  /\ pc = "check"
  /\ incidents' = incidents \union new
  /\ halted' = (halted \/ (new # {} /\ Policy # "off"))
  /\ new' = {}
  /\ pc' = "enter"
  /\ UNCHANGED <<now, tick, gamma, stream, hub, obs, position, store, traded, found,
                 restarts, losses>>

\* The snapshot is fresh and its price to beat verified; the rest of the entry is free.
MayEnter(w) ==
  /\ hub[w].tracked /\ Start(w) <= now /\ now < End(w)
  /\ rtds # "down" /\ last = now
  /\ hub[w].consistent
  /\ VerifiedBy(w) # "none"

Enter(w) ==
  /\ pc = "enter" /\ ~halted
  /\ w \notin position /\ traded[w] = NotTraded
  /\ MayEnter(w)
  /\ position' = position \union {w}
  /\ traded' = [traded EXCEPT ![w] =
                  [source |-> VerifiedBy(w),
                   price |-> IF VerifiedBy(w) = "rtds" THEN held[w] ELSE hub[w].official,
                   session |-> restarts]]
  /\ UNCHANGED <<now, tick, gamma, stream, hub, obs, new, pc, halted, store, incidents,
                 found, restarts, losses>>

StepDone ==
  /\ pc = "enter"
  /\ pc' = "settle"
  /\ UNCHANGED <<now, tick, gamma, stream, hub, obs, new, position, halted, store,
                 incidents, traded, found, restarts, losses>>

\* What is in memory goes: the series, the markets, the halt, the positions.
Crash ==
  /\ losses + restarts < MaxFaults
  /\ restarts' = restarts + 1
  /\ rtds' = "down" /\ last' = 0 /\ held' = [w \in Windows |-> NoPrice]
  /\ hub' = [w \in Windows |-> Untracked]
  /\ obs' = Seeded(store) /\ new' = {}
  /\ pc' = "settle" /\ position' = {} /\ halted' = FALSE
  /\ UNCHANGED <<now, tick, gamma, store, incidents, traded, found, losses>>

-----------------------------------------------------------------------------
Next ==
  \/ ClockAdvances
  \/ Backfill \/ LiveTick \/ StreamConnects \/ StreamLost
  \/ \E w \in Windows : GammaPublishes(w) \/ OnGamma(w) \/ CliValidates(w) \/ Enter(w)
  \/ Settle \/ CheckEvidence \/ StepDone
  \/ Crash

Spec == Init /\ [][Next]_vars

-----------------------------------------------------------------------------
Price == Prices \union StreamPrices \union {NoPrice}

TypeOK ==
  /\ now \in 0..MaxTime /\ last \in 0..now
  /\ tick \in [Windows -> Price] /\ held \in [Windows -> Price]
  /\ gamma \in [Windows -> [ptb : Price, final : Price, winner : Outcomes \union {"none"}]]
  /\ rtds \in {"down", "fresh", "live"}
  /\ hub \in [Windows -> [tracked : BOOLEAN, official : Price,
                          winner : Outcomes \union {"none"}, consistent : BOOLEAN]]
  /\ obs \in Seq(Observation) /\ new \subseteq Windows
  /\ pc \in {"settle", "check", "enter"}
  /\ position \subseteq Windows /\ halted \in BOOLEAN
  /\ store \in [Past \union Windows -> Diffs \union {"no"}]
  /\ incidents \subseteq Windows /\ found \subseteq Windows
  /\ traded \in [Windows -> [source : {"none", "gamma+rtds", "gamma", "rtds"},
                             price : Price, session : Nat]]
  /\ {restarts, losses} \subseteq 0..MaxFaults

(***************************************************************************)
(* A trade priced by the stream alone rests on MinWindows different        *)
(* windows that matched: none is counted twice after a restart.  And no    *)
(* process of the bot ever found a mismatch, but in a window the table     *)
(* already had without its tick: none is lost with the process that found  *)
(* it or to a connection whose backfill missed the tick                    *)
(* (ptb_validation.gate, PriceToBeatValidator.observe, seed,               *)
(* insert_ptb_observation).                                                *)
(***************************************************************************)
MatchedWindows == {obs[i].window : i \in {j \in DOMAIN obs : obs[j].diff = "match"}}

StreamTradesHaveEvidence ==
  [][\A w \in Windows : traded'[w] # traded[w] /\ traded'[w].source = "rtds" =>
        /\ Cardinality(MatchedWindows) >= MinWindows
        /\ \A v \in found : store[v] = "none"]_vars

(***************************************************************************)
(* A trade on a stream price that Gamma contradicts does not go unnoticed  *)
(* while the process that made it lives and Gamma's price comes before the *)
(* series forgets the tick: the mismatch is queued for an incident or has  *)
(* one, whatever the stream did since (hub._record_ptb_check).             *)
(***************************************************************************)
WrongPrice(w) ==
  /\ traded[w].source = "rtds"
  /\ hub[w].official # NoPrice /\ traded[w].price # hub[w].official

WrongPriceIsNoticed ==
  \A w \in Windows : WrongPrice(w) /\ traded[w].session = restarts =>
     \/ w \in new \union incidents
     \/ now > Start(w) + Keep

(***************************************************************************)
(* ptb_validation.py: "A single mismatch closes the gate", also in the     *)
(* sessions after the one that found it.                                   *)
(***************************************************************************)
MismatchClosesGate ==
  [][\A w \in Windows : traded'[w] # traded[w] /\ traded'[w].source = "rtds" =>
        found = {}]_vars

(***************************************************************************)
(* core.py: "a stream/official price-to-beat mismatch is always an         *)
(* incident", also for the trades of a process that died.                  *)
(***************************************************************************)
MismatchIsIncident ==
  \A w \in Windows : WrongPrice(w) => w \in new \union incidents

(***************************************************************************)
(* docs/trading.md: after resolution the official outcome is checked       *)
(* against the rule, and an inconsistency halts the bot: a position        *)
(* settled on an outcome that Gamma's own prices contradict has halted it. *)
(***************************************************************************)
AnomalyCaught ==
  \A w \in Windows :
     (traded[w].session = restarts /\ traded[w] # NotTraded /\ w \notin position) =>
        Consistent(gamma[w]) \/ halted
=============================================================================
