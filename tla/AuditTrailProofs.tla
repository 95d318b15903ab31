--------------------------- MODULE AuditTrailProofs ---------------------------
(***************************************************************************)
(* Proofs about AuditTrail: the hash chain and the history of halts read   *)
(* back from it, for any commands, any number of state changes and any     *)
(* number of crashes.                                                      *)
(***************************************************************************)
EXTENDS AuditTrail, Sums

Writers == {"bot"} \union Commands
Changes == [n : Nat, from : States, to : States]
RecordKinds == {"command", "state_change", "halt", "recovery_started", "recovered"}
Records == [seq : Nat, prev : Nat, kind : RecordKinds, change : Changes, torn : BOOLEAN]
Tails == [seq : Nat, prev : Nat]
Deliveries == [change : Changes, stage : {"persist", "journal", "done"}, halt : BOOLEAN]

FileType == file \in Seq(Records) /\ tail \in [Writers -> Tails]
BotType ==
  /\ state \in States /\ changes \in Nat /\ journal \in Nat
  /\ delivering \in [Threads -> Deliveries]
CommandType == running \subseteq Commands
DownInv == state = "down" => \A a \in Threads : delivering[a].stage = "done"

Opened(p) == IF p = "bot" THEN state # "down" ELSE p \in running
AtEnd(t) == t = [seq |-> Len(file), prev |-> Len(file)]
Chained == \A i \in 1..Len(file) : file[i].prev = i - 1 /\ file[i].seq = i

OneWriter == ~overlapped => \A p, q \in Writers : Opened(p) /\ Opened(q) => p = q
ChainInv ==
  ~overlapped /\ ~Torn => Chained /\ \A p \in Writers : Opened(p) => AtEnd(tail[p])

IInv ==
  /\ FileType /\ BotType /\ CommandType /\ DownInv
  /\ OneWriter /\ ChainInv

-----------------------------------------------------------------------------
LEMMA BotWrites == "bot" \in Writers /\ "bot" \notin Commands /\ Commands \subseteq Writers
BY ConstantsOK DEF Writers

LEMMA RecordType ==
  ASSUME FileType, NEW p \in Writers, NEW kind \in RecordKinds, NEW change \in Changes
  PROVE  Record(p, kind, change) \in Records /\ ~Record(p, kind, change).torn
<1>1. tail[p] \in Tails
  BY DEF FileType
<1>2. tail[p].seq + 1 \in Nat /\ tail[p].prev \in Nat
  BY <1>1 DEF Tails
<1> QED
  BY <1>2 DEF Record, Records

(* What is in the file stays there, torn lines included.                   *)
LEMMA Grows ==
  ASSUME FileType, NEW r \in Records, file' = Append(file, r)
  PROVE  /\ file' \in Seq(Records) /\ Len(file') = Len(file) + 1 /\ Len(file) \in Nat
         /\ \A i \in 1..Len(file) : file'[i] = file[i]
         /\ file'[Len(file) + 1] = r
         /\ Torn' <=> Torn \/ r.torn
<1>1. /\ file' \in Seq(Records) /\ Len(file') = Len(file) + 1 /\ Len(file) \in Nat
      /\ \A i \in 1..Len(file) : file'[i] = file[i]
      /\ file'[Len(file) + 1] = r
  BY DEF FileType
<1>2. DOMAIN file = 1..Len(file) /\ DOMAIN file' = 1..(Len(file) + 1)
  BY <1>1 DEF FileType
<1>3. Torn' <=> Torn \/ r.torn
  <2>1. 1..(Len(file) + 1) = (1..Len(file)) \union {Len(file) + 1}
    BY <1>1
  <2> QED
    BY <1>1, <1>2, <2>1 DEF Torn
<1> QED
  BY <1>1, <1>3

(* A record of a writer whose tail is the end of a chained file chains.    *)
LEMMA WriteStep ==
  ASSUME FileType, NEW p \in Writers, NEW kind \in RecordKinds, NEW change \in Changes,
         Write(p, kind, change)
  PROVE  /\ FileType' /\ Torn' = Torn
         /\ Chained /\ AtEnd(tail[p]) => Chained' /\ AtEnd(tail[p])'
<1> DEFINE r == Record(p, kind, change)
<1>1. r \in Records /\ ~r.torn
  BY RecordType
<1>2. file' = Append(file, r)
  BY DEF Write
<1>3. /\ file' \in Seq(Records) /\ Len(file') = Len(file) + 1 /\ Len(file) \in Nat
      /\ \A i \in 1..Len(file) : file'[i] = file[i]
      /\ file'[Len(file) + 1] = r
      /\ Torn' <=> Torn
  <2> HIDE DEF r
  <2> QED
    BY <1>1, <1>2, Grows
<1>4. tail' = [tail EXCEPT ![p] = [seq |-> tail[p].seq + 1, prev |-> Len(file) + 1]]
  BY DEF Write
<1>5. tail[p].seq \in Nat
  BY DEF FileType, Tails
<1>6. tail' \in [Writers -> Tails]
  <2>1. [seq |-> tail[p].seq + 1, prev |-> Len(file) + 1] \in Tails
    BY <1>3, <1>5 DEF Tails
  <2> QED
    BY <1>4, <2>1 DEF FileType
<1>7. ASSUME Chained, AtEnd(tail[p]) PROVE Chained' /\ AtEnd(tail[p])'
  <2>1. tail[p].seq = Len(file) /\ tail[p].prev = Len(file)
    BY <1>7 DEF AtEnd
  <2>2. r.seq = Len(file) + 1 /\ r.prev = Len(file)
    BY <2>1 DEF Record
  <2>3. ASSUME NEW i \in 1..Len(file') PROVE file'[i].prev = i - 1 /\ file'[i].seq = i
    <3>1. CASE i \in 1..Len(file)
      BY <1>3, <1>7, <3>1 DEF Chained
    <3>2. CASE i = Len(file) + 1
      BY <1>3, <2>2, <3>2
    <3> QED
      BY <1>3, <3>1, <3>2
  <2>4. tail'[p] = [seq |-> Len(file) + 1, prev |-> Len(file) + 1]
    BY <1>4, <2>1 DEF FileType
  <2> QED
    BY <1>3, <2>3, <2>4 DEF Chained, AtEnd
<1>8. Torn' = Torn
  <2>1. Torn \in BOOLEAN /\ Torn' \in BOOLEAN
    BY DEF Torn
  <2> QED
    BY <1>3, <2>1
<1>9. FileType'
  BY <1>3, <1>6 DEF FileType
<1>10. Chained /\ AtEnd(tail[p]) => Chained' /\ AtEnd(tail[p])'
  BY <1>7
<1> QED
  BY <1>8, <1>9, <1>10

(* So a writer that is the only one keeps the invariant, whether it goes   *)
(* on or has ended.                                                        *)
LEMMA WriterKeepsChain ==
  ASSUME IInv, NEW p \in Writers, Opened(p),
         NEW kind \in RecordKinds, NEW change \in Changes, Write(p, kind, change),
         overlapped' = overlapped,
         \A q \in Writers : Opened(q)' => Opened(q)
  PROVE  FileType' /\ OneWriter' /\ ChainInv'
<1>1. /\ FileType' /\ Torn' = Torn
      /\ Chained /\ AtEnd(tail[p]) => Chained' /\ AtEnd(tail[p])'
  BY WriteStep DEF IInv
<1>2. OneWriter'
  BY DEF IInv, OneWriter
<1>3. ChainInv'
  <2> SUFFICES ASSUME ~overlapped, ~Torn
               PROVE  Chained' /\ \A q \in Writers : Opened(q)' => AtEnd(tail[q])'
    BY <1>1 DEF ChainInv
  <2>1. Chained' /\ AtEnd(tail[p])'
    BY <1>1 DEF IInv, ChainInv
  <2>2. ASSUME NEW q \in Writers, Opened(q)' PROVE q = p
    BY <2>2 DEF IInv, OneWriter
  <2> QED
    BY <2>1, <2>2
<1> QED
  BY <1>1, <1>2, <1>3

(* A writer that opens the log reads the end of the chain.                 *)
LEMMA LoadedTail ==
  ASSUME FileType
  PROVE  LoadTail \in Tails /\ (Chained => AtEnd(LoadTail))
<1>1. CASE file = <<>>
  BY <1>1 DEF LoadTail, NoTail, Genesis, Tails, AtEnd
<1>2. CASE file # <<>>
  <2>1. Len(file) \in Nat \ {0} /\ file[Len(file)] \in Records
    BY <1>2 DEF FileType
  <2>2. file[Len(file)].seq \in Nat
    BY <2>1 DEF Records
  <2>3. LoadTail = [seq |-> file[Len(file)].seq, prev |-> Len(file)]
    BY <1>2 DEF LoadTail
  <2>4. Chained => file[Len(file)].seq = Len(file)
    BY <2>1 DEF Chained
  <2> QED
    BY <2>1, <2>2, <2>3, <2>4 DEF Tails, AtEnd
<1> QED
  BY <1>1, <1>2

LEMMA OpenKeepsChain ==
  ASSUME IInv, NEW p \in Writers, tail' = [tail EXCEPT ![p] = LoadTail], file' = file,
         \A q \in Writers : q # p => (Opened(q)' => Opened(q)),
         overlapped \/ (\E q \in Writers \ {p} : Opened(q)) => overlapped'
  PROVE  FileType' /\ OneWriter' /\ ChainInv'
<1>1. LoadTail \in Tails /\ (Chained => AtEnd(LoadTail))
  BY LoadedTail DEF IInv
<1>2. FileType' /\ tail'[p] = LoadTail
  BY <1>1 DEF IInv, FileType
<1>3. ~overlapped' => ~overlapped /\ \A q \in Writers : Opened(q)' => q = p
  OBVIOUS
<1>4. OneWriter'
  BY <1>3 DEF OneWriter
<1>5. Torn' = Torn /\ Chained' = Chained /\ (AtEnd(LoadTail) <=> AtEnd(tail[p])')
  BY <1>2 DEF Torn, Chained, AtEnd
<1>6. ChainInv'
  BY <1>1, <1>2, <1>3, <1>5 DEF IInv, ChainInv
<1> QED
  BY <1>2, <1>4, <1>6

(* Without a write and a new writer nothing changes.                       *)
LEMMA QuietKeepsChain ==
  ASSUME IInv, UNCHANGED <<file, tail, overlapped>>,
         \A q \in Writers : Opened(q)' => Opened(q)
  PROVE  FileType' /\ OneWriter' /\ ChainInv'
<1>1. FileType'
  BY DEF IInv, FileType
<1>2. OneWriter'
  BY DEF IInv, OneWriter
<1>3. Torn' = Torn /\ Chained' = Chained
  BY DEF Torn, Chained
<1>4. ChainInv'
  BY <1>3 DEF IInv, ChainInv, AtEnd
<1> QED
  BY <1>1, <1>2, <1>4
-----------------------------------------------------------------------------
(***************************************************************************)
(* The bot's own types, which do not depend on the file.                   *)
(***************************************************************************)
BotInv == BotType /\ DownInv

LEMMA MoveType ==
  ASSUME BotInv, NEW a \in Threads, NEW from \in States, NEW to \in States \ {"down"},
         NEW m, NEW l \in BOOLEAN, MovesTo(a, from, to, m, l), journal' \in Nat
  PROVE  BotInv' /\ state' # "down"
<1>1. changes + 1 \in Nat
  BY DEF BotInv, BotType
<1>2. Change(from, to) \in Changes
  BY <1>1 DEF Change, Changes
<1>3. [change |-> Change(from, to), stage |-> "persist", halt |-> l] \in Deliveries
  BY <1>2 DEF Deliveries
<1>4. delivering' \in [Threads -> Deliveries]
  BY <1>3 DEF MovesTo, BotInv, BotType
<1>5. state' = to /\ changes' = changes + 1
  BY DEF MovesTo
<1> QED
  BY <1>1, <1>4, <1>5 DEF BotInv, BotType, DownInv

LEMMA DeliveryType ==
  ASSUME BotInv, NEW a \in Threads, Told(a)
  PROVE  delivering[a].change \in Changes /\ state # "down"
<1>1. delivering[a] \in Deliveries
  BY DEF BotInv, BotType
<1>2. delivering[a].change \in Changes
  BY <1>1 DEF Deliveries
<1>3. state # "down"
  BY DEF BotInv, DownInv, Told
<1> QED
  BY <1>2, <1>3

-----------------------------------------------------------------------------
LEMMA InitIInv == Init => IInv
<1> SUFFICES ASSUME Init PROVE IInv
  OBVIOUS
<1>1. NoChange \in Changes /\ Idle \in Deliveries /\ NoTail \in Tails
  BY DEF NoChange, Changes, States, Idle, Deliveries, NoTail, Tails, Genesis
<1>2. FileType
  BY <1>1 DEF Init, FileType, Writers
<1>3. BotType /\ CommandType
  BY <1>1 DEF Init, BotType, CommandType, States
<1>4. \A p \in Writers : ~Opened(p)
  BY DEF Init, Opened
<1>5. OneWriter
  BY <1>4 DEF OneWriter
<1>6. DownInv
  BY DEF Init, DownInv, Idle
<1>7. ChainInv
  <2>1. Chained
    BY DEF Init, Chained
  <2> QED
    BY <1>4, <2>1 DEF ChainInv
<1> QED
  BY <1>2, <1>3, <1>5, <1>6, <1>7 DEF IInv

LEMMA BotStartsKeeps == IInv /\ BotStarts => IInv'
<1> SUFFICES ASSUME IInv, BotStarts PROVE IInv'
  OBVIOUS
<1>1. BotInv'
  BY MoveType DEF IInv, BotInv, BotStarts, States, Threads
<1>2. UNCHANGED running /\ state = "down" /\ file' = file
  BY DEF BotStarts, processes
<1>3. CommandType'
  BY <1>2 DEF IInv, CommandType
<1>4. FileType' /\ OneWriter' /\ ChainInv'
  <2>1. ASSUME NEW q \in Writers, q # "bot" PROVE Opened(q)' <=> Opened(q)
    BY <1>2, <2>1 DEF Opened
  <2>2. overlapped \/ (\E q \in Writers \ {"bot"} : Opened(q)) => overlapped'
    BY DEF BotStarts, Opened
  <2> QED
    BY <1>2, <2>1, <2>2, BotWrites, OpenKeepsChain DEF BotStarts
<1> QED
  BY <1>1, <1>3, <1>4 DEF IInv, BotInv

(* The steps of the bot that write nothing and open nothing.               *)
LEMMA BotMovesKeeps ==
  ASSUME IInv, state # "down",
         \/ StartsTrading \/ Recovers \/ LoopHalts \/ StallHalts
  PROVE  IInv'
<1>1. UNCHANGED <<file, tail, overlapped, running, journal>>
  BY DEF StartsTrading, Recovers, LoopHalts, StallHalts, Goes, processes
<1>2. BotInv' /\ state' # "down"
  <2>1. BotInv /\ journal' \in Nat
    BY <1>1 DEF IInv, BotInv, BotType
  <2>2. {"SYNCING", "TRADING", "HALTED"} \subseteq States \ {"down"} /\ Threads = {"loop", "stall"}
    BY DEF States, Threads
  <2>3. CASE StartsTrading
    BY <2>1, <2>2, <2>3, MoveType DEF StartsTrading, Goes
  <2>4. CASE Recovers
    BY <2>1, <2>2, <2>4, MoveType DEF Recovers, Goes
  <2>5. CASE LoopHalts
    BY <2>1, <2>2, <2>5, MoveType DEF LoopHalts
  <2>6. CASE StallHalts
    BY <2>1, <2>2, <2>6, MoveType DEF StallHalts
  <2> QED
    BY <2>3, <2>4, <2>5, <2>6
<1>3. ASSUME NEW q \in Writers, Opened(q)' PROVE Opened(q)
  BY <1>1, <1>3 DEF Opened
<1>4. FileType' /\ OneWriter' /\ ChainInv'
  BY <1>1, <1>3, QuietKeepsChain
<1> QED
  BY <1>1, <1>2, <1>4 DEF IInv, BotInv, CommandType

LEMMA StallEscalatesKeeps == IInv /\ StallEscalates => IInv'
<1> SUFFICES ASSUME IInv, StallEscalates PROVE IInv'
  OBVIOUS
<1>1. UNCHANGED <<file, tail, overlapped, running, journal, state, changes, delivering>>
  BY DEF StallEscalates, processes, flags
<1>2. ASSUME NEW q \in Writers, Opened(q)' PROVE Opened(q)
  BY <1>1, <1>2 DEF Opened
<1>3. FileType' /\ OneWriter' /\ ChainInv'
  BY <1>1, <1>2, QuietKeepsChain
<1> QED
  BY <1>1, <1>3 DEF IInv, BotType, DownInv, CommandType

(* A record the bot writes, at any point of its life.                      *)
LEMMA BotWriteKeeps ==
  ASSUME IInv, state # "down", state' # "down", NEW kind \in RecordKinds,
         NEW change \in Changes, Write("bot", kind, change),
         UNCHANGED <<overlapped, running>>
  PROVE  FileType' /\ OneWriter' /\ ChainInv'
<1>1. "bot" \in Writers /\ Opened("bot")
  BY BotWrites DEF Opened
<1>2. ASSUME NEW q \in Writers, Opened(q)' PROVE Opened(q)
  BY <1>2 DEF Opened
<1> QED
  BY <1>1, <1>2, WriterKeepsChain

LEMMA LoopEngagesKeeps == IInv /\ LoopEngages => IInv'
<1> SUFFICES ASSUME IInv, LoopEngages PROVE IInv'
  OBVIOUS
<1>1. state # "down" /\ UNCHANGED <<journal, running, overlapped>>
  BY DEF LoopEngages
<1>2. BotInv' /\ state' # "down"
  <2>1. BotInv /\ journal' \in Nat /\ state \in States
    BY <1>1 DEF IInv, BotInv, BotType
  <2>2. "KILL_SWITCH" \in States \ {"down"} /\ "loop" \in Threads
    BY DEF States, Threads
  <2> QED
    BY <2>1, <2>2, MoveType DEF LoopEngages
<1>3. FileType' /\ OneWriter' /\ ChainInv'
  <2>1. NoChange \in Changes /\ "command" \in RecordKinds
    BY DEF NoChange, Changes, States, RecordKinds
  <2> QED
    BY <1>1, <1>2, <2>1, BotWriteKeeps DEF LoopEngages
<1> QED
  BY <1>1, <1>2, <1>3 DEF IInv, BotInv, CommandType

LEMMA PersistsKeeps ==
  ASSUME IInv, NEW a \in Threads, Persists(a)
  PROVE  IInv'
<1>1. UNCHANGED <<state, changes, journal, running, overlapped>>
  BY DEF Persists, machine, processes, flags
<1>2. delivering[a].change \in Changes /\ state # "down"
  BY DeliveryType DEF IInv, BotInv, Persists, Told
<1>3. BotInv'
  <2>1. delivering' \in [Threads -> Deliveries]
    BY DEF IInv, BotType, Deliveries, Persists
  <2> QED
    BY <1>1, <1>2, <2>1 DEF IInv, BotInv, BotType, DownInv
<1>4. FileType' /\ OneWriter' /\ ChainInv'
  <2>1. "state_change" \in RecordKinds
    BY DEF RecordKinds
  <2> QED
    BY <1>1, <1>2, <2>1, BotWriteKeeps DEF Persists
<1> QED
  BY <1>1, <1>3, <1>4 DEF IInv, BotInv, CommandType

LEMMA JournalsKeeps ==
  ASSUME IInv, NEW a \in Threads, Journals(a)
  PROVE  IInv'
<1> DEFINE change == delivering[a].change
           known == [change EXCEPT !.n = journal]
<1>1. UNCHANGED <<state, changes, running, overlapped>>
  BY DEF Journals, machine, processes, flags
<1>2. change \in Changes /\ state # "down"
  BY DeliveryType DEF IInv, BotInv, Journals, Told
<1>3. known \in Changes /\ change.n \in Nat
  BY <1>2 DEF IInv, BotType, Changes
<1>4. \/ \E kind \in RecordKinds, ch \in {change, known} :
           Write("bot", kind, ch) /\ journal' \in {journal, change.n, 0}
      \/ UNCHANGED <<file, tail, journal>>
  BY DEF Journals, JournalKind, RecordKinds
<1>5. journal' \in Nat
  <2> HIDE DEF change, known
  <2> QED
    BY <1>3, <1>4 DEF IInv, BotType
<1>6. BotInv'
  <2>1. Idle \in Deliveries
    BY DEF Idle, Deliveries, NoChange, Changes, States
  <2>2. delivering' = [delivering EXCEPT ![a] = Idle]
    BY DEF Journals
  <2>3. delivering' \in [Threads -> Deliveries]
    BY <2>1, <2>2 DEF IInv, BotType
  <2> QED
    BY <1>1, <1>2, <1>5, <2>3 DEF IInv, BotInv, BotType, DownInv
<1>7. FileType' /\ OneWriter' /\ ChainInv'
  <2>1. CASE UNCHANGED <<file, tail, journal>>
    <3>1. ASSUME NEW q \in Writers, Opened(q)' PROVE Opened(q)
      BY <1>1, <3>1 DEF Opened
    <3> QED
      BY <1>1, <2>1, <3>1, QuietKeepsChain
  <2>2. ASSUME NEW kind \in RecordKinds, NEW ch \in {change, known}, Write("bot", kind, ch)
        PROVE  FileType' /\ OneWriter' /\ ChainInv'
    <3>1. ch \in Changes
      BY <1>2, <1>3
    <3> QED
      BY <1>1, <1>2, <2>2, <3>1, BotWriteKeeps
  <2> QED
    BY <1>4, <2>1, <2>2
<1> QED
  BY <1>1, <1>6, <1>7 DEF IInv, BotInv, CommandType

(* A torn line ends what is claimed of the file.                           *)
LEMMA CrashKeeps == IInv /\ Crash => IInv'
<1> SUFFICES ASSUME IInv, Crash PROVE IInv'
  OBVIOUS
<1>1. UNCHANGED <<tail, changes, running, overlapped>> /\ state' = "down"
  BY DEF Crash, processes
<1>2. BotType' /\ DownInv'
  <2>1. Idle \in Deliveries
    BY DEF Idle, Deliveries, NoChange, Changes, States
  <2>2. delivering' = [b \in Threads |-> Idle] /\ journal' = 0
    BY DEF Crash
  <2>3. \A b \in Threads : delivering'[b].stage = "done"
    BY <2>2 DEF Idle
  <2> QED
    BY <1>1, <2>1, <2>2, <2>3 DEF IInv, BotType, DownInv, States
<1>3. ASSUME NEW q \in Writers, Opened(q)' PROVE Opened(q)
  BY <1>1, <1>3 DEF Opened
<1>4. FileType' /\ OneWriter' /\ ChainInv'
  <2>1. CASE file' = file
    BY <1>1, <1>3, <2>1, QuietKeepsChain
  <2>2. CASE \E b \in Threads :
               file' = Append(file, [Record("bot", "state_change", NoChange) EXCEPT !.torn = TRUE])
    <3> DEFINE s == Record("bot", "state_change", NoChange)
               r == [s EXCEPT !.torn = TRUE]
    <3>1. s \in Records
      BY RecordType, BotWrites DEF IInv, NoChange, Changes, States, RecordKinds
    <3>2. r \in Records /\ r.torn
      <4> HIDE DEF s
      <4> QED
        BY <3>1 DEF Records
    <3>3. file' \in Seq(Records) /\ Torn'
      <4> HIDE DEF r
      <4>1. file' = Append(file, r)
        BY <2>2 DEF r
      <4> QED
        BY <3>2, <4>1, Grows DEF IInv
    <3>4. OneWriter'
      BY <1>1, <1>3 DEF IInv, OneWriter
    <3> QED
      BY <1>1, <3>3, <3>4 DEF IInv, FileType, ChainInv
  <2> QED
    BY <2>1, <2>2 DEF Crash
<1> QED
  BY <1>1, <1>2, <1>4 DEF IInv, CommandType

LEMMA CommandStartsKeeps ==
  ASSUME IInv, NEW c \in Commands, CommandStarts(c)
  PROVE  IInv'
<1>1. /\ UNCHANGED <<file, state, changes, delivering, journal>>
      /\ running' = running \union {c} /\ tail' = [tail EXCEPT ![c] = LoadTail]
  BY DEF CommandStarts, machine
<1>2. c \in Writers /\ c # "bot"
  BY BotWrites
<1>3. ASSUME NEW q \in Writers, q # c, Opened(q)' PROVE Opened(q)
  BY <1>1, <1>3 DEF Opened
<1>4. overlapped \/ (\E q \in Writers \ {c} : Opened(q)) => overlapped'
  BY DEF CommandStarts, Opened
<1>5. FileType' /\ OneWriter' /\ ChainInv'
  BY <1>1, <1>2, <1>3, <1>4, OpenKeepsChain
<1> QED
  BY <1>1, <1>5 DEF IInv, BotType, DownInv, CommandType

LEMMA CommandWritesKeeps ==
  ASSUME IInv, NEW c \in Commands, CommandWrites(c)
  PROVE  IInv'
<1>1. /\ UNCHANGED <<state, changes, delivering, journal, overlapped>>
      /\ c \in running /\ running' = running \ {c}
  BY DEF CommandWrites, machine, flags
<1>2. c \in Writers /\ Opened(c)
  BY <1>1, BotWrites DEF Opened
<1>3. ASSUME NEW q \in Writers, Opened(q)' PROVE Opened(q)
  BY <1>1, <1>3 DEF Opened
<1>4. NoChange \in Changes /\ "command" \in RecordKinds
  BY DEF NoChange, Changes, States, RecordKinds
<1>5. FileType' /\ OneWriter' /\ ChainInv'
  BY <1>1, <1>2, <1>3, <1>4, WriterKeepsChain DEF CommandWrites
<1> QED
  BY <1>1, <1>5 DEF IInv, BotType, DownInv, CommandType

LEMMA NextKeeps == IInv /\ [Next]_vars => IInv'
<1> SUFFICES ASSUME IInv, [Next]_vars PROVE IInv'
  OBVIOUS
<1>1. CASE BotStarts
  BY <1>1, BotStartsKeeps
<1>2. CASE StartsTrading \/ Recovers \/ LoopHalts \/ StallHalts
  <2>1. state # "down"
    BY <1>2 DEF StartsTrading, Recovers, LoopHalts, StallHalts, Goes
  <2> QED
    BY <1>2, <2>1, BotMovesKeeps
<1>3. CASE StallEscalates
  BY <1>3, StallEscalatesKeeps
<1>4. CASE LoopEngages
  BY <1>4, LoopEngagesKeeps
<1>5. CASE \E a \in Threads : Persists(a)
  BY <1>5, PersistsKeeps
<1>6. CASE \E a \in Threads : Journals(a)
  BY <1>6, JournalsKeeps
<1>7. CASE Crash
  BY <1>7, CrashKeeps
<1>8. CASE \E c \in Commands : CommandStarts(c)
  BY <1>8, CommandStartsKeeps
<1>9. CASE \E c \in Commands : CommandWrites(c)
  BY <1>9, CommandWritesKeeps
<1>10. CASE UNCHANGED vars
  <2>1. UNCHANGED <<file, tail, overlapped, running, journal, state, changes, delivering>>
    BY <1>10 DEF vars, machine, processes, flags
  <2>2. ASSUME NEW q \in Writers, Opened(q)' PROVE Opened(q)
    BY <2>1, <2>2 DEF Opened
  <2>3. FileType' /\ OneWriter' /\ ChainInv'
    BY <2>1, <2>2, QuietKeepsChain
  <2> QED
    BY <2>1, <2>3 DEF IInv, BotType, DownInv, CommandType
<1> QED
  BY <1>1, <1>2, <1>3, <1>4, <1>5, <1>6, <1>7, <1>8, <1>9, <1>10 DEF Next

(* The inductive invariant: a process that has the log open alone knows    *)
(* the end of a chained file.                                              *)
THEOREM Invariance == Spec => []IInv
<1>1. Init => IInv
  BY InitIInv
<1>2. IInv /\ [Next]_vars => IInv'
  BY NextKeeps
<1> QED
  BY <1>1, <1>2, PTL DEF Spec

(***************************************************************************)
(* verify_audit_log accepts the file as long as no two processes had it    *)
(* open at once and no crash tore a line, over every restart of the bot    *)
(* and for any number of commands.                                         *)
(***************************************************************************)
THEOREM ChainVerifies == Spec => []ChainHolds
<1>1. IInv => ChainHolds
  <2> SUFFICES ASSUME IInv, ~overlapped, ~Torn PROVE Verified
    BY DEF ChainHolds
  <2>1. Chained
    BY DEF IInv, ChainInv
  <2>2. DOMAIN file = 1..Len(file)
    BY DEF IInv, FileType
  <2> QED
    BY <2>1, <2>2 DEF Verified, Chained, Torn
<1> QED
  BY <1>1, Invariance, PTL-----------------------------------------------------------------------------
(***************************************************************************)
(* What diagnose reads.  halt_history folds the file from its first record *)
(* to its last; a fold is the value of a function on sets of positions, so *)
(* its facts are proved, as those of Sums, on a smallest counterexample.   *)
(***************************************************************************)
NoRows == [rows |-> <<>>, open |-> 0]
Read(f) == FoldLeft(ReadRecord, NoRows, f)

(* What the definition of the fold over the positions S asks of the        *)
(* function it recurses with.                                              *)
LastRead(it, f, s) == ReadRecord(it[s \ {Max(s)}], f[Max(s)])
IsReading(it, f, S) ==
  it = [s \in SUBSET S |-> IF s = {} THEN NoRows ELSE LastRead(it, f, s)]

(* Positions in some file. *)
Positions(s) == \E n \in Nat : s \subseteq 1..n

LEMMA PositionsType ==
  ASSUME NEW s, Positions(s)
  PROVE  /\ IsFiniteSet(s) /\ \A x \in s : x \in Nat
         /\ \A u \in SUBSET s : Positions(u)
<1>1. PICK n \in Nat : s \subseteq 1..n
  BY DEF Positions
<1>2. IsFiniteSet(1..n)
  BY FS_Interval
<1>3. IsFiniteSet(s)
  BY <1>1, <1>2, FS_Subset
<1>4. \A u \in SUBSET s : Positions(u)
  BY <1>1 DEF Positions
<1> QED BY <1>1, <1>3, <1>4

(* The last of them. *)
LEMMA MaxIn ==
  ASSUME NEW s, Positions(s), s # {}
  PROVE  Max(s) \in s /\ \A y \in s : Max(s) >= y
<1> DEFINE Greatest(T) == \E x \in T : \A y \in T : x >= y
           B == {T \in SUBSET s : T # {} /\ ~Greatest(T)}
<1>1. B = {}
  <2> SUFFICES ASSUME B # {} PROVE FALSE
    OBVIOUS
  <2>1. PICK T \in B : \A u \in B : u \subseteq T => u = T
    <3>1. B \subseteq SUBSET s /\ IsFiniteSet(s)
      BY PositionsType
    <3> HIDE DEF B
    <3> QED BY <3>1, Smallest
  <2>2. PICK x \in T : TRUE
    BY <2>1
  <2>3. T \in SUBSET s /\ T \ {x} \in SUBSET s /\ \A y \in T : y \in Nat
    BY <2>1, PositionsType
  <2>4. CASE T \ {x} = {}
    <3>1. \A y \in T : x >= y
      BY <2>2, <2>3, <2>4
    <3> QED BY <2>1, <2>2, <3>1
  <2>5. CASE T \ {x} # {}
    <3>1. T \ {x} \notin B
      BY <2>1, <2>2
    <3>2. PICK m \in T \ {x} : \A y \in T \ {x} : m >= y
      BY <3>1, <2>3, <2>5
    <3>3. Greatest(T)
      <4>1. CASE m >= x
        <5>1. \A y \in T : m >= y
          BY <3>2, <4>1
        <5> QED BY <3>2, <5>1
      <4>2. CASE ~(m >= x)
        <5>1. \A y \in T : x >= y
          <6> SUFFICES ASSUME NEW y \in T PROVE x >= y
            OBVIOUS
          <6>1. x \in Nat /\ m \in Nat /\ y \in Nat
            BY <2>2, <2>3, <3>2
          <6>2. y = x \/ m >= y
            BY <3>2
          <6> QED BY <6>1, <6>2, <4>2
        <5> QED BY <2>2, <5>1
      <4> QED BY <4>1, <4>2
    <3> QED BY <2>1, <3>3
  <2> QED BY <2>4, <2>5
<1>2. Greatest(s)
  BY <1>1
<1> QED BY <1>2 DEF Max

LEMMA ReadIs ==
  ASSUME NEW f
  PROVE  Read(f) = (CHOOSE it : IsReading(it, f, DOMAIN f))[DOMAIN f]
BY DEF Read, FoldLeft, MapThenFoldSet, IsReading, LastRead

LEMMA ReadingStep ==
  ASSUME NEW it, NEW f, NEW S, IsReading(it, f, S)
  PROVE  it[{}] = NoRows /\ \A s \in SUBSET S : s # {} => it[s] = LastRead(it, f, s)
BY DEF IsReading

(* Two of them agree wherever both are defined, for files that agree. *)
LEMMA ReadingUnique ==
  ASSUME NEW T, Positions(T), NEW f, NEW g, \A i \in T : f[i] = g[i],
         NEW S, T \subseteq S, NEW it, IsReading(it, f, S), NEW jt, IsReading(jt, g, T)
  PROVE  \A s \in SUBSET T : it[s] = jt[s]
<1> DEFINE B == {s \in SUBSET T : it[s] # jt[s]}
<1> SUFFICES ASSUME B # {} PROVE FALSE
  OBVIOUS
<1>1. PICK s \in B : \A u \in B : u \subseteq s => u = s
  <2>1. B \subseteq SUBSET T
    OBVIOUS
  <2>2. IsFiniteSet(T)
    BY PositionsType
  <2> HIDE DEF B
  <2> QED BY ONLY B # {}, <2>1, <2>2, Smallest
<1>2. s # {}
  BY <1>1, ReadingStep
<1>3. s \in SUBSET S /\ s \in SUBSET T /\ Positions(s)
  BY <1>1, PositionsType
<1>4. Max(s) \in s
  BY <1>2, <1>3, MaxIn
<1>5. it[s \ {Max(s)}] = jt[s \ {Max(s)}]
  BY <1>1, <1>4
<1>6. f[Max(s)] = g[Max(s)]
  BY <1>3, <1>4
<1>7. it[s] = LastRead(it, f, s) /\ jt[s] = LastRead(jt, g, s)
  BY <1>2, <1>3, ReadingStep
<1> QED BY <1>1, <1>5, <1>6, <1>7 DEF LastRead

LEMMA SameReading ==
  ASSUME NEW f, NEW T, Positions(T), NEW S, T \subseteq S,
         NEW it, IsReading(it, f, S), NEW jt, IsReading(jt, f, T)
  PROVE  it[T] = jt[T]
<1>1. \A s \in SUBSET T : it[s] = jt[s]
  <2>1. PICK g : g = f
    OBVIOUS
  <2>2. IsReading(jt, g, T) /\ \A i \in T : f[i] = g[i]
    BY <2>1
  <2> QED BY ONLY Positions(T), T \subseteq S, IsReading(it, f, S), <2>2, ReadingUnique
<1> QED BY <1>1

(* And there is one. *)
LEMMA ReadingExists ==
  ASSUME NEW f, NEW S, Positions(S)
  PROVE  \E it : IsReading(it, f, S)
<1> DEFINE B == {T \in SUBSET S : ~\E it : IsReading(it, f, T)}
<1> SUFFICES ASSUME B # {} PROVE FALSE
  OBVIOUS
<1>1. PICK T \in B : \A u \in B : u \subseteq T => u = T
  <2>1. B \subseteq SUBSET S /\ IsFiniteSet(S)
    BY PositionsType
  <2> HIDE DEF B
  <2> QED BY <2>1, Smallest
<1> DEFINE h(s) == CHOOSE it : IsReading(it, f, s)
           rest(s) == s \ {Max(s)}
           val(s) == IF s = {} THEN NoRows ELSE ReadRecord(h(rest(s))[rest(s)], f[Max(s)])
           g == [s \in SUBSET T |-> val(s)]
<1>2. \A u \in SUBSET T : u # T => IsReading(h(u), f, u) /\ Positions(u)
  <2> SUFFICES ASSUME NEW u \in SUBSET T, u # T
               PROVE  IsReading(h(u), f, u) /\ Positions(u)
    OBVIOUS
  <2>1. \E it : IsReading(it, f, u)
    BY <1>1
  <2> QED BY <1>1, <2>1, PositionsType
<1>3. \A u \in SUBSET T : u # {} => rest(u) \in SUBSET T /\ rest(u) # T /\ rest(u) \subseteq u
  <2> SUFFICES ASSUME NEW u \in SUBSET T, u # {}
               PROVE  rest(u) \in SUBSET T /\ rest(u) # T /\ rest(u) \subseteq u
    OBVIOUS
  <2>1. Positions(u)
    BY <1>1, PositionsType
  <2>2. Max(u) \in u
    BY <2>1, MaxIn
  <2> QED BY <2>2
<1>4. ASSUME NEW u \in SUBSET T, u # T PROVE h(u)[u] = val(u)
  <2>1. CASE u = {}
    BY <2>1, <1>2, <1>4, ReadingStep
  <2>2. CASE u # {}
    <3> DEFINE r == rest(u)
    <3>1. r \in SUBSET T /\ r # T /\ r \subseteq u
      BY <1>3, <2>2
    <3>2. IsReading(h(u), f, u) /\ IsReading(h(r), f, r) /\ Positions(u)
      BY <1>2, <1>4, <3>1
    <3>3. h(u)[u] = LastRead(h(u), f, u)
      <4> HIDE DEF h, r, rest
      <4> QED BY <2>2, <3>2, ReadingStep
    <3>4. h(u)[r] = h(r)[r]
      <4>1. Positions(r)
        BY <3>1, <3>2, PositionsType
      <4> HIDE DEF h, r
      <4> QED BY <3>1, <3>2, <4>1, SameReading
    <3>5. LastRead(h(u), f, u) = ReadRecord(h(u)[r], f[Max(u)])
      BY DEF LastRead
    <3> QED BY <2>2, <3>3, <3>4, <3>5
  <2> QED BY <2>1, <2>2
<1>5. \A s \in SUBSET T : s # {} => g[s] = LastRead(g, f, s)
  <2> SUFFICES ASSUME NEW s \in SUBSET T, s # {} PROVE g[s] = LastRead(g, f, s)
    OBVIOUS
  <2> DEFINE r == rest(s)
  <2>1. r \in SUBSET T /\ r # T
    BY <1>3
  <2>2. g[s] = ReadRecord(h(r)[r], f[Max(s)])
    OBVIOUS
  <2>3. h(r)[r] = g[r]
    <3>1. h(r)[r] = val(r)
      BY <1>4, <2>1
    <3>2. g[r] = val(r)
      BY <2>1
    <3> QED BY <3>1, <3>2
  <2>4. LastRead(g, f, s) = ReadRecord(g[r], f[Max(s)])
    BY DEF LastRead
  <2> QED BY <2>2, <2>3, <2>4
<1>6. IsReading(g, f, T)
  <2>1. g[{}] = NoRows
    OBVIOUS
  <2>2. \A s \in SUBSET T : g[s] = IF s = {} THEN NoRows ELSE LastRead(g, f, s)
    <3> HIDE DEF g
    <3> QED BY <1>5, <2>1
  <2>3. g = [s \in SUBSET T |-> g[s]]
    OBVIOUS
  <2> HIDE DEF g
  <2> QED BY <2>2, <2>3 DEF IsReading
<1> QED BY <1>1, <1>6

(* A record read after a file; a file read twice. *)
LEMMA ReadNext ==
  ASSUME NEW R, NEW f \in Seq(R), NEW r \in R
  PROVE  Read(Append(f, r)) = ReadRecord(Read(f), r)
<1> DEFINE g == Append(f, r)
           n == Len(f)
           h(e, s) == CHOOSE it : IsReading(it, e, s)
           D == DOMAIN g
           E == DOMAIN f
<1>0. n + 1 \in Nat
  OBVIOUS
<1>1. /\ n \in Nat /\ E = 1..n /\ D = 1..(n + 1) /\ g[n + 1] = r
      /\ \A i \in 1..n : g[i] = f[i]
  OBVIOUS
<1>2. D \ {n + 1} = E /\ E \subseteq D /\ D # {} /\ n + 1 \in D
  <2> HIDE DEF D, E, n
  <2> QED BY <1>1
<1>3. Max(D) = n + 1
  <2>1. Positions(D)
    BY <1>0, <1>1 DEF Positions
  <2>2. Max(D) \in D /\ \A y \in D : Max(D) >= y
    <3> HIDE DEF D, n
    <3> QED BY <1>2, <2>1, MaxIn
  <2> HIDE DEF D, E, n
  <2> QED BY <1>1, <1>2, <2>2
<1>4. IsReading(h(g, D), g, D) /\ IsReading(h(f, E), f, E)
  <2>1. Positions(D) /\ Positions(E)
    BY <1>0, <1>1 DEF Positions
  <2>2. (\E it : IsReading(it, g, D)) /\ (\E it : IsReading(it, f, E))
    <3> HIDE DEF g, D, E, n
    <3> QED BY <2>1, ReadingExists
  <2> QED BY <2>2
<1>5. Read(g) = h(g, D)[D] /\ Read(f) = h(f, E)[E]
  BY ReadIs
<1>6. h(g, D)[D] = LastRead(h(g, D), g, D)
  <2>1. D \in SUBSET D
    OBVIOUS
  <2> HIDE DEF h, g, D
  <2> QED BY <1>2, <1>4, <2>1, ReadingStep
<1>7. h(g, D)[E] = h(f, E)[E]
  <2>1. /\ \A i \in E : g[i] = f[i]
        /\ E \subseteq D /\ Positions(E) /\ E \in SUBSET E
    BY <1>1, <1>2 DEF Positions
  <2>2. PICK it, jt : it = h(g, D) /\ jt = h(f, E)
    OBVIOUS
  <2>3. IsReading(it, g, D) /\ IsReading(jt, f, E)
    BY <1>4, <2>2
  <2>4. \A s \in SUBSET E : it[s] = jt[s]
    <3> HIDE DEF h, g, D, E, n
    <3> QED BY ONLY <2>1, <2>3, ReadingUnique
  <2> QED BY <2>1, <2>2, <2>4
<1>8. LastRead(h(g, D), g, D) = ReadRecord(h(g, D)[E], r)
  <2> HIDE DEF h, g, D, E
  <2> QED BY <1>1, <1>2, <1>3 DEF LastRead
<1> QED BY <1>5, <1>6, <1>7, <1>8

LEMMA ReadNothing == Read(<<>>) = NoRows
<1> DEFINE f == <<>>
           h == CHOOSE it : IsReading(it, f, DOMAIN f)
<1>1. DOMAIN f = {} /\ Positions({})
  BY DEF Positions
<1>2. \E it : IsReading(it, f, {})
  <2> HIDE DEF f
  <2> QED BY <1>1, ReadingExists
<1>3. IsReading(h, f, {}) /\ Read(f) = h[{}]
  BY <1>1, <1>2, ReadIs
<1> QED BY <1>3, ReadingStep-----------------------------------------------------------------------------
(***************************************************************************)
(* What diagnose reads and what happened.  A change is true of the halts   *)
(* before it is recorded, so the two agree whenever nothing waits to be    *)
(* recorded, and a change that waits brings the file to the halts.  The    *)
(* journal writes last and repeats what the record of the change said.     *)
(***************************************************************************)
History == Read(file)
Actual == [rows |-> episodes, open |-> current]
AsRecorded(kind, change) == [kind |-> kind, change |-> change]

Row == [n : Nat, started : BOOLEAN, recovered : BOOLEAN]
EpisodeType == episodes \in Seq(Row) /\ current \in 0..Len(episodes)

\* The change is one of the halts as they are.
Happened(c) ==
  /\ c.to \in HaltStates => current # 0 /\ episodes[current].n = c.n
  /\ c.to \notin HaltStates /\ c.from = "HALTED" /\ current # 0 => episodes[current].started
  /\ c.to = "TRADING" /\ c.from # "HALTED" => current = 0

OneDelivery == \A a, b \in Threads : Told(a) /\ Told(b) => a = b
ToldInv == \A a \in Threads : Told(a) => Happened(delivering[a].change)
WaitingInv ==
  \A a \in Threads : delivering[a].stage = "persist" =>
    ReadRecord(History, AsRecorded("state_change", delivering[a].change)) = Actual
ReadInv == Recorded => History = Actual

HistoryInv == EpisodeType /\ (~lost => OneDelivery /\ ToldInv /\ WaitingInv /\ ReadInv)

LEMMA StageType ==
  ASSUME BotType, NEW a \in Threads
  PROVE  /\ delivering[a] \in Deliveries /\ delivering[a].change \in Changes
         /\ delivering[a].stage \in {"persist", "journal", "done"}
         /\ DOMAIN delivering = Threads
BY DEF BotType, Deliveries

(* Only the kind of a record and its change are read. *)
LEMMA ReadAs ==
  ASSUME NEW h, NEW p, NEW kind, NEW change
  PROVE  ReadRecord(h, Record(p, kind, change)) = ReadRecord(h, AsRecorded(kind, change))
<1>1. PICK r : r = Record(p, kind, change)
  OBVIOUS
<1>2. r.kind = kind /\ r.change = change
  BY <1>1 DEF Record
<1>3. PICK s : s = AsRecorded(kind, change)
  OBVIOUS
<1>4. s.kind = kind /\ s.change = change
  BY <1>3 DEF AsRecorded
<1>5. ReadRecord(h, r) = ReadRecord(h, s)
  BY <1>2, <1>4 DEF ReadRecord, NewRow
<1> QED BY <1>1, <1>3, <1>5

(* A record of a command, and a torn one, say nothing of a halt. *)
LEMMA ReadOther ==
  ASSUME NEW h, NEW r, r.kind = "command" \/ r.kind = "state_change", r.change = NoChange
  PROVE  ReadRecord(h, r) = h
BY DEF ReadRecord, NoChange, HaltStates

LEMMA HistoryGrows ==
  ASSUME FileType, NEW r \in Records, file' = Append(file, r)
  PROVE  History' = ReadRecord(History, r)
BY ReadNext DEF FileType, History

LEMMA HistoryWrites ==
  ASSUME FileType, NEW p \in Writers, NEW kind \in RecordKinds, NEW change \in Changes,
         Write(p, kind, change)
  PROVE  History' = ReadRecord(History, AsRecorded(kind, change))
<1>1. PICK r : r = Record(p, kind, change)
  OBVIOUS
<1>2. r \in Records /\ file' = Append(file, r)
  BY <1>1, RecordType DEF Write
<1> QED BY <1>1, <1>2, HistoryGrows, ReadAs

LEMMA CommandRead ==
  ASSUME FileType, NEW p \in Writers, Write(p, "command", NoChange)
  PROVE  History' = History
<1>1. NoChange \in Changes /\ "command" \in RecordKinds
  BY DEF NoChange, Changes, States, RecordKinds
<1>2. History' = ReadRecord(History, AsRecorded("command", NoChange))
  BY <1>1, HistoryWrites
<1>3. PICK r : r = AsRecorded("command", NoChange)
  OBVIOUS
<1>4. r.kind = "command" /\ r.change = NoChange
  BY <1>3 DEF AsRecorded
<1> QED BY <1>2, <1>3, <1>4, ReadOther

LEMMA StartsIs ==
  ASSUME NEW rows, NEW open, NEW row, row = [rows[open] EXCEPT !.started = TRUE]
  PROVE  Starts([rows |-> rows, open |-> open]) = [rows |-> [rows EXCEPT ![open] = row], open |-> open]
<1>1. PICK h : h = [rows |-> rows, open |-> open]
  OBVIOUS
<1>2. h.rows = rows /\ h.open = open
  BY <1>1
<1>3. Starts(h) = [h EXCEPT !.rows = [rows EXCEPT ![open] = row]]
  BY <1>2, Zenon DEF Starts
<1>4. \A x : [h EXCEPT !.rows = x] = [rows |-> x, open |-> open]
  BY <1>1
<1> QED BY <1>1, <1>3, <1>4

(* The record of a change adds to the rows what the change did.            *)
LEMMA WitnessReads ==
  ASSUME EpisodeType, NEW c \in Changes, Witness(c)
  PROVE  /\ EpisodeType' /\ Happened(c)'
         /\ ReadRecord(Actual, AsRecorded("state_change", c)) = Actual'
<1> DEFINE r == AsRecorded("state_change", c)
           row == [n |-> c.n, started |-> FALSE, recovered |-> FALSE]
<1>1. r.kind = "state_change" /\ r.change = c /\ c.n \in Nat
  BY DEF AsRecorded, Changes
<1>2. Actual.rows = episodes /\ Actual.open = current /\ Len(episodes) \in Nat
  BY DEF Actual, EpisodeType
<1> HIDE DEF r
<1>3. CASE c.to \in HaltStates
  <2>1. episodes' = Append(episodes, row) /\ current' = Len(episodes) + 1
    BY <1>3 DEF Witness
  <2>2. row \in Row
    BY <1>1 DEF Row
  <2>3. /\ episodes' \in Seq(Row) /\ Len(episodes') = Len(episodes) + 1
        /\ episodes'[Len(episodes) + 1] = row
    <3> HIDE DEF row
    <3> QED BY <2>1, <2>2 DEF EpisodeType
  <2>4. EpisodeType' /\ Happened(c)'
    BY <1>2, <1>3, <2>1, <2>3 DEF EpisodeType, Happened, HaltStates
  <2>5. ReadRecord(Actual, r) = NewRow(Actual, r)
    BY <1>1, <1>3 DEF ReadRecord, HaltStates
  <2>6. NewRow(Actual, r) = Actual'
    BY <1>1, <1>2, <2>1 DEF NewRow, Actual
  <2> QED BY <2>4, <2>5, <2>6 DEF r
<1>4. CASE c.to \notin HaltStates /\ current # 0 /\ c.from = "HALTED"
  <2>1. episodes' = [episodes EXCEPT ![current].started = TRUE] /\ current' = current
    BY <1>4 DEF Witness
  <2>2. current \in 1..Len(episodes) /\ episodes[current] \in Row
    BY <1>4 DEF EpisodeType
  <2>3. PICK row2 : row2 = [episodes[current] EXCEPT !.started = TRUE]
    OBVIOUS
  <2>4. row2 \in Row /\ row2.started
    BY <2>2, <2>3 DEF Row
  <2>5. episodes' = [episodes EXCEPT ![current] = row2]
    BY <2>1, <2>3
  <2>6. episodes' \in Seq(Row) /\ Len(episodes') = Len(episodes) /\ episodes'[current] = row2
    BY <2>2, <2>4, <2>5 DEF EpisodeType
  <2>7. EpisodeType' /\ Happened(c)'
    BY <1>4, <2>1, <2>4, <2>6 DEF EpisodeType, Happened
  <2>8. ReadRecord(Actual, r) = Starts(Actual)
    BY <1>1, <1>2, <1>4 DEF ReadRecord
  <2>9. Starts(Actual) = [rows |-> [episodes EXCEPT ![current] = row2], open |-> current]
    BY <2>3, StartsIs DEF Actual
  <2>10. Starts(Actual) = Actual'
    BY <2>1, <2>5, <2>9 DEF Actual
  <2> QED BY <2>7, <2>8, <2>10 DEF r
<1>5. CASE c.to \notin HaltStates /\ current # 0 /\ c.from # "HALTED" /\ c.to = "TRADING"
  <2>1. episodes' = [episodes EXCEPT ![current].recovered = TRUE] /\ current' = 0
    BY <1>5 DEF Witness
  <2>2. current \in 1..Len(episodes) /\ episodes[current] \in Row
    BY <1>5 DEF EpisodeType
  <2>3. PICK row2 : row2 = [episodes[current] EXCEPT !.recovered = TRUE]
    OBVIOUS
  <2>4. row2 \in Row
    BY <2>2, <2>3 DEF Row
  <2>5. episodes' = [episodes EXCEPT ![current] = row2]
    BY <2>1, <2>3
  <2>6. episodes' \in Seq(Row) /\ Len(episodes') = Len(episodes)
    BY <2>2, <2>4, <2>5 DEF EpisodeType
  <2>7. EpisodeType' /\ Happened(c)'
    BY <1>5, <2>1, <2>6 DEF EpisodeType, Happened
  <2>8. ReadRecord(Actual, r) = Closes(Actual)
    BY <1>1, <1>2, <1>5 DEF ReadRecord
  <2>9. Closes(Actual) = Actual'
    BY <2>1 DEF Closes, Actual
  <2> QED BY <2>7, <2>8, <2>9 DEF r
<1>6. CASE /\ c.to \notin HaltStates
           /\ current = 0 \/ (c.from # "HALTED" /\ c.to # "TRADING")
  <2>1. episodes' = episodes /\ current' = current
    BY <1>6 DEF Witness, truth
  <2>2. EpisodeType' /\ Happened(c)'
    BY <1>6, <2>1 DEF EpisodeType, Happened
  <2>3. ReadRecord(Actual, r) = Actual
    BY <1>1, <1>2, <1>6 DEF ReadRecord
  <2>4. Actual' = Actual
    BY <2>1 DEF Actual
  <2> QED BY <2>2, <2>3, <2>4 DEF r
<1> QED BY <1>3, <1>4, <1>5, <1>6
(* A change while nobody is told of another one.                           *)
LEMMA MoveHistory ==
  ASSUME BotType, HistoryInv, NEW a \in Threads, NEW from \in States, NEW to \in States,
         NEW m, NEW l, MovesTo(a, from, to, m, l), History' = History
  PROVE  HistoryInv'
<1>0. PICK c : c = Change(from, to)
  OBVIOUS
<1>1. c \in Changes /\ Witness(c) /\ EpisodeType
  <2>1. changes + 1 \in Nat
    BY DEF BotType
  <2>2. c \in Changes
    BY <1>0, <2>1 DEF Change, Changes
  <2> QED BY <1>0, <2>2 DEF MovesTo, HistoryInv
<1>2. /\ DOMAIN delivering' = Threads
      /\ delivering'[a] = [change |-> c, stage |-> "persist", halt |-> l]
      /\ \A b \in Threads : b # a => delivering'[b] = delivering[b]
  BY <1>0, StageType DEF MovesTo
<1>3. delivering'[a].change = c /\ delivering'[a].stage = "persist"
  BY <1>2
<1>4. /\ EpisodeType' /\ Happened(c)'
      /\ ReadRecord(Actual, AsRecorded("state_change", c)) = Actual'
  BY <1>1, WitnessReads
<1>5. ASSUME ~lost' PROVE (OneDelivery /\ ToldInv /\ WaitingInv /\ ReadInv)'
  <2>1. ~lost /\ \A b \in Threads : delivering[b].stage = "done"
    BY <1>5 DEF MovesTo, Told
  <2>2. History = Actual
    BY <2>1 DEF HistoryInv, ReadInv, Recorded
  <2>3. \A b \in Threads : b # a => delivering'[b].stage = "done"
    BY <1>2, <2>1
  <2>4. OneDelivery'
    BY <2>3 DEF OneDelivery, Told
  <2>5. ToldInv'
    <3>1. \A b \in Threads : Told(b)' => delivering'[b].change = c
      BY <1>3, <2>3 DEF Told
    <3> QED BY <1>4, <3>1 DEF ToldInv, Happened
  <2>6. WaitingInv'
    <3> SUFFICES ASSUME NEW b \in Threads, delivering'[b].stage = "persist"
                 PROVE  ReadRecord(History', AsRecorded("state_change", delivering'[b].change))
                          = Actual'
      BY DEF WaitingInv
    <3>1. b = a
      BY <2>3
    <3>2. delivering'[b].change = c /\ History' = Actual
      BY <1>3, <2>2, <3>1
    <3> QED BY <1>4, <3>2
  <2>7. ReadInv'
    BY <1>3 DEF ReadInv, Recorded
  <2> QED BY <2>4, <2>5, <2>6, <2>7
<1> QED BY <1>4, <1>5 DEF HistoryInv

(* A step that tells and records nothing.                                  *)
LEMMA QuietHistory ==
  ASSUME HistoryInv, UNCHANGED <<delivering, episodes, current, lost>>, History' = History
  PROVE  HistoryInv'
<1>1. Actual' = Actual /\ EpisodeType'
  BY DEF Actual, EpisodeType, HistoryInv
<1>2. ASSUME ~lost' PROVE (OneDelivery /\ ToldInv /\ WaitingInv /\ ReadInv)'
  <2>1. OneDelivery /\ ToldInv /\ WaitingInv /\ ReadInv
    BY <1>2 DEF HistoryInv
  <2>2. OneDelivery'
    BY <2>1 DEF OneDelivery, Told
  <2>3. ToldInv'
    BY <2>1 DEF ToldInv, Told, Happened
  <2>4. WaitingInv'
    BY <1>1, <2>1 DEF WaitingInv
  <2>5. ReadInv'
    BY <1>1, <2>1 DEF ReadInv, Recorded
  <2> QED BY <2>2, <2>3, <2>4, <2>5
<1> QED BY <1>1, <1>2 DEF HistoryInv

(* The file has the change.                                                *)
LEMMA PersistsHistory ==
  ASSUME IInv, HistoryInv, NEW a \in Threads, Persists(a)
  PROVE  HistoryInv'
<1> DEFINE c == delivering[a].change
<1>1. /\ c \in Changes /\ delivering[a].stage = "persist" /\ DOMAIN delivering = Threads
      /\ "bot" \in Writers /\ "state_change" \in RecordKinds
  BY StageType DEF IInv, Persists, Writers, RecordKinds
<1>2. History' = ReadRecord(History, AsRecorded("state_change", c))
  BY <1>1, HistoryWrites DEF IInv, Persists
<1>3. UNCHANGED <<episodes, current, lost>>
  BY DEF Persists, truth, flags
<1>4. /\ delivering'[a].change = c /\ delivering'[a].stage = "journal"
      /\ \A b \in Threads : b # a => delivering'[b] = delivering[b]
  BY <1>1 DEF Persists
<1>5. Actual' = Actual /\ EpisodeType'
  BY <1>3 DEF Actual, EpisodeType, HistoryInv
<1>6. ASSUME ~lost' PROVE (OneDelivery /\ ToldInv /\ WaitingInv /\ ReadInv)'
  <2>1. OneDelivery /\ ToldInv /\ WaitingInv /\ ReadInv
    BY <1>3, <1>6 DEF HistoryInv
  <2>2. \A b \in Threads : b # a => delivering[b].stage = "done"
    BY <1>1, <2>1 DEF OneDelivery, Told
  <2>3. \A b \in Threads : delivering'[b].change = delivering[b].change /\ (Told(b)' <=> Told(b))
    BY <1>1, <1>4 DEF Told
  <2>4. OneDelivery' /\ ToldInv'
    BY <1>3, <2>1, <2>3 DEF OneDelivery, ToldInv, Happened
  <2>5. \A b \in Threads : delivering'[b].stage # "persist"
    BY <1>4, <2>2
  <2>6. WaitingInv'
    BY <2>5 DEF WaitingInv
  <2>7. ReadRecord(History, AsRecorded("state_change", c)) = Actual
    BY <1>1, <2>1 DEF WaitingInv
  <2>8. ReadInv'
    BY <1>2, <1>5, <2>7 DEF ReadInv
  <2> QED BY <2>4, <2>6, <2>8
<1> QED BY <1>5, <1>6 DEF HistoryInv

(* What the journal writes changes none of the rows: they have it already. *)
LEMMA JournalReads ==
  ASSUME EpisodeType, NEW c \in Changes, Happened(c), NEW kind, kind = JournalKind(c), kind # "none",
         NEW d, d = IF kind = "halt" THEN c ELSE [c EXCEPT !.n = journal]
  PROVE  ReadRecord(Actual, AsRecorded(kind, d)) = Actual
<1> DEFINE r == AsRecorded(kind, d)
<1>1. r.kind = kind /\ r.change = d
  BY DEF AsRecorded
<1>2. Actual.rows = episodes /\ Actual.open = current
  BY DEF Actual
<1> HIDE DEF r
<1>3. CASE c.to \in HaltStates
  <2>1. kind = "halt" /\ d = c
    BY <1>3 DEF JournalKind, HaltStates
  <2>2. current # 0 /\ episodes[current].n = c.n
    BY <1>3 DEF Happened
  <2>3. ReadRecord(Actual, r) = Actual
    BY <1>1, <1>2, <2>1, <2>2 DEF ReadRecord
  <2> QED BY <2>3 DEF r
<1>4. CASE c.to \notin HaltStates /\ c.from = "HALTED"
  <2>1. kind = "recovery_started"
    BY <1>4 DEF JournalKind
  <2>2. CASE current = 0
    <3>1. ReadRecord(Actual, r) = Actual
      BY <1>1, <1>2, <2>1, <2>2 DEF ReadRecord
    <3> QED BY <3>1 DEF r
  <2>3. CASE current # 0
    <3>1. episodes[current].started /\ current \in 1..Len(episodes)
      BY <1>4, <2>3 DEF Happened, EpisodeType
    <3>2. PICK row : row = [episodes[current] EXCEPT !.started = TRUE]
      OBVIOUS
    <3>3. row = episodes[current]
      <4>1. PICK e \in Row : e = episodes[current]
        BY <3>1 DEF EpisodeType
      <4>2. e.started = TRUE /\ row = [e EXCEPT !.started = TRUE]
        BY <3>1, <3>2, <4>1 DEF Row
      <4>3. e = [n |-> e.n, started |-> e.started, recovered |-> e.recovered]
        BY DEF Row
      <4>4. row = [n |-> e.n, started |-> TRUE, recovered |-> e.recovered]
        BY <4>2 DEF Row
      <4> QED BY <4>1, <4>2, <4>3, <4>4
    <3>4. [episodes EXCEPT ![current] = row] = episodes
      BY <3>1, <3>3 DEF EpisodeType
    <3>5. Starts(Actual) = Actual
      BY <3>2, <3>4, StartsIs DEF Actual
    <3>6. ReadRecord(Actual, r) = Starts(Actual)
      BY <1>1, <1>2, <2>1, <2>3 DEF ReadRecord
    <3> QED BY <3>5, <3>6 DEF r
  <2> QED BY <2>2, <2>3
<1>5. CASE c.to \notin HaltStates /\ c.from # "HALTED"
  <2>1. kind = "recovered" /\ c.to = "TRADING"
    BY <1>5 DEF JournalKind
  <2>2. current = 0
    BY <1>5, <2>1 DEF Happened
  <2>3. ReadRecord(Actual, r) = Actual
    BY <1>1, <1>2, <2>1, <2>2 DEF ReadRecord
  <2> QED BY <2>3 DEF r
<1> QED BY <1>3, <1>4, <1>5

LEMMA JournalsHistory ==
  ASSUME IInv, HistoryInv, NEW a \in Threads, Journals(a)
  PROVE  HistoryInv'
<1> DEFINE c == delivering[a].change
           kind == JournalKind(c)
           d == IF kind = "halt" THEN c ELSE [c EXCEPT !.n = journal]
<1>1. /\ c \in Changes /\ delivering[a].stage = "journal" /\ DOMAIN delivering = Threads
      /\ "bot" \in Writers /\ Told(a)
  BY StageType DEF IInv, Journals, Writers, Told
<1>2. UNCHANGED <<episodes, current, lost>>
  BY DEF Journals, truth, flags
<1>3. /\ delivering'[a].stage = "done"
      /\ \A b \in Threads : b # a => delivering'[b] = delivering[b]
  BY <1>1 DEF Journals, Idle
<1>4. kind \in {"halt", "recovery_started", "recovered", "none"}
  BY DEF JournalKind
<1>5. kind # "none" => d \in Changes /\ Write("bot", kind, d)
  <2>1. d \in Changes
    BY <1>1 DEF IInv, BotType, Changes
  <2>2. kind # "none" => Write("bot", kind, d)
    <3>1. CASE kind = "halt"
      BY <3>1 DEF Journals
    <3>2. CASE kind = "recovery_started"
      BY <3>2 DEF Journals
    <3>3. CASE kind = "recovered"
      BY <3>3 DEF Journals
    <3> HIDE DEF d, kind
    <3> QED BY <1>4, <3>1, <3>2, <3>3
  <2> QED BY <2>1, <2>2
<1>6. kind = "none" => file' = file
  BY DEF Journals
<1>7. Actual' = Actual /\ EpisodeType /\ EpisodeType'
  BY <1>2 DEF Actual, EpisodeType, HistoryInv
<1>8. ASSUME ~lost' PROVE (OneDelivery /\ ToldInv /\ WaitingInv /\ ReadInv)'
  <2>1. OneDelivery /\ ToldInv /\ WaitingInv /\ ReadInv
    BY <1>2, <1>8 DEF HistoryInv
  <2>2. \A b \in Threads : b # a => delivering[b].stage = "done"
    BY <1>1, <2>1 DEF OneDelivery, Told
  <2>3. History = Actual /\ Happened(c)
    BY <1>1, <2>1, <2>2 DEF ReadInv, Recorded, ToldInv
  <2>4. \A b \in Threads : delivering'[b].stage = "done"
    BY <1>3, <2>2
  <2>5. OneDelivery' /\ ToldInv' /\ WaitingInv'
    BY <2>4 DEF OneDelivery, ToldInv, WaitingInv, Told
  <2>6. History' = Actual
    <3>1. CASE kind = "none"
      BY <1>6, <2>3, <3>1 DEF History
    <3>2. CASE kind # "none"
      <4>1. kind \in RecordKinds /\ FileType
        BY <1>4, <3>2 DEF RecordKinds, IInv
      <4>2. History' = ReadRecord(History, AsRecorded(kind, d))
        <5> HIDE DEF kind, d
        <5> QED BY <1>1, <1>5, <3>2, <4>1, HistoryWrites
      <4>3. ReadRecord(Actual, AsRecorded(kind, d)) = Actual
        BY <1>1, <1>7, <2>3, <3>2, JournalReads
      <4> QED BY <2>3, <4>2, <4>3
    <3> QED BY <3>1, <3>2
  <2>7. ReadInv'
    BY <1>7, <2>6 DEF ReadInv
  <2> QED BY <2>5, <2>7
<1> QED BY <1>7, <1>8 DEF HistoryInv

(* A crash loses the changes it finds in memory, which is not claimed.     *)
LEMMA CrashHistory == IInv /\ HistoryInv /\ Crash => HistoryInv'
<1> SUFFICES ASSUME IInv, HistoryInv, Crash PROVE HistoryInv'
  OBVIOUS
<1>1. UNCHANGED <<episodes, current>> /\ \A b \in Threads : delivering'[b].stage = "done"
  BY DEF Crash, truth, Idle
<1>2. History' = History
  <2>1. CASE file' = file
    BY <2>1 DEF History
  <2>2. CASE \E b \in Threads :
               file' = Append(file, [Record("bot", "state_change", NoChange) EXCEPT !.torn = TRUE])
    <3>1. PICK s : s = Record("bot", "state_change", NoChange)
      OBVIOUS
    <3>2. PICK r : r = [s EXCEPT !.torn = TRUE]
      OBVIOUS
    <3>3. s \in Records /\ s.kind = "state_change" /\ s.change = NoChange
      <4>1. s \in Records
        BY <3>1, RecordType, BotWrites DEF IInv, NoChange, Changes, States, RecordKinds
      <4> QED BY <3>1, <4>1 DEF Record
    <3>4. r \in Records
      BY <3>2, <3>3 DEF Records
    <3>5. r.kind = "state_change" /\ r.change = NoChange
      BY <3>2, <3>3 DEF Records
    <3>6. file' = Append(file, r)
      BY <2>2, <3>1, <3>2
    <3>7. History' = ReadRecord(History, r)
      BY <3>4, <3>6, HistoryGrows DEF IInv
    <3> QED BY <3>5, <3>7, ReadOther
  <2> QED BY <2>1, <2>2 DEF Crash
<1>3. Actual' = Actual /\ EpisodeType'
  BY <1>1 DEF Actual, EpisodeType, HistoryInv
<1>4. ASSUME ~lost' PROVE (OneDelivery /\ ToldInv /\ WaitingInv /\ ReadInv)'
  <2>1. ~lost /\ Recorded
    BY <1>4 DEF Crash, Recorded
  <2>2. History = Actual
    BY <2>1 DEF HistoryInv, ReadInv
  <2>3. OneDelivery' /\ ToldInv' /\ WaitingInv'
    BY <1>1 DEF OneDelivery, ToldInv, WaitingInv, Told
  <2> QED BY <1>2, <1>3, <2>2, <2>3 DEF ReadInv
<1> QED BY <1>3, <1>4 DEF HistoryInv
-----------------------------------------------------------------------------
LEMMA InitHistory == Init => HistoryInv
<1> SUFFICES ASSUME Init PROVE HistoryInv
  OBVIOUS
<1>1. EpisodeType
  BY DEF Init, EpisodeType
<1>2. \A a \in Threads : delivering[a].stage = "done"
  BY DEF Init, Idle
<1>3. History = Actual
  BY ReadNothing DEF Init, History, Actual, NoRows
<1>4. OneDelivery /\ ToldInv /\ WaitingInv /\ ReadInv
  BY <1>2, <1>3 DEF OneDelivery, ToldInv, WaitingInv, ReadInv, Told
<1> QED BY <1>1, <1>4 DEF HistoryInv

LEMMA NextHistory == IInv /\ HistoryInv /\ [Next]_vars => HistoryInv'
<1> SUFFICES ASSUME IInv, HistoryInv, [Next]_vars PROVE HistoryInv'
  OBVIOUS
<1>0. BotType /\ FileType /\ state \in States /\ Threads = {"loop", "stall"}
  BY DEF IInv, BotType, Threads
<1>1. CASE BotStarts
  <2>1. History' = History
    BY <1>1 DEF BotStarts, History
  <2> QED BY <1>0, <1>1, <2>1, MoveHistory DEF BotStarts, States
<1>2. CASE StartsTrading \/ Recovers
  <2>1. History' = History
    BY <1>2 DEF StartsTrading, Recovers, Goes, History
  <2>2. CASE StartsTrading
    BY <1>0, <2>1, <2>2, MoveHistory DEF StartsTrading, Goes, States
  <2>3. CASE Recovers
    BY <1>0, <2>1, <2>3, MoveHistory DEF Recovers, Goes, States
  <2> QED BY <1>2, <2>2, <2>3
<1>3. CASE LoopHalts
  <2>1. History' = History
    BY <1>3 DEF LoopHalts, History
  <2> QED BY <1>0, <1>3, <2>1, MoveHistory DEF LoopHalts, States
<1>4. CASE StallHalts
  <2>1. History' = History
    BY <1>4 DEF StallHalts, History
  <2> QED BY <1>0, <1>4, <2>1, MoveHistory DEF StallHalts, States
<1>5. CASE StallEscalates
  <2>1. History' = History /\ UNCHANGED <<delivering, episodes, current, lost>>
    BY <1>5 DEF StallEscalates, History, truth, flags
  <2> QED BY <2>1, QuietHistory
<1>6. CASE LoopEngages
  <2>1. History' = History
    BY <1>0, <1>6, CommandRead DEF LoopEngages, Writers
  <2> QED BY <1>0, <1>6, <2>1, MoveHistory DEF LoopEngages, States
<1>7. CASE \E a \in Threads : Persists(a)
  BY <1>7, PersistsHistory
<1>8. CASE \E a \in Threads : Journals(a)
  BY <1>8, JournalsHistory
<1>9. CASE Crash
  BY <1>9, CrashHistory
<1>10. CASE \E c \in Commands : CommandStarts(c)
  <2>1. History' = History /\ UNCHANGED <<delivering, episodes, current, lost>>
    BY <1>10 DEF CommandStarts, History, truth
  <2> QED BY <2>1, QuietHistory
<1>11. CASE \E c \in Commands : CommandWrites(c)
  <2>1. PICK c \in Commands : CommandWrites(c)
    BY <1>11
  <2>2. UNCHANGED <<delivering, episodes, current, lost>> /\ Write(c, "command", NoChange)
    BY <2>1 DEF CommandWrites, truth, flags
  <2>3. History' = History
    BY <1>0, <2>2, BotWrites, CommandRead
  <2> QED BY <2>2, <2>3, QuietHistory
<1>12. CASE UNCHANGED vars
  <2>1. History' = History /\ UNCHANGED <<delivering, episodes, current, lost>>
    BY <1>12 DEF vars, History, truth, flags
  <2> QED BY <2>1, QuietHistory
<1> QED
  BY <1>1, <1>2, <1>3, <1>4, <1>5, <1>6, <1>7, <1>8, <1>9, <1>10, <1>11, <1>12 DEF Next

(***************************************************************************)
(* halt_history shows what happened: over any crashes and restarts, and    *)
(* beside any commands, the rows it rebuilds from the file are the halts   *)
(* of the bot, in order, each with its recovery if and only if there was   *)
(* one, unless a change was made while another was still being told or a   *)
(* crash lost it.                                                          *)
(***************************************************************************)
THEOREM HistoryTold == Spec => []HistoryIsTrue
<1>1. HistoryInv => HistoryIsTrue
  <2> SUFFICES ASSUME HistoryInv, Recorded, ~lost PROVE Rows = episodes
    BY DEF HistoryIsTrue
  <2>1. History = Actual
    BY DEF HistoryInv, ReadInv
  <2>2. Rows = History.rows
    BY DEF Rows, History, Read, NoRows
  <2> QED BY <2>1, <2>2 DEF Actual
<1>2. Init => HistoryInv
  BY InitHistory
<1>3. IInv /\ IInv' /\ HistoryInv /\ [Next]_vars => HistoryInv'
  BY NextHistory
<1> QED BY <1>1, <1>2, <1>3, Invariance, PTL DEF Spec
=============================================================================
