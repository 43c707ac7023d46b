---------------------------- MODULE EscrowProofs ----------------------------
(***************************************************************************)
(* TradeCoordinator implements Escrow, for every set of records and every  *)
(* number of transactions: each step is the abstract step it stands for,   *)
(* or is not seen.                                                         *)
(***************************************************************************)
EXTENDS EscrowRefinement, TradeCoordinatorProofs

----------------------------------------------------------------------------
(***************************************************************************)
(* What the exchange of a journal depends on.                              *)
(***************************************************************************)

\* Stopping aside, a journal is in one of the states of an exchange.
LEMMA LastStateType ==
    ASSUME NEW r \in JournalRecord, NEW own, NEW arm, Truthful(r, own, arm)
    PROVE  LastState(r) \in JournalState \ {"RECOVERY_REQUIRED"}
<1>1. /\ r.history \in Seq(JournalState) /\ r.state \in JournalState /\ r.sequence \in Nat
      /\ Len(r.history) = r.sequence + 1
      /\ r.state = "RECOVERY_REQUIRED" => r.sequence > 0
      /\ LastState(r) # "RECOVERY_REQUIRED"
  BY DEF JournalRecord, Truthful
<1>2. CASE r.state = "RECOVERY_REQUIRED"
  <2>1. r.history[Len(r.history) - 1] \in JournalState
    BY <1>1, <1>2
  <2> QED
    BY <1>1, <1>2, <2>1 DEF LastState
<1> QED
  BY <1>1, <1>2 DEF LastState

\* The journals an exchange is read from are truthful records.
LEMMA KnownTruthful ==
    ASSUME CoordinatorInvariant, NEW r \in Known
    PROVE  r \in JournalRecord /\ Truthful(r, owner, armed) /\ r # NoRecord
BY NoRecordIsNoJournal DEF CoordinatorInvariant, TypeOK, Known, Journals, JournalsTruthful, Leaving

LEMMA ExchangeFields ==
    ASSUME NEW r \in JournalRecord, NEW own, NEW given
    PROVE  LET turn == Turn(LastState(r), r.pokemon, own)
               hand == Hand(turn, r.pokemon, given)
               before == Before(turn, hand, r.pokemon, own)
           IN  /\ Exchange(r, own, given).placeholder = r.pokemon["P"]
               /\ Exchange(r, own, given).turn = turn
               /\ Exchange(r, own, given).hand = hand
               /\ Exchange(r, own, given).before = before
               /\ Exchange(r, own, given) =
                     [placeholder |-> r.pokemon["P"], turn |-> turn, hand |-> hand, before |-> before]
BY NoRecordIsNoJournal DEF Exchange

LEMMA SameBefore ==
    ASSUME NEW turn, NEW hand, NEW pk, NEW qk, NEW own,
           pk["P"] = qk["P"],
           turn \notin {0, 1} => pk["B"] = qk["B"],
           turn \notin {0, 1, 2} => pk["A"] = qk["A"]
    PROVE  Before(turn, hand, pk, own) = Before(turn, hand, qk, own)
<1>1. CASE turn = 0
  BY <1>1 DEF Before
<1>2. CASE turn = 1
  BY <1>2 DEF Before
<1>3. CASE turn = 2
  <2>1. turn # 0 /\ turn # 1 /\ pk["B"] = qk["B"]
    BY <1>3
  <2>2. Before(turn, hand, pk, own) =
            [own EXCEPT ![hand] = "gba", ![pk["B"]] = "switch", ![pk["P"]] = "broker"]
    BY <1>3 DEF Before
  <2>3. Before(turn, hand, qk, own) =
            [own EXCEPT ![hand] = "gba", ![qk["B"]] = "switch", ![qk["P"]] = "broker"]
    BY <1>3 DEF Before
  <2> QED
    BY <2>1, <2>2, <2>3
<1>4. CASE turn \notin {0, 1, 2}
  <2>1. turn # 0 /\ turn # 1 /\ turn # 2 /\ pk["A"] = qk["A"] /\ pk["B"] = qk["B"]
    BY <1>4
  <2>2. Before(turn, hand, pk, own) =
            [own EXCEPT ![hand] = "switch", ![pk["A"]] = "gba", ![pk["B"]] = "switch",
                        ![pk["P"]] = "broker"]
    BY <2>1 DEF Before
  <2>3. Before(turn, hand, qk, own) =
            [own EXCEPT ![hand] = "switch", ![qk["A"]] = "gba", ![qk["B"]] = "switch",
                        ![qk["P"]] = "broker"]
    BY <2>1 DEF Before
  <2> QED
    BY <2>1, <2>2, <2>3
<1> QED
  BY <1>1, <1>2, <1>3, <1>4

\* Two journals with the same placeholder and the same number of trades, and
\* with the same records passed on in them, stand for the same exchange.
LEMMA SameExchange ==
    ASSUME NEW r \in JournalRecord, NEW q \in JournalRecord, NEW own, NEW given,
           r.pokemon["P"] = q.pokemon["P"],
           Turn(LastState(r), r.pokemon, own) = Turn(LastState(q), q.pokemon, own),
           Turn(LastState(r), r.pokemon, own) \notin {0, 1} => r.pokemon["B"] = q.pokemon["B"],
           Turn(LastState(r), r.pokemon, own) \notin {0, 1, 2} => r.pokemon["A"] = q.pokemon["A"]
    PROVE  Exchange(r, own, given) = Exchange(q, own, given)
<1> DEFINE turn == Turn(LastState(r), r.pokemon, own)
           hand == Hand(turn, r.pokemon, given)
<1>1. hand = Hand(turn, q.pokemon, given)
  BY DEF Hand
<1> HIDE DEF hand
<1>2. Before(turn, hand, r.pokemon, own) = Before(turn, hand, q.pokemon, own)
  BY SameBefore
<1> QED
  BY <1>1, <1>2, ExchangeFields DEF hand

\* A stop keeps the exchange.
LEMMA StoppedExchange ==
    ASSUME NEW r \in JournalRecord, NEW e \in Errors, NEW own, NEW arm, NEW given,
           r.state # "RECOVERY_REQUIRED", Truthful(r, own, arm)
    PROVE  /\ Exchange(Stopped(r, e), own, given) = Exchange(r, own, given)
           /\ LastState(Stopped(r, e)) = LastState(r)
           /\ Stopped(r, e).pokemon = r.pokemon
           /\ Stopped(r, e) \in JournalRecord
           /\ Stopped(r, e).state = "RECOVERY_REQUIRED"
<1> DEFINE t == Stopped(r, e)
<1>1. /\ t.state = "RECOVERY_REQUIRED" /\ t.pokemon = r.pokemon
      /\ t.history = Append(r.history, "RECOVERY_REQUIRED")
  BY DEF Stopped, Transitioned
<1>2. t \in JournalRecord
  BY StoppedTruthful
<1> HIDE DEF t
<1>3. r.history \in Seq(JournalState) /\ Len(r.history) = r.sequence + 1 /\ r.sequence \in Nat
      /\ r.history[r.sequence + 1] = r.state
  BY DEF JournalRecord, Truthful
<1>4. LastState(t) = r.state /\ LastState(r) = r.state
  BY <1>1, <1>3 DEF LastState
<1>5. Exchange(t, own, given) = Exchange(r, own, given)
  BY <1>1, <1>2, <1>4, SameExchange
<1> QED
  BY <1>1, <1>2, <1>4, <1>5 DEF t

----------------------------------------------------------------------------
(***************************************************************************)
(* Steps that move no record.                                              *)
(***************************************************************************)

Durable == disk.state = "COMPLETE" /\ survivors = {disk}

\* The journal on disk is one of the known ones.
LEMMA DiskKnown ==
    ASSUME CoordinatorInvariant, disk # NoRecord
    PROVE  disk \in Known
BY DEF CoordinatorInvariant, FilesAgree, Known, Journals

\* What has been exchanged, once it is over.
Exchanged(bef, own) ==
    \E a, b \in Mons : /\ bef[a] = "gba" /\ bef[b] = "switch"
                       /\ own = [bef EXCEPT ![a] = "switch", ![b] = "gba"]

\* A truthful COMPLETE journal stands for three trades, with the placeholder
\* back if that is what the Switch gave; undoing them gives A back to the GBA
\* and B to the Switch, and changes nothing else.
LEMMA CompleteIsOver ==
    ASSUME NEW d \in JournalRecord, NEW own \in [Mons -> Holders], NEW arm, NEW given,
           d.state = "COMPLETE", Handed(LastState(d), d.pokemon, given),
           Truthful(d, own, arm)
    PROVE  LET e == Exchange(d, own, given)
           IN  e.turn = 3 /\ e.hand = e.placeholder /\ Exchanged(e.before, own)
<1>1. LastState(d) = "COMPLETE"
  BY DEF LastState
<1>2. given["switch"] = d.pokemon["P"]
  BY <1>1 DEF Handed
<1>3. Turn(LastState(d), d.pokemon, own) = 3
  BY <1>1 DEF Turn, Started, TradesRecorded
<1>4. Hand(3, d.pokemon, given) = d.pokemon["P"]
  BY <1>2 DEF Hand
<1> DEFINE a == d.pokemon["A"]
           b == d.pokemon["B"]
           p == d.pokemon["P"]
           bef == Before(3, p, d.pokemon, own)
<1>5. /\ a \in Mons /\ b \in Mons /\ p \in Mons
      /\ own[a] = "switch" /\ own[b] = "gba" /\ own[p] = "broker"
  BY <1>1 DEF Truthful, Truth
<1>6. bef = [own EXCEPT ![p] = "switch", ![a] = "gba", ![b] = "switch", ![p] = "broker"]
  BY DEF Before
<1> HIDE DEF a, b, p, bef
<1>7. bef[a] = "gba" /\ bef[b] = "switch" /\ own = [bef EXCEPT ![a] = "switch", ![b] = "gba"]
  BY <1>5, <1>6
<1>8. Exchanged(bef, own)
  BY <1>5, <1>7 DEF Exchanged
<1> QED
  BY <1>3, <1>4, <1>8, ExchangeFields DEF bef, p

\* A step that keeps the exchange, or drops the journal, is Finish, End or
\* nothing.
LEMMA Unmoved ==
    ASSUME CoordinatorInvariant', EscrowInvariant', UNCHANGED owner,
           \/ disk' = NoRecord
           \/ /\ Exchange(disk', owner', gave') = Exchange(disk, owner, gave)
              /\ Durable => Durable'
    PROVE  Broker!Next \/ UNCHANGED Broker!vars
<1>1. CASE disk' = NoRecord
  <2>1. Exchange(disk', owner', gave') = [placeholder |-> NoMon, turn |-> 0, hand |-> NoMon, before |-> owner']
    BY <1>1 DEF Exchange
  <2>2. ~(disk'.state = "COMPLETE" /\ survivors' = {disk'})
    BY <1>1 DEF NoRecord
  <2>3. Broker!End
    BY <2>1, <2>2 DEF Broker!End
  <2> QED
    BY <2>3 DEF Broker!Next
<1>2. CASE /\ Exchange(disk', owner', gave') = Exchange(disk, owner, gave)
           /\ Durable'
  <2>1. Exchange(disk, owner, gave).turn = 3
        /\ Exchange(disk, owner, gave).hand = Exchange(disk, owner, gave).placeholder
        /\ Exchanged(Exchange(disk, owner, gave).before, owner)
    <3>1. disk'.state = "COMPLETE" /\ disk' # NoRecord
      BY <1>2 DEF Durable, NoRecord
    <3>2. /\ disk' \in JournalRecord /\ disk' \in Known'
          /\ owner' \in [Mons -> Holders] /\ Truthful(disk', owner', armed')
      BY <3>1 DEF CoordinatorInvariant, TypeOK, FilesAgree, JournalsTruthful, Known, Journals
    <3>3. Handed(LastState(disk'), disk'.pokemon, gave')
      BY <3>2 DEF EscrowInvariant
    <3>4. LET e == Exchange(disk', owner', gave')
          IN  e.turn = 3 /\ e.hand = e.placeholder /\ Exchanged(e.before, owner')
      BY <3>1, <3>2, <3>3, CompleteIsOver
    <3> QED
      BY <1>2, <3>4
  <2>2. (disk'.state = "COMPLETE" /\ survivors' = {disk'}) = TRUE
    BY <1>2 DEF Durable
  <2>3. Broker!Finish
    BY <1>2, <2>1, <2>2 DEF Broker!Finish, Exchanged
  <2> QED
    BY <2>3 DEF Broker!Next
<1>3. CASE /\ Exchange(disk', owner', gave') = Exchange(disk, owner, gave)
           /\ ~Durable /\ ~Durable'
  <2>1. (disk'.state = "COMPLETE" /\ survivors' = {disk'})
            = (disk.state = "COMPLETE" /\ survivors = {disk})
    BY <1>3 DEF Durable
  <2> QED
    BY <1>3, <2>1 DEF Broker!vars
<1> QED
  BY <1>1, <1>2, <1>3

\* A step that leaves files and consoles alone keeps the invariant as long as
\* no new journal becomes known, and is not seen.
LEMMA QuietKeepsEscrow ==
    ASSUME EscrowInvariant, UNCHANGED <<disk, survivors, owner, gave>>,
           Known' \subseteq Known, pc' = "recover" => disk # NoRecord, Received'
    PROVE  EscrowInvariant' /\ UNCHANGED Broker!vars
<1>1. EscrowInvariant'
  BY DEF EscrowInvariant
<1>2. UNCHANGED Broker!vars
  BY DEF Broker!vars
<1> QED
  BY <1>1, <1>2

\* Leaving the try block makes no new journal known.
LEMMA RaisedKnown ==
    ASSUME CoordinatorInvariant, pc' = "recover" => pc \in TryPoints /\ record' = record,
           UNCHANGED survivors
    PROVE  Known' \subseteq Known /\ (pc' = "recover" => disk # NoRecord)
<1>1. CASE pc' = "recover"
  <2>1. survivors = {record} /\ disk = record
    BY <1>1, TryFacts
  <2>2. record # NoRecord
    BY <1>1, TryFacts, NoRecordIsNoJournal
  <2> QED
    BY <1>1, <2>1, <2>2 DEF Known, Journals
<1>2. CASE pc' # "recover"
  BY <1>2 DEF Known, Journals
<1> QED
  BY <1>1, <1>2

\* Writing a journal for the same exchange keeps it.
LEMMA WrittenKeepsEscrow ==
    ASSUME CoordinatorInvariant', EscrowInvariant, NEW r \in JournalRecord,
           UNCHANGED <<owner, gave>>,
           Known' \subseteq Known \cup {r},
           \A q \in Known : Exchange(r, owner, gave) = Exchange(q, owner, gave),
           Handed(LastState(r), r.pokemon, gave),
           disk' = NoRecord => survivors' = {NoRecord} /\ pc' # "recover",
           Received'
    PROVE  EscrowInvariant'
<1>1. \A q1, q2 \in Known' : Exchange(q1, owner', gave') = Exchange(q2, owner', gave')
  BY DEF EscrowInvariant
<1>2. \A q \in Known' : Handed(LastState(q), q.pokemon, gave')
  BY DEF EscrowInvariant
<1> QED
  BY <1>1, <1>2 DEF EscrowInvariant

----------------------------------------------------------------------------
(***************************************************************************)
(* The process between its trades.                                         *)
(***************************************************************************)

\* Outside the steps that follow an accepted trade nothing was received.
LEMMA NothingReceived ==
    ASSUME pc' \notin {"artifact_b", "captured_b", "artifact_a", "captured_a", "artifact_p",
                      "committed_a", "verify", "complete"}
    PROVE  Received'
BY DEF Received

\* Starting, looking at the journal, and ending.
LEMMA IdleKeepsEscrow ==
    ASSUME CoordinatorInvariant, EscrowInvariant,
           \/ \E p \in Mons : Start(p)
           \/ NoJournalFound \/ LoadJournal \/ TerminalFound \/ Close \/ Crash
    PROVE  EscrowInvariant' /\ UNCHANGED Broker!vars
<1>1. /\ UNCHANGED <<disk, survivors, owner, gave>>
      /\ pc' \in {"down", "require", "create_artifact", "loaded"}
  BY DEF Start, NoJournalFound, LoadJournal, TerminalFound, Close, Crash, Exit, Gone, fileVars,
         consoleVars
<1>2. Known' \subseteq Known /\ (pc' = "recover" => disk # NoRecord)
  BY <1>1, RaisedKnown
<1> QED
  BY <1>1, <1>2, NothingReceived, QuietKeepsEscrow

\* create saves P.
LEMMA CreateArtifactKeepsEscrow ==
    ASSUME CoordinatorInvariant, EscrowInvariant, NEW outcome \in WriteOutcomes,
           CreateArtifact(outcome)
    PROVE  EscrowInvariant' /\ UNCHANGED Broker!vars
<1>1. /\ UNCHANGED <<disk, survivors, owner, gave>> /\ pc' \in {"down", "create_write"}
  BY DEF CreateArtifact, Exit, Gone, consoleVars
<1>2. Known' \subseteq Known /\ (pc' = "recover" => disk # NoRecord)
  BY <1>1, RaisedKnown
<1> QED
  BY <1>1, <1>2, NothingReceived, QuietKeepsEscrow

\* Connecting, failing calls, saved artifacts and the last comparison.
LEMMA TryKeepsEscrow ==
    ASSUME CoordinatorInvariant, EscrowInvariant,
           \/ ConnectSwitch \/ ConnectGba \/ EndpointRaises \/ VerifyPlaceholder
           \/ \E outcome \in WriteOutcomes : SaveB(outcome) \/ SaveA(outcome) \/ SaveReturned(outcome)
    PROVE  EscrowInvariant' /\ UNCHANGED Broker!vars
<1>1. /\ UNCHANGED <<disk, survivors, owner, gave, record, mon>>
      /\ \/ pc' \in {"recover", "connect_gba", "start1"}
         \/ pc = "artifact_b" /\ pc' = "captured_b"
         \/ pc = "artifact_a" /\ pc' = "captured_a"
         \/ pc = "artifact_p" /\ pc' = "committed_a"
         \/ pc = "verify" /\ pc' = "complete"
      /\ pc \in TryPoints
  BY DEF ConnectSwitch, ConnectGba, Connect, EndpointRaises, VerifyPlaceholder, SaveB, SaveA,
         SaveReturned, SaveArtifact, Proceed, Continue, Raise, fileVars, consoleVars, TryPoints,
         UnderIdle, UnderStage1, UnderB, UnderGba, UnderA, UnderStage2, UnderCommit
<1>2. Known' \subseteq Known /\ (pc' = "recover" => disk # NoRecord)
  BY <1>1, RaisedKnown
<1>3. Received'
  BY <1>1 DEF EscrowInvariant, Received
<1> QED
  BY <1>1, <1>2, <1>3, QuietKeepsEscrow

\* A call that returns: what execute keeps is what the console gave.
LEMMA ReturnsKeepEscrow ==
    ASSUME CoordinatorInvariant, EscrowInvariant, Switch1Returns \/ GbaReturns \/ Switch2Returns
    PROVE  EscrowInvariant' /\ UNCHANGED Broker!vars
<1>1. /\ UNCHANGED <<disk, survivors, owner, gave, record>>
      /\ pc \in {"trade1", "trade_gba", "trade2"}
  BY DEF Switch1Returns, GbaReturns, Switch2Returns, fileVars, consoleVars
<1>2. pc \in TryPoints
  BY <1>1 DEF TryPoints, UnderStage1, UnderGba, UnderStage2
<1>3. Known' \subseteq Known /\ (pc' = "recover" => disk # NoRecord)
  BY <1>1, <1>2, RaisedKnown
<1>4. TypeOK
  BY DEF CoordinatorInvariant
<1>5. Received'
  <2>1. CASE Switch1Returns
    <3> DEFINE offer == mon["placeholder"]
    <3>1. PICK r \in TradeResult("switch", offer) :
              Receive(r, offer, OrElse(ResultError(r, offer), MailError(r.received_mon)),
                      "b_mon", "artifact_b")
      BY <2>1 DEF Switch1Returns
    <3>2. ResultError(r, offer) = "none" => gave["switch"] = r.received_mon
      BY ErrorTypes DEF TradeResult
    <3>3. OrElse(ResultError(r, offer), MailError(r.received_mon)) = "none"
              => ResultError(r, offer) = "none"
      BY DEF OrElse
    <3>4. \/ pc' = "recover"
          \/ /\ pc' = "artifact_b" /\ gave["switch"] = r.received_mon
             /\ mon' = [mon EXCEPT !["b_mon"] = r.received_mon]
      BY <3>1, <3>2, <3>3 DEF Receive, Continue, Raise
    <3> QED
      BY <1>1, <1>4, <3>4 DEF Received, TypeOK, Locals
  <2>2. CASE GbaReturns
    <3> DEFINE offer == mon["b_mon"]
    <3>1. PICK r \in GbaTradeResult(offer) :
              Receive(r, offer, OrElse(GbaResultError(r, offer), MailError(r.received_mon)),
                      "a_mon", "artifact_a")
      BY <2>2 DEF GbaReturns
    <3>2. ResultError(r, offer) = "none" => gave["gba"] = r.received_mon
      BY ErrorTypes DEF GbaTradeResult
    <3>3. OrElse(GbaResultError(r, offer), MailError(r.received_mon)) = "none"
              => ResultError(r, offer) = "none"
      BY ErrorTypes DEF OrElse
    <3>4. \/ pc' = "recover"
          \/ /\ pc' = "artifact_a" /\ gave["gba"] = r.received_mon
             /\ mon' = [mon EXCEPT !["a_mon"] = r.received_mon]
      BY <3>1, <3>2, <3>3 DEF Receive, Continue, Raise
    <3> QED
      BY <1>1, <1>4, <3>4 DEF Received, TypeOK, Locals
  <2>3. CASE Switch2Returns
    <3> DEFINE offer == mon["a_mon"]
    <3>1. PICK r \in TradeResult("switch", offer) :
              Receive(r, offer, ResultError(r, offer), "returned", "artifact_p")
      BY <2>3 DEF Switch2Returns
    <3>2. ResultError(r, offer) = "none" => gave["switch"] = r.received_mon
      BY ErrorTypes DEF TradeResult
    <3>3. \/ pc' = "recover"
          \/ /\ pc' = "artifact_p" /\ gave["switch"] = r.received_mon
             /\ mon' = [mon EXCEPT !["returned"] = r.received_mon]
      BY <3>1, <3>2 DEF Receive, Continue, Raise
    <3> QED
      BY <1>1, <1>4, <3>3 DEF Received, TypeOK, Locals
  <2> QED
    BY <2>1, <2>2, <2>3
<1> QED
  BY <1>1, <1>3, <1>5, QuietKeepsEscrow

----------------------------------------------------------------------------
(***************************************************************************)
(* The journal's writes.                                                   *)
(***************************************************************************)

\* A transition that neither makes nor forgets a trade is a stutter or the end
\* of the exchange, whatever becomes of its write.
LEMMA PersistKeepsEscrow ==
    ASSUME CoordinatorInvariant, CoordinatorInvariant', EscrowInvariant,
           NEW at \in TryPoints, NEW next \in ControlPoints \ {"recover"},
           NEW s \in JournalState \ {"RECOVERY_REQUIRED"},
           NEW pk \in [Labels -> Mons \cup {NoMon}], NEW loc \in [Labels -> Places],
           NEW n \in 0..5 \cup {NoSlot}, NEW outcome \in WriteOutcomes,
           Persist(at, s, pk, loc, n, next, outcome),
           pk["P"] = record.pokemon["P"],
           Turn(s, pk, owner) = Turn(record.state, record.pokemon, owner),
           Turn(s, pk, owner) \notin {0, 1} => pk["B"] = record.pokemon["B"],
           Turn(s, pk, owner) \notin {0, 1, 2} => pk["A"] = record.pokemon["A"],
           Handed(s, pk, gave),
           next = "verify" => gave["switch"] = mon["returned"],
           next \notin {"artifact_b", "captured_b", "artifact_a", "captured_a", "artifact_p",
                        "committed_a", "complete"}
    PROVE  EscrowInvariant' /\ (Broker!Next \/ UNCHANGED Broker!vars)
<1> DEFINE t == Transitioned(record, s, pk, loc, n, "none")
<1>1. /\ record \in JournalRecord /\ disk = record /\ survivors = {record} /\ pc = at
      /\ record.state \notin TERMINAL_STATES /\ pc # "recover"
  BY TryFacts DEF Persist, TryPoints, UnderIdle, UnderStage1, UnderB, UnderGba, UnderA, UnderStage2,
     UnderCommit
<1>2. t \in JournalRecord
  BY <1>1, TransitionedType, Zenon DEF Errors
<1>3. t.state = s /\ t.pokemon = pk /\ LastState(t) = s /\ LastState(record) = record.state
  BY <1>1 DEF Transitioned, LastState, TERMINAL_STATES
<1>4. /\ pc' \in {next, "recover"} /\ record' \in {record, t}
      /\ disk' \in {record, t} /\ survivors' \subseteq {record, t}
      /\ UNCHANGED <<owner, gave, mon>>
  <2>1. CASE LegalTransition(record, s, pk, n)
    <3>1. record' = t /\ WriteJournal(t, outcome) /\ Proceed(outcome, next)
      BY <2>1 DEF Persist
    <3> HIDE DEF t
    <3>2. disk' \in {record, t} /\ survivors' \subseteq {record, t}
      BY <1>1, <3>1 DEF WriteJournal
    <3> QED
      BY <3>1, <3>2 DEF Persist, Proceed, Continue, Raise, consoleVars
  <2>2. CASE ~LegalTransition(record, s, pk, n)
    BY <1>1, <2>2 DEF Persist, Raise, consoleVars
  <2> QED
    BY <2>1, <2>2
<1> HIDE DEF t
<1>5. record # NoRecord /\ t # NoRecord
  BY <1>1, <1>2, NoRecordIsNoJournal
<1>6. Known = {record} /\ Known' \subseteq {record, t}
  BY <1>1, <1>4, <1>5 DEF Known, Journals
<1>7. Exchange(t, owner, gave) = Exchange(record, owner, gave)
  BY <1>1, <1>2, <1>3, SameExchange
<1>8. Received'
  BY <1>4 DEF Received
<1>9. EscrowInvariant'
  BY <1>2, <1>3, <1>4, <1>5, <1>6, <1>7, <1>8, WrittenKeepsEscrow
<1>10. Exchange(disk', owner', gave') = Exchange(disk, owner, gave)
  BY <1>1, <1>4, <1>7
<1>11. ~Durable
  BY <1>1 DEF Durable, TERMINAL_STATES
<1>12. Broker!Next \/ UNCHANGED Broker!vars
  BY <1>4, <1>9, <1>10, <1>11, Unmoved
<1> QED
  BY <1>9, <1>12

\* The nine transitions of execute.  Only what a *_STARTED state leaves open
\* needs the consoles: the trade that is recorded next has been made.
LEMMA JournalingKeepsEscrow ==
    ASSUME CoordinatorInvariant, CoordinatorInvariant', EscrowInvariant,
           NEW outcome \in WriteOutcomes, Journaling(outcome)
    PROVE  EscrowInvariant' /\ (Broker!Next \/ UNCHANGED Broker!vars)
<1> USE DEF TryPoints, UnderIdle, UnderStage1, UnderB, UnderGba, UnderA, UnderStage2, UnderCommit
<1>0. TypeOK /\ InTry /\ TradeKnown /\ Received
  BY DEF CoordinatorInvariant, EscrowInvariant
<1>a. ASSUME pc \in TryPoints
      PROVE  /\ record.state \notin TERMINAL_STATES /\ LastState(record) = record.state
             /\ record \in Known
             /\ Handed(record.state, record.pokemon, gave)
             /\ Truth(record.state, record.pokemon, owner, armed)
             /\ record.pokemon \in [Labels -> Mons \cup {NoMon}]
             /\ record.locations \in [Labels -> Places]
             /\ record.pokemon["P"] = mon["placeholder"]
  <2>1. record \in Known
    BY <1>a, TryFacts, NoRecordIsNoJournal DEF Known, Journals
  <2>2. LastState(record) = record.state
    BY <1>a, TryFacts DEF LastState, TERMINAL_STATES
  <2>3. Handed(record.state, record.pokemon, gave)
    BY <2>1, <2>2 DEF EscrowInvariant
  <2> HIDE DEF TryPoints
  <2> QED
    BY <1>a, <2>1, <2>2, <2>3, TryFacts
<1>1. CASE StartStage1(outcome)
  <2> DEFINE pk == record.pokemon
             loc == record.locations
  <2>1. pc = "start1" /\ record.state = "IDLE"
    BY <1>1, <1>0 DEF StartStage1, Persist, InTry
  <2>2. pk \in [Labels -> Mons \cup {NoMon}] /\ loc \in [Labels -> Places]
    BY <1>0, <1>a, <2>1 DEF TradeKnown, Places
  <2>3. pk["P"] = record.pokemon["P"]
    BY <1>a, <2>1 DEF Labels
  <2>4. Turn("SWITCH_STAGE1_STARTED", pk, owner) = Turn("IDLE", record.pokemon, owner)
    BY <1>0, <1>a, <2>1 DEF Turn, Started, Given, TradesRecorded, Truth, TradeKnown, InTry, Labels
  <2>9. /\ Turn("SWITCH_STAGE1_STARTED", pk, owner) \notin {0, 1} => pk["B"] = record.pokemon["B"]
        /\ Turn("SWITCH_STAGE1_STARTED", pk, owner) \notin {0, 1, 2} => pk["A"] = record.pokemon["A"]
    BY <1>a, <2>1 DEF Turn, Started, TradesRecorded, Labels
  <2>5. Handed("SWITCH_STAGE1_STARTED", pk, gave)
    BY <1>0, <1>a, <2>1 DEF Handed, Received, TradeKnown, InTry, Labels
  <2>6. Persist("start1", "SWITCH_STAGE1_STARTED", pk, loc, NoSlot, "menu1", outcome)
    BY <1>1 DEF StartStage1
  <2>7. /\ "start1" \in TryPoints /\ "menu1" \in ControlPoints \ {"recover"}
        /\ "SWITCH_STAGE1_STARTED" \in JournalState \ {"RECOVERY_REQUIRED"}
        /\ NoSlot \in 0..5 \cup {NoSlot}
    BY <1>0 DEF JournalState, ControlPoints, TypeOK
  <2> HIDE DEF pk, loc, TryPoints
  <2> QED
    BY <2>1, <2>2, <2>3, <2>4, <2>5, <2>6, <2>7, <2>9, PersistKeepsEscrow
<1>2. CASE CaptureB(outcome)
  <2> DEFINE pk == [record.pokemon EXCEPT !["B"] = mon["b_mon"]]
             loc == [record.locations EXCEPT !["B"] = "broker", !["P"] = "switch"]
  <2>1. pc = "captured_b" /\ record.state = "SWITCH_STAGE1_STARTED"
    BY <1>2, <1>0 DEF CaptureB, Persist, InTry
  <2>2. pk \in [Labels -> Mons \cup {NoMon}] /\ loc \in [Labels -> Places]
    BY <1>0, <1>a, <2>1 DEF TradeKnown, Places
  <2>3. pk["P"] = record.pokemon["P"]
    BY <1>a, <2>1 DEF Labels
  <2>4. Turn("SWITCH_B_CAPTURED", pk, owner) = Turn("SWITCH_STAGE1_STARTED", record.pokemon, owner)
    BY <1>0, <1>a, <2>1 DEF Turn, Started, Given, TradesRecorded, Truth, TradeKnown, InTry, Labels
  <2>9. /\ Turn("SWITCH_B_CAPTURED", pk, owner) \notin {0, 1} => pk["B"] = record.pokemon["B"]
        /\ Turn("SWITCH_B_CAPTURED", pk, owner) \notin {0, 1, 2} => pk["A"] = record.pokemon["A"]
    BY <1>a, <2>1 DEF Turn, Started, TradesRecorded, Labels
  <2>5. Handed("SWITCH_B_CAPTURED", pk, gave)
    BY <1>0, <1>a, <2>1 DEF Handed, Received, TradeKnown, InTry, Labels
  <2>6. Persist("captured_b", "SWITCH_B_CAPTURED", pk, loc, NoSlot, "placed", outcome)
    BY <1>2 DEF CaptureB
  <2>7. /\ "captured_b" \in TryPoints /\ "placed" \in ControlPoints \ {"recover"}
        /\ "SWITCH_B_CAPTURED" \in JournalState \ {"RECOVERY_REQUIRED"}
        /\ NoSlot \in 0..5 \cup {NoSlot}
    BY <1>0 DEF JournalState, ControlPoints, TypeOK
  <2> HIDE DEF pk, loc, TryPoints
  <2> QED
    BY <2>1, <2>2, <2>3, <2>4, <2>5, <2>6, <2>7, <2>9, PersistKeepsEscrow
<1>3. CASE RecordPlaced(outcome)
  <2> DEFINE pk == record.pokemon
             loc == record.locations
  <2>1. pc = "placed" /\ record.state = "SWITCH_B_CAPTURED"
    BY <1>3, <1>0 DEF RecordPlaced, Persist, InTry
  <2>2. pk \in [Labels -> Mons \cup {NoMon}] /\ loc \in [Labels -> Places]
    BY <1>0, <1>a, <2>1 DEF TradeKnown, Places
  <2>3. pk["P"] = record.pokemon["P"]
    BY <1>a, <2>1 DEF Labels
  <2>4. Turn("PLACEHOLDER_ON_SWITCH", pk, owner) = Turn("SWITCH_B_CAPTURED", record.pokemon, owner)
    BY <1>0, <1>a, <2>1 DEF Turn, Started, Given, TradesRecorded, Truth, TradeKnown, InTry, Labels
  <2>9. /\ Turn("PLACEHOLDER_ON_SWITCH", pk, owner) \notin {0, 1} => pk["B"] = record.pokemon["B"]
        /\ Turn("PLACEHOLDER_ON_SWITCH", pk, owner) \notin {0, 1, 2} => pk["A"] = record.pokemon["A"]
    BY <1>a, <2>1 DEF Turn, Started, TradesRecorded, Labels
  <2>5. Handed("PLACEHOLDER_ON_SWITCH", pk, gave)
    BY <1>0, <1>a, <2>1 DEF Handed, Received, TradeKnown, InTry, Labels
  <2>6. Persist("placed", "PLACEHOLDER_ON_SWITCH", pk, loc, NoSlot, "start_gba", outcome)
    BY <1>3 DEF RecordPlaced
  <2>7. /\ "placed" \in TryPoints /\ "start_gba" \in ControlPoints \ {"recover"}
        /\ "PLACEHOLDER_ON_SWITCH" \in JournalState \ {"RECOVERY_REQUIRED"}
        /\ NoSlot \in 0..5 \cup {NoSlot}
    BY <1>0 DEF JournalState, ControlPoints, TypeOK
  <2> HIDE DEF pk, loc, TryPoints
  <2> QED
    BY <2>1, <2>2, <2>3, <2>4, <2>5, <2>6, <2>7, <2>9, PersistKeepsEscrow
<1>4. CASE StartGba(outcome)
  <2> DEFINE pk == record.pokemon
             loc == record.locations
  <2>1. pc = "start_gba" /\ record.state = "PLACEHOLDER_ON_SWITCH"
    BY <1>4, <1>0 DEF StartGba, Persist, InTry
  <2>2. pk \in [Labels -> Mons \cup {NoMon}] /\ loc \in [Labels -> Places]
    BY <1>0, <1>a, <2>1 DEF TradeKnown, Places
  <2>3. pk["P"] = record.pokemon["P"]
    BY <1>a, <2>1 DEF Labels
  <2>4. Turn("GBA_STAGE_STARTED", pk, owner) = Turn("PLACEHOLDER_ON_SWITCH", record.pokemon, owner)
    BY <1>0, <1>a, <2>1 DEF Turn, Started, Given, TradesRecorded, Truth, TradeKnown, InTry, Labels
  <2>9. /\ Turn("GBA_STAGE_STARTED", pk, owner) \notin {0, 1} => pk["B"] = record.pokemon["B"]
        /\ Turn("GBA_STAGE_STARTED", pk, owner) \notin {0, 1, 2} => pk["A"] = record.pokemon["A"]
    BY <1>a, <2>1 DEF Turn, Started, TradesRecorded, Labels
  <2>5. Handed("GBA_STAGE_STARTED", pk, gave)
    BY <1>0, <1>a, <2>1 DEF Handed, Received, TradeKnown, InTry, Labels
  <2>6. Persist("start_gba", "GBA_STAGE_STARTED", pk, loc, NoSlot, "offer_gba", outcome)
    BY <1>4 DEF StartGba
  <2>7. /\ "start_gba" \in TryPoints /\ "offer_gba" \in ControlPoints \ {"recover"}
        /\ "GBA_STAGE_STARTED" \in JournalState \ {"RECOVERY_REQUIRED"}
        /\ NoSlot \in 0..5 \cup {NoSlot}
    BY <1>0 DEF JournalState, ControlPoints, TypeOK
  <2> HIDE DEF pk, loc, TryPoints
  <2> QED
    BY <2>1, <2>2, <2>3, <2>4, <2>5, <2>6, <2>7, <2>9, PersistKeepsEscrow
<1>5. CASE CaptureA(outcome)
  <2> DEFINE pk == [record.pokemon EXCEPT !["A"] = mon["a_mon"]]
             loc == [record.locations EXCEPT !["A"] = "broker", !["B"] = "gba"]
  <2>1. pc = "captured_a" /\ record.state = "GBA_STAGE_STARTED"
    BY <1>5, <1>0 DEF CaptureA, Persist, InTry
  <2>2. pk \in [Labels -> Mons \cup {NoMon}] /\ loc \in [Labels -> Places]
    BY <1>0, <1>a, <2>1 DEF TradeKnown, Places
  <2>3. pk["P"] = record.pokemon["P"]
    BY <1>a, <2>1 DEF Labels
  <2>4. Turn("GBA_A_CAPTURED", pk, owner) = Turn("GBA_STAGE_STARTED", record.pokemon, owner)
    BY <1>0, <1>a, <2>1 DEF Turn, Started, Given, TradesRecorded, Truth, TradeKnown, InTry, Labels
  <2>9. /\ Turn("GBA_A_CAPTURED", pk, owner) \notin {0, 1} => pk["B"] = record.pokemon["B"]
        /\ Turn("GBA_A_CAPTURED", pk, owner) \notin {0, 1, 2} => pk["A"] = record.pokemon["A"]
    BY <1>a, <2>1 DEF Turn, Started, TradesRecorded, Labels
  <2>5. Handed("GBA_A_CAPTURED", pk, gave)
    BY <1>0, <1>a, <2>1 DEF Handed, Received, TradeKnown, InTry, Labels
  <2>6. Persist("captured_a", "GBA_A_CAPTURED", pk, loc, slot, "committed_b", outcome)
    BY <1>5 DEF CaptureA
  <2>7. /\ "captured_a" \in TryPoints /\ "committed_b" \in ControlPoints \ {"recover"}
        /\ "GBA_A_CAPTURED" \in JournalState \ {"RECOVERY_REQUIRED"}
        /\ slot \in 0..5 \cup {NoSlot}
    BY <1>0 DEF JournalState, ControlPoints, TypeOK
  <2> HIDE DEF pk, loc, TryPoints
  <2> QED
    BY <2>1, <2>2, <2>3, <2>4, <2>5, <2>6, <2>7, <2>9, PersistKeepsEscrow
<1>6. CASE RecordCommittedB(outcome)
  <2> DEFINE pk == record.pokemon
             loc == record.locations
  <2>1. pc = "committed_b" /\ record.state = "GBA_A_CAPTURED"
    BY <1>6, <1>0 DEF RecordCommittedB, Persist, InTry
  <2>2. pk \in [Labels -> Mons \cup {NoMon}] /\ loc \in [Labels -> Places]
    BY <1>0, <1>a, <2>1 DEF TradeKnown, Places
  <2>3. pk["P"] = record.pokemon["P"]
    BY <1>a, <2>1 DEF Labels
  <2>4. Turn("B_COMMITTED_TO_GBA", pk, owner) = Turn("GBA_A_CAPTURED", record.pokemon, owner)
    BY <1>0, <1>a, <2>1 DEF Turn, Started, Given, TradesRecorded, Truth, TradeKnown, InTry, Labels
  <2>9. /\ Turn("B_COMMITTED_TO_GBA", pk, owner) \notin {0, 1} => pk["B"] = record.pokemon["B"]
        /\ Turn("B_COMMITTED_TO_GBA", pk, owner) \notin {0, 1, 2} => pk["A"] = record.pokemon["A"]
    BY <1>a, <2>1 DEF Turn, Started, TradesRecorded, Labels
  <2>5. Handed("B_COMMITTED_TO_GBA", pk, gave)
    BY <1>0, <1>a, <2>1 DEF Handed, Received, TradeKnown, InTry, Labels
  <2>6. Persist("committed_b", "B_COMMITTED_TO_GBA", pk, loc, NoSlot, "start2", outcome)
    BY <1>6 DEF RecordCommittedB
  <2>7. /\ "committed_b" \in TryPoints /\ "start2" \in ControlPoints \ {"recover"}
        /\ "B_COMMITTED_TO_GBA" \in JournalState \ {"RECOVERY_REQUIRED"}
        /\ NoSlot \in 0..5 \cup {NoSlot}
    BY <1>0 DEF JournalState, ControlPoints, TypeOK
  <2> HIDE DEF pk, loc, TryPoints
  <2> QED
    BY <2>1, <2>2, <2>3, <2>4, <2>5, <2>6, <2>7, <2>9, PersistKeepsEscrow
<1>7. CASE StartStage2(outcome)
  <2> DEFINE pk == record.pokemon
             loc == record.locations
  <2>1. pc = "start2" /\ record.state = "B_COMMITTED_TO_GBA"
    BY <1>7, <1>0 DEF StartStage2, Persist, InTry
  <2>2. pk \in [Labels -> Mons \cup {NoMon}] /\ loc \in [Labels -> Places]
    BY <1>0, <1>a, <2>1 DEF TradeKnown, Places
  <2>3. pk["P"] = record.pokemon["P"]
    BY <1>a, <2>1 DEF Labels
  <2>4. Turn("SWITCH_STAGE2_STARTED", pk, owner) = Turn("B_COMMITTED_TO_GBA", record.pokemon, owner)
    BY <1>0, <1>a, <2>1 DEF Turn, Started, Given, TradesRecorded, Truth, TradeKnown, InTry, Labels
  <2>9. /\ Turn("SWITCH_STAGE2_STARTED", pk, owner) \notin {0, 1} => pk["B"] = record.pokemon["B"]
        /\ Turn("SWITCH_STAGE2_STARTED", pk, owner) \notin {0, 1, 2} => pk["A"] = record.pokemon["A"]
    BY <1>a, <2>1 DEF Turn, Started, TradesRecorded, Labels
  <2>5. Handed("SWITCH_STAGE2_STARTED", pk, gave)
    BY <1>0, <1>a, <2>1 DEF Handed, Received, TradeKnown, InTry, Labels
  <2>6. Persist("start2", "SWITCH_STAGE2_STARTED", pk, loc, NoSlot, "menu2", outcome)
    BY <1>7 DEF StartStage2
  <2>7. /\ "start2" \in TryPoints /\ "menu2" \in ControlPoints \ {"recover"}
        /\ "SWITCH_STAGE2_STARTED" \in JournalState \ {"RECOVERY_REQUIRED"}
        /\ NoSlot \in 0..5 \cup {NoSlot}
    BY <1>0 DEF JournalState, ControlPoints, TypeOK
  <2> HIDE DEF pk, loc, TryPoints
  <2> QED
    BY <2>1, <2>2, <2>3, <2>4, <2>5, <2>6, <2>7, <2>9, PersistKeepsEscrow
<1>8. CASE CommitA(outcome)
  <2> DEFINE pk == record.pokemon
             loc == [record.locations EXCEPT !["A"] = "switch", !["B"] = "gba",
                                       !["P"] = "broker (unverified candidate)"]
  <2>1. pc = "committed_a" /\ record.state = "SWITCH_STAGE2_STARTED"
    BY <1>8, <1>0 DEF CommitA, Persist, InTry
  <2>2. pk \in [Labels -> Mons \cup {NoMon}] /\ loc \in [Labels -> Places]
    BY <1>0, <1>a, <2>1 DEF TradeKnown, Places
  <2>3. pk["P"] = record.pokemon["P"]
    BY <1>a, <2>1 DEF Labels
  <2>4. Turn("A_COMMITTED_TO_SWITCH", pk, owner) = Turn("SWITCH_STAGE2_STARTED", record.pokemon, owner)
    BY <1>0, <1>a, <2>1 DEF Turn, Started, Given, TradesRecorded, Truth, TradeKnown, InTry, Labels
  <2>9. /\ Turn("A_COMMITTED_TO_SWITCH", pk, owner) \notin {0, 1} => pk["B"] = record.pokemon["B"]
        /\ Turn("A_COMMITTED_TO_SWITCH", pk, owner) \notin {0, 1, 2} => pk["A"] = record.pokemon["A"]
    BY <1>a, <2>1 DEF Turn, Started, TradesRecorded, Labels
  <2>5. Handed("A_COMMITTED_TO_SWITCH", pk, gave)
    BY <1>0, <1>a, <2>1 DEF Handed, Received, TradeKnown, InTry, Labels
  <2>6. Persist("committed_a", "A_COMMITTED_TO_SWITCH", pk, loc, NoSlot, "verify", outcome)
    BY <1>8 DEF CommitA
  <2>7. /\ "committed_a" \in TryPoints /\ "verify" \in ControlPoints \ {"recover"}
        /\ "A_COMMITTED_TO_SWITCH" \in JournalState \ {"RECOVERY_REQUIRED"}
        /\ NoSlot \in 0..5 \cup {NoSlot}
    BY <1>0 DEF JournalState, ControlPoints, TypeOK
  <2>8. gave["switch"] = mon["returned"]
    BY <1>0, <2>1 DEF Received
  <2> HIDE DEF pk, loc, TryPoints
  <2> QED
    BY <2>1, <2>2, <2>3, <2>4, <2>5, <2>6, <2>7, <2>8, <2>9, PersistKeepsEscrow
<1>9. CASE Complete(outcome)
  <2> DEFINE pk == record.pokemon
             loc == [record.locations EXCEPT !["P"] = "broker"]
  <2>1. pc = "complete" /\ record.state = "A_COMMITTED_TO_SWITCH"
    BY <1>9, <1>0 DEF Complete, Persist, InTry
  <2>2. pk \in [Labels -> Mons \cup {NoMon}] /\ loc \in [Labels -> Places]
    BY <1>0, <1>a, <2>1 DEF TradeKnown, Places
  <2>3. pk["P"] = record.pokemon["P"]
    BY <1>a, <2>1 DEF Labels
  <2>4. Turn("COMPLETE", pk, owner) = Turn("A_COMMITTED_TO_SWITCH", record.pokemon, owner)
    BY <1>0, <1>a, <2>1 DEF Turn, Started, Given, TradesRecorded, Truth, TradeKnown, InTry, Labels
  <2>9. /\ Turn("COMPLETE", pk, owner) \notin {0, 1} => pk["B"] = record.pokemon["B"]
        /\ Turn("COMPLETE", pk, owner) \notin {0, 1, 2} => pk["A"] = record.pokemon["A"]
    BY <1>a, <2>1 DEF Turn, Started, TradesRecorded, Labels
  <2>5. Handed("COMPLETE", pk, gave)
    BY <1>0, <1>a, <2>1 DEF Handed, Received, TradeKnown, InTry, Labels
  <2>6. Persist("complete", "COMPLETE", pk, loc, NoSlot, "closing", outcome)
    BY <1>9 DEF Complete
  <2>7. /\ "complete" \in TryPoints /\ "closing" \in ControlPoints \ {"recover"}
        /\ "COMPLETE" \in JournalState \ {"RECOVERY_REQUIRED"}
        /\ NoSlot \in 0..5 \cup {NoSlot}
    BY <1>0 DEF JournalState, ControlPoints, TypeOK
  <2> HIDE DEF pk, loc, TryPoints
  <2> QED
    BY <2>1, <2>2, <2>3, <2>4, <2>5, <2>6, <2>7, <2>9, PersistKeepsEscrow
<1> QED
  BY <1>1, <1>2, <1>3, <1>4, <1>5, <1>6, <1>7, <1>8, <1>9 DEF Journaling

\* Writing a stop over the journal that is known, or failing to.
LEMMA StopKeepsEscrow ==
    ASSUME CoordinatorInvariant, CoordinatorInvariant', EscrowInvariant,
           NEW outcome \in WriteOutcomes, NEW r \in Known, NEW e \in Errors,
           Open(r), WriteJournal(Stopped(r, e), outcome), disk.state \notin TERMINAL_STATES,
           UNCHANGED <<owner, gave>>, pc' \in {"down", "closing"}, disk # NoRecord
    PROVE  EscrowInvariant' /\ (Broker!Next \/ UNCHANGED Broker!vars)
<1> DEFINE t == Stopped(r, e)
<1>1. r \in JournalRecord /\ Truthful(r, owner, armed) /\ r.state # "RECOVERY_REQUIRED"
  BY KnownTruthful DEF Open, TERMINAL_STATES
<1>2. /\ t \in JournalRecord /\ LastState(t) = LastState(r) /\ t.pokemon = r.pokemon
      /\ Exchange(t, owner, gave) = Exchange(r, owner, gave)
  BY <1>1, StoppedExchange
<1> HIDE DEF t
<1>3. t # NoRecord
  BY <1>2, NoRecordIsNoJournal
<1>4. disk' \in {disk, t} /\ survivors' \subseteq survivors \cup {t}
  BY DEF WriteJournal, t
<1>5. Known' \subseteq Known \cup {t} /\ disk' # NoRecord
  BY <1>3, <1>4 DEF Known, Journals
<1>6. \A q \in Known : Exchange(t, owner, gave) = Exchange(q, owner, gave)
  BY <1>2 DEF EscrowInvariant
<1>7. Handed(LastState(t), t.pokemon, gave)
  BY <1>2 DEF EscrowInvariant
<1>8. EscrowInvariant'
  BY <1>2, <1>5, <1>6, <1>7, NothingReceived, WrittenKeepsEscrow
<1>9. Exchange(disk', owner', gave') = Exchange(disk, owner, gave)
  BY <1>4, <1>6, DiskKnown
<1>10. ~Durable
  BY DEF Durable, TERMINAL_STATES
<1> QED
  BY <1>8, <1>9, <1>10, Unmoved

\* require_new_transaction stops an open journal.
LEMMA StopIncompleteKeepsEscrow ==
    ASSUME CoordinatorInvariant, CoordinatorInvariant', EscrowInvariant,
           NEW outcome \in WriteOutcomes, StopIncomplete(outcome)
    PROVE  EscrowInvariant' /\ (Broker!Next \/ UNCHANGED Broker!vars)
<1>1. /\ pc = "loaded" /\ Open(record) /\ WriteJournal(Stopped(record, "restart"), outcome)
      /\ pc' = "down" /\ UNCHANGED <<owner, gave>>
  BY DEF StopIncomplete, Exit, Gone, consoleVars
<1>2. record = disk /\ disk # NoRecord
  BY <1>1, NoRecordIsNoJournal DEF CoordinatorInvariant, BeforeCreate
<1>3. record \in Known /\ disk.state \notin TERMINAL_STATES /\ "restart" \in Errors
  BY <1>1, <1>2, DiskKnown DEF Open, Errors
<1> QED
  BY <1>1, <1>2, <1>3, StopKeepsEscrow

\* _mark_recovery stops the record in memory, which may be ahead of the file.
LEMMA MarkRecoveryKeepsEscrow ==
    ASSUME CoordinatorInvariant, CoordinatorInvariant', EscrowInvariant,
           NEW outcome \in WriteOutcomes, MarkRecovery(outcome)
    PROVE  EscrowInvariant' /\ (Broker!Next \/ UNCHANGED Broker!vars)
<1>1. pc = "recover" /\ pc' = "closing" /\ UNCHANGED <<owner, gave>> /\ record \in Known
  BY DEF MarkRecovery, consoleVars, Known
<1>2. CASE Open(record)
  <2>1. WriteJournal(Stopped(record, exc), outcome) /\ exc \in Errors
    BY <1>2 DEF MarkRecovery, CoordinatorInvariant, TypeOK
  <2>2. disk.state \notin TERMINAL_STATES
    BY <1>1, <1>2 DEF Open, CoordinatorInvariant, Leaving
  <2>3. disk # NoRecord
    BY <1>1 DEF EscrowInvariant
  <2> QED
    BY <1>1, <1>2, <2>1, <2>2, <2>3, StopKeepsEscrow
<1>3. CASE ~Open(record)
  <2>1. UNCHANGED <<disk, survivors>>
    BY <1>3 DEF MarkRecovery
  <2>2. Known' \subseteq Known
    BY <1>1, <2>1 DEF Known, Journals
  <2> QED
    BY <1>1, <2>1, <2>2, NothingReceived, QuietKeepsEscrow
<1> QED
  BY <1>2, <1>3

\* create writes the first record: if it becomes visible, the exchange begins.
LEMMA CreateWriteKeepsEscrow ==
    ASSUME CoordinatorInvariant, CoordinatorInvariant', EscrowInvariant,
           NEW outcome \in WriteOutcomes, CreateWrite(outcome)
    PROVE  EscrowInvariant' /\ (Broker!Next \/ UNCHANGED Broker!vars)
<1> DEFINE p == mon["placeholder"]
<1>1. /\ pc = "create_write" /\ WriteJournal(record, outcome)
      /\ UNCHANGED <<owner, gave>> /\ pc' \in {"connect_switch", "down"}
  BY DEF CreateWrite, Exit, Gone, consoleVars
<1>2. /\ record \in JournalRecord /\ Truthful(record, owner, armed)
      /\ record.state = "IDLE" /\ record.pokemon["P"] = p /\ record # NoRecord
      /\ disk = NoRecord /\ p \in Mons /\ owner[p] = "broker"
  BY <1>1, NoRecordIsNoJournal DEF CoordinatorInvariant, BeforeCreate
<1>3. survivors = {NoRecord} /\ Known = {}
  BY <1>1, <1>2 DEF EscrowInvariant, Known, Journals
<1>4. /\ disk' \in {NoRecord, record} /\ survivors' \subseteq {NoRecord, record}
      /\ disk' = NoRecord => survivors' = {NoRecord}
  BY <1>1, <1>2, <1>3, OutcomesAssumption DEF WriteJournal
<1>5. LastState(record) = "IDLE"
  BY <1>2 DEF LastState
<1>6. EscrowInvariant'
  <2>1. Known' \subseteq Known \cup {record}
    BY <1>1, <1>4 DEF Known, Journals
  <2>2. Handed(LastState(record), record.pokemon, gave)
    BY <1>5 DEF Handed
  <2> QED
    BY <1>1, <1>2, <1>3, <1>4, <2>1, <2>2, NothingReceived, WrittenKeepsEscrow
<1>7. CASE disk' = NoRecord
  BY <1>1, <1>6, <1>7, Unmoved
<1>8. CASE disk' = record
  <2>1. Exchange(disk, owner, gave) =
            [placeholder |-> NoMon, turn |-> 0, hand |-> NoMon, before |-> owner]
    BY <1>2 DEF Exchange
  <2>2. Turn(LastState(record), record.pokemon, owner) = 0
    BY <1>5 DEF Turn, Started, TradesRecorded
  <2>3. Exchange(disk', owner', gave') =
            [placeholder |-> p, turn |-> 0, hand |-> p, before |-> owner]
    <3>1. Hand(0, record.pokemon, gave') = p
      BY <1>2 DEF Hand
    <3>2. Before(0, p, record.pokemon, owner) = owner
      BY DEF Before
    <3> HIDE DEF p
    <3> QED
      BY <1>1, <1>2, <1>8, <2>2, <3>1, <3>2, ExchangeFields
  <2>4. (disk'.state = "COMPLETE" /\ survivors' = {disk'})
            = (disk.state = "COMPLETE" /\ survivors = {disk})
    <3>1. ~(disk'.state = "COMPLETE") /\ ~(disk.state = "COMPLETE")
      BY <1>2, <1>8 DEF NoRecord
    <3> QED
      BY <3>1
  <2>5. Broker!Begin(p)
    BY <1>1, <1>2, <2>1, <2>3, <2>4 DEF Broker!Begin
  <2> QED
    BY <1>2, <1>6, <2>5 DEF Broker!Next
<1> QED
  BY <1>4, <1>6, <1>7, <1>8

----------------------------------------------------------------------------
(***************************************************************************)
(* The trades, failures and the operator.                                  *)
(***************************************************************************)

\* An offer forgets what the console gave before, which no known journal has
\* still to pass on.
LEMMA OffersKeepEscrow ==
    ASSUME CoordinatorInvariant, EscrowInvariant, OfferPlaceholder \/ OfferB \/ OfferA
    PROVE  EscrowInvariant' /\ UNCHANGED Broker!vars
<1> USE DEF TryPoints, UnderIdle, UnderStage1, UnderB, UnderGba, UnderA, UnderStage2, UnderCommit
<1>0. TypeOK /\ InTry /\ TradeKnown
  BY DEF CoordinatorInvariant
<1>1. /\ UNCHANGED <<disk, survivors, owner, record>> /\ pc \in TryPoints
      /\ pc' \in {"recover", "trade1", "trade_gba", "trade2"}
  BY DEF OfferPlaceholder, OfferB, OfferA, Offer, Raise, Continue, fileVars
<1>2. /\ record \in JournalRecord /\ record # NoRecord /\ disk = record /\ survivors = {record}
      /\ record.pokemon["P"] = mon["placeholder"] /\ LastState(record) = record.state
      /\ Truth(record.state, record.pokemon, owner, armed)
  BY <1>1, TryFacts, NoRecordIsNoJournal DEF LastState, TERMINAL_STATES
<1>3. Known = {record} /\ Known' \subseteq Known /\ (pc' = "recover" => disk # NoRecord)
  BY <1>1, <1>2 DEF Known, Journals
<1>4. Handed(record.state, record.pokemon, gave)
  BY <1>2, <1>3 DEF EscrowInvariant
<1>5. CASE gave' = gave
  BY <1>1, <1>3, <1>5, NothingReceived, QuietKeepsEscrow
<1>6. CASE gave' # gave
  <2> DEFINE s == record.state
             pk == record.pokemon
  <2>1. /\ Hand(Turn(s, pk, owner), pk, gave') = Hand(Turn(s, pk, owner), pk, gave)
        /\ Handed(s, pk, gave')
    <3>1. CASE OfferPlaceholder
      <4>1. s = "SWITCH_STAGE1_STARTED" /\ owner[pk["P"]] = "broker"
        BY <1>0, <1>2, <3>1 DEF OfferPlaceholder, Offer, InTry, TradeKnown
      <4>2. Turn(s, pk, owner) = 0
        BY <4>1 DEF Turn, Started, Given, TradesRecorded
      <4> QED
        BY <4>1, <4>2 DEF Hand, Handed
    <3>2. CASE OfferB
      <4>1. s = "GBA_STAGE_STARTED" /\ owner[pk["B"]] = "broker"
            /\ gave' = [gave EXCEPT !["gba"] = NoMon]
        BY <1>0, <1>6, <3>2 DEF OfferB, Offer, InTry, TradeKnown
      <4>2. Turn(s, pk, owner) = 1 /\ gave'["switch"] = gave["switch"]
        BY <1>0, <4>1 DEF Turn, Started, Given, TradesRecorded, TypeOK, Consoles
      <4> QED
        BY <1>4, <4>1, <4>2 DEF Hand, Handed
    <3>3. CASE OfferA
      <4>1. s = "SWITCH_STAGE2_STARTED" /\ owner[pk["A"]] = "broker"
            /\ gave' = [gave EXCEPT !["switch"] = NoMon]
        BY <1>0, <1>6, <3>3 DEF OfferA, Offer, InTry, TradeKnown
      <4>2. Turn(s, pk, owner) = 2 /\ gave'["gba"] = gave["gba"]
        BY <1>0, <4>1 DEF Turn, Started, Given, TradesRecorded, TypeOK, Consoles
      <4> QED
        BY <1>4, <4>1, <4>2 DEF Hand, Handed
    <3> QED
      BY <3>1, <3>2, <3>3
  <2>2. Exchange(record, owner, gave') = Exchange(record, owner, gave)
    BY <1>2, <2>1, ExchangeFields
  <2>3. EscrowInvariant'
    <3>1. \A r, q \in Known' : Exchange(r, owner', gave') = Exchange(q, owner', gave')
      BY <1>3
    <3>2. \A r \in Known' : Handed(LastState(r), r.pokemon, gave')
      BY <1>2, <1>3, <2>1
    <3> QED
      BY <1>1, <1>2, <3>1, <3>2, NothingReceived DEF EscrowInvariant
  <2>4. UNCHANGED Broker!vars
    BY <1>1, <1>2, <2>2 DEF Broker!vars
  <2> QED
    BY <2>3, <2>4
<1> QED
  BY <1>5, <1>6

\* What a swap does to the exchange that a truthful journal stands for: it is
\* the next trade, with the console whose turn it is and the record in hand.
LEMMA SwapExchange ==
    ASSUME CoordinatorInvariant, NEW c \in Consoles, NEW m \in Mons, Swap(c, m),
           NEW r \in JournalRecord, Truthful(r, owner, armed),
           Handed(LastState(r), r.pokemon, gave)
    PROVE  LET e == Exchange(r, owner, gave)
           IN  /\ e.placeholder \in Mons /\ e.turn \in 0..2
               /\ e.hand = armed[c] /\ c = <<"switch", "gba", "switch">>[e.turn + 1]
               /\ Exchange(r, owner', gave') =
                     [placeholder |-> e.placeholder, turn |-> e.turn + 1, hand |-> m,
                      before |-> e.before]
               /\ Handed(LastState(r), r.pokemon, gave')
<1> DEFINE s == LastState(r)
           pk == r.pokemon
           o == armed[c]
           e == Exchange(r, owner, gave)
<1>0. TypeOK /\ OffersWhatItHolds
  BY DEF CoordinatorInvariant
<1>1. /\ o \in Mons /\ owner[o] = "broker" /\ owner[m] = c /\ o # m
      /\ owner'[o] = c
      /\ \A d \in Consoles : gave'[d] = IF d = c THEN m ELSE gave[d]
      /\ armed # NoOffer
  BY <1>0, NoMonAssumption DEF Swap, TypeOK, OffersWhatItHolds, Consoles, NoOffer
<1>b. owner \in [Mons -> Holders] /\ owner' = [owner EXCEPT ![m] = "broker", ![o] = c]
  BY <1>0 DEF Swap, TypeOK
<1>2. Truth(s, pk, owner, armed) /\ s \in JournalState \ {"RECOVERY_REQUIRED"}
  BY LastStateType DEF Truthful
<1>3. pk["P"] \in Mons
  BY <1>2 DEF Truth
<1> HIDE DEF s
<1>4. s \in Started
  BY <1>1, <1>2 DEF Truth, JournalState, Started
<1>5. ASSUME NEW n \in 0..2, Turn(s, pk, owner) = n, Turn(s, pk, owner') = n + 1,
             Hand(n, pk, gave) = o, Hand(n + 1, pk, gave') = m,
             Before(n + 1, m, pk, owner') = Before(n, o, pk, owner),
             c = <<"switch", "gba", "switch">>[n + 1], Handed(s, pk, gave')
      PROVE  /\ e.placeholder \in Mons /\ e.turn \in 0..2
             /\ e.hand = o /\ c = <<"switch", "gba", "switch">>[e.turn + 1]
             /\ Exchange(r, owner', gave') =
                   [placeholder |-> e.placeholder, turn |-> e.turn + 1, hand |-> m,
                      before |-> e.before]
             /\ Handed(s, pk, gave')
  <2>1. e.placeholder = pk["P"] /\ e.turn = n /\ e.hand = o /\ e.before = Before(n, o, pk, owner)
    BY <1>5, ExchangeFields DEF s
  <2>2. Exchange(r, owner', gave') =
            [placeholder |-> pk["P"], turn |-> n + 1, hand |-> m, before |-> Before(n, o, pk, owner)]
    BY <1>5, ExchangeFields DEF s
  <2> HIDE DEF e
  <2> QED
    BY <1>3, <1>5, <2>1, <2>2
<1>6. CASE s = "SWITCH_STAGE1_STARTED"
  <2>1. c = "switch" /\ o = pk["P"]
    BY <1>1, <1>2, <1>6, NoMonAssumption DEF Truth, Consoles
  <2>2. Turn(s, pk, owner) = 0 /\ Turn(s, pk, owner') = 1
    BY <1>1, <1>6, <2>1 DEF Turn, Started, Given, TradesRecorded
  <2>3. Hand(0, pk, gave) = o /\ Hand(1, pk, gave') = m
    BY <1>1, <2>1 DEF Hand
  <2>4. Handed(s, pk, gave')
    BY <1>6 DEF Handed
  <2>5. Before(1, m, pk, owner') = Before(0, o, pk, owner)
    <3>1. /\ Before(1, m, pk, owner') = [owner' EXCEPT ![m] = "switch", ![pk["P"]] = "broker"]
          /\ Before(0, o, pk, owner) = owner
      BY DEF Before
    <3>2. owner = [[owner EXCEPT ![m] = "broker", ![o] = c] EXCEPT ![m] = "switch", ![o] = "broker"]
      BY <1>1, <1>b, <2>1
    <3> HIDE DEF o
    <3> QED
      BY <1>b, <2>1, <3>1, <3>2
  <2> QED
    BY <1>5, <2>1, <2>2, <2>3, <2>4, <2>5 DEF s
<1>7. CASE s = "GBA_STAGE_STARTED"
  <2>1. c = "gba" /\ o = pk["B"] /\ gave["switch"] = pk["B"]
    BY <1>1, <1>2, <1>7, NoMonAssumption DEF Truth, Consoles, Handed, s
  <2>2. Turn(s, pk, owner) = 1 /\ Turn(s, pk, owner') = 2
    BY <1>1, <1>7, <2>1 DEF Turn, Started, Given, TradesRecorded
  <2>3. Hand(1, pk, gave) = o /\ Hand(2, pk, gave') = m
    BY <1>1, <2>1 DEF Hand
  <2>4. Handed(s, pk, gave')
    BY <1>1, <1>7, <2>1 DEF Handed, Consoles
  <2>5. Before(2, m, pk, owner') = Before(1, o, pk, owner)
    BY <1>1, <1>b, <1>2, <1>7, <2>1 DEF Before, Truth
  <2> QED
    BY <1>5, <2>1, <2>2, <2>3, <2>4, <2>5 DEF s
<1>8. CASE s = "SWITCH_STAGE2_STARTED"
  <2>1. c = "switch" /\ o = pk["A"] /\ gave["gba"] = pk["A"]
    BY <1>1, <1>2, <1>8, NoMonAssumption DEF Truth, Consoles, Handed, s
  <2>2. Turn(s, pk, owner) = 2 /\ Turn(s, pk, owner') = 3
    BY <1>1, <1>8, <2>1 DEF Turn, Started, Given, TradesRecorded
  <2>3. Hand(2, pk, gave) = o /\ Hand(3, pk, gave') = m
    BY <1>1, <2>1 DEF Hand
  <2>4. Handed(s, pk, gave')
    BY <1>1, <1>8, <2>1 DEF Handed, Consoles
  <2>5. Before(3, m, pk, owner') = Before(2, o, pk, owner)
    BY <1>1, <1>b, <1>2, <1>8, <2>1 DEF Before, Truth
  <2> QED
    BY <1>5, <2>1, <2>2, <2>3, <2>4, <2>5 DEF s
<1> QED
  BY <1>4, <1>6, <1>7, <1>8 DEF Started, s


\* A swap is the abstract trade, whenever it happens: for each journal that may
\* be found it is the same trade.
LEMMA SwapKeepsEscrow ==
    ASSUME CoordinatorInvariant, EscrowInvariant,
           NEW c \in Consoles, NEW m \in Mons, Swap(c, m)
    PROVE  EscrowInvariant' /\ Broker!Next
<1> DEFINE e == Exchange(disk, owner, gave)
           next == [placeholder |-> e.placeholder, turn |-> e.turn + 1, hand |-> m,
                      before |-> e.before]
<1>0. TypeOK /\ FilesAgree /\ OffersWhatItHolds /\ TradeKnown
  BY DEF CoordinatorInvariant
<1>1. /\ UNCHANGED <<disk, survivors, pc, record, mon>>
      /\ armed[c] # NoMon /\ owner[m] = c
      /\ owner' = [owner EXCEPT ![m] = "broker", ![armed[c]] = c]
  BY DEF Swap, processVars, fileVars
<1>2. armed # NoOffer /\ owner[armed[c]] = "broker"
  BY <1>0, <1>1 DEF NoOffer, OffersWhatItHolds
<1>3. disk # NoRecord /\ disk \in Known /\ Known' = Known
  <2>1. disk # NoRecord
    BY <1>0, <1>2 DEF FilesAgree
  <2> QED
    BY <1>1, <2>1, DiskKnown DEF Known, Journals
<1>4. \A r \in Known :
         /\ Exchange(r, owner, gave) = e
         /\ e.placeholder \in Mons /\ e.turn \in 0..2
         /\ e.hand = armed[c] /\ c = <<"switch", "gba", "switch">>[e.turn + 1]
         /\ Exchange(r, owner', gave') = next
         /\ Handed(LastState(r), r.pokemon, gave')
  <2> SUFFICES ASSUME NEW r \in Known
               PROVE  /\ Exchange(r, owner, gave) = e
                      /\ e.placeholder \in Mons /\ e.turn \in 0..2
                      /\ e.hand = armed[c] /\ c = <<"switch", "gba", "switch">>[e.turn + 1]
                      /\ Exchange(r, owner', gave') = next
                      /\ Handed(LastState(r), r.pokemon, gave')
    OBVIOUS
  <2>1. Exchange(r, owner, gave) = e /\ Handed(LastState(r), r.pokemon, gave)
    BY <1>3 DEF EscrowInvariant
  <2>2. r \in JournalRecord /\ Truthful(r, owner, armed)
    BY KnownTruthful
  <2> HIDE DEF e
  <2> QED
    BY <2>1, <2>2, SwapExchange
<1>5. EscrowInvariant'
  <2>1. Received'
    BY <1>0, <1>1, <1>2, NothingReceived DEF TradeKnown
  <2>2. \A r, q \in Known' : Exchange(r, owner', gave') = Exchange(q, owner', gave')
    BY <1>3, <1>4
  <2>3. \A r \in Known' : Handed(LastState(r), r.pokemon, gave')
    BY <1>3, <1>4
  <2>4. disk' # NoRecord
    BY <1>1, <1>3
  <2> QED
    BY <2>1, <2>2, <2>3, <2>4 DEF EscrowInvariant
<1>6. Broker!Trade(m)
  <2>1. /\ e.placeholder \in Mons /\ e.turn \in 0..2
        /\ e.hand = armed[c] /\ c = <<"switch", "gba", "switch">>[e.turn + 1]
        /\ Exchange(disk', owner', gave') = next
    BY <1>1, <1>3, <1>4
  <2>2. e.placeholder # NoMon /\ e.turn < 3
    BY <2>1, NoMonAssumption
  <2>3. (disk'.state = "COMPLETE" /\ survivors' = {disk'})
            = (disk.state = "COMPLETE" /\ survivors = {disk})
    BY <1>1
  <2>4. /\ next.placeholder = e.placeholder /\ next.turn = e.turn + 1 /\ next.hand = m
        /\ next.before = e.before
    OBVIOUS
  <2> HIDE DEF e, next
  <2> QED
    BY <1>1, <1>2, <2>1, <2>2, <2>3, <2>4 DEF Broker!Trade, Broker!Console, e
<1> QED
  BY <1>5, <1>6 DEF Broker!Next

\* A power loss brings back a journal for the same exchange, or none.
LEMMA PowerLossKeepsEscrow ==
    ASSUME CoordinatorInvariant, CoordinatorInvariant', EscrowInvariant, PowerLoss
    PROVE  EscrowInvariant' /\ (Broker!Next \/ UNCHANGED Broker!vars)
<1>1. /\ disk' \in survivors /\ survivors' = {disk'} /\ pc' = "down"
      /\ UNCHANGED <<owner, gave>>
  BY DEF PowerLoss, Gone, consoleVars
<1>2. Known' \subseteq Known
  BY <1>1 DEF Known, Journals
<1>3. EscrowInvariant'
  <2>1. \A r, q \in Known' : Exchange(r, owner', gave') = Exchange(q, owner', gave')
    BY <1>1, <1>2 DEF EscrowInvariant
  <2>2. \A r \in Known' : Handed(LastState(r), r.pokemon, gave')
    BY <1>1, <1>2 DEF EscrowInvariant
  <2>3. Received' /\ (disk' = NoRecord => survivors' = {NoRecord} /\ pc' # "recover")
    BY <1>1, NothingReceived
  <2> QED
    BY <2>1, <2>2, <2>3 DEF EscrowInvariant
<1>4. CASE disk' # NoRecord
  <2>1. disk # NoRecord
    BY <1>1, <1>4 DEF EscrowInvariant
  <2>2. disk \in Known /\ disk' \in Known
    BY <1>1, <1>4, <2>1, DiskKnown DEF Known, Journals
  <2>3. Exchange(disk', owner', gave') = Exchange(disk, owner, gave)
    BY <1>1, <2>2 DEF EscrowInvariant
  <2>4. Durable => Durable'
    BY <1>1 DEF Durable
  <2> QED
    BY <1>1, <1>3, <2>3, <2>4, Unmoved
<1>5. CASE disk' = NoRecord
  BY <1>1, <1>3, <1>5, Unmoved
<1> QED
  BY <1>4, <1>5

\* Moving the journal away ends the exchange.
LEMMA ArchiveKeepsEscrow ==
    ASSUME CoordinatorInvariant', EscrowInvariant, Archive
    PROVE  EscrowInvariant' /\ (Broker!Next \/ UNCHANGED Broker!vars)
<1>1. disk' = NoRecord /\ survivors' = {NoRecord} /\ pc' = "down" /\ UNCHANGED owner
  BY DEF Archive
<1>2. Known' = {}
  BY <1>1 DEF Known, Journals
<1>3. EscrowInvariant'
  BY <1>1, <1>2, NothingReceived DEF EscrowInvariant
<1> QED
  BY <1>1, <1>3, Unmoved

----------------------------------------------------------------------------
(***************************************************************************)
(* The refinement.                                                         *)
(***************************************************************************)

LEMMA InitEscrow == Init => EscrowInvariant /\ Broker!Init
<1> SUFFICES ASSUME Init PROVE EscrowInvariant /\ Broker!Init
  OBVIOUS
<1>1. disk = NoRecord /\ survivors = {NoRecord} /\ pc = "down"
  BY DEF Init
<1>2. Known = {} /\ Received
  BY <1>1 DEF Known, Journals, Received
<1>3. EscrowInvariant
  BY <1>1, <1>2 DEF EscrowInvariant
<1>4. Exchange(disk, owner, gave) =
          [placeholder |-> NoMon, turn |-> 0, hand |-> NoMon, before |-> owner]
  BY <1>1 DEF Exchange
<1>5. (disk.state = "COMPLETE" /\ survivors = {disk}) = FALSE
  BY <1>1 DEF NoRecord
<1>6. Broker!Init
  BY <1>4, <1>5 DEF Broker!Init, Init
<1> QED
  BY <1>3, <1>6

\* Each step of the broker, of a console or of the operator is an abstract
\* step, or is not seen.
LEMMA StepEscrow ==
    ASSUME CoordinatorInvariant, CoordinatorInvariant', EscrowInvariant, [Next]_vars
    PROVE  EscrowInvariant' /\ (Broker!Next \/ UNCHANGED Broker!vars)
<1>1. CASE \E outcome \in WriteOutcomes : Writing(outcome)
  <2> PICK outcome \in WriteOutcomes : Writing(outcome)
    BY <1>1
  <2>1. CASE SaveB(outcome) \/ SaveA(outcome) \/ SaveReturned(outcome)
    BY <2>1, TryKeepsEscrow
  <2> QED
    BY <2>1, StopIncompleteKeepsEscrow, CreateArtifactKeepsEscrow, CreateWriteKeepsEscrow,
       MarkRecoveryKeepsEscrow, JournalingKeepsEscrow DEF Writing
<1>2. CASE Calling
  BY <1>2, TryKeepsEscrow, OffersKeepEscrow, ReturnsKeepEscrow DEF Calling
<1>3. CASE NoJournalFound \/ LoadJournal \/ TerminalFound \/ Close
  BY <1>3, IdleKeepsEscrow
<1>4. CASE VerifyPlaceholder
  BY <1>4, TryKeepsEscrow
<1>5. CASE Environment
  BY <1>5, IdleKeepsEscrow, SwapKeepsEscrow, PowerLossKeepsEscrow, ArchiveKeepsEscrow DEF Environment
<1>6. CASE UNCHANGED vars
  <2>1. UNCHANGED <<disk, survivors, owner, gave, pc, record, mon>>
    BY <1>6 DEF vars, processVars, fileVars, consoleVars
  <2>2. Known' = Known /\ Received' /\ (pc' = "recover" => disk # NoRecord)
    BY <2>1 DEF Known, Journals, EscrowInvariant, Received
  <2> QED
    BY <2>1, <2>2, QuietKeepsEscrow
<1> QED
  BY <1>1, <1>2, <1>3, <1>4, <1>5, <1>6 DEF Next, Process

\* Whichever journal a failed write, a crash or a power loss leaves, it stands
\* for the same exchange: the same placeholder, the same number of trades made,
\* the same holders at its beginning and the same record to pass on, and that
\* is one a console really gave.
THEOREM OneExchangeIsKnown == Spec => []EscrowInvariant
<1>1. CoordinatorInvariant /\ CoordinatorInvariant' /\ EscrowInvariant /\ [Next]_vars
      => EscrowInvariant'
  BY StepEscrow
<1> QED
  BY <1>1, InitEscrow, InvariantHolds, PTL DEF Spec

\* execute, its journal, the consoles and the operator together implement
\* Escrow: whatever fails, every swap is the next trade of one exchange, made
\* with the console whose turn it is and with the record in hand, and a
\* durably COMPLETE journal means that the placeholder came back, that one
\* record of each player became the other's and that no other record moved.
THEOREM BrokerImplementsEscrow == Spec => ImplementsEscrow
<1>1. CoordinatorInvariant /\ CoordinatorInvariant' /\ EscrowInvariant /\ [Next]_vars
      => [Broker!Next]_(Broker!vars)
  BY StepEscrow
<1>2. Init => Broker!Init
  BY InitEscrow
<1> QED
  BY <1>1, <1>2, OneExchangeIsKnown, InvariantHolds, PTL DEF Spec, ImplementsEscrow, Broker!Spec

=============================================================================
