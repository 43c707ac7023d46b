----------------------- MODULE TradeCoordinatorProofs -----------------------
(***************************************************************************)
(* Proofs about TradeCoordinator, for every set of records, every slot the *)
(* GBA may report and every way a write may end.                           *)
(***************************************************************************)
EXTENDS TradeCoordinatorInv, JournalProofs

----------------------------------------------------------------------------
(***************************************************************************)
(* Which records tell the truth.                                           *)
(***************************************************************************)

\* The record of a new transaction does, if the placeholder is at hand.
LEMMA NewTruthful ==
    ASSUME NEW txid \in Nat, NEW p \in Mons, NEW own, NEW arm,
           arm = NoOffer, own[p] = "broker"
    PROVE  Truthful(NewRecord(txid, p), own, arm)
<1> DEFINE r == NewRecord(txid, p)
<1>1. /\ r.state = "IDLE" /\ r.sequence = 0 /\ r.history = <<"IDLE">>
      /\ r.pokemon["P"] = p /\ r.pokemon["A"] = NoMon /\ r.pokemon["B"] = NoMon
      /\ r.locations["P"] = "broker"
  BY NewRecordType
<1> HIDE DEF r
<1>2. LastState(r) = "IDLE"
  BY <1>1 DEF LastState
<1>3. Truth("IDLE", r.pokemon, own, arm)
  BY <1>1 DEF Truth
<1>4. Located("IDLE", r.locations)
  BY <1>1 DEF Located
<1>5. Len(r.history) = r.sequence + 1 /\ r.history[r.sequence + 1] = r.state
  BY <1>1
<1>6. Truthful(r, own, arm)
  BY <1>1, <1>2, <1>3, <1>4, <1>5 DEF Truthful
<1> QED
  BY <1>6 DEF r

\* A transition to a state whose meaning holds gives a truthful record.
LEMMA TransitionTruthful ==
    ASSUME NEW r \in JournalRecord, NEW s \in JournalState \ {"RECOVERY_REQUIRED"},
           NEW pk \in [Labels -> Mons \cup {NoMon}], NEW loc \in [Labels -> Places],
           NEW n \in 0..5 \cup {NoSlot}, NEW e \in Errors, NEW own, NEW arm,
           Len(r.history) = r.sequence + 1,
           Truth(s, pk, own, arm), Located(s, loc)
    PROVE  Truthful(Transitioned(r, s, pk, loc, n, e), own, arm)
<1> DEFINE t == Transitioned(r, s, pk, loc, n, e)
<1>1. /\ t.state = s /\ t.sequence = r.sequence + 1 /\ t.pokemon = pk
      /\ t.locations = loc /\ t.history = Append(r.history, s)
  BY DEF Transitioned
<1> HIDE DEF t
<1>2. r.history \in Seq(JournalState) /\ r.sequence \in Nat
  BY DEF JournalRecord
<1>3. Len(t.history) = t.sequence + 1 /\ t.history[t.sequence + 1] = t.state
  BY <1>1, <1>2
<1>4. LastState(t) = s
  BY <1>1 DEF LastState
<1>5. Truthful(t, own, arm)
  BY <1>1, <1>3, <1>4 DEF Truthful
<1> QED
  BY <1>5 DEF t

\* Stopping keeps the last state and so the truth.
LEMMA StoppedTruthful ==
    ASSUME NEW r \in JournalRecord, NEW e \in Errors, NEW own, NEW arm,
           r.state # "RECOVERY_REQUIRED", Truthful(r, own, arm)
    PROVE  /\ Stopped(r, e) \in JournalRecord
           /\ Stopped(r, e).state = "RECOVERY_REQUIRED"
           /\ Stopped(r, e).transaction_id = r.transaction_id
           /\ Stopped(r, e).pokemon = r.pokemon
           /\ Truthful(Stopped(r, e), own, arm)
<1> DEFINE t == Stopped(r, e)
<1>1. /\ r.pokemon \in [Labels -> Mons \cup {NoMon}] /\ r.locations \in [Labels -> Places]
      /\ "RECOVERY_REQUIRED" \in JournalState /\ NoSlot \in 0..5 \cup {NoSlot}
      /\ r.history \in Seq(JournalState) /\ r.sequence \in Nat
  BY DEF JournalRecord, JournalState
<1>2. /\ t.state = "RECOVERY_REQUIRED" /\ t.sequence = r.sequence + 1
      /\ t.pokemon = r.pokemon /\ t.locations = r.locations
      /\ t.transaction_id = r.transaction_id
      /\ t.history = Append(r.history, "RECOVERY_REQUIRED")
  BY DEF Stopped, Transitioned
<1>7. t \in JournalRecord
  <2>1. Transitioned(r, "RECOVERY_REQUIRED", r.pokemon, r.locations, NoSlot, e) \in JournalRecord
    BY <1>1, TransitionedType, Zenon
  <2> QED
    BY <2>1 DEF Stopped
<1> HIDE DEF t
<1>3. /\ Len(r.history) = r.sequence + 1 /\ r.history[r.sequence + 1] = r.state
      /\ LastState(r) = r.state
      /\ Truth(r.state, r.pokemon, own, arm) /\ Located(r.state, r.locations)
  BY DEF Truthful, LastState
<1>4. /\ Len(t.history) = t.sequence + 1 /\ t.history[t.sequence + 1] = t.state
      /\ t.history[Len(t.history) - 1] = r.state
      /\ t.sequence > 0
  BY <1>1, <1>2, <1>3
<1>5. LastState(t) = r.state
  BY <1>2, <1>4 DEF LastState
<1>6. Truthful(t, own, arm)
  BY <1>2, <1>3, <1>4, <1>5 DEF Truthful
<1> QED
  BY <1>2, <1>6, <1>7 DEF t

----------------------------------------------------------------------------
(***************************************************************************)
(* A transition inside the try block.                                      *)
(***************************************************************************)

\* Memory is ahead of the journal, at a state that is true.
Interrupted ==
    /\ pc' = "recover" /\ exc' # "none"
    /\ record' \in JournalRecord /\ record'.state # "RECOVERY_REQUIRED"
    /\ Truthful(record', owner, armed)
    /\ disk'.state \in TERMINAL_STATES => record'.state \in TERMINAL_STATES

\* Memory and journal are both at state s.
Recorded(s, pk, next) ==
    /\ pc' = next /\ exc' = exc
    /\ record' \in JournalRecord /\ record'.state = s /\ record'.pokemon = pk
    /\ disk' = record' /\ survivors' = {record'}

\* journal.transition either records the new state or leaves the try block;
\* the journals that may be found stay truthful in both cases.
LEMMA PersistKeeps ==
    ASSUME CoordinatorInvariant,
           NEW at \in TryPoints, NEW next \in ControlPoints \ {"recover"},
           NEW s \in JournalState \ {"RECOVERY_REQUIRED"},
           NEW pk \in [Labels -> Mons \cup {NoMon}], NEW loc \in [Labels -> Places],
           NEW n \in 0..5 \cup {NoSlot}, NEW outcome \in WriteOutcomes,
           Persist(at, s, pk, loc, n, next, outcome),
           Truth(s, pk, owner, armed), Located(s, loc)
    PROVE  /\ TypeOK' /\ OffersWhatItHolds' /\ JournalsTruthful' /\ FilesAgree'
           /\ Interrupted \/ Recorded(s, pk, next)
           /\ UNCHANGED <<mon, slot, exit, consoleVars>>
<1> DEFINE t == Transitioned(record, s, pk, loc, n, "none")
<1>1. /\ record \in JournalRecord /\ disk = record /\ survivors = {record}
      /\ pc = at /\ record # NoRecord
  BY NoRecordIsNoJournal DEF CoordinatorInvariant, InTry, Persist
<1>2. Truthful(record, owner, armed)
  BY <1>1 DEF CoordinatorInvariant, JournalsTruthful, Journals
<1>3. record.state \notin TERMINAL_STATES
  BY <1>1 DEF TERMINAL_STATES, CoordinatorInvariant, InTry, TryPoints, UnderIdle, UnderStage1, UnderB, UnderGba,
              UnderA, UnderStage2, UnderCommit
<1>4. "none" \in Errors
  BY DEF Errors
<1>5. t \in JournalRecord /\ t.state = s /\ t.pokemon = pk /\ t # NoRecord
  <2>1. t \in JournalRecord
    BY <1>1, <1>4, TransitionedType, Zenon
  <2> QED
    BY <2>1, NoRecordIsNoJournal DEF Transitioned
<1>6. Truthful(t, owner, armed)
  <2>1. Len(record.history) = record.sequence + 1
    BY <1>2 DEF Truthful
  <2> QED
    BY <1>1, <1>4, <2>1, TransitionTruthful
<1> HIDE DEF t
<1>7. /\ pc' \in {next, "recover"}
      /\ record' = t \/ (record' = record /\ disk' = record)
      /\ disk' \in {record, t} /\ survivors' \subseteq {record, t} /\ disk' \in survivors'
      /\ pc' = "recover" => exc' = "JournalError"
      /\ pc' = "recover" \/ Recorded(s, pk, next)
      /\ UNCHANGED <<mon, slot, connected, exit, artifacts, synced, txs, settled, owner, armed, gave, confirmed>>
      /\ exc' \in {exc, "JournalError"}
  <2>1. CASE LegalTransition(record, s, pk, n)
    <3>1. record' = t /\ WriteJournal(t, outcome)
          /\ IF outcome = "ok" THEN Continue(next) ELSE Raise("JournalError")
      BY <2>1 DEF Persist, Proceed, t
    <3>2. UNCHANGED <<mon, slot, connected, exit, artifacts, synced, txs, settled, owner, armed, gave, confirmed>>
      BY DEF Persist, consoleVars
    <3>3. /\ disk' \in {record, t} /\ survivors' \subseteq {record, t}
          /\ disk' \in survivors' /\ (outcome = "ok" => disk' = t /\ survivors' = {t})
      BY <1>1, <3>1, OutcomesAssumption DEF WriteJournal
    <3>4. CASE outcome = "ok"
      <4>1. pc' = next /\ exc' = exc /\ record' = t /\ disk' = t /\ survivors' = {t}
        BY <3>1, <3>3, <3>4 DEF Continue
      <4> QED
        BY <1>5, <3>2, <3>3, <4>1 DEF Recorded
    <3>5. CASE outcome # "ok"
      <4>1. pc' = "recover" /\ exc' = "JournalError" /\ record' = t
        BY <3>1, <3>5 DEF Raise
      <4> QED
        BY <3>2, <3>3, <4>1
    <3> QED
      BY <3>4, <3>5
  <2>2. CASE ~LegalTransition(record, s, pk, n)
    BY <2>2, <1>1 DEF Persist, Raise, consoleVars
  <2> QED
    BY <2>1, <2>2
<1>8. TypeOK'
  BY <1>1, <1>5, <1>7 DEF CoordinatorInvariant, TypeOK, ControlPoints, Errors
<1>9. JournalsTruthful' /\ FilesAgree'
  BY <1>1, <1>2, <1>5, <1>6, <1>7 DEF JournalsTruthful, Journals, FilesAgree
<1>10. Interrupted \/ Recorded(s, pk, next)
  BY <1>1, <1>2, <1>3, <1>5, <1>6, <1>7 DEF Interrupted, TERMINAL_STATES
<1>11. OffersWhatItHolds'
  BY <1>7 DEF CoordinatorInvariant, OffersWhatItHolds
<1> QED
  BY <1>7, <1>8, <1>9, <1>10, <1>11 DEF consoleVars

\* Leaving the try block keeps the invariant.
LEMMA InterruptedKeeps ==
    ASSUME CoordinatorInvariant, pc # "down", UNCHANGED <<exit, owner, armed>>,
           TypeOK', JournalsTruthful', FilesAgree', Interrupted
    PROVE  CoordinatorInvariant'
<1>1. OffersWhatItHolds'
  BY DEF CoordinatorInvariant, OffersWhatItHolds
<1>2. BeforeCreate' /\ InTry' /\ TradeKnown'
  BY DEF Interrupted, BeforeCreate, InTry, TradeKnown, TryPoints, UnderIdle, UnderStage1, UnderB,
         UnderGba, UnderA, UnderStage2, UnderCommit
<1>3. Leaving'
  BY DEF Interrupted, CoordinatorInvariant, Leaving, TryPoints, UnderIdle, UnderStage1, UnderB,
         UnderGba, UnderA, UnderStage2, UnderCommit
<1> QED
  BY <1>1, <1>2, <1>3 DEF CoordinatorInvariant

\* What the invariant says at a step of the try block.
LEMMA TryFacts ==
    ASSUME CoordinatorInvariant, pc \in TryPoints
    PROVE  /\ record \in JournalRecord
           /\ record.pokemon \in [Labels -> Mons \cup {NoMon}]
           /\ record.locations \in [Labels -> Places]
           /\ record.pokemon["P"] = mon["placeholder"]
           /\ record.state \notin TERMINAL_STATES
           /\ Truthful(record, owner, armed)
           /\ Truth(record.state, record.pokemon, owner, armed)
           /\ Located(record.state, record.locations)
           /\ exc = "none" /\ exit = "none"
           /\ mon["placeholder"] \in Mons
           /\ disk = record /\ survivors = {record}
<1>1. /\ record \in JournalRecord /\ disk = record /\ survivors = {record}
      /\ record.pokemon["P"] = mon["placeholder"] /\ mon["placeholder"] \in Mons
  BY DEF CoordinatorInvariant, InTry
<1>2. Truthful(record, owner, armed)
  BY <1>1, NoRecordIsNoJournal DEF CoordinatorInvariant, JournalsTruthful, Journals
<1>3. record.state \notin TERMINAL_STATES
  BY DEF TERMINAL_STATES, CoordinatorInvariant, InTry, TryPoints, UnderIdle, UnderStage1, UnderB, UnderGba,
         UnderA, UnderStage2, UnderCommit
<1>4. pc \notin {"down", "recover", "closing"}
  BY DEF TryPoints, UnderIdle, UnderStage1, UnderB, UnderGba, UnderA, UnderStage2, UnderCommit
<1>5. exc = "none" /\ exit = "none"
  BY <1>4 DEF CoordinatorInvariant, Leaving
<1>6. /\ record.pokemon \in [Labels -> Mons \cup {NoMon}]
      /\ record.locations \in [Labels -> Places]
  BY <1>1 DEF JournalRecord
<1> QED
  BY <1>1, <1>2, <1>3, <1>5, <1>6 DEF Truthful, LastState, TERMINAL_STATES

----------------------------------------------------------------------------
(***************************************************************************)
(* The nine transitions, each sound because of what execute knows when it  *)
(* makes it.                                                               *)
(***************************************************************************)

\* Recording stage 1 before the first offer: P is still in hand.
LEMMA StartStage1Keeps ==
    ASSUME CoordinatorInvariant, NEW outcome \in WriteOutcomes, StartStage1(outcome)
    PROVE  CoordinatorInvariant'
<1> USE DEF TryPoints, UnderIdle, UnderStage1, UnderB, UnderGba, UnderA, UnderStage2, UnderCommit
<1> DEFINE pk == record.pokemon
           loc == record.locations
<1>1. pc = "start1" /\ record.state = "IDLE"
  BY DEF StartStage1, Persist, CoordinatorInvariant, InTry
<1>2. TradeKnown /\ InTry /\ TypeOK
  BY DEF CoordinatorInvariant
<1>3. pk \in [Labels -> Mons \cup {NoMon}] /\ loc \in [Labels -> Places]
  BY <1>1, <1>2, TryFacts DEF TradeKnown, Places
<1>4. /\ Truth("SWITCH_STAGE1_STARTED", pk, owner, armed)
      /\ Located("SWITCH_STAGE1_STARTED", loc)
  BY <1>1, <1>2, TryFacts DEF Truth, Located, NoOffer, Consoles, TradeKnown, InTry, Labels, Places
<1>5. /\ TypeOK' /\ OffersWhatItHolds' /\ JournalsTruthful' /\ FilesAgree'
      /\ Interrupted \/ Recorded("SWITCH_STAGE1_STARTED", pk, "menu1")
      /\ UNCHANGED <<mon, slot, exit, consoleVars>>
  <2>1. Persist("start1", "SWITCH_STAGE1_STARTED", pk, loc, NoSlot, "menu1", outcome)
    BY DEF StartStage1
  <2>2. "start1" \in TryPoints /\ "menu1" \in ControlPoints \ {"recover"}
        /\ "SWITCH_STAGE1_STARTED" \in JournalState \ {"RECOVERY_REQUIRED"}
        /\ NoSlot \in 0..5 \cup {NoSlot}
    BY <1>2 DEF JournalState, ControlPoints, TypeOK
  <2> HIDE DEF pk, loc
  <2> QED
    BY <1>3, <1>4, <2>1, <2>2, PersistKeeps
<1>6. CASE Interrupted
  BY <1>1, <1>5, <1>6, InterruptedKeeps DEF consoleVars
<1>7. CASE Recorded("SWITCH_STAGE1_STARTED", pk, "menu1")
  <2>1. BeforeCreate' /\ InTry'
    BY <1>1, <1>2, <1>5, <1>7, TryFacts DEF Recorded, BeforeCreate, InTry, Labels
  <2>2. TradeKnown'
    BY <1>1, <1>2, <1>4, <1>5, <1>7, TryFacts DEF Recorded, TradeKnown, consoleVars, Truth, InTry
  <2>3. Leaving'
    BY <1>1, <1>5, <1>7, TryFacts, NoRecordIsNoJournal DEF Recorded, Leaving
  <2> QED
    BY <1>5, <2>1, <2>2, <2>3 DEF CoordinatorInvariant
<1> QED
  BY <1>5, <1>6, <1>7

\* Recording B: the confirmed trade put B in hand and P on the Switch.
LEMMA CaptureBKeeps ==
    ASSUME CoordinatorInvariant, NEW outcome \in WriteOutcomes, CaptureB(outcome)
    PROVE  CoordinatorInvariant'
<1> USE DEF TryPoints, UnderIdle, UnderStage1, UnderB, UnderGba, UnderA, UnderStage2, UnderCommit
<1> DEFINE pk == [record.pokemon EXCEPT !["B"] = mon["b_mon"]]
           loc == [record.locations EXCEPT !["B"] = "broker", !["P"] = "switch"]
<1>1. pc = "captured_b" /\ record.state = "SWITCH_STAGE1_STARTED"
  BY DEF CaptureB, Persist, CoordinatorInvariant, InTry
<1>2. TradeKnown /\ InTry /\ TypeOK
  BY DEF CoordinatorInvariant
<1>3. pk \in [Labels -> Mons \cup {NoMon}] /\ loc \in [Labels -> Places]
  BY <1>1, <1>2, TryFacts DEF TradeKnown, Places
<1>4. /\ Truth("SWITCH_B_CAPTURED", pk, owner, armed)
      /\ Located("SWITCH_B_CAPTURED", loc)
  BY <1>1, <1>2, TryFacts DEF Truth, Located, NoOffer, Consoles, TradeKnown, InTry, Labels, Places
<1>5. /\ TypeOK' /\ OffersWhatItHolds' /\ JournalsTruthful' /\ FilesAgree'
      /\ Interrupted \/ Recorded("SWITCH_B_CAPTURED", pk, "placed")
      /\ UNCHANGED <<mon, slot, exit, consoleVars>>
  <2>1. Persist("captured_b", "SWITCH_B_CAPTURED", pk, loc, NoSlot, "placed", outcome)
    BY DEF CaptureB
  <2>2. "captured_b" \in TryPoints /\ "placed" \in ControlPoints \ {"recover"}
        /\ "SWITCH_B_CAPTURED" \in JournalState \ {"RECOVERY_REQUIRED"}
        /\ NoSlot \in 0..5 \cup {NoSlot}
    BY <1>2 DEF JournalState, ControlPoints, TypeOK
  <2> HIDE DEF pk, loc
  <2> QED
    BY <1>3, <1>4, <2>1, <2>2, PersistKeeps
<1>6. CASE Interrupted
  BY <1>1, <1>5, <1>6, InterruptedKeeps DEF consoleVars
<1>7. CASE Recorded("SWITCH_B_CAPTURED", pk, "placed")
  <2>1. BeforeCreate' /\ InTry'
    BY <1>1, <1>2, <1>5, <1>7, TryFacts DEF Recorded, BeforeCreate, InTry, Labels
  <2>2. TradeKnown'
    BY <1>1, <1>2, <1>4, <1>5, <1>7, TryFacts DEF Recorded, TradeKnown, consoleVars, Truth, InTry
  <2>3. Leaving'
    BY <1>1, <1>5, <1>7, TryFacts, NoRecordIsNoJournal DEF Recorded, Leaving
  <2> QED
    BY <1>5, <2>1, <2>2, <2>3 DEF CoordinatorInvariant
<1> QED
  BY <1>5, <1>6, <1>7

\* The second record of the same facts, after stage 1.
LEMMA RecordPlacedKeeps ==
    ASSUME CoordinatorInvariant, NEW outcome \in WriteOutcomes, RecordPlaced(outcome)
    PROVE  CoordinatorInvariant'
<1> USE DEF TryPoints, UnderIdle, UnderStage1, UnderB, UnderGba, UnderA, UnderStage2, UnderCommit
<1> DEFINE pk == record.pokemon
           loc == record.locations
<1>1. pc = "placed" /\ record.state = "SWITCH_B_CAPTURED"
  BY DEF RecordPlaced, Persist, CoordinatorInvariant, InTry
<1>2. TradeKnown /\ InTry /\ TypeOK
  BY DEF CoordinatorInvariant
<1>3. pk \in [Labels -> Mons \cup {NoMon}] /\ loc \in [Labels -> Places]
  BY <1>1, <1>2, TryFacts DEF TradeKnown, Places
<1>4. /\ Truth("PLACEHOLDER_ON_SWITCH", pk, owner, armed)
      /\ Located("PLACEHOLDER_ON_SWITCH", loc)
  BY <1>1, <1>2, TryFacts DEF Truth, Located, NoOffer, Consoles, TradeKnown, InTry, Labels, Places
<1>5. /\ TypeOK' /\ OffersWhatItHolds' /\ JournalsTruthful' /\ FilesAgree'
      /\ Interrupted \/ Recorded("PLACEHOLDER_ON_SWITCH", pk, "start_gba")
      /\ UNCHANGED <<mon, slot, exit, consoleVars>>
  <2>1. Persist("placed", "PLACEHOLDER_ON_SWITCH", pk, loc, NoSlot, "start_gba", outcome)
    BY DEF RecordPlaced
  <2>2. "placed" \in TryPoints /\ "start_gba" \in ControlPoints \ {"recover"}
        /\ "PLACEHOLDER_ON_SWITCH" \in JournalState \ {"RECOVERY_REQUIRED"}
        /\ NoSlot \in 0..5 \cup {NoSlot}
    BY <1>2 DEF JournalState, ControlPoints, TypeOK
  <2> HIDE DEF pk, loc
  <2> QED
    BY <1>3, <1>4, <2>1, <2>2, PersistKeeps
<1>6. CASE Interrupted
  BY <1>1, <1>5, <1>6, InterruptedKeeps DEF consoleVars
<1>7. CASE Recorded("PLACEHOLDER_ON_SWITCH", pk, "start_gba")
  <2>1. BeforeCreate' /\ InTry'
    BY <1>1, <1>2, <1>5, <1>7, TryFacts DEF Recorded, BeforeCreate, InTry, Labels
  <2>2. TradeKnown'
    BY <1>1, <1>2, <1>4, <1>5, <1>7, TryFacts DEF Recorded, TradeKnown, consoleVars, Truth, InTry
  <2>3. Leaving'
    BY <1>1, <1>5, <1>7, TryFacts, NoRecordIsNoJournal DEF Recorded, Leaving
  <2> QED
    BY <1>5, <2>1, <2>2, <2>3 DEF CoordinatorInvariant
<1> QED
  BY <1>5, <1>6, <1>7

\* Recording the GBA stage before B is offered.
LEMMA StartGbaKeeps ==
    ASSUME CoordinatorInvariant, NEW outcome \in WriteOutcomes, StartGba(outcome)
    PROVE  CoordinatorInvariant'
<1> USE DEF TryPoints, UnderIdle, UnderStage1, UnderB, UnderGba, UnderA, UnderStage2, UnderCommit
<1> DEFINE pk == record.pokemon
           loc == record.locations
<1>1. pc = "start_gba" /\ record.state = "PLACEHOLDER_ON_SWITCH"
  BY DEF StartGba, Persist, CoordinatorInvariant, InTry
<1>2. TradeKnown /\ InTry /\ TypeOK
  BY DEF CoordinatorInvariant
<1>3. pk \in [Labels -> Mons \cup {NoMon}] /\ loc \in [Labels -> Places]
  BY <1>1, <1>2, TryFacts DEF TradeKnown, Places
<1>4. /\ Truth("GBA_STAGE_STARTED", pk, owner, armed)
      /\ Located("GBA_STAGE_STARTED", loc)
  BY <1>1, <1>2, TryFacts DEF Truth, Located, NoOffer, Consoles, TradeKnown, InTry, Labels, Places
<1>5. /\ TypeOK' /\ OffersWhatItHolds' /\ JournalsTruthful' /\ FilesAgree'
      /\ Interrupted \/ Recorded("GBA_STAGE_STARTED", pk, "offer_gba")
      /\ UNCHANGED <<mon, slot, exit, consoleVars>>
  <2>1. Persist("start_gba", "GBA_STAGE_STARTED", pk, loc, NoSlot, "offer_gba", outcome)
    BY DEF StartGba
  <2>2. "start_gba" \in TryPoints /\ "offer_gba" \in ControlPoints \ {"recover"}
        /\ "GBA_STAGE_STARTED" \in JournalState \ {"RECOVERY_REQUIRED"}
        /\ NoSlot \in 0..5 \cup {NoSlot}
    BY <1>2 DEF JournalState, ControlPoints, TypeOK
  <2> HIDE DEF pk, loc
  <2> QED
    BY <1>3, <1>4, <2>1, <2>2, PersistKeeps
<1>6. CASE Interrupted
  BY <1>1, <1>5, <1>6, InterruptedKeeps DEF consoleVars
<1>7. CASE Recorded("GBA_STAGE_STARTED", pk, "offer_gba")
  <2>1. BeforeCreate' /\ InTry'
    BY <1>1, <1>2, <1>5, <1>7, TryFacts DEF Recorded, BeforeCreate, InTry, Labels
  <2>2. TradeKnown'
    BY <1>1, <1>2, <1>4, <1>5, <1>7, TryFacts DEF Recorded, TradeKnown, consoleVars, Truth, InTry
  <2>3. Leaving'
    BY <1>1, <1>5, <1>7, TryFacts, NoRecordIsNoJournal DEF Recorded, Leaving
  <2> QED
    BY <1>5, <2>1, <2>2, <2>3 DEF CoordinatorInvariant
<1> QED
  BY <1>5, <1>6, <1>7

\* Recording A: the confirmed trade put A in hand and B on the GBA.
LEMMA CaptureAKeeps ==
    ASSUME CoordinatorInvariant, NEW outcome \in WriteOutcomes, CaptureA(outcome)
    PROVE  CoordinatorInvariant'
<1> USE DEF TryPoints, UnderIdle, UnderStage1, UnderB, UnderGba, UnderA, UnderStage2, UnderCommit
<1> DEFINE pk == [record.pokemon EXCEPT !["A"] = mon["a_mon"]]
           loc == [record.locations EXCEPT !["A"] = "broker", !["B"] = "gba"]
<1>1. pc = "captured_a" /\ record.state = "GBA_STAGE_STARTED"
  BY DEF CaptureA, Persist, CoordinatorInvariant, InTry
<1>2. TradeKnown /\ InTry /\ TypeOK
  BY DEF CoordinatorInvariant
<1>3. pk \in [Labels -> Mons \cup {NoMon}] /\ loc \in [Labels -> Places]
  BY <1>1, <1>2, TryFacts DEF TradeKnown, Places
<1>4. /\ Truth("GBA_A_CAPTURED", pk, owner, armed)
      /\ Located("GBA_A_CAPTURED", loc)
  BY <1>1, <1>2, TryFacts DEF Truth, Located, NoOffer, Consoles, TradeKnown, InTry, Labels, Places
<1>5. /\ TypeOK' /\ OffersWhatItHolds' /\ JournalsTruthful' /\ FilesAgree'
      /\ Interrupted \/ Recorded("GBA_A_CAPTURED", pk, "committed_b")
      /\ UNCHANGED <<mon, slot, exit, consoleVars>>
  <2>1. Persist("captured_a", "GBA_A_CAPTURED", pk, loc, slot, "committed_b", outcome)
    BY DEF CaptureA
  <2>2. "captured_a" \in TryPoints /\ "committed_b" \in ControlPoints \ {"recover"}
        /\ "GBA_A_CAPTURED" \in JournalState \ {"RECOVERY_REQUIRED"}
        /\ slot \in 0..5 \cup {NoSlot}
    BY <1>2 DEF JournalState, ControlPoints, TypeOK
  <2> HIDE DEF pk, loc
  <2> QED
    BY <1>3, <1>4, <2>1, <2>2, PersistKeeps
<1>6. CASE Interrupted
  BY <1>1, <1>5, <1>6, InterruptedKeeps DEF consoleVars
<1>7. CASE Recorded("GBA_A_CAPTURED", pk, "committed_b")
  <2>1. BeforeCreate' /\ InTry'
    BY <1>1, <1>2, <1>5, <1>7, TryFacts DEF Recorded, BeforeCreate, InTry, Labels
  <2>2. TradeKnown'
    BY <1>1, <1>2, <1>4, <1>5, <1>7, TryFacts DEF Recorded, TradeKnown, consoleVars, Truth, InTry
  <2>3. Leaving'
    BY <1>1, <1>5, <1>7, TryFacts, NoRecordIsNoJournal DEF Recorded, Leaving
  <2> QED
    BY <1>5, <2>1, <2>2, <2>3 DEF CoordinatorInvariant
<1> QED
  BY <1>5, <1>6, <1>7

\* The second record of the same facts, after the GBA stage.
LEMMA RecordCommittedBKeeps ==
    ASSUME CoordinatorInvariant, NEW outcome \in WriteOutcomes, RecordCommittedB(outcome)
    PROVE  CoordinatorInvariant'
<1> USE DEF TryPoints, UnderIdle, UnderStage1, UnderB, UnderGba, UnderA, UnderStage2, UnderCommit
<1> DEFINE pk == record.pokemon
           loc == record.locations
<1>1. pc = "committed_b" /\ record.state = "GBA_A_CAPTURED"
  BY DEF RecordCommittedB, Persist, CoordinatorInvariant, InTry
<1>2. TradeKnown /\ InTry /\ TypeOK
  BY DEF CoordinatorInvariant
<1>3. pk \in [Labels -> Mons \cup {NoMon}] /\ loc \in [Labels -> Places]
  BY <1>1, <1>2, TryFacts DEF TradeKnown, Places
<1>4. /\ Truth("B_COMMITTED_TO_GBA", pk, owner, armed)
      /\ Located("B_COMMITTED_TO_GBA", loc)
  BY <1>1, <1>2, TryFacts DEF Truth, Located, NoOffer, Consoles, TradeKnown, InTry, Labels, Places
<1>5. /\ TypeOK' /\ OffersWhatItHolds' /\ JournalsTruthful' /\ FilesAgree'
      /\ Interrupted \/ Recorded("B_COMMITTED_TO_GBA", pk, "start2")
      /\ UNCHANGED <<mon, slot, exit, consoleVars>>
  <2>1. Persist("committed_b", "B_COMMITTED_TO_GBA", pk, loc, NoSlot, "start2", outcome)
    BY DEF RecordCommittedB
  <2>2. "committed_b" \in TryPoints /\ "start2" \in ControlPoints \ {"recover"}
        /\ "B_COMMITTED_TO_GBA" \in JournalState \ {"RECOVERY_REQUIRED"}
        /\ NoSlot \in 0..5 \cup {NoSlot}
    BY <1>2 DEF JournalState, ControlPoints, TypeOK
  <2> HIDE DEF pk, loc
  <2> QED
    BY <1>3, <1>4, <2>1, <2>2, PersistKeeps
<1>6. CASE Interrupted
  BY <1>1, <1>5, <1>6, InterruptedKeeps DEF consoleVars
<1>7. CASE Recorded("B_COMMITTED_TO_GBA", pk, "start2")
  <2>1. BeforeCreate' /\ InTry'
    BY <1>1, <1>2, <1>5, <1>7, TryFacts DEF Recorded, BeforeCreate, InTry, Labels
  <2>2. TradeKnown'
    BY <1>1, <1>2, <1>4, <1>5, <1>7, TryFacts DEF Recorded, TradeKnown, consoleVars, Truth, InTry
  <2>3. Leaving'
    BY <1>1, <1>5, <1>7, TryFacts, NoRecordIsNoJournal DEF Recorded, Leaving
  <2> QED
    BY <1>5, <2>1, <2>2, <2>3 DEF CoordinatorInvariant
<1> QED
  BY <1>5, <1>6, <1>7

\* Recording stage 2 before A is offered.
LEMMA StartStage2Keeps ==
    ASSUME CoordinatorInvariant, NEW outcome \in WriteOutcomes, StartStage2(outcome)
    PROVE  CoordinatorInvariant'
<1> USE DEF TryPoints, UnderIdle, UnderStage1, UnderB, UnderGba, UnderA, UnderStage2, UnderCommit
<1> DEFINE pk == record.pokemon
           loc == record.locations
<1>1. pc = "start2" /\ record.state = "B_COMMITTED_TO_GBA"
  BY DEF StartStage2, Persist, CoordinatorInvariant, InTry
<1>2. TradeKnown /\ InTry /\ TypeOK
  BY DEF CoordinatorInvariant
<1>3. pk \in [Labels -> Mons \cup {NoMon}] /\ loc \in [Labels -> Places]
  BY <1>1, <1>2, TryFacts DEF TradeKnown, Places
<1>4. /\ Truth("SWITCH_STAGE2_STARTED", pk, owner, armed)
      /\ Located("SWITCH_STAGE2_STARTED", loc)
  BY <1>1, <1>2, TryFacts DEF Truth, Located, NoOffer, Consoles, TradeKnown, InTry, Labels, Places
<1>5. /\ TypeOK' /\ OffersWhatItHolds' /\ JournalsTruthful' /\ FilesAgree'
      /\ Interrupted \/ Recorded("SWITCH_STAGE2_STARTED", pk, "menu2")
      /\ UNCHANGED <<mon, slot, exit, consoleVars>>
  <2>1. Persist("start2", "SWITCH_STAGE2_STARTED", pk, loc, NoSlot, "menu2", outcome)
    BY DEF StartStage2
  <2>2. "start2" \in TryPoints /\ "menu2" \in ControlPoints \ {"recover"}
        /\ "SWITCH_STAGE2_STARTED" \in JournalState \ {"RECOVERY_REQUIRED"}
        /\ NoSlot \in 0..5 \cup {NoSlot}
    BY <1>2 DEF JournalState, ControlPoints, TypeOK
  <2> HIDE DEF pk, loc
  <2> QED
    BY <1>3, <1>4, <2>1, <2>2, PersistKeeps
<1>6. CASE Interrupted
  BY <1>1, <1>5, <1>6, InterruptedKeeps DEF consoleVars
<1>7. CASE Recorded("SWITCH_STAGE2_STARTED", pk, "menu2")
  <2>1. BeforeCreate' /\ InTry'
    BY <1>1, <1>2, <1>5, <1>7, TryFacts DEF Recorded, BeforeCreate, InTry, Labels
  <2>2. TradeKnown'
    BY <1>1, <1>2, <1>4, <1>5, <1>7, TryFacts DEF Recorded, TradeKnown, consoleVars, Truth, InTry
  <2>3. Leaving'
    BY <1>1, <1>5, <1>7, TryFacts, NoRecordIsNoJournal DEF Recorded, Leaving
  <2> QED
    BY <1>5, <2>1, <2>2, <2>3 DEF CoordinatorInvariant
<1> QED
  BY <1>5, <1>6, <1>7

\* Recording A on the Switch; P stays in doubt until it is compared.
LEMMA CommitAKeeps ==
    ASSUME CoordinatorInvariant, NEW outcome \in WriteOutcomes, CommitA(outcome)
    PROVE  CoordinatorInvariant'
<1> USE DEF TryPoints, UnderIdle, UnderStage1, UnderB, UnderGba, UnderA, UnderStage2, UnderCommit
<1> DEFINE pk == record.pokemon
           loc == [record.locations EXCEPT !["A"] = "switch", !["B"] = "gba",
                                          !["P"] = "broker (unverified candidate)"]
<1>1. pc = "committed_a" /\ record.state = "SWITCH_STAGE2_STARTED"
  BY DEF CommitA, Persist, CoordinatorInvariant, InTry
<1>2. TradeKnown /\ InTry /\ TypeOK
  BY DEF CoordinatorInvariant
<1>3. pk \in [Labels -> Mons \cup {NoMon}] /\ loc \in [Labels -> Places]
  BY <1>1, <1>2, TryFacts DEF TradeKnown, Places
<1>4. /\ Truth("A_COMMITTED_TO_SWITCH", pk, owner, armed)
      /\ Located("A_COMMITTED_TO_SWITCH", loc)
  BY <1>1, <1>2, TryFacts DEF Truth, Located, NoOffer, Consoles, TradeKnown, InTry, Labels, Places
<1>5. /\ TypeOK' /\ OffersWhatItHolds' /\ JournalsTruthful' /\ FilesAgree'
      /\ Interrupted \/ Recorded("A_COMMITTED_TO_SWITCH", pk, "verify")
      /\ UNCHANGED <<mon, slot, exit, consoleVars>>
  <2>1. Persist("committed_a", "A_COMMITTED_TO_SWITCH", pk, loc, NoSlot, "verify", outcome)
    BY DEF CommitA
  <2>2. "committed_a" \in TryPoints /\ "verify" \in ControlPoints \ {"recover"}
        /\ "A_COMMITTED_TO_SWITCH" \in JournalState \ {"RECOVERY_REQUIRED"}
        /\ NoSlot \in 0..5 \cup {NoSlot}
    BY <1>2 DEF JournalState, ControlPoints, TypeOK
  <2> HIDE DEF pk, loc
  <2> QED
    BY <1>3, <1>4, <2>1, <2>2, PersistKeeps
<1>6. CASE Interrupted
  BY <1>1, <1>5, <1>6, InterruptedKeeps DEF consoleVars
<1>7. CASE Recorded("A_COMMITTED_TO_SWITCH", pk, "verify")
  <2>1. BeforeCreate' /\ InTry'
    BY <1>1, <1>2, <1>5, <1>7, TryFacts DEF Recorded, BeforeCreate, InTry, Labels
  <2>2. TradeKnown'
    BY <1>1, <1>2, <1>4, <1>5, <1>7, TryFacts DEF Recorded, TradeKnown, consoleVars, Truth, InTry
  <2>3. Leaving'
    BY <1>1, <1>5, <1>7, TryFacts, NoRecordIsNoJournal DEF Recorded, Leaving
  <2> QED
    BY <1>5, <2>1, <2>2, <2>3 DEF CoordinatorInvariant
<1> QED
  BY <1>5, <1>6, <1>7

\* Recording COMPLETE: the returned record is P.
LEMMA CompleteKeeps ==
    ASSUME CoordinatorInvariant, NEW outcome \in WriteOutcomes, Complete(outcome)
    PROVE  CoordinatorInvariant'
<1> USE DEF TryPoints, UnderIdle, UnderStage1, UnderB, UnderGba, UnderA, UnderStage2, UnderCommit
<1> DEFINE pk == record.pokemon
           loc == [record.locations EXCEPT !["P"] = "broker"]
<1>1. pc = "complete" /\ record.state = "A_COMMITTED_TO_SWITCH"
  BY DEF Complete, Persist, CoordinatorInvariant, InTry
<1>2. TradeKnown /\ InTry /\ TypeOK
  BY DEF CoordinatorInvariant
<1>3. pk \in [Labels -> Mons \cup {NoMon}] /\ loc \in [Labels -> Places]
  BY <1>1, <1>2, TryFacts DEF TradeKnown, Places
<1>4. /\ Truth("COMPLETE", pk, owner, armed)
      /\ Located("COMPLETE", loc)
  BY <1>1, <1>2, TryFacts DEF Truth, Located, NoOffer, Consoles, TradeKnown, InTry, Labels, Places
<1>5. /\ TypeOK' /\ OffersWhatItHolds' /\ JournalsTruthful' /\ FilesAgree'
      /\ Interrupted \/ Recorded("COMPLETE", pk, "closing")
      /\ UNCHANGED <<mon, slot, exit, consoleVars>>
  <2>1. Persist("complete", "COMPLETE", pk, loc, NoSlot, "closing", outcome)
    BY DEF Complete
  <2>2. "complete" \in TryPoints /\ "closing" \in ControlPoints \ {"recover"}
        /\ "COMPLETE" \in JournalState \ {"RECOVERY_REQUIRED"}
        /\ NoSlot \in 0..5 \cup {NoSlot}
    BY <1>2 DEF JournalState, ControlPoints, TypeOK
  <2> HIDE DEF pk, loc
  <2> QED
    BY <1>3, <1>4, <2>1, <2>2, PersistKeeps
<1>6. CASE Interrupted
  BY <1>1, <1>5, <1>6, InterruptedKeeps DEF consoleVars
<1>7. CASE Recorded("COMPLETE", pk, "closing")
  <2>1. BeforeCreate' /\ InTry'
    BY <1>1, <1>2, <1>5, <1>7, TryFacts DEF Recorded, BeforeCreate, InTry, Labels
  <2>2. TradeKnown'
    BY <1>1, <1>2, <1>4, <1>5, <1>7, TryFacts DEF Recorded, TradeKnown, consoleVars, Truth, InTry
  <2>3. Leaving'
    BY <1>1, <1>5, <1>7, TryFacts, NoRecordIsNoJournal DEF Recorded, Leaving
  <2> QED
    BY <1>5, <2>1, <2>2, <2>3 DEF CoordinatorInvariant
<1> QED
  BY <1>5, <1>6, <1>7

----------------------------------------------------------------------------
(***************************************************************************)
(* Start and end of a process.                                             *)
(***************************************************************************)

\* Once the process is gone only the files and the consoles matter.
LEMMA GoneKeeps ==
    ASSUME TypeOK', OffersWhatItHolds', JournalsTruthful', FilesAgree', Gone,
           exit' = "complete" =>
               disk' # NoRecord /\ survivors' = {disk'} /\ disk'.state = "COMPLETE"
    PROVE  CoordinatorInvariant'
<1> USE DEF TryPoints, UnderIdle, UnderStage1, UnderB, UnderGba, UnderA, UnderStage2, UnderCommit
<1>1. pc' = "down"
  BY DEF Gone
<1>2. BeforeCreate' /\ InTry' /\ TradeKnown'
  BY <1>1 DEF BeforeCreate, InTry, TradeKnown
<1>3. Leaving'
  BY <1>1 DEF Leaving, Gone
<1> QED
  BY <1>2, <1>3 DEF CoordinatorInvariant

\* Leaving a process whose files and consoles stay as they are.
LEMMA GoneType ==
    ASSUME TypeOK, Gone, exit' \in Exits, UNCHANGED <<fileVars, consoleVars, confirmed>>
    PROVE  TypeOK'
BY DEF TypeOK, Gone, ControlPoints, NoLocals, Locals, Errors, fileVars, consoleVars

\* main turns every exception into one of its exit codes.
LEMMA CodeType ==
    ASSUME NEW e
    PROVE  ExitCode(e) \in Exits \ {"none", "killed"} /\ (ExitCode(e) = "complete" <=> e = "none")
BY DEF ExitCode, Exits

\* With files and consoles unchanged, what they say of each other holds on.
LEMMA QuietFiles ==
    ASSUME CoordinatorInvariant, UNCHANGED <<disk, survivors, owner, armed>>
    PROVE  JournalsTruthful' /\ FilesAgree' /\ OffersWhatItHolds'
BY DEF CoordinatorInvariant, JournalsTruthful, Journals, FilesAgree, OffersWhatItHolds

\* Starting a process: it is refused at once, or holds its placeholder.
LEMMA StartKeeps ==
    ASSUME CoordinatorInvariant, NEW p \in Mons, Start(p)
    PROVE  CoordinatorInvariant'
<1> USE DEF TryPoints, UnderIdle, UnderStage1, UnderB, UnderGba, UnderA, UnderStage2, UnderCommit
<1>1. TypeOK /\ UNCHANGED <<fileVars, consoleVars, confirmed>> /\ pc = "down"
  BY DEF CoordinatorInvariant, Start
<1>2. JournalsTruthful' /\ FilesAgree' /\ OffersWhatItHolds'
  BY <1>1, QuietFiles DEF fileVars, consoleVars
<1>3. CASE p \in MailMons
  <2>1. Gone /\ exit' = "error"
    BY <1>3 DEF Start, Exit, ExitCode
  <2> QED
    BY <1>1, <1>2, <2>1, GoneType, GoneKeeps DEF Exits
<1>4. CASE p \notin MailMons
  <2>1. /\ pc' = "require" /\ exit' = "none" /\ mon' = [NoLocals EXCEPT !["placeholder"] = p]
        /\ UNCHANGED <<record, slot, connected, exc>>
        /\ disk = NoRecord => owner[p] = "broker"
    BY <1>4 DEF Start
  <2>2. mon'["placeholder"] = p /\ mon' \in [Locals -> Mons \cup {NoMon}]
    BY <2>1 DEF NoLocals, Locals
  <2>3. TypeOK'
    BY <1>1, <2>1, <2>2 DEF TypeOK, ControlPoints, Exits, fileVars, consoleVars
  <2>4. BeforeCreate' /\ InTry' /\ TradeKnown'
    BY <1>1, <2>1, <2>2 DEF BeforeCreate, InTry, TradeKnown, fileVars, consoleVars
  <2>5. Leaving'
    BY <1>1, <2>1 DEF CoordinatorInvariant, Leaving
  <2> QED
    BY <1>2, <2>3, <2>4, <2>5 DEF CoordinatorInvariant
<1> QED
  BY <1>3, <1>4

\* require_new_transaction without a journal.
LEMMA NoJournalFoundKeeps ==
    ASSUME CoordinatorInvariant, NoJournalFound
    PROVE  CoordinatorInvariant'
<1> USE DEF TryPoints, UnderIdle, UnderStage1, UnderB, UnderGba, UnderA, UnderStage2, UnderCommit
<1>1. /\ pc = "require" /\ disk = NoRecord /\ pc' = "create_artifact"
      /\ UNCHANGED <<record, mon, slot, connected, exc, exit, fileVars, consoleVars, confirmed>>
  BY DEF NoJournalFound
<1>2. JournalsTruthful' /\ FilesAgree' /\ OffersWhatItHolds'
  BY <1>1, QuietFiles DEF fileVars, consoleVars
<1>3. TypeOK'
  BY <1>1 DEF CoordinatorInvariant, TypeOK, ControlPoints, fileVars, consoleVars
<1>4. BeforeCreate' /\ InTry' /\ TradeKnown' /\ Leaving'
  BY <1>1 DEF CoordinatorInvariant, BeforeCreate, InTry, TradeKnown, Leaving, fileVars, consoleVars
<1> QED
  BY <1>2, <1>3, <1>4 DEF CoordinatorInvariant

\* require_new_transaction refuses a terminal journal.
LEMMA TerminalFoundKeeps ==
    ASSUME CoordinatorInvariant, TerminalFound
    PROVE  CoordinatorInvariant'
<1>1. /\ Gone /\ exit' = "recovery" /\ UNCHANGED <<fileVars, consoleVars, confirmed>>
  BY DEF TerminalFound, Exit, ExitCode
<1>2. JournalsTruthful' /\ FilesAgree' /\ OffersWhatItHolds'
  BY <1>1, QuietFiles DEF fileVars, consoleVars
<1> QED
  BY <1>1, <1>2, GoneType, GoneKeeps DEF Exits, CoordinatorInvariant

\* A broker that is alone never meets the second test of create, which is
\* why Process may leave it out.
LEMMA JournalAppearedNever == CoordinatorInvariant => ~JournalAppeared
  BY DEF CoordinatorInvariant, BeforeCreate, JournalAppeared

\* A killed process leaves files and consoles as they are.
LEMMA CrashKeeps ==
    ASSUME CoordinatorInvariant, Crash
    PROVE  CoordinatorInvariant'
<1>1. /\ Gone /\ exit' = "killed" /\ UNCHANGED <<fileVars, consoleVars, confirmed>>
  BY DEF Crash
<1>2. JournalsTruthful' /\ FilesAgree' /\ OffersWhatItHolds'
  BY <1>1, QuietFiles DEF fileVars, consoleVars
<1> QED
  BY <1>1, <1>2, GoneType, GoneKeeps DEF Exits, CoordinatorInvariant

\* The finally block; a normal return follows a durable COMPLETE.
LEMMA CloseKeeps ==
    ASSUME CoordinatorInvariant, Close
    PROVE  CoordinatorInvariant'
<1>1. /\ pc = "closing" /\ Gone /\ exit' = ExitCode(exc)
      /\ UNCHANGED <<fileVars, consoleVars, confirmed>>
  BY DEF Close, Exit
<1>2. JournalsTruthful' /\ FilesAgree' /\ OffersWhatItHolds'
  BY <1>1, QuietFiles DEF fileVars, consoleVars
<1>3. exit' = "complete" =>
          disk' # NoRecord /\ survivors' = {disk'} /\ disk'.state = "COMPLETE"
  BY <1>1, CodeType DEF CoordinatorInvariant, Leaving, fileVars
<1> QED
  BY <1>1, <1>2, <1>3, CodeType, GoneType, GoneKeeps DEF CoordinatorInvariant

\* What _atomic_bytes leaves of the journal file.
LEMMA WriteKeeps ==
    ASSUME CoordinatorInvariant, NEW r \in JournalRecord, NEW outcome \in WriteOutcomes,
           WriteJournal(r, outcome), Truthful(r, owner, armed), UNCHANGED <<owner, armed>>
    PROVE  /\ disk' \in {disk, r} /\ survivors' \subseteq survivors \cup {r}
           /\ JournalsTruthful' /\ FilesAgree' /\ OffersWhatItHolds'
           /\ outcome = "ok" => disk' = r /\ survivors' = {r}
<1>1. /\ disk' \in {disk, r} /\ survivors' \subseteq survivors \cup {r}
      /\ outcome = "ok" => disk' = r /\ survivors' = {r}
      /\ disk' = disk => survivors' = survivors \/ r \in survivors'
      /\ disk' \in survivors'
  BY OutcomesAssumption DEF WriteJournal, CoordinatorInvariant, FilesAgree
<1>2. JournalsTruthful'
  BY <1>1 DEF CoordinatorInvariant, JournalsTruthful, Journals
<1>3. FilesAgree'
  BY <1>1, NoRecordIsNoJournal DEF CoordinatorInvariant, FilesAgree
<1>4. OffersWhatItHolds'
  BY DEF CoordinatorInvariant, OffersWhatItHolds
<1> QED
  BY <1>1, <1>2, <1>3, <1>4

\* The journal a new process finds.
LEMMA FoundFacts ==
    ASSUME CoordinatorInvariant, disk # NoRecord
    PROVE  disk \in JournalRecord /\ Truthful(disk, owner, armed)
BY DEF CoordinatorInvariant, TypeOK, FilesAgree, JournalsTruthful, Journals

\* require_new_transaction reads the journal that is there.
LEMMA LoadJournalKeeps ==
    ASSUME CoordinatorInvariant, LoadJournal
    PROVE  CoordinatorInvariant'
<1> USE DEF TryPoints, UnderIdle, UnderStage1, UnderB, UnderGba, UnderA, UnderStage2, UnderCommit
<1>1. /\ pc = "require" /\ disk # NoRecord /\ pc' = "loaded" /\ record' = disk
      /\ UNCHANGED <<mon, slot, connected, exc, exit, fileVars, consoleVars, confirmed>>
  BY DEF LoadJournal
<1>2. JournalsTruthful' /\ FilesAgree' /\ OffersWhatItHolds'
  BY <1>1, QuietFiles DEF fileVars, consoleVars
<1>3. disk \in JournalRecord
  BY <1>1, FoundFacts
<1>4. TypeOK'
  BY <1>1, <1>3 DEF CoordinatorInvariant, TypeOK, ControlPoints, fileVars, consoleVars
<1>5. BeforeCreate'
  BY <1>1, <1>3 DEF BeforeCreate, fileVars
<1>6. InTry' /\ TradeKnown' /\ Leaving'
  BY <1>1 DEF CoordinatorInvariant, InTry, TradeKnown, Leaving
<1> QED
  BY <1>2, <1>4, <1>5, <1>6 DEF CoordinatorInvariant

\* require_new_transaction stops an open journal.
LEMMA StopIncompleteKeeps ==
    ASSUME CoordinatorInvariant, NEW outcome \in WriteOutcomes, StopIncomplete(outcome)
    PROVE  CoordinatorInvariant'
<1> DEFINE t == Stopped(record, "restart")
<1>1. /\ pc = "loaded" /\ record.state # "RECOVERY_REQUIRED"
      /\ WriteJournal(t, outcome) /\ Gone
      /\ exit' = ExitCode(IF outcome = "ok" THEN "RecoveryRequired" ELSE "JournalError")
      /\ UNCHANGED <<artifacts, synced, txs, settled, owner, armed, gave, confirmed>>
  BY DEF StopIncomplete, Open, Exit, TERMINAL_STATES, consoleVars
<1>2. t \in JournalRecord /\ Truthful(t, owner, armed)
  <2>1. "restart" \in Errors
    BY DEF Errors
  <2>2. record \in JournalRecord /\ record = disk
    BY <1>1 DEF CoordinatorInvariant, BeforeCreate
  <2>3. Truthful(record, owner, armed)
    BY <2>2, FoundFacts, NoRecordIsNoJournal
  <2> QED
    BY <1>1, <2>1, <2>2, <2>3, StoppedTruthful
<1> HIDE DEF t
<1>3. /\ disk' \in {disk, t} /\ survivors' \subseteq survivors \cup {t}
      /\ JournalsTruthful' /\ FilesAgree' /\ OffersWhatItHolds'
  BY <1>1, <1>2, WriteKeeps
<1>4. exit' \in Exits /\ exit' # "complete"
  BY <1>1 DEF ExitCode, Exits
<1>5. TypeOK'
  BY <1>1, <1>2, <1>3, <1>4 DEF CoordinatorInvariant, TypeOK, Gone, ControlPoints, NoLocals, Locals,
     Errors
<1> QED
  BY <1>1, <1>3, <1>4, <1>5, GoneKeeps

\* Writing an artifact keeps the artifact files typed.
LEMMA ArtifactType ==
    ASSUME TypeOK, NEW n \in Nat, NEW l \in {"A", "B", "P", "P_RETURNED"}, NEW m \in Mons,
           NEW outcome, WriteArtifact(<<n, l, m>>, outcome)
    PROVE  /\ artifacts' \subseteq Nat \X {"A", "B", "P", "P_RETURNED"} \X Mons
           /\ synced' \subseteq artifacts'
BY DEF TypeOK, WriteArtifact

\* create saves P and builds a truthful first record in memory.
LEMMA CreateArtifactKeeps ==
    ASSUME CoordinatorInvariant, NEW outcome \in WriteOutcomes, CreateArtifact(outcome)
    PROVE  CoordinatorInvariant'
<1> USE DEF TryPoints, UnderIdle, UnderStage1, UnderB, UnderGba, UnderA, UnderStage2, UnderCommit
<1> DEFINE p == mon["placeholder"]
           r == NewRecord(txs + 1, p)
<1>1. /\ pc = "create_artifact" /\ txs' = txs + 1
      /\ WriteArtifact(<<txs + 1, "P", p>>, outcome)
      /\ UNCHANGED <<disk, survivors, settled, owner, armed, gave>>
  BY DEF CreateArtifact, consoleVars
<1>2. TypeOK /\ txs + 1 \in Nat
  BY DEF CoordinatorInvariant, TypeOK
<1>3. p \in Mons /\ disk = NoRecord /\ owner[p] = "broker" /\ armed = NoOffer
  BY <1>1 DEF CoordinatorInvariant, BeforeCreate, FilesAgree
<1>4. /\ artifacts' \subseteq Nat \X {"A", "B", "P", "P_RETURNED"} \X Mons
      /\ synced' \subseteq artifacts'
  BY <1>1, <1>2, <1>3, ArtifactType
<1>5. JournalsTruthful' /\ FilesAgree' /\ OffersWhatItHolds'
  BY <1>1, QuietFiles
<1>6. CASE outcome = "ok"
  <2>1. /\ pc' = "create_write" /\ record' = r /\ confirmed' = {}
        /\ UNCHANGED <<mon, slot, connected, exc, exit>>
    BY <1>6 DEF CreateArtifact
  <2>2. /\ r \in JournalRecord /\ Truthful(r, owner, armed)
        /\ r.state = "IDLE" /\ r.pokemon["P"] = p
    BY <1>2, <1>3, NewRecordType, NewTruthful
  <2> HIDE DEF r
  <2>3. TypeOK'
    BY <1>1, <1>2, <1>4, <2>1, <2>2 DEF TypeOK, ControlPoints
  <2>4. BeforeCreate' /\ InTry' /\ TradeKnown'
    BY <1>1, <1>3, <2>1, <2>2 DEF BeforeCreate, InTry, TradeKnown
  <2>5. Leaving'
    BY <1>1, <2>1 DEF CoordinatorInvariant, Leaving
  <2> QED
    BY <1>5, <2>3, <2>4, <2>5 DEF CoordinatorInvariant
<1>7. CASE outcome # "ok"
  <2>1. Gone /\ exit' = "error" /\ UNCHANGED confirmed
    BY <1>7 DEF CreateArtifact, Exit, ExitCode
  <2>2. TypeOK'
    BY <1>1, <1>2, <1>4, <2>1 DEF TypeOK, Gone, ControlPoints, NoLocals, Locals, Errors, Exits
  <2> QED
    BY <1>5, <2>1, <2>2, GoneKeeps
<1> QED
  BY <1>6, <1>7

\* create writes that record.
LEMMA CreateWriteKeeps ==
    ASSUME CoordinatorInvariant, NEW outcome \in WriteOutcomes, CreateWrite(outcome)
    PROVE  CoordinatorInvariant'
<1> USE DEF TryPoints, UnderIdle, UnderStage1, UnderB, UnderGba, UnderA, UnderStage2, UnderCommit
<1>1. /\ pc = "create_write" /\ WriteJournal(record, outcome)
      /\ UNCHANGED <<artifacts, synced, txs, settled, owner, armed, gave, confirmed>>
  BY DEF CreateWrite, consoleVars
<1>2. /\ record \in JournalRecord /\ Truthful(record, owner, armed)
      /\ record.state = "IDLE" /\ record.pokemon["P"] = mon["placeholder"]
      /\ mon["placeholder"] \in Mons /\ TypeOK
  BY <1>1 DEF CoordinatorInvariant, BeforeCreate
<1>3. /\ disk' \in {disk, record} /\ survivors' \subseteq survivors \cup {record}
      /\ JournalsTruthful' /\ FilesAgree' /\ OffersWhatItHolds'
      /\ outcome = "ok" => disk' = record /\ survivors' = {record}
  BY <1>1, <1>2, WriteKeeps
<1>4. CASE outcome = "ok"
  <2>1. pc' = "connect_switch" /\ UNCHANGED <<record, mon, slot, connected, exc, exit>>
    BY <1>4 DEF CreateWrite
  <2>2. TypeOK'
    BY <1>1, <1>2, <1>3, <2>1 DEF TypeOK, ControlPoints
  <2>3. BeforeCreate' /\ InTry' /\ TradeKnown'
    BY <1>2, <1>3, <1>4, <2>1 DEF BeforeCreate, InTry, TradeKnown
  <2>4. Leaving'
    BY <1>1, <2>1 DEF CoordinatorInvariant, Leaving
  <2> QED
    BY <1>3, <2>2, <2>3, <2>4 DEF CoordinatorInvariant
<1>5. CASE outcome # "ok"
  <2>1. Gone /\ exit' = "error"
    BY <1>5 DEF CreateWrite, Exit, ExitCode
  <2>2. TypeOK'
    BY <1>1, <1>2, <1>3, <2>1 DEF TypeOK, Gone, ControlPoints, NoLocals, Locals, Errors, Exits
  <2> QED
    BY <1>3, <2>1, <2>2, GoneKeeps
<1> QED
  BY <1>4, <1>5

----------------------------------------------------------------------------
(***************************************************************************)
(* Calls to the endpoints and the steps between them.                      *)
(***************************************************************************)

\* An exception that leaves the record alone.
LEMMA RaiseKeeps ==
    ASSUME CoordinatorInvariant, pc \in TryPoints, NEW e, e # "none", Raise(e),
           UNCHANGED <<record, exit, disk, survivors, owner, armed>>, TypeOK'
    PROVE  CoordinatorInvariant'
<1>1. pc # "down"
  BY DEF TryPoints, UnderIdle, UnderStage1, UnderB, UnderGba, UnderA, UnderStage2, UnderCommit
<1>2. Interrupted
  BY TryFacts DEF Interrupted, Raise, TERMINAL_STATES
<1> QED
  BY <1>1, <1>2, QuietFiles, InterruptedKeeps

\* An endpoint call that raises leaves its stage open.
LEMMA EndpointRaisesKeeps ==
    ASSUME CoordinatorInvariant, EndpointRaises
    PROVE  CoordinatorInvariant'
<1>1. /\ pc \in TryPoints /\ Raise("EndpointError")
      /\ UNCHANGED <<record, mon, slot, connected, exit, fileVars, consoleVars, confirmed>>
  BY DEF EndpointRaises, TryPoints, UnderIdle, UnderStage1, UnderB, UnderGba, UnderA, UnderStage2,
         UnderCommit
<1>2. TypeOK'
  BY <1>1 DEF CoordinatorInvariant, TypeOK, ControlPoints, Errors, Raise, fileVars, consoleVars
<1> QED
  BY <1>1, <1>2, RaiseKeeps DEF fileVars, consoleVars

\* Connecting an endpoint touches neither files nor consoles.
LEMMA ConnectKeeps ==
    ASSUME CoordinatorInvariant, ConnectSwitch \/ ConnectGba
    PROVE  CoordinatorInvariant'
<1> USE DEF TryPoints, UnderIdle, UnderStage1, UnderB, UnderGba, UnderA, UnderStage2, UnderCommit
<1>1. /\ \/ pc = "connect_switch" /\ pc' = "connect_gba"
         \/ pc = "connect_gba" /\ pc' = "start1"
      /\ connected' \subseteq connected \cup Consoles
      /\ UNCHANGED <<record, mon, slot, exc, exit, fileVars, consoleVars, confirmed>>
  BY DEF ConnectSwitch, ConnectGba, Connect, Continue, Consoles
<1>2. TypeOK'
  BY <1>1 DEF CoordinatorInvariant, TypeOK, ControlPoints, fileVars, consoleVars
<1>3. JournalsTruthful' /\ FilesAgree' /\ OffersWhatItHolds'
  BY <1>1, QuietFiles DEF fileVars, consoleVars
<1>4. BeforeCreate' /\ InTry' /\ TradeKnown' /\ Leaving'
  BY <1>1 DEF CoordinatorInvariant, BeforeCreate, InTry, TradeKnown, Leaving, fileVars, consoleVars
<1> QED
  BY <1>2, <1>3, <1>4 DEF CoordinatorInvariant

\* Saving an artifact inside the try block, or failing to.
LEMMA SaveKeeps ==
    ASSUME CoordinatorInvariant, NEW outcome \in WriteOutcomes,
           SaveB(outcome) \/ SaveA(outcome) \/ SaveReturned(outcome)
    PROVE  CoordinatorInvariant'
<1> USE DEF TryPoints, UnderIdle, UnderStage1, UnderB, UnderGba, UnderA, UnderStage2, UnderCommit
<1>1. PICK l \in {"A", "B", "P_RETURNED"}, m \in Mons, next \in ControlPoints :
          /\ \/ pc = "artifact_b" /\ next = "captured_b"
             \/ pc = "artifact_a" /\ next = "captured_a"
             \/ pc = "artifact_p" /\ next = "committed_a"
          /\ SaveArtifact(pc, l, m, next, outcome)
  <2>1. CASE SaveB(outcome)
    <3>1. pc = "artifact_b" /\ mon["b_mon"] \in Mons
      BY <2>1 DEF SaveB, SaveArtifact, CoordinatorInvariant, TradeKnown
    <3> QED
      BY <2>1, <3>1 DEF SaveB, ControlPoints
  <2>2. CASE SaveA(outcome)
    <3>1. pc = "artifact_a" /\ mon["a_mon"] \in Mons
      BY <2>2 DEF SaveA, SaveArtifact, CoordinatorInvariant, TradeKnown
    <3> QED
      BY <2>2, <3>1 DEF SaveA, ControlPoints
  <2>3. CASE SaveReturned(outcome)
    <3>1. pc = "artifact_p" /\ mon["returned"] \in Mons
      BY <2>3 DEF SaveReturned, SaveArtifact, CoordinatorInvariant, TradeKnown
    <3> QED
      BY <2>3, <3>1 DEF SaveReturned, ControlPoints
  <2> QED
    BY <2>1, <2>2, <2>3
<1>2. /\ WriteArtifact(<<record.transaction_id, l, m>>, outcome)
      /\ IF outcome = "ok" THEN Continue(next) ELSE Raise("JournalError")
      /\ UNCHANGED <<record, mon, slot, connected, exit, disk, survivors, txs, settled, owner, armed, gave,
                     confirmed>>
  BY <1>1 DEF SaveArtifact, Proceed, consoleVars
<1>3. record \in JournalRecord /\ record.transaction_id \in Nat /\ TypeOK
  BY <1>1 DEF CoordinatorInvariant, InTry, JournalRecord
<1>4. /\ artifacts' \subseteq Nat \X {"A", "B", "P", "P_RETURNED"} \X Mons
      /\ synced' \subseteq artifacts'
  BY <1>2, <1>3, ArtifactType
<1>5. TypeOK'
  BY <1>2, <1>3, <1>4 DEF TypeOK, ControlPoints, Errors, Continue, Raise
<1>6. CASE outcome = "ok"
  <2>1. pc' = next /\ UNCHANGED exc
    BY <1>2, <1>6 DEF Continue
  <2>2. JournalsTruthful' /\ FilesAgree' /\ OffersWhatItHolds'
    BY <1>2, QuietFiles
  <2>3. BeforeCreate' /\ InTry'
    BY <1>1, <1>2, <2>1 DEF CoordinatorInvariant, BeforeCreate, InTry
  <2>4. TradeKnown' /\ Leaving'
    BY <1>1, <1>2, <2>1 DEF CoordinatorInvariant, TradeKnown, Leaving
  <2> QED
    BY <1>5, <2>2, <2>3, <2>4 DEF CoordinatorInvariant
<1>7. CASE outcome # "ok"
  BY <1>1, <1>2, <1>5, <1>7, RaiseKeeps
<1> QED
  BY <1>6, <1>7

\* The comparison that decides between COMPLETE and a mismatch.
LEMMA VerifyPlaceholderKeeps ==
    ASSUME CoordinatorInvariant, VerifyPlaceholder
    PROVE  CoordinatorInvariant'
<1> USE DEF TryPoints, UnderIdle, UnderStage1, UnderB, UnderGba, UnderA, UnderStage2, UnderCommit
<1>1. /\ pc = "verify"
      /\ UNCHANGED <<record, mon, slot, connected, exit, fileVars, consoleVars, confirmed>>
  BY DEF VerifyPlaceholder
<1>2. TypeOK'
  BY <1>1 DEF VerifyPlaceholder, PlaceholderError, Check, Continue, Raise, CoordinatorInvariant, TypeOK, ControlPoints, Errors,
     fileVars, consoleVars
<1>3. CASE mon["returned"] # mon["placeholder"]
  <2>1. Raise("PlaceholderMismatch")
    BY <1>3 DEF VerifyPlaceholder, PlaceholderError, Check
  <2> QED
    BY <1>1, <1>2, <2>1, RaiseKeeps DEF fileVars, consoleVars
<1>4. CASE mon["returned"] = mon["placeholder"]
  <2>1. pc' = "complete" /\ exc' = exc
    BY <1>4 DEF VerifyPlaceholder, PlaceholderError, Check, Continue
  <2>2. JournalsTruthful' /\ FilesAgree' /\ OffersWhatItHolds'
    BY <1>1, QuietFiles DEF fileVars, consoleVars
  <2>3. BeforeCreate' /\ InTry'
    BY <1>1, <2>1 DEF CoordinatorInvariant, BeforeCreate, InTry, fileVars
  <2>4. TradeKnown' /\ Leaving'
    BY <1>1, <1>4, <2>1 DEF CoordinatorInvariant, TradeKnown, Leaving, consoleVars
  <2> QED
    BY <1>2, <2>2, <2>3, <2>4 DEF CoordinatorInvariant
<1> QED
  BY <1>3, <1>4

\* _mark_recovery stops a record that may be ahead of the journal.
LEMMA MarkRecoveryKeeps ==
    ASSUME CoordinatorInvariant, NEW outcome \in WriteOutcomes, MarkRecovery(outcome)
    PROVE  CoordinatorInvariant'
<1> USE DEF TryPoints, UnderIdle, UnderStage1, UnderB, UnderGba, UnderA, UnderStage2, UnderCommit
<1> DEFINE t == Stopped(record, exc)
<1>1. /\ pc = "recover" /\ pc' = "closing"
      /\ UNCHANGED <<mon, slot, connected, exc, exit, artifacts, synced, txs, settled, owner, armed, gave,
                     confirmed>>
  BY DEF MarkRecovery, consoleVars
<1>2. /\ record \in JournalRecord /\ record.state # "RECOVERY_REQUIRED"
      /\ Truthful(record, owner, armed) /\ exc # "none" /\ exit = "none" /\ TypeOK /\ exc \in Errors
  BY <1>1 DEF CoordinatorInvariant, Leaving, TypeOK
<1>3. /\ record' \in JournalRecord /\ disk' \in JournalRecord \cup {NoRecord}
      /\ survivors' \subseteq JournalRecord \cup {NoRecord}
      /\ JournalsTruthful' /\ FilesAgree' /\ OffersWhatItHolds'
  <2>1. CASE record.state \in TERMINAL_STATES
    <3>1. UNCHANGED <<record, disk, survivors>>
      BY <2>1 DEF MarkRecovery, Open
    <3> QED
      BY <1>1, <1>2, <3>1, QuietFiles DEF TypeOK
  <2>2. CASE record.state \notin TERMINAL_STATES
    <3>1. record' = t /\ WriteJournal(t, outcome)
      BY <2>2 DEF MarkRecovery, Open
    <3>2. t \in JournalRecord /\ Truthful(t, owner, armed)
      BY <1>2, StoppedTruthful
    <3> HIDE DEF t
    <3> QED
      BY <1>1, <1>2, <3>1, <3>2, WriteKeeps DEF TypeOK
  <2> QED
    BY <2>1, <2>2
<1>4. TypeOK'
  BY <1>1, <1>2, <1>3 DEF TypeOK, ControlPoints
<1>5. BeforeCreate' /\ InTry' /\ TradeKnown' /\ Leaving'
  BY <1>1, <1>2 DEF BeforeCreate, InTry, TradeKnown, Leaving
<1> QED
  BY <1>3, <1>4, <1>5 DEF CoordinatorInvariant

\* An offer map without offers is NoOffer.
LEMMA NothingOffered ==
    ASSUME TypeOK, armed["gba"] = NoMon, armed["switch"] = NoMon
    PROVE  armed = NoOffer
BY DEF TypeOK, NoOffer, Consoles

\* Offering P to the Switch, under SWITCH_STAGE1_STARTED.
LEMMA OfferPlaceholderKeeps ==
    ASSUME CoordinatorInvariant, OfferPlaceholder
    PROVE  CoordinatorInvariant'
<1> USE DEF TryPoints, UnderIdle, UnderStage1, UnderB, UnderGba, UnderA, UnderStage2, UnderCommit
<1> DEFINE m == mon["placeholder"]
<1>1. /\ pc = "menu1"
      /\ UNCHANGED <<record, mon, slot, connected, exit, disk, survivors, artifacts, synced, txs, settled,
                     owner, confirmed>>
  BY DEF OfferPlaceholder, Offer, fileVars
<1>2. TypeOK /\ InTry /\ TradeKnown /\ record.state = "SWITCH_STAGE1_STARTED"
  BY <1>1 DEF CoordinatorInvariant, InTry
<1>3. m \in Mons /\ owner[m] = "broker" /\ armed = NoOffer
  BY <1>1, <1>2, TryFacts DEF TradeKnown, InTry, Truth
<1>4. CASE m \in MailMons
  <2>1. Raise("MailNotSupported") /\ UNCHANGED <<armed, gave>>
    BY <1>4 DEF OfferPlaceholder, Offer
  <2>2. TypeOK'
    BY <1>1, <1>2, <2>1 DEF TypeOK, ControlPoints, Errors, Raise
  <2> QED
    BY <1>1, <2>1, <2>2, RaiseKeeps
<1>5. CASE m \notin MailMons
  <2>1. /\ pc' = "trade1" /\ exc' = exc
        /\ armed' = [armed EXCEPT !["switch"] = m] /\ gave' = [gave EXCEPT !["switch"] = NoMon]
    BY <1>5 DEF OfferPlaceholder, Offer, Continue
  <2>2. /\ armed'["switch"] = m /\ armed'["gba"] = NoMon /\ gave'["switch"] = NoMon
        /\ armed' \in [Consoles -> Mons \cup {NoMon}] /\ gave' \in [Consoles -> Mons \cup {NoMon}]
    BY <1>2, <1>3, <2>1 DEF TypeOK, Consoles, NoOffer
  <2>3. TypeOK'
    BY <1>1, <1>2, <2>1, <2>2 DEF TypeOK, ControlPoints
  <2>4. OffersWhatItHolds'
    BY <1>1, <1>3, <2>2 DEF OffersWhatItHolds, Consoles
  <2>5. Truthful(record, owner, armed')
    <3>1. LastState(record) = record.state
      BY <1>2 DEF LastState
    <3>2. Truth(record.state, record.pokemon, owner, armed')
      BY <1>1, <1>2, <1>3, <2>2, TryFacts DEF Truth, InTry, TradeKnown
    <3> QED
      BY <1>1, <3>1, <3>2, TryFacts DEF Truthful
  <2>6. JournalsTruthful' /\ FilesAgree'
    BY <1>1, <2>5, TryFacts, NoRecordIsNoJournal DEF JournalsTruthful, Journals, FilesAgree
  <2>7. BeforeCreate' /\ InTry' /\ Leaving'
    BY <1>1, <2>1 DEF CoordinatorInvariant, BeforeCreate, InTry, Leaving
  <2>8. TradeKnown'
    BY <1>1, <1>2, <2>1, <2>2 DEF TradeKnown, Traded
  <2> QED
    BY <2>3, <2>4, <2>6, <2>7, <2>8 DEF CoordinatorInvariant
<1> QED
  BY <1>4, <1>5

\* Offering B to the GBA, under GBA_STAGE_STARTED.
LEMMA OfferBKeeps ==
    ASSUME CoordinatorInvariant, OfferB
    PROVE  CoordinatorInvariant'
<1> USE DEF TryPoints, UnderIdle, UnderStage1, UnderB, UnderGba, UnderA, UnderStage2, UnderCommit
<1> DEFINE m == mon["b_mon"]
<1>1. /\ pc = "offer_gba"
      /\ UNCHANGED <<record, mon, slot, connected, exit, disk, survivors, artifacts, synced, txs, settled,
                     owner, confirmed>>
  BY DEF OfferB, Offer, fileVars
<1>2. TypeOK /\ InTry /\ TradeKnown /\ record.state = "GBA_STAGE_STARTED"
  BY <1>1 DEF CoordinatorInvariant, InTry
<1>3. m \in Mons /\ owner[m] = "broker" /\ armed = NoOffer
  BY <1>1, <1>2, TryFacts DEF TradeKnown, InTry, Truth
<1>4. CASE m \in MailMons
  <2>1. Raise("MailNotSupported") /\ UNCHANGED <<armed, gave>>
    BY <1>4 DEF OfferB, Offer
  <2>2. TypeOK'
    BY <1>1, <1>2, <2>1 DEF TypeOK, ControlPoints, Errors, Raise
  <2> QED
    BY <1>1, <2>1, <2>2, RaiseKeeps
<1>5. CASE m \notin MailMons
  <2>1. /\ pc' = "trade_gba" /\ exc' = exc
        /\ armed' = [armed EXCEPT !["gba"] = m] /\ gave' = [gave EXCEPT !["gba"] = NoMon]
    BY <1>5 DEF OfferB, Offer, Continue
  <2>2. /\ armed'["gba"] = m /\ armed'["switch"] = NoMon /\ gave'["gba"] = NoMon
        /\ armed' \in [Consoles -> Mons \cup {NoMon}] /\ gave' \in [Consoles -> Mons \cup {NoMon}]
    BY <1>2, <1>3, <2>1 DEF TypeOK, Consoles, NoOffer
  <2>3. TypeOK'
    BY <1>1, <1>2, <2>1, <2>2 DEF TypeOK, ControlPoints
  <2>4. OffersWhatItHolds'
    BY <1>1, <1>3, <2>2 DEF OffersWhatItHolds, Consoles
  <2>5. Truthful(record, owner, armed')
    <3>1. LastState(record) = record.state
      BY <1>2 DEF LastState
    <3>2. Truth(record.state, record.pokemon, owner, armed')
      BY <1>1, <1>2, <1>3, <2>2, TryFacts DEF Truth, InTry, TradeKnown
    <3> QED
      BY <1>1, <3>1, <3>2, TryFacts DEF Truthful
  <2>6. JournalsTruthful' /\ FilesAgree'
    BY <1>1, <2>5, TryFacts, NoRecordIsNoJournal DEF JournalsTruthful, Journals, FilesAgree
  <2>7. BeforeCreate' /\ InTry' /\ Leaving'
    BY <1>1, <2>1 DEF CoordinatorInvariant, BeforeCreate, InTry, Leaving
  <2>8. TradeKnown'
    BY <1>1, <1>2, <2>1, <2>2 DEF TradeKnown, Traded
  <2> QED
    BY <2>3, <2>4, <2>6, <2>7, <2>8 DEF CoordinatorInvariant
<1> QED
  BY <1>4, <1>5

\* Offering A to the Switch, under SWITCH_STAGE2_STARTED.
LEMMA OfferAKeeps ==
    ASSUME CoordinatorInvariant, OfferA
    PROVE  CoordinatorInvariant'
<1> USE DEF TryPoints, UnderIdle, UnderStage1, UnderB, UnderGba, UnderA, UnderStage2, UnderCommit
<1> DEFINE m == mon["a_mon"]
<1>1. /\ pc = "menu2"
      /\ UNCHANGED <<record, mon, slot, connected, exit, disk, survivors, artifacts, synced, txs, settled,
                     owner, confirmed>>
  BY DEF OfferA, Offer, fileVars
<1>2. TypeOK /\ InTry /\ TradeKnown /\ record.state = "SWITCH_STAGE2_STARTED"
  BY <1>1 DEF CoordinatorInvariant, InTry
<1>3. m \in Mons /\ owner[m] = "broker" /\ armed = NoOffer
  BY <1>1, <1>2, TryFacts DEF TradeKnown, InTry, Truth
<1>4. CASE m \in MailMons
  <2>1. Raise("MailNotSupported") /\ UNCHANGED <<armed, gave>>
    BY <1>4 DEF OfferA, Offer
  <2>2. TypeOK'
    BY <1>1, <1>2, <2>1 DEF TypeOK, ControlPoints, Errors, Raise
  <2> QED
    BY <1>1, <2>1, <2>2, RaiseKeeps
<1>5. CASE m \notin MailMons
  <2>1. /\ pc' = "trade2" /\ exc' = exc
        /\ armed' = [armed EXCEPT !["switch"] = m] /\ gave' = [gave EXCEPT !["switch"] = NoMon]
    BY <1>5 DEF OfferA, Offer, Continue
  <2>2. /\ armed'["switch"] = m /\ armed'["gba"] = NoMon /\ gave'["switch"] = NoMon
        /\ armed' \in [Consoles -> Mons \cup {NoMon}] /\ gave' \in [Consoles -> Mons \cup {NoMon}]
    BY <1>2, <1>3, <2>1 DEF TypeOK, Consoles, NoOffer
  <2>3. TypeOK'
    BY <1>1, <1>2, <2>1, <2>2 DEF TypeOK, ControlPoints
  <2>4. OffersWhatItHolds'
    BY <1>1, <1>3, <2>2 DEF OffersWhatItHolds, Consoles
  <2>5. Truthful(record, owner, armed')
    <3>1. LastState(record) = record.state
      BY <1>2 DEF LastState
    <3>2. Truth(record.state, record.pokemon, owner, armed')
      BY <1>1, <1>2, <1>3, <2>2, TryFacts DEF Truth, InTry, TradeKnown
    <3> QED
      BY <1>1, <3>1, <3>2, TryFacts DEF Truthful
  <2>6. JournalsTruthful' /\ FilesAgree'
    BY <1>1, <2>5, TryFacts, NoRecordIsNoJournal DEF JournalsTruthful, Journals, FilesAgree
  <2>7. BeforeCreate' /\ InTry' /\ Leaving'
    BY <1>1, <2>1 DEF CoordinatorInvariant, BeforeCreate, InTry, Leaving
  <2>8. TradeKnown'
    BY <1>1, <1>2, <2>1, <2>2 DEF TradeKnown, Traded
  <2> QED
    BY <2>3, <2>4, <2>6, <2>7, <2>8 DEF CoordinatorInvariant
<1> QED
  BY <1>4, <1>5

\* The exceptions validation may raise, and what it has established if it
\* raises none: the console handed over the received record for the offer.
LEMMA ErrorTypes ==
    ASSUME NEW r, NEW offer, NEW m
    PROVE  /\ ResultError(r, offer) \in Errors
           /\ GbaResultError(r, offer) \in Errors
           /\ MailError(m) \in Errors
           /\ GbaResultError(r, offer) = "none" =>
                  ResultError(r, offer) = "none" /\ r.selected_slot \in 0..5
           /\ ResultError(r, offer) = "none" => r.offered_mon = offer /\ r.commit_confirmed
BY DEF ResultError, GbaResultError, MailError, OrElse, Check, Errors

\* The first Switch trade returns: an accepted answer is a real trade.
LEMMA Switch1ReturnsKeeps ==
    ASSUME CoordinatorInvariant, Switch1Returns
    PROVE  CoordinatorInvariant'
<1> USE DEF TryPoints, UnderIdle, UnderStage1, UnderB, UnderGba, UnderA, UnderStage2, UnderCommit
<1> DEFINE offer == mon["placeholder"]
<1>1. /\ pc = "trade1"
      /\ UNCHANGED <<record, connected, exit, disk, survivors, artifacts, synced, txs, settled,
                     owner, armed, gave>>
  BY DEF Switch1Returns, fileVars, consoleVars
<1>2. TypeOK /\ InTry /\ TradeKnown /\ record.state = "SWITCH_STAGE1_STARTED"
  BY <1>1 DEF CoordinatorInvariant, InTry
<1>3. PICK r \in TradeResult("switch", mon["placeholder"]), e \in Errors :
          /\ Receive(r, offer, e, "b_mon", "artifact_b")
          /\ slot' = slot
          /\ e = "none" => ResultError(r, offer) = "none"
  <2>1. PICK r \in TradeResult("switch", mon["placeholder"]) :
            /\ Receive(r, offer, OrElse(ResultError(r, mon["placeholder"]), MailError(r.received_mon)),
                       "b_mon", "artifact_b")
            /\ slot' = slot
    BY DEF Switch1Returns
  <2>2. OrElse(ResultError(r, mon["placeholder"]), MailError(r.received_mon)) \in Errors
    BY ErrorTypes DEF OrElse
  <2>3. OrElse(ResultError(r, mon["placeholder"]), MailError(r.received_mon)) = "none"
            => ResultError(r, offer) = "none"
    BY ErrorTypes DEF OrElse
  <2> QED
    BY <2>1, <2>2, <2>3
<1>4. r.received_mon \in Mons /\ (ResultError(r, offer) = "none" => gave["switch"] = r.received_mon)
  BY ErrorTypes DEF TradeResult
<1>5. confirmed' \subseteq Mons
  BY <1>2, <1>3, <1>4 DEF Receive, TypeOK
<1>6. JournalsTruthful' /\ FilesAgree' /\ OffersWhatItHolds'
  BY <1>1, QuietFiles
<1>7. CASE e # "none"
  <2>1. Raise(e) /\ UNCHANGED <<mon, slot>>
    BY <1>3, <1>7 DEF Receive
  <2>2. TypeOK'
    BY <1>1, <1>2, <1>5, <2>1 DEF TypeOK, ControlPoints, Raise
  <2> QED
    BY <1>1, <1>7, <2>1, <2>2, RaiseKeeps
<1>8. CASE e = "none"
  <2>1. /\ pc' = "artifact_b" /\ exc' = exc
        /\ mon' = [mon EXCEPT !["b_mon"] = r.received_mon]
        /\ gave["switch"] = r.received_mon
    BY <1>3, <1>4, <1>8 DEF Receive, Continue
  <2>2. /\ mon' \in [Locals -> Mons \cup {NoMon}] /\ mon'["b_mon"] = r.received_mon
        /\ \A l \in Locals \ {"b_mon"} : mon'[l] = mon[l]
    BY <1>2, <1>4, <2>1 DEF TypeOK, Locals
  <2>3. TypeOK'
    BY <1>1, <1>2, <1>3, <1>5, <1>8, <2>1, <2>2 DEF TypeOK, ControlPoints
  <2>4. /\ armed = NoOffer /\ owner[r.received_mon] = "broker" /\ owner[offer] = "switch"
    <3>1. armed["switch"] = NoMon /\ owner[r.received_mon] = "broker" /\ owner[offer] = "switch"
      BY <1>1, <1>2, <1>4, <2>1, NoMonAssumption DEF TradeKnown, Traded
    <3>2. armed["gba"] = NoMon
      BY <1>1, <1>2, TryFacts DEF Truth
    <3> QED
      BY <1>2, <3>1, <3>2, NothingOffered
  <2>5. BeforeCreate' /\ InTry' /\ Leaving'
    BY <1>1, <2>1, <2>2 DEF CoordinatorInvariant, BeforeCreate, InTry, Leaving, Locals
  <2>6. TradeKnown'
    BY <1>1, <1>4, <2>1, <2>2, <2>4 DEF TradeKnown, Locals
  <2> QED
    BY <1>6, <2>3, <2>5, <2>6 DEF CoordinatorInvariant
<1> QED
  BY <1>7, <1>8

\* The GBA trade returns: an accepted answer is a real trade.
LEMMA GbaReturnsKeeps ==
    ASSUME CoordinatorInvariant, GbaReturns
    PROVE  CoordinatorInvariant'
<1> USE DEF TryPoints, UnderIdle, UnderStage1, UnderB, UnderGba, UnderA, UnderStage2, UnderCommit
<1> DEFINE offer == mon["b_mon"]
<1>1. /\ pc = "trade_gba"
      /\ UNCHANGED <<record, connected, exit, disk, survivors, artifacts, synced, txs, settled,
                     owner, armed, gave>>
  BY DEF GbaReturns, fileVars, consoleVars
<1>2. TypeOK /\ InTry /\ TradeKnown /\ record.state = "GBA_STAGE_STARTED"
  BY <1>1 DEF CoordinatorInvariant, InTry
<1>3. PICK r \in GbaTradeResult(mon["b_mon"]), e \in Errors :
          /\ Receive(r, offer, e, "a_mon", "artifact_a")
          /\ slot' = IF e = "none" THEN r.selected_slot ELSE slot
          /\ e = "none" => ResultError(r, offer) = "none" /\ r.selected_slot \in 0..5
  <2>1. PICK r \in GbaTradeResult(mon["b_mon"]) :
            /\ Receive(r, offer, OrElse(GbaResultError(r, mon["b_mon"]), MailError(r.received_mon)),
                       "a_mon", "artifact_a")
            /\ slot' = IF OrElse(GbaResultError(r, mon["b_mon"]), MailError(r.received_mon)) = "none" THEN r.selected_slot ELSE slot
    BY DEF GbaReturns
  <2>2. OrElse(GbaResultError(r, mon["b_mon"]), MailError(r.received_mon)) \in Errors
    BY ErrorTypes DEF OrElse
  <2>3. OrElse(GbaResultError(r, mon["b_mon"]), MailError(r.received_mon)) = "none"
            => ResultError(r, offer) = "none" /\ r.selected_slot \in 0..5
    BY ErrorTypes DEF OrElse
  <2> QED
    BY <2>1, <2>2, <2>3
<1>4. r.received_mon \in Mons /\ (ResultError(r, offer) = "none" => gave["gba"] = r.received_mon)
  BY ErrorTypes DEF GbaTradeResult
<1>5. confirmed' \subseteq Mons
  BY <1>2, <1>3, <1>4 DEF Receive, TypeOK
<1>6. JournalsTruthful' /\ FilesAgree' /\ OffersWhatItHolds'
  BY <1>1, QuietFiles
<1>7. CASE e # "none"
  <2>1. Raise(e) /\ UNCHANGED <<mon, slot>>
    BY <1>3, <1>7 DEF Receive
  <2>2. TypeOK'
    BY <1>1, <1>2, <1>5, <2>1 DEF TypeOK, ControlPoints, Raise
  <2> QED
    BY <1>1, <1>7, <2>1, <2>2, RaiseKeeps
<1>8. CASE e = "none"
  <2>1. /\ pc' = "artifact_a" /\ exc' = exc
        /\ mon' = [mon EXCEPT !["a_mon"] = r.received_mon]
        /\ gave["gba"] = r.received_mon
    BY <1>3, <1>4, <1>8 DEF Receive, Continue
  <2>2. /\ mon' \in [Locals -> Mons \cup {NoMon}] /\ mon'["a_mon"] = r.received_mon
        /\ \A l \in Locals \ {"a_mon"} : mon'[l] = mon[l]
    BY <1>2, <1>4, <2>1 DEF TypeOK, Locals
  <2>3. TypeOK'
    BY <1>1, <1>2, <1>3, <1>5, <1>8, <2>1, <2>2 DEF TypeOK, ControlPoints
  <2>4. /\ armed = NoOffer /\ owner[r.received_mon] = "broker" /\ owner[offer] = "gba"
    <3>1. armed["gba"] = NoMon /\ owner[r.received_mon] = "broker" /\ owner[offer] = "gba"
      BY <1>1, <1>2, <1>4, <2>1, NoMonAssumption DEF TradeKnown, Traded
    <3>2. armed["switch"] = NoMon
      BY <1>1, <1>2, TryFacts DEF Truth
    <3> QED
      BY <1>2, <3>1, <3>2, NothingOffered
  <2>5. BeforeCreate' /\ InTry' /\ Leaving'
    BY <1>1, <2>1, <2>2 DEF CoordinatorInvariant, BeforeCreate, InTry, Leaving, Locals
  <2>6. TradeKnown'
    BY <1>1, <1>4, <2>1, <2>2, <2>4 DEF TradeKnown, Locals
  <2> QED
    BY <1>6, <2>3, <2>5, <2>6 DEF CoordinatorInvariant
<1> QED
  BY <1>7, <1>8

\* The second Switch trade returns, perhaps with another record than P.
LEMMA Switch2ReturnsKeeps ==
    ASSUME CoordinatorInvariant, Switch2Returns
    PROVE  CoordinatorInvariant'
<1> USE DEF TryPoints, UnderIdle, UnderStage1, UnderB, UnderGba, UnderA, UnderStage2, UnderCommit
<1> DEFINE offer == mon["a_mon"]
<1>1. /\ pc = "trade2"
      /\ UNCHANGED <<record, connected, exit, disk, survivors, artifacts, synced, txs, settled,
                     owner, armed, gave>>
  BY DEF Switch2Returns, fileVars, consoleVars
<1>2. TypeOK /\ InTry /\ TradeKnown /\ record.state = "SWITCH_STAGE2_STARTED"
  BY <1>1 DEF CoordinatorInvariant, InTry
<1>3. PICK r \in TradeResult("switch", mon["a_mon"]), e \in Errors :
          /\ Receive(r, offer, e, "returned", "artifact_p")
          /\ slot' = slot
          /\ e = "none" => ResultError(r, offer) = "none"
  <2>1. PICK r \in TradeResult("switch", mon["a_mon"]) :
            /\ Receive(r, offer, ResultError(r, mon["a_mon"]),
                       "returned", "artifact_p")
            /\ slot' = slot
    BY DEF Switch2Returns
  <2>2. ResultError(r, mon["a_mon"]) \in Errors
    BY ErrorTypes DEF OrElse
  <2>3. ResultError(r, mon["a_mon"]) = "none"
            => ResultError(r, offer) = "none"
    BY ErrorTypes DEF OrElse
  <2> QED
    BY <2>1, <2>2, <2>3
<1>4. r.received_mon \in Mons /\ (ResultError(r, offer) = "none" => gave["switch"] = r.received_mon)
  BY ErrorTypes DEF TradeResult
<1>5. confirmed' \subseteq Mons
  BY <1>2, <1>3, <1>4 DEF Receive, TypeOK
<1>6. JournalsTruthful' /\ FilesAgree' /\ OffersWhatItHolds'
  BY <1>1, QuietFiles
<1>7. CASE e # "none"
  <2>1. Raise(e) /\ UNCHANGED <<mon, slot>>
    BY <1>3, <1>7 DEF Receive
  <2>2. TypeOK'
    BY <1>1, <1>2, <1>5, <2>1 DEF TypeOK, ControlPoints, Raise
  <2> QED
    BY <1>1, <1>7, <2>1, <2>2, RaiseKeeps
<1>8. CASE e = "none"
  <2>1. /\ pc' = "artifact_p" /\ exc' = exc
        /\ mon' = [mon EXCEPT !["returned"] = r.received_mon]
        /\ gave["switch"] = r.received_mon
    BY <1>3, <1>4, <1>8 DEF Receive, Continue
  <2>2. /\ mon' \in [Locals -> Mons \cup {NoMon}] /\ mon'["returned"] = r.received_mon
        /\ \A l \in Locals \ {"returned"} : mon'[l] = mon[l]
    BY <1>2, <1>4, <2>1 DEF TypeOK, Locals
  <2>3. TypeOK'
    BY <1>1, <1>2, <1>3, <1>5, <1>8, <2>1, <2>2 DEF TypeOK, ControlPoints
  <2>4. /\ armed = NoOffer /\ owner[r.received_mon] = "broker" /\ owner[offer] = "switch"
    <3>1. armed["switch"] = NoMon /\ owner[r.received_mon] = "broker" /\ owner[offer] = "switch"
      BY <1>1, <1>2, <1>4, <2>1, NoMonAssumption DEF TradeKnown, Traded
    <3>2. armed["gba"] = NoMon
      BY <1>1, <1>2, TryFacts DEF Truth
    <3> QED
      BY <1>2, <3>1, <3>2, NothingOffered
  <2>5. BeforeCreate' /\ InTry' /\ Leaving'
    BY <1>1, <2>1, <2>2 DEF CoordinatorInvariant, BeforeCreate, InTry, Leaving, Locals
  <2>6. TradeKnown'
    BY <1>1, <1>4, <2>1, <2>2, <2>4 DEF TradeKnown, Locals
  <2> QED
    BY <1>6, <2>3, <2>5, <2>6 DEF CoordinatorInvariant
<1> QED
  BY <1>7, <1>8

----------------------------------------------------------------------------
(***************************************************************************)
(* The consoles, a power loss and the operator.                            *)
(***************************************************************************)

\* A swap moves only the offer and a record of the same console, so it keeps
\* true whatever a journal says: an offer is out only while the journal
\* leaves that very trade open.
LEMMA SwapTruthful ==
    ASSUME TypeOK, OffersWhatItHolds, NEW c \in Consoles, NEW m \in Mons, Swap(c, m),
           NEW r \in JournalRecord, Truthful(r, owner, armed)
    PROVE  Truthful(r, owner', armed')
<1> DEFINE s == LastState(r)
           pk == r.pokemon
           o == armed[c]
<1>1. /\ o \in Mons /\ owner[o] = "broker" /\ owner[m] = c /\ o # m
      /\ \A n \in Mons : owner'[n] = IF n = o THEN c ELSE IF n = m THEN "broker" ELSE owner[n]
      /\ \A d \in Consoles : armed'[d] = IF d = c THEN NoMon ELSE armed[d]
  BY DEF Swap, TypeOK, OffersWhatItHolds, Consoles
<1>2. Truth(s, pk, owner, armed)
  BY DEF Truthful
<1>3. s \in {"SWITCH_STAGE1_STARTED", "GBA_STAGE_STARTED", "SWITCH_STAGE2_STARTED"}
  <2>1. s \in JournalState \ {"RECOVERY_REQUIRED"}
    <3>1. /\ r.history \in Seq(JournalState) /\ r.state \in JournalState /\ r.sequence \in Nat
          /\ Len(r.history) = r.sequence + 1
          /\ r.state = "RECOVERY_REQUIRED" => r.sequence > 0
          /\ s # "RECOVERY_REQUIRED"
      BY DEF JournalRecord, Truthful
    <3>2. CASE r.state = "RECOVERY_REQUIRED"
      <4>1. r.history[Len(r.history) - 1] \in JournalState
        BY <3>1, <3>2
      <4> QED
        BY <3>1, <3>2, <4>1 DEF LastState
    <3> QED
      BY <3>1, <3>2 DEF LastState
  <2>2. armed # NoOffer
    BY <1>1, NoMonAssumption DEF NoOffer
  <2> QED
    BY <1>2, <2>1, <2>2 DEF Truth, JournalState
<1>4. CASE s = "SWITCH_STAGE1_STARTED"
  <2>1. pk["P"] \in Mons /\ c = "switch" /\ o = pk["P"]
    BY <1>1, <1>2, <1>4, NoMonAssumption DEF Truth, Consoles
  <2>2. Truth(s, pk, owner', armed')
    BY <1>1, <1>2, <1>4, <2>1 DEF Truth, Consoles
  <2> QED
    BY <2>2 DEF Truthful
<1>5. CASE s = "GBA_STAGE_STARTED"
  <2>1. pk["P"] \in Mons /\ pk["B"] \in Mons /\ c = "gba" /\ o = pk["B"] /\ owner[pk["P"]] = "switch"
    BY <1>1, <1>2, <1>5, NoMonAssumption DEF Truth, Consoles
  <2>2. Truth(s, pk, owner', armed')
    BY <1>1, <1>2, <1>5, <2>1 DEF Truth, Consoles
  <2> QED
    BY <2>2 DEF Truthful
<1>6. CASE s = "SWITCH_STAGE2_STARTED"
  <2>1. pk["A"] \in Mons /\ pk["P"] \in Mons /\ pk["B"] \in Mons
        /\ c = "switch" /\ o = pk["A"] /\ owner[pk["B"]] = "gba"
    BY <1>1, <1>2, <1>6, NoMonAssumption DEF Truth, Consoles
  <2>2. Truth(s, pk, owner', armed')
    BY <1>1, <1>2, <1>6, <2>1 DEF Truth, Consoles
  <2> QED
    BY <2>2 DEF Truthful
<1> QED
  BY <1>3, <1>4, <1>5, <1>6

\* A console swaps, during the call or long after it failed.
LEMMA SwapKeeps ==
    ASSUME CoordinatorInvariant, NEW c \in Consoles, NEW m \in Mons, Swap(c, m)
    PROVE  CoordinatorInvariant'
<1> USE DEF TryPoints, UnderIdle, UnderStage1, UnderB, UnderGba, UnderA, UnderStage2, UnderCommit
<1> DEFINE o == armed[c]
<1>1. /\ TypeOK /\ OffersWhatItHolds /\ InTry /\ TradeKnown
      /\ UNCHANGED <<pc, record, mon, slot, connected, exc, exit, disk, survivors, artifacts, synced,
                     txs, settled, confirmed>>
  BY DEF CoordinatorInvariant, Swap, processVars, fileVars
<1>2. /\ o \in Mons /\ owner[o] = "broker" /\ owner[m] = c /\ o # m
      /\ \A n \in Mons : owner'[n] = IF n = o THEN c ELSE IF n = m THEN "broker" ELSE owner[n]
      /\ \A d \in Consoles : armed'[d] = IF d = c THEN NoMon ELSE armed[d]
      /\ \A d \in Consoles : gave'[d] = IF d = c THEN m ELSE gave[d]
  BY <1>1 DEF Swap, TypeOK, OffersWhatItHolds, Consoles
<1>3. TypeOK'
  BY <1>1, <1>2 DEF Swap, TypeOK, Consoles, Holders
<1>4. armed # NoOffer /\ armed' = NoOffer
  <2>1. armed'["gba"] = NoMon /\ armed'["switch"] = NoMon
    BY <1>1, <1>2, NoMonAssumption DEF OffersWhatItHolds, Consoles
  <2> QED
    BY <1>2, <1>3, <2>1, NoMonAssumption DEF TypeOK, NoOffer, Consoles
<1>5. OffersWhatItHolds'
  BY <1>4 DEF OffersWhatItHolds, NoOffer, Consoles
<1>6. JournalsTruthful' /\ FilesAgree'
  <2>1. survivors \ {NoRecord} \subseteq JournalRecord
    BY <1>1 DEF TypeOK
  <2> QED
    BY <1>1, <1>4, <2>1, SwapTruthful DEF CoordinatorInvariant, JournalsTruthful, Journals, FilesAgree
<1>7. NoRecord \notin survivors /\ disk # NoRecord
  BY <1>4 DEF CoordinatorInvariant, FilesAgree
<1>8. BeforeCreate'
  BY <1>1, <1>7 DEF CoordinatorInvariant, BeforeCreate
<1>9. InTry'
  BY <1>1 DEF InTry
<1>10. TradeKnown'
  <2>1. pc \notin {"menu1", "offer_gba", "menu2", "artifact_b", "captured_b", "artifact_a", "captured_a",
                   "artifact_p", "committed_a", "verify", "complete"}
    BY <1>1, <1>4 DEF TradeKnown
  <2>2. pc = "trade1" =>
            Traded("switch", mon'["placeholder"], owner', armed'["switch"], gave'["switch"])
    <3> SUFFICES ASSUME pc = "trade1"
                 PROVE  Traded("switch", mon["placeholder"], owner', armed'["switch"], gave'["switch"])
      BY <1>1
    <3>1. c = "switch" /\ o = mon["placeholder"]
      BY <1>1, <1>2, NoMonAssumption, TryFacts DEF Truth, InTry, Consoles
    <3> QED
      BY <1>2, <3>1 DEF Traded
  <2>3. pc = "trade_gba" =>
            Traded("gba", mon'["b_mon"], owner', armed'["gba"], gave'["gba"])
    <3> SUFFICES ASSUME pc = "trade_gba"
                 PROVE  Traded("gba", mon["b_mon"], owner', armed'["gba"], gave'["gba"])
      BY <1>1
    <3>1. c = "gba" /\ o = mon["b_mon"]
      BY <1>1, <1>2, NoMonAssumption, TryFacts DEF Truth, InTry, Consoles
    <3> QED
      BY <1>2, <3>1 DEF Traded
  <2>4. pc = "trade2" =>
            Traded("switch", mon'["a_mon"], owner', armed'["switch"], gave'["switch"])
    <3> SUFFICES ASSUME pc = "trade2"
                 PROVE  Traded("switch", mon["a_mon"], owner', armed'["switch"], gave'["switch"])
      BY <1>1
    <3>1. c = "switch" /\ o = mon["a_mon"]
      BY <1>1, <1>2, NoMonAssumption, TryFacts DEF Truth, InTry, Consoles
    <3> QED
      BY <1>2, <3>1 DEF Traded
  <2> QED
    BY <1>1, <2>1, <2>2, <2>3, <2>4 DEF TradeKnown
<1>11. Leaving'
  <2>1. pc = "recover" => Truthful(record, owner', armed')
    BY <1>1, SwapTruthful DEF CoordinatorInvariant, Leaving
  <2> QED
    BY <1>1, <2>1 DEF CoordinatorInvariant, Leaving
<1> QED
  BY <1>3, <1>5, <1>6, <1>8, <1>9, <1>10, <1>11 DEF CoordinatorInvariant

\* After a power loss the journal is one of those that may be found.
LEMMA PowerLossKeeps ==
    ASSUME CoordinatorInvariant, PowerLoss
    PROVE  CoordinatorInvariant'
<1>1. /\ TypeOK /\ Gone /\ exit' = "killed" /\ disk' \in survivors /\ survivors' = {disk'}
      /\ artifacts' \subseteq artifacts /\ synced' = artifacts' /\ settled' = txs
      /\ UNCHANGED <<txs, owner, armed, gave, confirmed>>
  BY DEF CoordinatorInvariant, PowerLoss, consoleVars
<1>2. TypeOK'
  BY <1>1 DEF TypeOK, Gone, ControlPoints, NoLocals, Locals, Errors, Exits
<1>3. JournalsTruthful' /\ FilesAgree' /\ OffersWhatItHolds'
  BY <1>1 DEF CoordinatorInvariant, JournalsTruthful, Journals, FilesAgree, OffersWhatItHolds
<1> QED
  BY <1>1, <1>2, <1>3, GoneKeeps

\* The operator archives a terminal journal and ends both sessions.
LEMMA ArchiveKeeps ==
    ASSUME CoordinatorInvariant, Archive
    PROVE  CoordinatorInvariant'
<1> USE DEF TryPoints, UnderIdle, UnderStage1, UnderB, UnderGba, UnderA, UnderStage2, UnderCommit
<1>1. /\ TypeOK /\ pc = "down" /\ disk' = NoRecord /\ survivors' = {NoRecord}
      /\ armed' = NoOffer /\ gave' = NoOffer /\ exit' = "none"
      /\ UNCHANGED <<pc, record, mon, slot, connected, exc, artifacts, synced, txs, settled, owner, confirmed>>
  BY DEF CoordinatorInvariant, Archive
<1>2. TypeOK'
  BY <1>1 DEF TypeOK, NoOffer, Exits
<1>3. JournalsTruthful' /\ FilesAgree' /\ OffersWhatItHolds'
  BY <1>1 DEF JournalsTruthful, Journals, FilesAgree, OffersWhatItHolds, NoOffer, Consoles
<1>4. BeforeCreate' /\ InTry' /\ TradeKnown' /\ Leaving'
  BY <1>1 DEF CoordinatorInvariant, BeforeCreate, InTry, TradeKnown, Leaving
<1> QED
  BY <1>2, <1>3, <1>4 DEF CoordinatorInvariant

----------------------------------------------------------------------------
(***************************************************************************)
(* The theorems.                                                           *)
(***************************************************************************)

\* The invariant holds before the first process starts.
LEMMA InitHolds == Init => CoordinatorInvariant
<1> SUFFICES ASSUME Init PROVE CoordinatorInvariant
  OBVIOUS
<1> USE DEF TryPoints, UnderIdle, UnderStage1, UnderB, UnderGba, UnderA, UnderStage2, UnderCommit
<1>1. owner \in [Mons -> Holders]
  BY DEF Init, Holders
<1>2. TypeOK
  BY <1>1 DEF Init, TypeOK, ControlPoints, NoLocals, Locals, NoOffer, Errors, Exits
<1>3. JournalsTruthful /\ FilesAgree /\ OffersWhatItHolds
  BY DEF Init, JournalsTruthful, Journals, FilesAgree, OffersWhatItHolds, NoOffer, Consoles
<1>4. BeforeCreate /\ InTry /\ TradeKnown /\ Leaving
  BY DEF Init, BeforeCreate, InTry, TradeKnown, Leaving
<1> QED
  BY <1>2, <1>3, <1>4 DEF CoordinatorInvariant

\* Every step of every actor keeps the invariant.
LEMMA StepKeeps == CoordinatorInvariant /\ [Next]_vars => CoordinatorInvariant'
<1> SUFFICES ASSUME CoordinatorInvariant, [Next]_vars PROVE CoordinatorInvariant'
  OBVIOUS
<1>1. CASE Calling
  BY <1>1, ConnectKeeps, OfferPlaceholderKeeps, OfferBKeeps, OfferAKeeps, Switch1ReturnsKeeps,
     GbaReturnsKeeps, Switch2ReturnsKeeps, EndpointRaisesKeeps DEF Calling
<1>2. CASE NoJournalFound \/ LoadJournal \/ TerminalFound \/ VerifyPlaceholder \/ Close
  BY <1>2, NoJournalFoundKeeps, LoadJournalKeeps, TerminalFoundKeeps, VerifyPlaceholderKeeps, CloseKeeps
<1>3. ASSUME NEW outcome \in WriteOutcomes, Journaling(outcome)
      PROVE  CoordinatorInvariant'
  BY <1>3, StartStage1Keeps, CaptureBKeeps, RecordPlacedKeeps, StartGbaKeeps, CaptureAKeeps,
     RecordCommittedBKeeps, StartStage2Keeps, CommitAKeeps, CompleteKeeps DEF Journaling
<1>4. ASSUME NEW outcome \in WriteOutcomes, Writing(outcome)
      PROVE  CoordinatorInvariant'
  BY <1>3, <1>4, StopIncompleteKeeps, CreateArtifactKeeps, CreateWriteKeeps, SaveKeeps,
     MarkRecoveryKeeps DEF Writing
<1>5. CASE Environment
  BY <1>5, StartKeeps, SwapKeeps, CrashKeeps, PowerLossKeeps, ArchiveKeeps DEF Environment
<1>6. CASE UNCHANGED vars
  <2>1. TypeOK'
    BY <1>6 DEF CoordinatorInvariant, TypeOK, vars, processVars, fileVars, consoleVars
  <2>2. JournalsTruthful' /\ FilesAgree' /\ OffersWhatItHolds'
    BY <1>6, QuietFiles DEF vars, fileVars, consoleVars
  <2>3. BeforeCreate' /\ InTry' /\ TradeKnown' /\ Leaving'
    BY <1>6 DEF CoordinatorInvariant, BeforeCreate, InTry, TradeKnown, Leaving, vars, processVars,
       fileVars, consoleVars
  <2> QED
    BY <2>1, <2>2, <2>3 DEF CoordinatorInvariant
<1> QED
  BY <1>1, <1>2, <1>4, <1>5, <1>6 DEF Next, Process

\* Every reachable state satisfies the inductive invariant, whatever fails.
THEOREM InvariantHolds == Spec => []CoordinatorInvariant
BY InitHolds, StepKeeps, PTL DEF Spec

\* Every variable keeps its type; in particular the slot that reaches the
\* journal is a party slot although the endpoint may report any number.
THEOREM TypeCorrect == Spec => []TypeOK
<1>1. CoordinatorInvariant => TypeOK
  BY DEF CoordinatorInvariant
<1> QED
  BY <1>1, InvariantHolds, PTL

\* The broker never offers a record it does not hold, nor two at once.
THEOREM OffersAreHeld == Spec => []OffersWhatItHolds
<1>1. CoordinatorInvariant => OffersWhatItHolds
  BY DEF CoordinatorInvariant
<1> QED
  BY <1>1, InvariantHolds, PTL

\* The recovery table of docs/recovery.md is right about every journal that
\* may be found, after any failure, crash or power loss.
THEOREM RecoveryIsSound == Spec => []RecoveryTableHolds
<1>1. CoordinatorInvariant => RecoveryTableHolds
  <2> SUFFICES ASSUME CoordinatorInvariant, NEW r \in Journals, NEW l \in Labels,
                      r.pokemon[l] # NoMon
               PROVE  owner[r.pokemon[l]] \in Whereabouts(r, l)
    BY DEF RecoveryTableHolds
  <2> DEFINE s == LastState(r)
  <2>1. /\ Truth(s, r.pokemon, owner, armed) /\ Located(s, r.locations)
        /\ s # "RECOVERY_REQUIRED" /\ r \in JournalRecord
    BY DEF CoordinatorInvariant, JournalsTruthful, Truthful, TypeOK, Journals
  <2>2. s \in JournalState
    <3>1. /\ r.history \in Seq(JournalState) /\ r.state \in JournalState /\ r.sequence \in Nat
          /\ Len(r.history) = r.sequence + 1
          /\ r.state = "RECOVERY_REQUIRED" => r.sequence > 0
      BY <2>1 DEF JournalRecord, CoordinatorInvariant, JournalsTruthful, Truthful
    <3>2. CASE r.state = "RECOVERY_REQUIRED"
      <4>1. r.history[Len(r.history) - 1] \in JournalState
        BY <3>1, <3>2
      <4> QED
        BY <3>2, <4>1 DEF LastState
    <3> QED
      BY <3>1, <3>2 DEF LastState
  <2> HIDE DEF s
  <2>3. CASE s \in {"IDLE", "SWITCH_B_CAPTURED", "PLACEHOLDER_ON_SWITCH", "GBA_A_CAPTURED",
                    "B_COMMITTED_TO_GBA", "COMPLETE"}
    <3>1. Whereabouts(r, l) = {r.locations[l]}
      BY <2>3 DEF Whereabouts, InDoubt, s
    <3> QED
      BY <2>1, <2>3, <3>1 DEF Truth, Located, Labels
  <2>4. CASE s = "SWITCH_STAGE1_STARTED"
    <3>1. l = "P" /\ Whereabouts(r, l) = {"broker", "switch"}
      BY <2>1, <2>4 DEF Truth, Labels, Whereabouts, InDoubt, StageConsole, s
    <3> QED
      BY <2>1, <2>4, <3>1 DEF Truth
  <2>5. CASE s = "GBA_STAGE_STARTED"
    <3>1. Whereabouts(r, l) = IF l = "B" THEN {"broker", "gba"} ELSE {r.locations[l]}
      BY <2>5 DEF Whereabouts, InDoubt, StageConsole, s
    <3> QED
      BY <2>1, <2>5, <3>1 DEF Truth, Located, Labels
  <2>6. CASE s = "SWITCH_STAGE2_STARTED"
    <3>1. Whereabouts(r, l) = IF l \in {"A", "P"} THEN {"broker", "switch"} ELSE {r.locations[l]}
      BY <2>6 DEF Whereabouts, InDoubt, StageConsole, s
    <3> QED
      BY <2>1, <2>6, <3>1 DEF Truth, Located, Labels
  <2>7. CASE s = "A_COMMITTED_TO_SWITCH"
    <3>1. Whereabouts(r, l) = IF l = "P" THEN {"broker", "switch"} ELSE {r.locations[l]}
      BY <2>7 DEF Whereabouts, InDoubt, StageConsole, s
    <3> QED
      BY <2>1, <2>7, <3>1 DEF Truth, Located, Labels
  <2> QED
    BY <2>1, <2>2, <2>3, <2>4, <2>5, <2>6, <2>7 DEF JournalState, s
<1> QED
  BY <1>1, InvariantHolds, PTL

\* A process that reports COMPLETE left a durable COMPLETE journal, and the
\* three records are where the exchange should have put them.
THEOREM CompletionIsTrue == Spec => []CompleteIsTrue
<1>1. CoordinatorInvariant => CompleteIsTrue
  <2> SUFFICES ASSUME CoordinatorInvariant, exit = "complete" PROVE CompleteIsTrue
    BY DEF CompleteIsTrue
  <2>1. disk # NoRecord /\ survivors = {disk} /\ disk.state = "COMPLETE"
    BY DEF CoordinatorInvariant, Leaving
  <2>2. Truth("COMPLETE", disk.pokemon, owner, armed)
    BY <2>1, FoundFacts DEF Truthful, LastState
  <2> QED
    BY <2>1, <2>2 DEF CompleteIsTrue, Truth
<1> QED
  BY <1>1, InvariantHolds, PTL

\* Where a journal write starts from: inside the try block never from a
\* terminal journal.
LEMMA JournalingStart ==
    ASSUME CoordinatorInvariant, NEW outcome \in WriteOutcomes, Journaling(outcome)
    PROVE  /\ disk.state \notin TERMINAL_STATES
           /\ UNCHANGED <<owner, armed, gave>>
<1>1. pc \in TryPoints /\ UNCHANGED <<owner, armed, gave>>
  BY DEF Journaling, StartStage1, CaptureB, RecordPlaced, StartGba, CaptureA, RecordCommittedB,
         StartStage2, CommitA, Complete, Persist, consoleVars, TryPoints, UnderIdle, UnderStage1,
         UnderB, UnderGba, UnderA, UnderStage2, UnderCommit
<1> QED
  BY <1>1, TryFacts

\* No process changes or resumes a durable terminal journal.
THEOREM FinalJournals == Spec => TerminalIsFinal
<1> DEFINE A == (disk.state \in TERMINAL_STATES /\ survivors = {disk})
                   => (disk' = disk \/ disk' = NoRecord)
<1>1. ASSUME CoordinatorInvariant, Next PROVE A
  <2> SUFFICES ASSUME disk.state \in TERMINAL_STATES, survivors = {disk}
               PROVE  disk' = disk \/ disk' = NoRecord
    OBVIOUS
  <2>1. CASE Calling
    BY <2>1 DEF Calling, ConnectSwitch, ConnectGba, Connect, OfferPlaceholder, OfferB, OfferA, Offer,
       Switch1Returns, GbaReturns, Switch2Returns, EndpointRaises, fileVars
  <2>2. CASE NoJournalFound \/ LoadJournal \/ TerminalFound \/ VerifyPlaceholder \/ Close
    BY <2>2 DEF NoJournalFound, LoadJournal, TerminalFound, VerifyPlaceholder, Close, fileVars
  <2>3. ASSUME NEW outcome \in WriteOutcomes, Writing(outcome) PROVE disk' = disk
    <3>1. ~Journaling(outcome)
      BY <1>1, JournalingStart
    <3>2. ~StopIncomplete(outcome)
      BY <1>1 DEF StopIncomplete, Open, CoordinatorInvariant, BeforeCreate
    <3>3. ~CreateWrite(outcome)
      <4>1. disk # NoRecord
        BY DEF NoRecord, TERMINAL_STATES
      <4> QED
        BY <1>1, <4>1 DEF CreateWrite, CoordinatorInvariant, BeforeCreate
    <3>4. CASE MarkRecovery(outcome)
      BY <1>1, <3>4 DEF MarkRecovery, Open, CoordinatorInvariant, Leaving
    <3>5. CASE CreateArtifact(outcome) \/ SaveB(outcome) \/ SaveA(outcome) \/ SaveReturned(outcome)
      BY <3>5 DEF CreateArtifact, SaveB, SaveA, SaveReturned, SaveArtifact
    <3> QED
      BY <2>3, <3>1, <3>2, <3>3, <3>4, <3>5 DEF Writing
  <2>4. CASE Environment
    BY <2>4 DEF Environment, Start, Swap, Crash, PowerLoss, Archive, fileVars
  <2> QED
    BY <1>1, <2>1, <2>2, <2>3, <2>4 DEF Next, Process
<1>2. CoordinatorInvariant /\ [Next]_vars => [A]_vars
  BY <1>1
<1> QED
  BY <1>2, InvariantHolds, PTL DEF Spec, TerminalIsFinal

\* A console gets an offer only when every journal that may be found already
\* says that this stage has started.
THEOREM PersistsFirst == Spec => PersistBeforeTrade
<1> DEFINE Stage(c, r) == CASE c = "gba"                  -> "GBA_STAGE_STARTED"
                            [] armed'[c] = r.pokemon["P"] -> "SWITCH_STAGE1_STARTED"
                            [] OTHER                      -> "SWITCH_STAGE2_STARTED"
           A == \A c \in Consoles :
                   armed'[c] \notin {NoMon, armed[c]} => \A r \in survivors : r.state = Stage(c, r)
<1>1. ASSUME CoordinatorInvariant, Next PROVE A
  <2> SUFFICES ASSUME NEW c \in Consoles, armed'[c] \notin {NoMon, armed[c]}, NEW r \in survivors
               PROVE  r.state = Stage(c, r)
    BY Zenon
  <2> USE DEF TryPoints, UnderIdle, UnderStage1, UnderB, UnderGba, UnderA, UnderStage2, UnderCommit
  <2>1. TypeOK /\ InTry /\ TradeKnown
    BY <1>1 DEF CoordinatorInvariant
  <2>2. OfferPlaceholder \/ OfferB \/ OfferA
    <3>1. \A outcome \in WriteOutcomes : Writing(outcome) => UNCHANGED armed
      <4> SUFFICES ASSUME NEW outcome \in WriteOutcomes, Writing(outcome) PROVE UNCHANGED armed
        OBVIOUS
      <4>1. Journaling(outcome) => UNCHANGED armed
        BY <1>1, JournalingStart
      <4> QED
        BY <4>1 DEF Writing, StopIncomplete, CreateArtifact, CreateWrite, SaveB, SaveA, SaveReturned,
           SaveArtifact, MarkRecovery, consoleVars
    <3>2. Environment => armed'[c] \in {NoMon, armed[c]}
      BY <2>1 DEF Environment, Start, Swap, Crash, PowerLoss, Archive, consoleVars, TypeOK, NoOffer
    <3>3. NoJournalFound \/ LoadJournal \/ TerminalFound \/ VerifyPlaceholder \/ Close
          => UNCHANGED armed
      BY DEF NoJournalFound, LoadJournal, TerminalFound, VerifyPlaceholder, Close, consoleVars
    <3>4. Calling => OfferPlaceholder \/ OfferB \/ OfferA \/ UNCHANGED armed
      BY DEF Calling, ConnectSwitch, ConnectGba, Connect, Switch1Returns, GbaReturns, Switch2Returns,
         EndpointRaises, consoleVars
    <3> QED
      BY <1>1, <3>1, <3>2, <3>3, <3>4 DEF Next, Process
  <2>3. CASE OfferPlaceholder
    <3>1. /\ pc = "menu1" /\ armed' = [armed EXCEPT !["switch"] = mon["placeholder"]]
      BY <2>3 DEF OfferPlaceholder, Offer
    <3>2. c = "switch" /\ armed'[c] = mon["placeholder"]
      BY <2>1, <3>1 DEF TypeOK, Consoles
    <3>3. r.state = "SWITCH_STAGE1_STARTED" /\ r.pokemon["P"] = armed'[c]
      BY <1>1, <2>1, <3>1, <3>2, TryFacts DEF InTry
    <3>4. Stage(c, r) = "SWITCH_STAGE1_STARTED"
      BY <3>2, <3>3
    <3> QED
      BY <3>3, <3>4
  <2>4. CASE OfferB
    <3>1. /\ pc = "offer_gba" /\ armed' = [armed EXCEPT !["gba"] = mon["b_mon"]]
      BY <2>4 DEF OfferB, Offer
    <3>2. c = "gba" /\ armed'[c] = mon["b_mon"]
      BY <2>1, <3>1 DEF TypeOK, Consoles
    <3>3. r.state = "GBA_STAGE_STARTED" /\ owner[r.pokemon["P"]] = "switch"
      BY <1>1, <2>1, <3>1, <3>2, TryFacts DEF InTry, Truth
    <3>4. armed'[c] # r.pokemon["P"]
      BY <2>1, <3>1, <3>2, <3>3 DEF TradeKnown
    <3> QED
      BY <3>2, <3>3, <3>4
  <2>5. CASE OfferA
    <3>1. /\ pc = "menu2" /\ armed' = [armed EXCEPT !["switch"] = mon["a_mon"]]
      BY <2>5 DEF OfferA, Offer
    <3>2. c = "switch" /\ armed'[c] = mon["a_mon"]
      BY <2>1, <3>1 DEF TypeOK, Consoles
    <3>3. mon["a_mon"] # mon["placeholder"]
      BY <2>1, <3>1 DEF TradeKnown
    <3> QED
      BY <1>1, <2>1, <3>1, <3>2, <3>3, TryFacts DEF InTry
  <2> QED
    BY <2>2, <2>3, <2>4, <2>5
<1>2. CoordinatorInvariant /\ [Next]_vars => [A]_vars
  BY <1>1
<1> QED
  BY <1>2, InvariantHolds, PTL DEF Spec, PersistBeforeTrade

=============================================================================
