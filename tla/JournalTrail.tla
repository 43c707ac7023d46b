---------------------------- MODULE JournalTrail ----------------------------
(***************************************************************************)
(* Every journal a TradeCoordinator leaves is an audit trail whose         *)
(* evidence is whole, and nothing else that runs can change that: the      *)
(* argument only looks at what one process does to the files, so it also   *)
(* holds for processes that share them.                                    *)
(***************************************************************************)
EXTENDS TradeCoordinator, JournalProofs

\* The steps of a process at which record is the transaction's.
InMemory == ControlPoints \ {"down", "require", "create_artifact", "closing"}

\* Those at which it has created that transaction.
Working == InMemory \ {"loaded"}

\* A record that is an audit trail, with the evidence that a power loss left.
Recorded(r) ==
    /\ r \in JournalRecord /\ IsTrail(r)
    /\ Evidenced(r, synced) \/ DirectoryLost(r.transaction_id)

\* What the files say, whoever wrote them.
FilesKept ==
    /\ disk \in survivors
    /\ \A r \in survivors : r = NoRecord \/ Recorded(r)
    /\ synced \subseteq artifacts
    /\ txs \in Nat /\ settled \in Nat /\ settled <= txs

\* What a process holds: a record it may write, and the evidence for the hash
\* that it is about to add to it.  It has run since its transaction's directory
\* was made, so that is still there.
MemoryKept ==
    /\ pc \in ControlPoints /\ exc \in Errors
    /\ mon \in [Locals -> Mons \cup {NoMon}]
    /\ pc \in {"require", "create_artifact"} => mon["placeholder"] \in Mons
    /\ pc = "loaded" => Recorded(record)
    /\ pc \in Working => Documented(record, synced) /\ record.transaction_id > settled
    /\ pc = "captured_b" => <<record.transaction_id, "B", mon["b_mon"]>> \in synced
    /\ pc = "captured_a" => <<record.transaction_id, "A", mon["a_mon"]>> \in synced

TrailInvariant == FilesKept /\ MemoryKept

\* Files are only added, and to directories that no power loss has taken.
Adds ==
    /\ synced \subseteq synced' /\ UNCHANGED settled
    /\ \A a \in artifacts' \ artifacts : a[1] > settled

\* A step of the process keeps both and takes no evidence away.
Keeps == FilesKept' /\ MemoryKept' /\ Adds

(***************************************************************************)
(* What a process may do to the record of a transaction, given the records *)
(* that others hold and, among those, the ones of their own transactions.  *)
(***************************************************************************)
Own    == IF pc \in InMemory THEN {record} ELSE {}
Making == IF pc \in Working THEN {record} ELSE {}

\* The records of one transaction are versions of one trail.  The process that
\* created it holds the latest, and no other goes on with it.
Chained(others, makers) ==
    LET held == Journals \cup Own \cup others IN
    /\ \A r \in held : r \in JournalRecord /\ IsTrail(r) /\ r.transaction_id <= txs
    /\ \A r, q \in held :
          r.transaction_id = q.transaction_id => Continues(r, q) \/ Continues(q, r)
    /\ \A r \in held, q \in Making \cup makers :
          r.transaction_id = q.transaction_id => Continues(r, q)
    /\ \A r \in Making, q \in makers : r.transaction_id # q.transaction_id

\* What a step of a process does to the records: it drops or loads one, creates
\* a transaction, goes on with the one it created, or stops one it loaded.
Drops ==
    /\ Journals' \subseteq Journals
    /\ pc' \notin InMemory \/ UNCHANGED <<pc, record>> \/ (pc \in Working /\ pc' \in Working /\ UNCHANGED record)

Loads == Journals' \subseteq Journals /\ pc' = "loaded" /\ record' \in Journals

Creates ==
    /\ Journals' \subseteq Journals
    /\ pc \notin InMemory /\ pc' \in Working
    /\ record' \in JournalRecord /\ IsTrail(record')
    /\ record'.transaction_id = txs + 1 /\ txs' = txs + 1

GoesOn(w) ==
    /\ w \in JournalRecord /\ IsTrail(w)
    /\ pc \in Working /\ w.transaction_id = record.transaction_id /\ Continues(record, w)
    /\ Journals' \subseteq Journals \cup {w}
    /\ pc' \notin InMemory \/ (pc' \in Working /\ record' = w)

Stops(w) ==
    /\ w \in JournalRecord /\ IsTrail(w)
    /\ pc = "loaded" /\ w.transaction_id = record.transaction_id
    /\ Continues(record, w) /\ Continues(w, record)
    /\ Journals' \subseteq Journals \cup {w}
    /\ pc' \notin InMemory

Moves ==
    /\ txs \in Nat /\ txs' \in Nat /\ txs <= txs'
    /\ Drops \/ Loads \/ Creates \/ \E w : GoesOn(w) \/ Stops(w)

----------------------------------------------------------------------------
(***************************************************************************)
(* The shapes of steps.                                                    *)
(***************************************************************************)

\* A step that leaves the files alone.
LEMMA FilesUntouched ==
    ASSUME FilesKept, UNCHANGED fileVars
    PROVE  FilesKept' /\ Adds
BY DEF FilesKept, Recorded, DirectoryLost, Adds, fileVars

\* Evidence that is there, or lost, stays so while files are added.
LEMMA RecordedStays ==
    ASSUME NEW r, Recorded(r), Adds, settled \in Nat
    PROVE  Recorded(r)'
<1>1. CASE Evidenced(r, synced)
  <2>1. Evidenced(r, synced')
    BY <1>1 DEF Evidenced, Adds
  <2> QED
    BY <2>1 DEF Recorded
<1>2. CASE DirectoryLost(r.transaction_id)
  <2>1. r.transaction_id \in Nat /\ r.transaction_id <= settled
    BY <1>2 DEF Recorded, JournalRecord, DirectoryLost
  <2>2. \A a \in artifacts' : a[1] # r.transaction_id
    BY <1>2, <2>1 DEF DirectoryLost, Adds
  <2>3. DirectoryLost(r.transaction_id)'
    BY <2>1, <2>2 DEF DirectoryLost, Adds
  <2> QED
    BY <2>3 DEF Recorded
<1> QED
  BY <1>1, <1>2 DEF Recorded

\* What has its evidence is a record like those in the files.
LEMMA DocumentedIsRecorded ==
    ASSUME NEW r, Documented(r, synced)
    PROVE  Recorded(r)
BY DEF Documented, Recorded

\* A stop has the evidence of the record it stops.
LEMMA StoppedRecorded ==
    ASSUME NEW r, Recorded(r), Open(r), NEW e \in Errors
    PROVE  Recorded(Stopped(r, e))
<1> DEFINE t == Stopped(r, e)
           named == {<<r.transaction_id, l, r.pokemon[l]>> : l \in Labels}
<1>1. r \in JournalRecord /\ IsTrail(r) /\ Evidenced(r, named)
  BY DEF Recorded, Evidenced
<1>2. Documented(t, named)
  BY <1>1, StoppedDocumented DEF Documented
<1>3. t.transaction_id = r.transaction_id /\ t.pokemon = r.pokemon
  BY <1>1, StoppedContinues
<1> HIDE DEF t, named
<1>4. t \in JournalRecord /\ IsTrail(t)
  BY <1>2 DEF Documented
<1>5. Evidenced(t, synced) \/ DirectoryLost(t.transaction_id)
  BY <1>3 DEF Recorded, Evidenced
<1>6. Recorded(t)
  BY <1>4, <1>5 DEF Recorded
<1> QED
  BY <1>6 DEF t

\* Without a process there is nothing to keep in memory.
LEMMA GoneHolds ==
    ASSUME Gone
    PROVE  MemoryKept'
BY DEF Gone, MemoryKept, ControlPoints, InMemory, Working, Errors, NoLocals, Locals

\* The process ends, the files stay.
LEMMA QuietExit ==
    ASSUME TrailInvariant, Gone, UNCHANGED fileVars
    PROVE  Keeps
BY FilesUntouched, GoneHolds DEF TrailInvariant, Keeps

\* A step inside the try block that touches neither the files nor the record.
LEMMA QuietStep ==
    ASSUME TrailInvariant, pc \in Working,
           pc' \in Working \ {"captured_b", "captured_a"},
           exc' \in Errors, mon' \in [Locals -> Mons \cup {NoMon}],
           UNCHANGED <<record, fileVars>>
    PROVE  Keeps
<1>1. FilesKept' /\ Adds /\ UNCHANGED <<synced, settled>>
  BY FilesUntouched DEF TrailInvariant, fileVars
<1>2. Documented(record', synced') /\ record'.transaction_id > settled'
  BY <1>1 DEF TrailInvariant, MemoryKept
<1>3. MemoryKept'
  BY <1>2 DEF MemoryKept, InMemory, Working
<1> QED
  BY <1>1, <1>3 DEF Keeps

\* _atomic_bytes, however it ends, leaves the old record or the new one.
LEMMA WriteKeepsFiles ==
    ASSUME FilesKept, NEW r, NEW outcome, Recorded(r), WriteJournal(r, outcome),
           UNCHANGED <<artifacts, synced, txs, settled>>
    PROVE  FilesKept' /\ Adds
BY DEF FilesKept, WriteJournal, Recorded, DirectoryLost, Adds

\* save_artifact adds evidence and touches no journal.
LEMMA ArtifactKeepsFiles ==
    ASSUME FilesKept, NEW a, NEW outcome, WriteArtifact(a, outcome), a[1] > settled,
           txs' \in Nat, txs <= txs', UNCHANGED <<disk, survivors, settled>>
    PROVE  FilesKept' /\ Adds /\ (outcome = "ok" => a \in synced')
<1>1. Adds /\ synced' \subseteq artifacts' /\ (outcome = "ok" => a \in synced')
  BY DEF FilesKept, WriteArtifact, Adds
<1>2. \A r \in survivors : r = NoRecord \/ Recorded(r)'
  BY <1>1, RecordedStays DEF FilesKept
<1>3. settled' \in Nat /\ settled' <= txs'
  BY DEF FilesKept
<1> QED
  BY <1>1, <1>2, <1>3 DEF FilesKept

\* JournalStore.transition with hashes that are known or have evidence.
LEMMA PersistKeepsTrail ==
    ASSUME TrailInvariant, NEW at \in Working, NEW next \in ControlPoints \ {"captured_b", "captured_a"},
           next \in Working \cup {"closing"},
           NEW s \in JournalState \ {"RECOVERY_REQUIRED"},
           NEW pk \in [Labels -> Mons \cup {NoMon}], NEW loc \in [Labels -> Places],
           NEW n, NEW outcome, Persist(at, s, pk, loc, n, next, outcome),
           \A l \in Labels : \/ pk[l] = record.pokemon[l]
                             \/ <<record.transaction_id, l, pk[l]>> \in synced
    PROVE  Keeps
<1>1. /\ pc = at /\ FilesKept /\ Documented(record, synced) /\ record.transaction_id > settled
      /\ UNCHANGED <<mon, artifacts, synced, txs, settled>>
      /\ mon \in [Locals -> Mons \cup {NoMon}] /\ exc \in Errors
  BY DEF Persist, TrailInvariant, MemoryKept
<1>2. CASE LegalTransition(record, s, pk, n)
  <2> DEFINE t == Transitioned(record, s, pk, loc, n, "none")
  <2>1. record' = t /\ WriteJournal(t, outcome) /\ Proceed(outcome, next)
    BY <1>2 DEF Persist
  <2>2. /\ Open(record) /\ s = NEXT_STATE[record.state]
        /\ n \in 0..5 \cup {NoSlot} /\ "none" \in Errors
    BY <1>2 DEF LegalTransition, Errors
  <2>3. Documented(t, synced) /\ t.transaction_id = record.transaction_id
    <3>1. Documented(t, synced)
      BY <1>1, <2>2, TransitionDocumented
    <3> QED
      BY <3>1 DEF Transitioned
  <2> HIDE DEF t
  <2>4. FilesKept' /\ Adds
    BY <1>1, <2>1, <2>3, DocumentedIsRecorded, WriteKeepsFiles
  <2>5. Documented(record', synced') /\ record'.transaction_id > settled'
    BY <1>1, <2>1, <2>3
  <2>6. pc' \in {next, "recover"} /\ exc' \in Errors
    BY <1>1, <2>1 DEF Proceed, Continue, Raise, Errors
  <2>7. MemoryKept'
    BY <1>1, <2>5, <2>6 DEF MemoryKept, Working, InMemory, ControlPoints
  <2> QED
    BY <2>4, <2>7 DEF Keeps
<1>3. CASE ~LegalTransition(record, s, pk, n)
  <2>1. pc' = "recover" /\ exc' = "JournalError" /\ UNCHANGED <<record, disk, survivors>>
    BY <1>3 DEF Persist, Raise
  <2> QED
    BY <1>1, <2>1, QuietStep DEF Working, InMemory, ControlPoints, Errors, fileVars
<1> QED
  BY <1>2, <1>3

\* save_artifact inside the try block: on success the evidence is durable.
LEMMA SaveKeepsTrail ==
    ASSUME TrailInvariant, NEW at \in Working, NEW label, NEW m, NEW next \in Working, NEW outcome,
           SaveArtifact(at, label, m, next, outcome),
           next = "captured_b" => label = "B" /\ m = mon["b_mon"],
           next = "captured_a" => label = "A" /\ m = mon["a_mon"]
    PROVE  Keeps
<1> DEFINE a == <<record.transaction_id, label, m>>
<1>1. /\ pc = at /\ FilesKept /\ Documented(record, synced) /\ record.transaction_id > settled
      /\ WriteArtifact(a, outcome) /\ Proceed(outcome, next)
      /\ UNCHANGED <<record, mon, disk, survivors, txs, settled>>
      /\ mon \in [Locals -> Mons \cup {NoMon}] /\ exc \in Errors
      /\ txs \in Nat
  BY DEF SaveArtifact, TrailInvariant, MemoryKept, FilesKept
<1>2. FilesKept' /\ Adds /\ (outcome = "ok" => a \in synced')
  BY <1>1, ArtifactKeepsFiles
<1>3. Documented(record', synced') /\ record'.transaction_id > settled'
  BY <1>1, <1>2, DocumentedGrows DEF Adds
<1>4. /\ pc' \in {next, "recover"} /\ exc' \in Errors
      /\ pc' = next => next = "recover" \/ outcome = "ok"
  BY <1>1 DEF Proceed, Continue, Raise, Errors
<1>5. MemoryKept'
  BY <1>1, <1>2, <1>3, <1>4 DEF MemoryKept, Working, InMemory, ControlPoints
<1> QED
  BY <1>2, <1>5 DEF Keeps

----------------------------------------------------------------------------
(***************************************************************************)
(* The steps of execute.                                                   *)
(***************************************************************************)

\* What the record of a process is made of.
LEMMA RecordParts ==
    ASSUME TrailInvariant, pc \in Working
    PROVE  /\ record.pokemon \in [Labels -> Mons \cup {NoMon}]
           /\ record.locations \in [Labels -> Places]
           /\ mon \in [Locals -> Mons \cup {NoMon}]
BY DEF TrailInvariant, MemoryKept, Documented, JournalRecord

\* The transitions that add no hash.
LEMMA PlainTransitionKeepsTrail ==
    ASSUME TrailInvariant, NEW outcome,
           \/ StartStage1(outcome) \/ RecordPlaced(outcome) \/ StartGba(outcome)
           \/ RecordCommittedB(outcome) \/ StartStage2(outcome) \/ CommitA(outcome)
           \/ Complete(outcome)
    PROVE  Keeps
<1> USE DEF Working, InMemory, ControlPoints
<1>1. pc \in Working
  BY DEF StartStage1, RecordPlaced, StartGba, RecordCommittedB, StartStage2, CommitA, Complete, Persist
<1>2. PICK at \in Working, next \in ControlPoints \ {"captured_b", "captured_a"},
           s \in JournalState \ {"RECOVERY_REQUIRED"}, loc \in [Labels -> Places] :
          /\ next \in Working \cup {"closing"}
          /\ Persist(at, s, record.pokemon, loc, NoSlot, next, outcome)
  <2>1. record.locations \in [Labels -> Places]
    BY <1>1, RecordParts
  <2> DEFINE locA == [record.locations EXCEPT !["A"] = "switch", !["B"] = "gba",
                                              !["P"] = "broker (unverified candidate)"]
             locP == [record.locations EXCEPT !["P"] = "broker"]
  <2>2. locA \in [Labels -> Places] /\ locP \in [Labels -> Places]
    BY <2>1 DEF Places
  <2>3. /\ CommitA(outcome) => Persist("committed_a", "A_COMMITTED_TO_SWITCH", record.pokemon,
                                       locA, NoSlot, "verify", outcome)
        /\ Complete(outcome) => Persist("complete", "COMPLETE", record.pokemon,
                                        locP, NoSlot, "closing", outcome)
    BY DEF CommitA, Complete
  <2> HIDE DEF locA, locP
  <2>4. CASE StartStage1(outcome)
    BY <2>1, <2>4 DEF StartStage1, JournalState
  <2>5. CASE RecordPlaced(outcome)
    BY <2>1, <2>5 DEF RecordPlaced, JournalState
  <2>6. CASE StartGba(outcome)
    BY <2>1, <2>6 DEF StartGba, JournalState
  <2>7. CASE RecordCommittedB(outcome)
    BY <2>1, <2>7 DEF RecordCommittedB, JournalState
  <2>8. CASE StartStage2(outcome)
    BY <2>1, <2>8 DEF StartStage2, JournalState
  <2>9. CASE CommitA(outcome)
    BY <2>2, <2>3, <2>9 DEF JournalState
  <2>10. CASE Complete(outcome)
    BY <2>2, <2>3, <2>10 DEF JournalState
  <2> QED
    BY <2>4, <2>5, <2>6, <2>7, <2>8, <2>9, <2>10
<1>3. record.pokemon \in [Labels -> Mons \cup {NoMon}]
  BY <1>1, RecordParts
<1> QED
  BY <1>2, <1>3, PersistKeepsTrail

\* The two that add one: save_artifact has made it durable.
LEMMA CaptureKeepsTrail ==
    ASSUME TrailInvariant, NEW outcome, CaptureB(outcome) \/ CaptureA(outcome)
    PROVE  Keeps
<1> USE DEF Working, InMemory, ControlPoints
<1>1. CASE CaptureB(outcome)
  <2> DEFINE pk  == [record.pokemon EXCEPT !["B"] = mon["b_mon"]]
             loc == [record.locations EXCEPT !["B"] = "broker", !["P"] = "switch"]
  <2>1. /\ Persist("captured_b", "SWITCH_B_CAPTURED", pk, loc, NoSlot, "placed", outcome)
        /\ pc = "captured_b"
    BY <1>1 DEF CaptureB, Persist
  <2>2. pk \in [Labels -> Mons \cup {NoMon}] /\ loc \in [Labels -> Places]
    BY <2>1, RecordParts DEF Labels, Locals, Places
  <2>3. \A l \in Labels : pk[l] = record.pokemon[l] \/ <<record.transaction_id, l, pk[l]>> \in synced
    <3>1. <<record.transaction_id, "B", mon["b_mon"]>> \in synced
      BY <2>1 DEF TrailInvariant, MemoryKept
    <3> QED
      BY <2>1, <3>1, RecordParts DEF Labels
  <2>4. "SWITCH_B_CAPTURED" \in JournalState \ {"RECOVERY_REQUIRED"}
    BY DEF JournalState
  <2> HIDE DEF pk, loc
  <2> QED
    BY <2>1, <2>2, <2>3, <2>4, PersistKeepsTrail
<1>2. CASE CaptureA(outcome)
  <2> DEFINE pk  == [record.pokemon EXCEPT !["A"] = mon["a_mon"]]
             loc == [record.locations EXCEPT !["A"] = "broker", !["B"] = "gba"]
  <2>1. /\ Persist("captured_a", "GBA_A_CAPTURED", pk, loc, slot, "committed_b", outcome)
        /\ pc = "captured_a"
    BY <1>2 DEF CaptureA, Persist
  <2>2. pk \in [Labels -> Mons \cup {NoMon}] /\ loc \in [Labels -> Places]
    BY <2>1, RecordParts DEF Labels, Locals, Places
  <2>3. \A l \in Labels : pk[l] = record.pokemon[l] \/ <<record.transaction_id, l, pk[l]>> \in synced
    <3>1. <<record.transaction_id, "A", mon["a_mon"]>> \in synced
      BY <2>1 DEF TrailInvariant, MemoryKept
    <3> QED
      BY <2>1, <3>1, RecordParts DEF Labels
  <2>4. "GBA_A_CAPTURED" \in JournalState \ {"RECOVERY_REQUIRED"}
    BY DEF JournalState
  <2> HIDE DEF pk, loc
  <2> QED
    BY <2>1, <2>2, <2>3, <2>4, PersistKeepsTrail
<1> QED
  BY <1>1, <1>2

\* The artifacts of the try block.
LEMMA SavesKeepTrail ==
    ASSUME TrailInvariant, NEW outcome, SaveB(outcome) \/ SaveA(outcome) \/ SaveReturned(outcome)
    PROVE  Keeps
<1> USE DEF Working, InMemory, ControlPoints
<1>1. CASE SaveB(outcome)
  BY <1>1, SaveKeepsTrail DEF SaveB
<1>2. CASE SaveA(outcome)
  BY <1>2, SaveKeepsTrail DEF SaveA
<1>3. CASE SaveReturned(outcome)
  BY <1>3, SaveKeepsTrail DEF SaveReturned
<1> QED
  BY <1>1, <1>2, <1>3

\* Endpoint calls change neither the record nor a file.
LEMMA CallingKeepsTrail ==
    ASSUME TrailInvariant, Calling \/ VerifyPlaceholder
    PROVE  Keeps
<1> USE DEF Working, InMemory, ControlPoints, Errors, fileVars
<1>1. exc \in Errors /\ mon \in [Locals -> Mons \cup {NoMon}]
  BY DEF TrailInvariant, MemoryKept
<1>2. CASE ConnectSwitch \/ ConnectGba
  BY <1>1, <1>2, QuietStep DEF ConnectSwitch, ConnectGba, Connect, Continue
<1>3. CASE OfferPlaceholder \/ OfferB \/ OfferA
  BY <1>1, <1>3, QuietStep DEF OfferPlaceholder, OfferB, OfferA, Offer, Continue, Raise
<1>4. CASE EndpointRaises
  BY <1>1, <1>4, QuietStep DEF EndpointRaises, Raise
<1>5. CASE VerifyPlaceholder
  BY <1>1, <1>5, QuietStep DEF VerifyPlaceholder, PlaceholderError, Check, Continue, Raise
<1>6. CASE Switch1Returns
  <2>1. PICK r \in TradeResult("switch", mon["placeholder"]) :
          Receive(r, mon["placeholder"],
                  OrElse(ResultError(r, mon["placeholder"]), MailError(r.received_mon)),
                  "b_mon", "artifact_b")
    BY <1>6 DEF Switch1Returns
  <2>2. r.received_mon \in Mons
    BY DEF TradeResult
  <2> QED
    BY <1>1, <1>6, <2>1, <2>2, QuietStep
       DEF Switch1Returns, Receive, OrElse, ResultError, MailError, Check, Continue, Raise
<1>7. CASE Switch2Returns
  <2>1. PICK r \in TradeResult("switch", mon["a_mon"]) :
          Receive(r, mon["a_mon"], ResultError(r, mon["a_mon"]), "returned", "artifact_p")
    BY <1>7 DEF Switch2Returns
  <2>2. r.received_mon \in Mons
    BY DEF TradeResult
  <2> QED
    BY <1>1, <1>7, <2>1, <2>2, QuietStep
       DEF Switch2Returns, Receive, OrElse, ResultError, Check, Continue, Raise
<1>8. CASE GbaReturns
  <2>1. PICK r \in GbaTradeResult(mon["b_mon"]) :
          Receive(r, mon["b_mon"],
                  OrElse(GbaResultError(r, mon["b_mon"]), MailError(r.received_mon)),
                  "a_mon", "artifact_a")
    BY <1>8 DEF GbaReturns
  <2>2. r.received_mon \in Mons
    BY DEF GbaTradeResult
  <2> QED
    BY <1>1, <1>8, <2>1, <2>2, QuietStep
       DEF GbaReturns, Receive, OrElse, GbaResultError, ResultError, MailError, Check, Continue, Raise
<1> QED
  BY <1>2, <1>3, <1>4, <1>5, <1>6, <1>7, <1>8 DEF Calling

\* _mark_recovery.
LEMMA MarkRecoveryKeepsTrail ==
    ASSUME TrailInvariant, NEW outcome, MarkRecovery(outcome)
    PROVE  Keeps
<1> USE DEF Working, InMemory, ControlPoints
<1>1. /\ pc = "recover" /\ pc' = "closing"
      /\ UNCHANGED <<mon, exc, artifacts, synced, txs, settled>>
      /\ FilesKept /\ Documented(record, synced) /\ exc \in Errors
      /\ mon \in [Locals -> Mons \cup {NoMon}]
  BY DEF MarkRecovery, TrailInvariant, MemoryKept
<1>2. FilesKept' /\ Adds
  <2>1. CASE Open(record)
    <3>1. Recorded(Stopped(record, exc))
      BY <1>1, <2>1, DocumentedIsRecorded, StoppedRecorded
    <3>2. WriteJournal(Stopped(record, exc), outcome)
      BY <2>1 DEF MarkRecovery
    <3> QED
      BY <1>1, <3>1, <3>2, WriteKeepsFiles
  <2>2. CASE ~Open(record)
    BY <1>1, <2>2, FilesUntouched DEF MarkRecovery, fileVars
  <2> QED
    BY <2>1, <2>2
<1>3. MemoryKept'
  BY <1>1 DEF MemoryKept
<1> QED
  BY <1>2, <1>3 DEF Keeps

----------------------------------------------------------------------------
(***************************************************************************)
(* Start and end of a process.                                             *)
(***************************************************************************)

\* Starting, and finding no journal.
LEMMA StartingKeepsTrail ==
    ASSUME TrailInvariant, (\E p \in Mons : Start(p)) \/ NoJournalFound
    PROVE  Keeps
<1> USE DEF Working, InMemory, ControlPoints
<1>1. FilesKept' /\ Adds
  BY FilesUntouched DEF TrailInvariant, Start, NoJournalFound, fileVars
<1>2. ASSUME NEW p \in Mons, Start(p)
      PROVE  MemoryKept'
  <2>1. CASE p \in MailMons
    BY <1>2, <2>1, GoneHolds DEF Start, Exit
  <2>2. CASE p \notin MailMons
    <3>1. pc' = "require" /\ mon' = [NoLocals EXCEPT !["placeholder"] = p] /\ exc' = exc
      BY <1>2, <2>2 DEF Start
    <3>2. mon' \in [Locals -> Mons \cup {NoMon}] /\ mon'["placeholder"] \in Mons
      BY <3>1 DEF NoLocals, Locals
    <3> QED
      BY <3>1, <3>2 DEF TrailInvariant, MemoryKept
  <2> QED
    BY <2>1, <2>2
<1>3. ASSUME NoJournalFound
      PROVE  MemoryKept'
  BY <1>3 DEF NoJournalFound, TrailInvariant, MemoryKept
<1> QED
  BY <1>1, <1>2, <1>3 DEF Keeps

\* load, and the stop of what was loaded.
LEMMA LoadingKeepsTrail ==
    ASSUME TrailInvariant, LoadJournal \/ (\E outcome \in WriteOutcomes : StopIncomplete(outcome))
    PROVE  Keeps
<1> USE DEF Working, InMemory, ControlPoints
<1>1. CASE LoadJournal
  <2>1. /\ pc' = "loaded" /\ record' = disk /\ disk # NoRecord
        /\ UNCHANGED <<mon, exc, fileVars>>
    BY <1>1 DEF LoadJournal
  <2>2. FilesKept' /\ Adds
    BY <2>1, FilesUntouched DEF TrailInvariant
  <2>3. Recorded(record)'
    BY <2>1, <2>2 DEF FilesKept, fileVars
  <2>4. MemoryKept'
    BY <2>1, <2>3 DEF TrailInvariant, MemoryKept
  <2> QED
    BY <2>2, <2>4 DEF Keeps
<1>2. ASSUME NEW outcome \in WriteOutcomes, StopIncomplete(outcome)
      PROVE  Keeps
  <2>1. /\ pc = "loaded" /\ Open(record) /\ WriteJournal(Stopped(record, "restart"), outcome)
        /\ Gone /\ UNCHANGED <<artifacts, synced, txs, settled>>
    BY <1>2 DEF StopIncomplete, Exit
  <2>2. Recorded(record) /\ FilesKept /\ "restart" \in Errors
    BY <2>1 DEF TrailInvariant, MemoryKept, Errors
  <2>3. Recorded(Stopped(record, "restart"))
    BY <2>1, <2>2, StoppedRecorded
  <2>4. FilesKept' /\ Adds
    BY <2>1, <2>2, <2>3, WriteKeepsFiles
  <2> QED
    BY <2>1, <2>4, GoneHolds DEF Keeps
<1> QED
  BY <1>1, <1>2

\* create saves P before it writes the record that names it.
LEMMA CreatingKeepsTrail ==
    ASSUME TrailInvariant, NEW outcome, CreateArtifact(outcome) \/ CreateWrite(outcome)
    PROVE  Keeps
<1> USE DEF Working, InMemory, ControlPoints
<1>1. CASE CreateArtifact(outcome)
  <2> DEFINE a == <<txs + 1, "P", mon["placeholder"]>>
  <2>1. /\ pc = "create_artifact" /\ txs' = txs + 1 /\ WriteArtifact(a, outcome)
        /\ UNCHANGED <<disk, survivors, settled>>
        /\ FilesKept /\ txs \in Nat /\ settled \in Nat /\ settled <= txs /\ mon["placeholder"] \in Mons
        /\ mon \in [Locals -> Mons \cup {NoMon}] /\ exc \in Errors
    BY <1>1 DEF CreateArtifact, TrailInvariant, FilesKept, MemoryKept
  <2>2. FilesKept' /\ Adds /\ (outcome = "ok" => a \in synced')
    <3>1. a[1] > settled /\ txs' \in Nat /\ txs <= txs'
      BY <2>1
    <3> QED
      BY <2>1, <3>1, ArtifactKeepsFiles
  <2>3. CASE outcome = "ok"
    <3>1. /\ pc' = "create_write" /\ record' = NewRecord(txs + 1, mon["placeholder"])
          /\ UNCHANGED <<mon, exc>>
      BY <1>1, <2>3 DEF CreateArtifact
    <3>2. Documented(record', synced') /\ record'.transaction_id > settled'
      <4>1. Documented(record', synced')
        BY <2>1, <2>2, <2>3, <3>1, NewDocumented
      <4>2. record'.transaction_id = txs + 1
        BY <3>1 DEF NewRecord
      <4> QED
        BY <2>1, <4>1, <4>2
    <3>3. MemoryKept'
      BY <2>1, <3>1, <3>2 DEF MemoryKept
    <3> QED
      BY <2>2, <3>3 DEF Keeps
  <2>4. CASE outcome # "ok"
    BY <1>1, <2>2, <2>4, GoneHolds DEF CreateArtifact, Exit, Keeps
  <2> QED
    BY <2>3, <2>4
<1>2. CASE CreateWrite(outcome)
  <2>1. /\ pc = "create_write" /\ WriteJournal(record, outcome)
        /\ UNCHANGED <<artifacts, synced, txs, settled>>
        /\ FilesKept /\ Documented(record, synced)
    BY <1>2 DEF CreateWrite, TrailInvariant, MemoryKept
  <2>2. FilesKept' /\ Adds
    BY <2>1, DocumentedIsRecorded, WriteKeepsFiles
  <2>3. MemoryKept'
    <3>1. CASE outcome = "ok"
      BY <1>2, <2>1, <3>1 DEF CreateWrite, TrailInvariant, MemoryKept
    <3>2. CASE outcome # "ok"
      BY <1>2, <3>2, GoneHolds DEF CreateWrite, Exit
    <3> QED
      BY <3>1, <3>2
  <2> QED
    BY <2>2, <2>3 DEF Keeps
<1> QED
  BY <1>1, <1>2

\* Whatever a process does, starts with or dies of.
LEMMA RunKeepsTrail ==
    ASSUME TrailInvariant,
           Process \/ JournalAppeared \/ Crash \/ (\E p \in Mons : Start(p))
    PROVE  Keeps
<1>1. CASE TerminalFound \/ JournalAppeared \/ Crash \/ Close
  BY <1>1, QuietExit DEF TerminalFound, JournalAppeared, Crash, Close, Exit
<1>2. CASE NoJournalFound \/ (\E p \in Mons : Start(p))
  BY <1>2, StartingKeepsTrail
<1>3. CASE LoadJournal
  BY <1>3, LoadingKeepsTrail
<1>4. CASE VerifyPlaceholder \/ Calling
  BY <1>4, CallingKeepsTrail
<1>5. ASSUME NEW outcome \in WriteOutcomes, Writing(outcome)
      PROVE  Keeps
  <2>1. CASE StopIncomplete(outcome)
    BY <2>1, LoadingKeepsTrail
  <2>2. CASE CreateArtifact(outcome) \/ CreateWrite(outcome)
    BY <2>2, CreatingKeepsTrail
  <2>3. CASE SaveB(outcome) \/ SaveA(outcome) \/ SaveReturned(outcome)
    BY <2>3, SavesKeepTrail
  <2>4. CASE MarkRecovery(outcome)
    BY <2>4, MarkRecoveryKeepsTrail
  <2>5. CASE Journaling(outcome)
    BY <2>5, PlainTransitionKeepsTrail, CaptureKeepsTrail DEF Journaling
  <2> QED
    BY <1>5, <2>1, <2>2, <2>3, <2>4, <2>5 DEF Writing
<1> QED
  BY <1>1, <1>2, <1>3, <1>4, <1>5 DEF Process

\* A power loss takes a transaction's directory, or leaves all that is durable.
LEMMA PowerLossKeepsTrail ==
    ASSUME FilesKept, PowerLoss
    PROVE  FilesKept' /\ MemoryKept'
<1>1. PICK lost \in SUBSET (artifacts \ synced), dirs \in SUBSET ((settled + 1)..txs) :
          artifacts' = {a \in artifacts \ lost : a[1] \notin dirs}
  BY DEF PowerLoss
<1>2. /\ disk' \in survivors /\ survivors' = {disk'} /\ txs' = txs /\ settled' = txs
      /\ synced' = artifacts' /\ Gone
  BY DEF PowerLoss
<1>3. txs \in Nat /\ settled \in Nat /\ settled <= txs /\ synced \subseteq artifacts
  BY DEF FilesKept
<1>4. ASSUME NEW r, Recorded(r)
      PROVE  Recorded(r)'
  <2>1. r \in JournalRecord /\ IsTrail(r) /\ r.transaction_id \in Nat
    BY <1>4 DEF Recorded, JournalRecord
  <2>2. CASE r.transaction_id \in dirs
    <3>1. r.transaction_id <= settled'
      BY <1>2, <1>3, <2>1, <2>2
    <3>2. DirectoryLost(r.transaction_id)'
      BY <1>1, <2>2, <3>1 DEF DirectoryLost
    <3> QED
      BY <2>1, <3>2 DEF Recorded
  <2>3. CASE r.transaction_id \notin dirs /\ Evidenced(r, synced)
    <3>1. Evidenced(r, synced')
      BY <1>1, <1>2, <1>3, <2>3 DEF Evidenced
    <3> QED
      BY <2>1, <3>1 DEF Recorded
  <2>4. CASE DirectoryLost(r.transaction_id)
    <3>1. r.transaction_id <= settled'
      BY <1>2, <1>3, <2>1, <2>4 DEF DirectoryLost
    <3>2. DirectoryLost(r.transaction_id)'
      BY <1>1, <2>4, <3>1 DEF DirectoryLost
    <3> QED
      BY <2>1, <3>2 DEF Recorded
  <2> QED
    BY <1>4, <2>2, <2>3, <2>4 DEF Recorded
<1>5. PICK d \in survivors : d = disk'
  BY <1>2
<1>6. d = NoRecord \/ Recorded(d)'
  BY <1>4 DEF FilesKept
<1>7. \A r \in survivors' : r = NoRecord \/ Recorded(r)'
  BY <1>2, <1>5, <1>6
<1>8. FilesKept'
  BY <1>2, <1>3, <1>7 DEF FilesKept
<1> QED
  BY <1>2, <1>8, GoneHolds

\* The operator moves a journal away; a console swaps.
LEMMA OutsideKeepsFiles ==
    ASSUME FilesKept, Archive \/ (\E c \in Consoles, m \in Mons : Swap(c, m))
    PROVE  FilesKept' /\ Adds
BY DEF FilesKept, Recorded, DirectoryLost, Adds, Archive, Swap, fileVars

\* A process that does nothing while evidence is added keeps its memory.
LEMMA IdleKeepsMemory ==
    ASSUME MemoryKept, UNCHANGED <<pc, record, mon, exc>>, Adds, settled \in Nat
    PROVE  MemoryKept'
<1>1. pc \in Working => Documented(record, synced')
  BY DocumentedGrows DEF MemoryKept, Adds
<1>2. pc = "loaded" => Recorded(record)'
  <2> SUFFICES ASSUME pc = "loaded" PROVE Recorded(record)'
    OBVIOUS
  <2>1. PICK r : r = record
    OBVIOUS
  <2>2. Recorded(r)
    BY <2>1 DEF MemoryKept
  <2>3. Recorded(r)'
    BY <2>2, RecordedStays
  <2> QED
    BY <2>1, <2>3
<1> QED
  BY <1>1, <1>2 DEF MemoryKept, Adds

----------------------------------------------------------------------------
(***************************************************************************)
(* The records of one transaction stay versions of one trail.              *)
(***************************************************************************)

\* Nothing new is held.
LEMMA ChainShrinks ==
    ASSUME NEW others, NEW makers, NEW fewer, NEW makers2, Chained(others, makers),
           fewer \subseteq others, makers2 \subseteq makers,
           Journals' \subseteq Journals \cup others, Own' \subseteq Journals \cup Own,
           Making' \subseteq Making, txs \in Nat, txs' \in Nat, txs <= txs'
    PROVE  Chained(fewer, makers2)'
<1> DEFINE held == Journals \cup Own \cup others
           now  == Journals' \cup Own' \cup fewer
<1>1. now \subseteq held
  OBVIOUS
<1>2. \A r \in held : r \in JournalRecord /\ IsTrail(r) /\ r.transaction_id <= txs
  BY DEF Chained
<1>3. \A r \in now : r \in JournalRecord /\ IsTrail(r) /\ r.transaction_id <= txs'
  <2> TAKE r \in now
  <2>1. r \in JournalRecord /\ IsTrail(r) /\ r.transaction_id <= txs /\ r.transaction_id \in Nat
    BY <1>1, <1>2 DEF JournalRecord
  <2> QED
    BY <2>1
<1>4. \A r, q \in now : r.transaction_id = q.transaction_id => Continues(r, q) \/ Continues(q, r)
  BY <1>1 DEF Chained
<1>5. \A r \in now, q \in Making' \cup makers2 : r.transaction_id = q.transaction_id => Continues(r, q)
  BY <1>1 DEF Chained
<1>6. \A r \in Making', q \in makers2 : r.transaction_id # q.transaction_id
  BY DEF Chained
<1> QED
  BY <1>3, <1>4, <1>5, <1>6 DEF Chained

\* One record w is new, the latest of its transaction, and held, if at all, by
\* the process itself; the others hold none that goes on with it.
LEMMA ChainGrows ==
    ASSUME NEW others, NEW makers, NEW w, Chained(others, makers),
           w \in JournalRecord, IsTrail(w), w.transaction_id <= txs',
           txs \in Nat, txs' \in Nat, txs <= txs',
           Journals' \subseteq Journals \cup {w}, Own' \subseteq {w}, Making' \subseteq Own',
           \A r \in Journals \cup Own \cup others :
               r.transaction_id = w.transaction_id => Continues(r, w),
           \A q \in makers : q.transaction_id # w.transaction_id
    PROVE  Chained(others, makers)'
<1> DEFINE held == Journals \cup Own \cup others
           now  == Journals' \cup Own' \cup others
<1>1. now \subseteq held \cup {w}
  OBVIOUS
<1>2. \A r \in held : r \in JournalRecord /\ IsTrail(r) /\ r.transaction_id <= txs
  BY DEF Chained
<1>3. \A r \in now : r \in JournalRecord /\ IsTrail(r) /\ r.transaction_id <= txs'
  <2> TAKE r \in now
  <2>1. CASE r \in held
    <3>1. r \in JournalRecord /\ IsTrail(r) /\ r.transaction_id <= txs /\ r.transaction_id \in Nat
      BY <1>2, <2>1 DEF JournalRecord
    <3> QED
      BY <3>1
  <2> QED
    BY <1>1, <2>1
<1>4. Continues(w, w)
  BY ContinuesItself
<1>5. \A r \in now : r.transaction_id = w.transaction_id => Continues(r, w)
  BY <1>1, <1>4
<1>6. \A r, q \in held : r.transaction_id = q.transaction_id => Continues(r, q) \/ Continues(q, r)
  BY DEF Chained
<1>7. \A r, q \in now : r.transaction_id = q.transaction_id => Continues(r, q) \/ Continues(q, r)
  BY <1>1, <1>5, <1>6
<1>8. \A r \in held, q \in makers : r.transaction_id = q.transaction_id => Continues(r, q)
  BY DEF Chained
<1>9. \A r \in now, q \in Making' \cup makers : r.transaction_id = q.transaction_id => Continues(r, q)
  BY <1>1, <1>5, <1>8
<1> QED
  BY <1>3, <1>7, <1>9 DEF Chained

\* The process stops a record that it loaded.
LEMMA ChainStops ==
    ASSUME NEW others, NEW makers, NEW w, Chained(others, makers),
           txs \in Nat, txs' \in Nat, txs <= txs', Stops(w), makers \subseteq others
    PROVE  Chained(others, makers)'
<1> DEFINE held == Journals \cup Own \cup others
           now  == Journals' \cup Own' \cup others
<1>1. /\ record \in held /\ Own' = {} /\ Making' = {} /\ now \subseteq held \cup {w}
      /\ w \in JournalRecord /\ IsTrail(w) /\ w.transaction_id = record.transaction_id
      /\ Continues(record, w) /\ Continues(w, record)
  BY DEF Stops, Own, Making, Working, InMemory, ControlPoints
<1>2. \A r \in held : r \in JournalRecord /\ IsTrail(r) /\ r.transaction_id <= txs
  BY DEF Chained
<1>3. \A r \in now : r \in JournalRecord /\ IsTrail(r) /\ r.transaction_id <= txs'
  <2> TAKE r \in now
  <2>1. r \in JournalRecord /\ IsTrail(r) /\ r.transaction_id <= txs /\ r.transaction_id \in Nat
    BY <1>1, <1>2 DEF JournalRecord
  <2> QED
    BY <2>1
<1>4. \A r, q \in held : r.transaction_id = q.transaction_id => Continues(r, q) \/ Continues(q, r)
  BY DEF Chained
<1>5. \A r \in held : r.transaction_id = w.transaction_id => Continues(r, w) \/ Continues(w, r)
  BY <1>1, <1>2, <1>4, ContinuesOn
<1>6. Continues(w, w)
  BY <1>1, ContinuesItself
<1>7. \A r, q \in now : r.transaction_id = q.transaction_id => Continues(r, q) \/ Continues(q, r)
  BY <1>1, <1>4, <1>5, <1>6
<1>8. \A r \in held, q \in makers : r.transaction_id = q.transaction_id => Continues(r, q)
  BY DEF Chained
<1>9. \A q \in makers : w.transaction_id = q.transaction_id => Continues(w, q)
  BY <1>1, <1>2, <1>8, ContinuesOn
<1>10. \A r \in now, q \in Making' \cup makers : r.transaction_id = q.transaction_id => Continues(r, q)
  BY <1>1, <1>8, <1>9
<1> QED
  BY <1>1, <1>3, <1>7, <1>10 DEF Chained

\* Whatever a process does while the others hold what they hold.
LEMMA ChainMoves ==
    ASSUME NEW others, NEW makers, makers \subseteq others, Chained(others, makers), Moves
    PROVE  Chained(others, makers)'
<1> DEFINE held == Journals \cup Own \cup others
<1>1. txs \in Nat /\ txs' \in Nat /\ txs <= txs'
  BY DEF Moves
<1>2. \A r \in held : r \in JournalRecord /\ IsTrail(r) /\ r.transaction_id <= txs
  BY DEF Chained
<1>3. CASE Drops \/ Loads
  <2>1. /\ Journals' \subseteq Journals /\ Own' \subseteq Journals \cup Own
        /\ Making' \subseteq Making
    BY <1>3 DEF Drops, Loads, Own, Making, Working, InMemory, ControlPoints
  <2> QED
    BY <1>1, <2>1, ChainShrinks
<1>4. CASE Creates
  <2>1. PICK w : w = record'
    OBVIOUS
  <2>2. /\ w \in JournalRecord /\ IsTrail(w) /\ w.transaction_id = txs + 1 /\ txs' = txs + 1
        /\ Journals' \subseteq Journals \cup {w} /\ Own' \subseteq {w} /\ Making' \subseteq Own'
    BY <1>4, <2>1 DEF Creates, Own, Making, Working
  <2>3. \A r \in held : r.transaction_id # w.transaction_id
    <3> TAKE r \in held
    <3>1. r.transaction_id \in Nat /\ r.transaction_id <= txs
      BY <1>2 DEF JournalRecord
    <3> QED
      BY <1>1, <2>2, <3>1
  <2>4. w.transaction_id <= txs'
    BY <1>1, <2>2
  <2> QED
    BY <1>1, <2>2, <2>3, <2>4, ChainGrows
<1>5. ASSUME NEW w, GoesOn(w)
      PROVE  Chained(others, makers)'
  <2>1. /\ w \in JournalRecord /\ IsTrail(w) /\ w.transaction_id = record.transaction_id
        /\ Journals' \subseteq Journals \cup {w} /\ Own' \subseteq {w} /\ Making' \subseteq Own'
        /\ record \in Own /\ record \in Making /\ Continues(record, w)
    BY <1>5 DEF GoesOn, Own, Making, Working
  <2>2. \A r \in held : r.transaction_id = w.transaction_id => Continues(r, w)
    <3>1. \A r \in held : r.transaction_id = w.transaction_id => Continues(r, record)
      BY <2>1 DEF Chained
    <3> QED
      BY <1>2, <2>1, <3>1, ContinuesOn
  <2>3. \A q \in makers : q.transaction_id # w.transaction_id
    BY <2>1 DEF Chained
  <2>4. w.transaction_id <= txs'
    <3>1. record.transaction_id \in Nat /\ record.transaction_id <= txs
      BY <1>2, <2>1 DEF JournalRecord
    <3> QED
      BY <1>1, <2>1, <3>1
  <2> QED
    BY <1>1, <2>1, <2>2, <2>3, <2>4, ChainGrows
<1>6. ASSUME NEW w, Stops(w)
      PROVE  Chained(others, makers)'
  BY <1>1, <1>2, <1>6, ChainStops
<1> QED
  BY <1>3, <1>4, <1>5, <1>6 DEF Moves

\* A journal that is written joins those that may be found.
LEMMA WrittenJoins ==
    ASSUME NEW w, NEW outcome, WriteJournal(w, outcome)
    PROVE  Journals' \subseteq Journals \cup {w}
BY DEF Journals, WriteJournal

\* transition goes on with the record, or refuses and leaves it.
LEMMA PersistMoves ==
    ASSUME TrailInvariant, NEW at \in Working, NEW next \in Working \cup {"closing"},
           NEW s \in JournalState \ {"RECOVERY_REQUIRED"},
           NEW pk \in [Labels -> Mons \cup {NoMon}], NEW loc \in [Labels -> Places],
           NEW n, NEW outcome, Persist(at, s, pk, loc, n, next, outcome),
           \A l \in Labels : \/ pk[l] = record.pokemon[l]
                             \/ <<record.transaction_id, l, pk[l]>> \in synced
    PROVE  Moves
<1> USE DEF Working, InMemory, ControlPoints
<1>1. /\ pc \in Working /\ Documented(record, synced) /\ txs \in Nat /\ txs' = txs
      /\ record \in JournalRecord
  BY DEF Persist, TrailInvariant, MemoryKept, FilesKept, Documented
<1>2. CASE LegalTransition(record, s, pk, n)
  <2> DEFINE t == Transitioned(record, s, pk, loc, n, "none")
  <2>1. record' = t /\ WriteJournal(t, outcome) /\ pc' \in {next, "recover"}
    BY <1>2 DEF Persist, Proceed, Continue, Raise
  <2>2. /\ Open(record) /\ s = NEXT_STATE[record.state]
        /\ n \in 0..5 \cup {NoSlot} /\ "none" \in Errors
        /\ \A l \in Labels : record.pokemon[l] # NoMon => pk[l] = record.pokemon[l]
    BY <1>2 DEF LegalTransition, Errors
  <2>3. Documented(t, synced)
    BY <1>1, <2>2, TransitionDocumented
  <2>4. Continues(record, t)
    BY <1>1, <2>2, TransitionContinues
  <2>5. t.transaction_id = record.transaction_id
    BY DEF Transitioned
  <2> HIDE DEF t
  <2>6. Journals' \subseteq Journals \cup {t}
    BY <2>1, WrittenJoins
  <2>7. GoesOn(t)
    BY <1>1, <2>1, <2>3, <2>4, <2>5, <2>6 DEF GoesOn, Documented
  <2> QED
    BY <1>1, <2>7 DEF Moves
<1>3. CASE ~LegalTransition(record, s, pk, n)
  <2>1. pc' = "recover" /\ UNCHANGED <<record, survivors>>
    BY <1>3 DEF Persist, Raise
  <2>2. Drops
    BY <1>1, <2>1 DEF Drops, Journals
  <2> QED
    BY <1>1, <2>2 DEF Moves
<1> QED
  BY <1>2, <1>3

\* The transitions of execute.
LEMMA JournalingMoves ==
    ASSUME TrailInvariant, NEW outcome, Journaling(outcome)
    PROVE  Moves
<1> USE DEF Working, InMemory, ControlPoints
<1>1. pc \in Working
  BY DEF Journaling, StartStage1, CaptureB, RecordPlaced, StartGba, CaptureA, RecordCommittedB,
         StartStage2, CommitA, Complete, Persist
<1>2. PICK at \in Working, next \in Working \cup {"closing"},
           s \in JournalState \ {"RECOVERY_REQUIRED"},
           pk \in [Labels -> Mons \cup {NoMon}], loc \in [Labels -> Places],
           n \in {NoSlot, slot} :
          /\ Persist(at, s, pk, loc, n, next, outcome)
          /\ \A l \in Labels : \/ pk[l] = record.pokemon[l]
                               \/ <<record.transaction_id, l, pk[l]>> \in synced
  <2>1. /\ record.locations \in [Labels -> Places]
        /\ record.pokemon \in [Labels -> Mons \cup {NoMon}]
        /\ mon["a_mon"] \in Mons \cup {NoMon} /\ mon["b_mon"] \in Mons \cup {NoMon}
    BY <1>1, RecordParts DEF Locals
  <2> DEFINE locB == [record.locations EXCEPT !["B"] = "broker", !["P"] = "switch"]
             locA == [record.locations EXCEPT !["A"] = "broker", !["B"] = "gba"]
             locC == [record.locations EXCEPT !["A"] = "switch", !["B"] = "gba",
                                              !["P"] = "broker (unverified candidate)"]
             locP == [record.locations EXCEPT !["P"] = "broker"]
             pkB  == [record.pokemon EXCEPT !["B"] = mon["b_mon"]]
             pkA  == [record.pokemon EXCEPT !["A"] = mon["a_mon"]]
  <2>2. /\ locA \in [Labels -> Places] /\ locB \in [Labels -> Places]
        /\ locC \in [Labels -> Places] /\ locP \in [Labels -> Places]
    BY <2>1 DEF Places
  <2>3. /\ pkA \in [Labels -> Mons \cup {NoMon}] /\ pkB \in [Labels -> Mons \cup {NoMon}]
        /\ \A l \in Labels : l # "A" => pkA[l] = record.pokemon[l]
        /\ \A l \in Labels : l # "B" => pkB[l] = record.pokemon[l]
        /\ pkA["A"] = mon["a_mon"] /\ pkB["B"] = mon["b_mon"]
    BY <2>1 DEF Labels
  <2>4. /\ CaptureB(outcome) => Persist("captured_b", "SWITCH_B_CAPTURED", pkB, locB, NoSlot,
                                        "placed", outcome)
        /\ CaptureA(outcome) => Persist("captured_a", "GBA_A_CAPTURED", pkA, locA, slot,
                                        "committed_b", outcome)
        /\ CommitA(outcome) => Persist("committed_a", "A_COMMITTED_TO_SWITCH", record.pokemon,
                                       locC, NoSlot, "verify", outcome)
        /\ Complete(outcome) => Persist("complete", "COMPLETE", record.pokemon,
                                        locP, NoSlot, "closing", outcome)
    BY DEF CaptureB, CaptureA, CommitA, Complete
  <2> HIDE DEF locA, locB, locC, locP, pkA, pkB
  <2>5. CASE StartStage1(outcome) \/ RecordPlaced(outcome) \/ StartGba(outcome)
    BY <2>1, <2>5 DEF StartStage1, RecordPlaced, StartGba, JournalState
  <2>6. CASE RecordCommittedB(outcome) \/ StartStage2(outcome)
    BY <2>1, <2>6 DEF RecordCommittedB, StartStage2, JournalState
  <2>7. CASE CommitA(outcome)
    BY <2>1, <2>2, <2>4, <2>7 DEF JournalState
  <2>8. CASE Complete(outcome)
    BY <2>1, <2>2, <2>4, <2>8 DEF JournalState
  <2>9. CASE CaptureB(outcome)
    <3>1. <<record.transaction_id, "B", mon["b_mon"]>> \in synced
      BY <2>4, <2>9 DEF TrailInvariant, MemoryKept, Persist
    <3> QED
      BY <2>2, <2>3, <2>4, <2>9, <3>1 DEF JournalState
  <2>10. CASE CaptureA(outcome)
    <3>1. <<record.transaction_id, "A", mon["a_mon"]>> \in synced
      BY <2>4, <2>10 DEF TrailInvariant, MemoryKept, Persist
    <3> QED
      BY <2>2, <2>3, <2>4, <2>10, <3>1 DEF JournalState
  <2> QED
    BY <2>5, <2>6, <2>7, <2>8, <2>9, <2>10 DEF Journaling
<1> QED
  BY <1>2, PersistMoves

\* _mark_recovery and the stop on start: a stop of the record in memory.
LEMMA StoppingMoves ==
    ASSUME TrailInvariant, NEW outcome, MarkRecovery(outcome) \/ StopIncomplete(outcome)
    PROVE  Moves
<1> USE DEF Working, InMemory, ControlPoints
<1>1. txs \in Nat /\ txs' = txs /\ exc \in Errors
  BY DEF TrailInvariant, FilesKept, MemoryKept, MarkRecovery, StopIncomplete
<1>2. CASE MarkRecovery(outcome)
  <2>1. /\ pc = "recover" /\ pc' = "closing" /\ Documented(record, synced)
        /\ record \in JournalRecord
    BY <1>2 DEF MarkRecovery, TrailInvariant, MemoryKept, Documented
  <2>2. CASE Open(record)
    <3> DEFINE t == Stopped(record, exc)
    <3>1. WriteJournal(t, outcome)
      BY <1>2, <2>2 DEF MarkRecovery
    <3>2. Documented(t, synced)
      BY <1>1, <2>1, <2>2, StoppedDocumented
    <3>3. t.transaction_id = record.transaction_id /\ Continues(record, t)
      BY <1>1, <2>1, <2>2, StoppedContinues
    <3> HIDE DEF t
    <3>4. Journals' \subseteq Journals \cup {t}
      BY <3>1, WrittenJoins
    <3>5. GoesOn(t)
      BY <2>1, <3>2, <3>3, <3>4 DEF GoesOn, Documented
    <3> QED
      BY <1>1, <3>5 DEF Moves
  <2>3. CASE ~Open(record)
    <3>1. Drops
      BY <1>2, <2>1, <2>3 DEF MarkRecovery, Drops, Journals
    <3> QED
      BY <1>1, <3>1 DEF Moves
  <2> QED
    BY <2>2, <2>3
<1>3. CASE StopIncomplete(outcome)
  <2> DEFINE t == Stopped(record, "restart")
  <2>1. /\ pc = "loaded" /\ Open(record) /\ WriteJournal(t, outcome) /\ pc' = "down"
        /\ Recorded(record) /\ record \in JournalRecord /\ "restart" \in Errors
    BY <1>3 DEF StopIncomplete, Exit, Gone, TrailInvariant, MemoryKept, Recorded, Errors
  <2>2. t.transaction_id = record.transaction_id /\ Continues(record, t) /\ Continues(t, record)
    BY <2>1, StoppedContinues
  <2>3. Recorded(t)
    BY <2>1, StoppedRecorded
  <2> HIDE DEF t
  <2>4. Journals' \subseteq Journals \cup {t}
    BY <2>1, WrittenJoins
  <2>5. Stops(t)
    BY <2>1, <2>2, <2>3, <2>4 DEF Stops, Recorded
  <2> QED
    BY <1>1, <2>5 DEF Moves
<1> QED
  BY <1>2, <1>3

\* load and create.
LEMMA OpeningMoves ==
    ASSUME TrailInvariant, NEW outcome,
           LoadJournal \/ CreateArtifact(outcome) \/ CreateWrite(outcome)
    PROVE  Moves
<1> USE DEF Working, InMemory, ControlPoints
<1>1. txs \in Nat
  BY DEF TrailInvariant, FilesKept
<1>2. CASE LoadJournal
  <2>1. /\ pc' = "loaded" /\ record' = disk /\ disk # NoRecord /\ disk \in survivors
        /\ UNCHANGED <<survivors, txs>>
    BY <1>2 DEF LoadJournal, fileVars, TrailInvariant, FilesKept
  <2>2. Loads
    BY <2>1 DEF Loads, Journals
  <2> QED
    BY <1>1, <2>1, <2>2 DEF Moves
<1>3. CASE CreateArtifact(outcome)
  <2>1. /\ pc = "create_artifact" /\ txs' = txs + 1 /\ UNCHANGED survivors
        /\ mon["placeholder"] \in Mons
    BY <1>3 DEF CreateArtifact, TrailInvariant, MemoryKept
  <2>2. CASE outcome = "ok"
    <3> DEFINE t == NewRecord(txs + 1, mon["placeholder"])
    <3>1. pc' = "create_write" /\ record' = t
      BY <1>3, <2>2 DEF CreateArtifact
    <3>2. Documented(t, {<<txs + 1, "P", mon["placeholder"]>>}) /\ t.transaction_id = txs + 1
      <4>1. txs + 1 \in Nat
        BY <1>1
      <4>2. Documented(t, {<<txs + 1, "P", mon["placeholder"]>>})
        BY <2>1, <4>1, NewDocumented
      <4> QED
        BY <4>2 DEF NewRecord
    <3> HIDE DEF t
    <3>3. Creates
      BY <2>1, <3>1, <3>2 DEF Creates, Journals, Documented
    <3> QED
      BY <1>1, <2>1, <3>3 DEF Moves
  <2>3. CASE outcome # "ok"
    <3>1. Drops
      BY <1>3, <2>1, <2>3 DEF CreateArtifact, Exit, Gone, Drops, Journals
    <3> QED
      BY <1>1, <2>1, <3>1 DEF Moves
  <2> QED
    BY <2>2, <2>3
<1>4. CASE CreateWrite(outcome)
  <2>1. /\ pc = "create_write" /\ WriteJournal(record, outcome) /\ UNCHANGED txs
        /\ Documented(record, synced) /\ record \in JournalRecord
        /\ pc' \in {"connect_switch", "down"} /\ (pc' = "connect_switch" => record' = record)
    BY <1>4 DEF CreateWrite, Exit, Gone, TrailInvariant, MemoryKept, Documented
  <2>2. PICK w : w = record
    OBVIOUS
  <2>3. Journals' \subseteq Journals \cup {w}
    BY <2>1, <2>2, WrittenJoins
  <2>4. GoesOn(w)
    BY <2>1, <2>2, <2>3, ContinuesItself DEF GoesOn, Documented
  <2> QED
    BY <1>1, <2>1, <2>4 DEF Moves
<1> QED
  BY <1>2, <1>3, <1>4

\* The steps that touch no journal and no record.
LEMMA QuietMoves ==
    ASSUME TrailInvariant,
           \/ NoJournalFound \/ TerminalFound \/ JournalAppeared \/ VerifyPlaceholder
           \/ Close \/ Crash \/ (\E p \in Mons : Start(p)) \/ Calling
           \/ \E outcome \in WriteOutcomes :
                 SaveB(outcome) \/ SaveA(outcome) \/ SaveReturned(outcome)
    PROVE  Moves
<1> USE DEF Working, InMemory, ControlPoints
<1>1. txs \in Nat
  BY DEF TrailInvariant, FilesKept
<1>2. CASE TerminalFound \/ JournalAppeared \/ Close \/ Crash
  BY <1>1, <1>2 DEF TerminalFound, JournalAppeared, Close, Crash, Exit, Gone, fileVars,
                    Moves, Drops, Journals
<1>3. CASE NoJournalFound \/ \E p \in Mons : Start(p)
  BY <1>1, <1>3 DEF NoJournalFound, Start, Exit, Gone, fileVars, Moves, Drops, Journals
<1>4. CASE VerifyPlaceholder
  BY <1>1, <1>4 DEF VerifyPlaceholder, PlaceholderError, Continue, Raise, fileVars, Moves, Drops, Journals
<1>5. CASE ConnectSwitch \/ ConnectGba \/ EndpointRaises
  BY <1>1, <1>5 DEF ConnectSwitch, ConnectGba, Connect, EndpointRaises, Continue, Raise, fileVars,
                    Moves, Drops, Journals
<1>6. CASE OfferPlaceholder \/ OfferB \/ OfferA
  BY <1>1, <1>6 DEF OfferPlaceholder, OfferB, OfferA, Offer, Continue, Raise, fileVars,
                    Moves, Drops, Journals
<1>7. CASE Switch1Returns \/ Switch2Returns \/ GbaReturns
  <2>1. /\ pc \in Working /\ UNCHANGED <<record, survivors, txs>>
        /\ pc' \in {"artifact_a", "artifact_b", "artifact_p", "recover"}
    BY <1>7 DEF Switch1Returns, Switch2Returns, GbaReturns, Receive, Continue, Raise, fileVars
  <2> QED
    BY <1>1, <2>1 DEF Moves, Drops, Journals
<1>8. ASSUME NEW outcome \in WriteOutcomes,
             SaveB(outcome) \/ SaveA(outcome) \/ SaveReturned(outcome)
      PROVE  Moves
  BY <1>1, <1>8 DEF SaveB, SaveA, SaveReturned, SaveArtifact, Proceed, Continue, Raise,
                    Moves, Drops, Journals
<1> QED
  BY <1>2, <1>3, <1>4, <1>5, <1>6, <1>7, <1>8 DEF Calling

\* Whatever a process does, starts with or dies of.
LEMMA RunMoves ==
    ASSUME TrailInvariant,
           Process \/ JournalAppeared \/ Crash \/ (\E p \in Mons : Start(p))
    PROVE  Moves
<1>1. ASSUME NEW outcome \in WriteOutcomes, Writing(outcome)
      PROVE  Moves
  <2>1. CASE SaveB(outcome) \/ SaveA(outcome) \/ SaveReturned(outcome)
    BY <2>1, QuietMoves
  <2> QED
    BY <1>1, <2>1, StoppingMoves, OpeningMoves, JournalingMoves DEF Writing
<1>2. CASE LoadJournal
  BY <1>2, OpeningMoves
<1> QED
  BY <1>1, <1>2, QuietMoves DEF Process

----------------------------------------------------------------------------

\* At first there is no journal.
LEMMA InitTrail == Init => TrailInvariant
BY DEF Init, TrailInvariant, FilesKept, MemoryKept, Working, InMemory, ControlPoints, Errors, NoLocals, Locals

\* What the two parts say of the journals that may be found.
LEMMA TrailGivesProperties == FilesKept => HistoryIsPath /\ EvidenceWhole
BY DEF FilesKept, HistoryIsPath, EvidenceWhole, Journals, Recorded

\* The audit trail and the evidence of one broker, at every step.
LEMMA TrailIsInvariant == Spec => []TrailInvariant
<1>1. TrailInvariant /\ [Next]_vars => TrailInvariant'
  <2> SUFFICES ASSUME TrailInvariant, [Next]_vars PROVE TrailInvariant'
    OBVIOUS
  <2>1. CASE Process \/ Crash \/ (\E p \in Mons : Start(p))
    BY <2>1, RunKeepsTrail DEF Keeps, TrailInvariant
  <2>2. CASE PowerLoss
    BY <2>2, PowerLossKeepsTrail DEF TrailInvariant
  <2>3. CASE Archive \/ (\E c \in Consoles, m \in Mons : Swap(c, m))
    <3>1. UNCHANGED <<pc, record, mon, exc>>
      BY <2>3 DEF Archive, Swap, processVars
    <3> QED
      BY <2>3, <3>1, OutsideKeepsFiles, IdleKeepsMemory DEF TrailInvariant, FilesKept
  <2>4. CASE UNCHANGED vars
    <3>1. UNCHANGED <<pc, record, mon, exc, fileVars>>
      BY <2>4 DEF vars, processVars
    <3> QED
      BY <3>1, FilesUntouched, IdleKeepsMemory DEF TrailInvariant, FilesKept
  <2> QED
    BY <2>1, <2>2, <2>3, <2>4 DEF Next, Environment
<1> QED
  BY <1>1, InitTrail, PTL DEF Spec

\* transition mutates its record before a write that may fail, and a stopped
\* process leaves a journal to be stopped by the next: still every journal that
\* may be found, now or after a power loss, is a path from IDLE along NEXT_STATE.
THEOREM HistoryStaysPath == Spec => []HistoryIsPath
<1>1. TrailInvariant => HistoryIsPath
  BY TrailGivesProperties DEF TrailInvariant
<1> QED
  BY <1>1, TrailIsInvariant, PTL

\* save_artifact before the transition that names the hash: no failed write and
\* no crash leaves a journal without the bytes of a record it names, and a power
\* loss takes all of a transaction's artifacts, with their directory, or none.
THEOREM EvidenceStaysWhole == Spec => []EvidenceWhole
<1>1. TrailInvariant => EvidenceWhole
  BY TrailGivesProperties DEF TrailInvariant
<1> QED
  BY <1>1, TrailIsInvariant, PTL

=============================================================================
