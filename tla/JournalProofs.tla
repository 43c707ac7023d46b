---------------------------- MODULE JournalProofs ----------------------------
(***************************************************************************)
(* What the pure part of JournalStore returns and preserves: the lemmas on *)
(* Journal that the proofs about its users share.                          *)
(***************************************************************************)
EXTENDS Journal, TLAPS

\* The absence of a journal is not a journal.
LEMMA NoRecordIsNoJournal == NoRecord \notin JournalRecord
BY DEF NoRecord, JournalRecord, JournalState

\* The first record has the type of a journal, and is IDLE.
LEMMA NewRecordType ==
    ASSUME NEW txid \in Nat, NEW p \in Mons
    PROVE  /\ NewRecord(txid, p) \in JournalRecord
           /\ NewRecord(txid, p).state = "IDLE"
           /\ NewRecord(txid, p).transaction_id = txid
           /\ NewRecord(txid, p).sequence = 0
           /\ NewRecord(txid, p).history = <<"IDLE">>
           /\ NewRecord(txid, p).pokemon["P"] = p
           /\ NewRecord(txid, p).pokemon["A"] = NoMon
           /\ NewRecord(txid, p).pokemon["B"] = NoMon
           /\ NewRecord(txid, p).locations["P"] = "broker"
BY DEF NewRecord, JournalRecord, JournalState, Labels, Places, Errors, NoSlot

\* What a transition changes, field by field.
LEMMA TransitionedType ==
    ASSUME NEW r \in JournalRecord, NEW s \in JournalState,
           NEW pk \in [Labels -> Mons \cup {NoMon}], NEW loc \in [Labels -> Places],
           NEW n \in 0..5 \cup {NoSlot}, NEW e \in Errors
    PROVE  LET t == Transitioned(r, s, pk, loc, n, e) IN
           /\ t \in JournalRecord
           /\ t.transaction_id = r.transaction_id
           /\ t.state = s
           /\ t.sequence = r.sequence + 1
           /\ t.pokemon = pk
           /\ t.locations = loc
           /\ t.history = Append(r.history, s)
<1>1. /\ r.history \in Seq(JournalState) /\ r.sequence \in Nat /\ r.transaction_id \in Nat
      /\ r.selected_gba_slot \in 0..5 \cup {NoSlot}
  BY DEF JournalRecord
<1>2. Append(r.history, s) \in Seq(JournalState)
  BY <1>1
<1> QED
  BY <1>1, <1>2 DEF Transitioned, JournalRecord

----------------------------------------------------------------------------
(***************************************************************************)
(* Which records are audit trails with evidence.                           *)
(***************************************************************************)

\* Files that are added take nothing away.
LEMMA DocumentedGrows ==
    ASSUME NEW r, NEW files, NEW more, Documented(r, files), files \subseteq more
    PROVE  Documented(r, more)
BY DEF Documented, Evidenced

\* The first record is documented once P is saved.
LEMMA NewDocumented ==
    ASSUME NEW txid \in Nat, NEW p \in Mons, NEW files, <<txid, "P", p>> \in files
    PROVE  Documented(NewRecord(txid, p), files)
<1> DEFINE r == NewRecord(txid, p)
<1>1. /\ r \in JournalRecord /\ r.state = "IDLE" /\ r.transaction_id = txid
      /\ r.sequence = 0 /\ r.history = <<"IDLE">>
      /\ r.pokemon["P"] = p /\ r.pokemon["A"] = NoMon /\ r.pokemon["B"] = NoMon
  BY NewRecordType
<1> HIDE DEF r
<1>2. IsTrail(r)
  BY <1>1 DEF IsTrail
<1>3. Evidenced(r, files)
  BY <1>1 DEF Evidenced, Labels
<1>4. Documented(r, files)
  BY <1>1, <1>2, <1>3 DEF Documented
<1> QED
  BY <1>4 DEF r

\* A step along NEXT_STATE, or a stop, prolongs the trail of an open record.
LEMMA TransitionDocumented ==
    ASSUME NEW r, NEW files, Documented(r, files), Open(r),
           NEW s \in JournalState, NEW pk \in [Labels -> Mons \cup {NoMon}],
           NEW loc \in [Labels -> Places], NEW n \in 0..5 \cup {NoSlot}, NEW e \in Errors,
           s \in {NEXT_STATE[r.state], "RECOVERY_REQUIRED"},
           \A l \in Labels : \/ pk[l] = r.pokemon[l]
                             \/ <<r.transaction_id, l, pk[l]>> \in files
    PROVE  Documented(Transitioned(r, s, pk, loc, n, e), files)
<1> DEFINE t == Transitioned(r, s, pk, loc, n, e)
<1>1. r \in JournalRecord /\ IsTrail(r) /\ Evidenced(r, files)
  BY DEF Documented
<1>2. /\ t \in JournalRecord /\ t.transaction_id = r.transaction_id /\ t.state = s
      /\ t.sequence = r.sequence + 1 /\ t.pokemon = pk
      /\ t.history = Append(r.history, s)
  <2>1. t \in JournalRecord
    BY <1>1, TransitionedType, Zenon
  <2> QED
    BY <2>1 DEF Transitioned
<1> HIDE DEF t
<1>3. /\ r.history \in Seq(JournalState) /\ r.sequence \in Nat /\ r.state \in JournalState
  BY <1>1 DEF JournalRecord
<1>4. r.state \in DOMAIN NEXT_STATE
  BY <1>3 DEF Open, JournalState, TERMINAL_STATES, NEXT_STATE
<1>5. /\ Len(r.history) = r.sequence + 1 /\ r.history[1] = "IDLE"
      /\ r.history[Len(r.history)] = r.state
  BY <1>1 DEF IsTrail
<1>6. /\ Len(t.history) = t.sequence + 1
      /\ \A i \in 1..(r.sequence + 1) : t.history[i] = r.history[i]
      /\ t.history[t.sequence + 1] = s
  BY <1>2, <1>3, <1>5
<1>7. ASSUME NEW i \in 1..t.sequence
      PROVE  /\ t.history[i] \in DOMAIN NEXT_STATE
             /\ t.history[i + 1] \in {NEXT_STATE[t.history[i]], "RECOVERY_REQUIRED"}
  <2>1. CASE i \in 1..r.sequence
    <3>1. /\ r.history[i] \in DOMAIN NEXT_STATE
          /\ r.history[i + 1] \in {NEXT_STATE[r.history[i]], "RECOVERY_REQUIRED"}
      BY <1>1, <2>1 DEF IsTrail
    <3>2. t.history[i] = r.history[i] /\ t.history[i + 1] = r.history[i + 1]
      BY <1>3, <1>6, <2>1
    <3> QED
      BY <3>1, <3>2
  <2>2. CASE i = r.sequence + 1
    <3>1. t.history[i] = r.state /\ t.history[i + 1] = s
      BY <1>2, <1>3, <1>5, <1>6, <2>2
    <3> QED
      BY <1>4, <3>1
  <2>3. i \in 1..r.sequence \/ i = r.sequence + 1
    BY <1>2, <1>3
  <2> QED
    BY <2>1, <2>2, <2>3
<1>8. IsTrail(t)
  <2>1. t.history[1] = "IDLE"
    <3>1. 1 \in 1..(r.sequence + 1)
      BY <1>3
    <3> QED
      BY <1>5, <1>6, <3>1
  <2>2. t.history[Len(t.history)] = t.state
    BY <1>2, <1>3, <1>6
  <2> QED
    BY <1>6, <1>7, <2>1, <2>2 DEF IsTrail
<1>9. Evidenced(t, files)
  BY <1>1, <1>2 DEF Evidenced
<1>10. Documented(t, files)
  BY <1>2, <1>8, <1>9 DEF Documented
<1> QED
  BY <1>10 DEF t

\* A stop keeps every hash.
LEMMA StoppedDocumented ==
    ASSUME NEW r, NEW files, Documented(r, files), Open(r), NEW e \in Errors
    PROVE  Documented(Stopped(r, e), files)
<1>1. /\ r.pokemon \in [Labels -> Mons \cup {NoMon}] /\ r.locations \in [Labels -> Places]
      /\ "RECOVERY_REQUIRED" \in JournalState /\ NoSlot \in 0..5 \cup {NoSlot}
  BY DEF Documented, JournalRecord, JournalState
<1>2. Documented(Transitioned(r, "RECOVERY_REQUIRED", r.pokemon, r.locations, NoSlot, e), files)
  BY <1>1, TransitionDocumented
<1> QED
  BY <1>2 DEF Stopped

----------------------------------------------------------------------------
(***************************************************************************)
(* Which records are later versions of which.                              *)
(***************************************************************************)

\* Steps counts.
LEMMA StepsType ==
    ASSUME NEW r \in JournalRecord
    PROVE  /\ Len(r.history) \in Nat /\ Steps(r) \in Int
           /\ r.state = "RECOVERY_REQUIRED" => Steps(r) = Len(r.history) - 1
           /\ r.state # "RECOVERY_REQUIRED" => Steps(r) = Len(r.history)
<1>1. r.history \in Seq(JournalState)
  BY DEF JournalRecord
<1>2. Len(r.history) \in Nat
  BY <1>1
<1>3. CASE r.state = "RECOVERY_REQUIRED"
  <2>1. Steps(r) = Len(r.history) - 1
    BY <1>3, Zenon DEF Steps
  <2> QED
    BY <1>2, <1>3, <2>1
<1>4. CASE r.state # "RECOVERY_REQUIRED"
  <2>1. Steps(r) = Len(r.history) - 0
    BY <1>4, Zenon DEF Steps
  <2> QED
    BY <1>2, <1>4, <2>1
<1> QED
  BY <1>3, <1>4

\* A record is a version of itself.
LEMMA ContinuesItself ==
    ASSUME NEW r \in JournalRecord
    PROVE  Continues(r, r)
BY StepsType DEF Continues

\* What goes on from a later version goes on from the earlier one.
LEMMA ContinuesOn ==
    ASSUME NEW r \in JournalRecord, NEW q \in JournalRecord, NEW t \in JournalRecord,
           Continues(r, q), Continues(q, t)
    PROVE  Continues(r, t)
<1>1. Steps(r) \in Int /\ Steps(q) \in Int /\ Steps(t) \in Int
  BY StepsType
<1>2. Steps(r) <= Steps(q) /\ Steps(q) <= Steps(t)
  BY DEF Continues
<1>3. \A i \in 1..Steps(r) : t.history[i] = r.history[i]
  <2> TAKE i \in 1..Steps(r)
  <2>1. i \in 1..Steps(q)
    BY <1>1, <1>2
  <2> QED
    BY <2>1 DEF Continues
<1>4. \A l \in Labels : r.pokemon[l] # NoMon => t.pokemon[l] = r.pokemon[l]
  BY DEF Continues
<1>5. Steps(r) = Steps(t) => Steps(r) = Steps(q) /\ Steps(q) = Steps(t)
  BY <1>1, <1>2
<1> QED
  BY <1>1, <1>2, <1>3, <1>4, <1>5 DEF Continues

\* transition goes on from the record it is given.
LEMMA TransitionContinues ==
    ASSUME NEW r \in JournalRecord, Open(r), NEW s \in JournalState \ {"RECOVERY_REQUIRED"},
           NEW pk \in [Labels -> Mons \cup {NoMon}], NEW loc \in [Labels -> Places],
           NEW n \in 0..5 \cup {NoSlot}, NEW e \in Errors,
           \A l \in Labels : r.pokemon[l] # NoMon => pk[l] = r.pokemon[l]
    PROVE  Continues(r, Transitioned(r, s, pk, loc, n, e))
<1> DEFINE t == Transitioned(r, s, pk, loc, n, e)
<1>1. t \in JournalRecord /\ t.state = s /\ t.pokemon = pk /\ t.history = Append(r.history, s)
  <2>1. t \in JournalRecord
    BY TransitionedType, Zenon
  <2> QED
    BY <2>1 DEF Transitioned
<1> HIDE DEF t
<1>2. r.history \in Seq(JournalState) /\ s \in JournalState
  BY DEF JournalRecord
<1>3. /\ Len(t.history) = Len(r.history) + 1
      /\ \A i \in 1..Len(r.history) : t.history[i] = r.history[i]
  BY <1>1, <1>2
<1>4. /\ Len(r.history) \in Nat /\ Steps(r) = Len(r.history)
      /\ Steps(t) = Len(r.history) + 1
  BY <1>1, <1>3, StepsType DEF Open, TERMINAL_STATES
<1>5. Continues(r, t)
  BY <1>1, <1>3, <1>4 DEF Continues
<1> QED
  BY <1>5 DEF t

\* A stop says what the stopped record says.
LEMMA StoppedContinues ==
    ASSUME NEW r \in JournalRecord, Open(r), NEW e \in Errors
    PROVE  /\ Stopped(r, e) \in JournalRecord
           /\ Stopped(r, e).transaction_id = r.transaction_id
           /\ Stopped(r, e).pokemon = r.pokemon
           /\ Continues(r, Stopped(r, e)) /\ Continues(Stopped(r, e), r)
<1> DEFINE t == Stopped(r, e)
<1>1. /\ r.pokemon \in [Labels -> Mons \cup {NoMon}] /\ r.locations \in [Labels -> Places]
      /\ "RECOVERY_REQUIRED" \in JournalState /\ NoSlot \in 0..5 \cup {NoSlot}
      /\ r.history \in Seq(JournalState)
  BY DEF JournalRecord, JournalState
<1>2. t \in JournalRecord
  BY <1>1, TransitionedType, Zenon DEF Stopped
<1>3. /\ t.state = "RECOVERY_REQUIRED" /\ t.transaction_id = r.transaction_id
      /\ t.pokemon = r.pokemon /\ t.locations = r.locations
      /\ t.selected_gba_slot = r.selected_gba_slot
      /\ t.history = Append(r.history, "RECOVERY_REQUIRED")
  BY DEF Stopped, Transitioned
<1> HIDE DEF t
<1>4. /\ Len(t.history) = Len(r.history) + 1
      /\ \A i \in 1..Len(r.history) : t.history[i] = r.history[i]
  BY <1>1, <1>3
<1>5. /\ Len(r.history) \in Nat /\ Steps(r) = Len(r.history)
      /\ Steps(t) = Len(r.history)
  BY <1>2, <1>3, <1>4, StepsType DEF Open, TERMINAL_STATES
<1>6. Continues(r, t) /\ Continues(t, r)
  BY <1>3, <1>4, <1>5 DEF Continues
<1> QED
  BY <1>2, <1>3, <1>6 DEF t

=============================================================================
