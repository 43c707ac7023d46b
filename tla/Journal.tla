------------------------------- MODULE Journal -------------------------------
(***************************************************************************)
(* The transaction journal of broker/journal.py as a value: the state      *)
(* graph, the record that is stored as JSON, and the pure part of          *)
(* JournalStore.create and JournalStore.transition.  What happens to the   *)
(* file, and what may interrupt it, is in TradeCoordinator.                *)
(*                                                                         *)
(* A Pokemon100 is an element of Mons.  Its SHA-256 is identified with the *)
(* record itself: equal hashes mean equal bytes.  Timestamps and notes are *)
(* left out; a HistoryEntry is reduced to its state, because its sequence  *)
(* number is its position.                                                 *)
(***************************************************************************)
EXTENDS Integers, Sequences

CONSTANTS
    Mons,      \* the 100-byte party records that occur
    NoMon      \* Python's None where a record or a hash is expected

ASSUME NoMonAssumption == NoMon \notin Mons

----------------------------------------------------------------------------

JournalState ==
    {"IDLE", "SWITCH_STAGE1_STARTED", "SWITCH_B_CAPTURED",
     "PLACEHOLDER_ON_SWITCH", "GBA_STAGE_STARTED", "GBA_A_CAPTURED",
     "B_COMMITTED_TO_GBA", "SWITCH_STAGE2_STARTED", "A_COMMITTED_TO_SWITCH",
     "COMPLETE", "RECOVERY_REQUIRED"}

TERMINAL_STATES == {"COMPLETE", "RECOVERY_REQUIRED"}

\* Mutant: every journal counts as open.
AlwaysOpen(record) == TRUE

Open(record) == record.state \notin TERMINAL_STATES

NEXT_STATE ==
    [IDLE                  |-> "SWITCH_STAGE1_STARTED",
     SWITCH_STAGE1_STARTED |-> "SWITCH_B_CAPTURED",
     SWITCH_B_CAPTURED     |-> "PLACEHOLDER_ON_SWITCH",
     PLACEHOLDER_ON_SWITCH |-> "GBA_STAGE_STARTED",
     GBA_STAGE_STARTED     |-> "GBA_A_CAPTURED",
     GBA_A_CAPTURED        |-> "B_COMMITTED_TO_GBA",
     B_COMMITTED_TO_GBA    |-> "SWITCH_STAGE2_STARTED",
     SWITCH_STAGE2_STARTED |-> "A_COMMITTED_TO_SWITCH",
     A_COMMITTED_TO_SWITCH |-> "COMPLETE"]

Labels == {"A", "B", "P"}

Places == {"gba", "switch", "broker", "gba (unobserved)",
           "switch (unobserved)", "broker (unverified candidate)"}

NoSlot == -1

\* The classes of errors.py that reach the journal, and the restart text.
Errors == {"none", "restart", "EndpointError", "CommitNotConfirmed",
           "MailNotSupported", "JournalError",
           "PlaceholderMismatch", "RecoveryRequired"}

JournalRecord ==
    [transaction_id    : Nat,
     state             : JournalState,
     sequence          : Nat,
     pokemon           : [Labels -> Mons \cup {NoMon}],
     locations         : [Labels -> Places],
     selected_gba_slot : 0..5 \cup {NoSlot},
     last_error        : Errors,
     history           : Seq(JournalState)]

\* The value of the journal path when there is no file.
NoRecord == [state |-> "NONE"]

----------------------------------------------------------------------------

\* The record JournalStore.create writes first.
NewRecord(txid, placeholder) ==
    [transaction_id    |-> txid,
     state             |-> "IDLE",
     sequence          |-> 0,
     pokemon           |-> [l \in Labels |-> IF l = "P" THEN placeholder ELSE NoMon],
     locations         |-> [l \in Labels |-> CASE l = "A" -> "gba (unobserved)"
                                              [] l = "B" -> "switch (unobserved)"
                                              [] l = "P" -> "broker"],
     selected_gba_slot |-> NoSlot,
     last_error        |-> "none",
     history           |-> <<"IDLE">>]

\* JournalStore.transition accepts the update: the checks of lines 151-168,
\* all made before anything is assigned.  pokemon is the resulting table.
LegalTransition(record, new_state, pokemon, slot) ==
    /\ new_state # "RECOVERY_REQUIRED" =>
           /\ record.state \in DOMAIN NEXT_STATE
           /\ NEXT_STATE[record.state] = new_state
    /\ Open(record)
    /\ \A l \in Labels : record.pokemon[l] # NoMon => pokemon[l] = record.pokemon[l]
    /\ slot # NoSlot => slot \in 0..5

\* Mutant: no history entry.
TransitionedUnlogged(record, new_state, pokemon, locations, slot, error) ==
    [record EXCEPT !.state = new_state, !.sequence = @ + 1, !.pokemon = pokemon,
                   !.locations = locations, !.last_error = error,
                   !.selected_gba_slot = IF slot # NoSlot THEN slot ELSE @]

\* The in-memory record after the assignments of lines 170-183.
Transitioned(record, new_state, pokemon, locations, slot, error) ==
    [transaction_id    |-> record.transaction_id,
     state             |-> new_state,
     sequence          |-> record.sequence + 1,
     pokemon           |-> pokemon,
     locations         |-> locations,
     selected_gba_slot |-> IF slot # NoSlot THEN slot ELSE record.selected_gba_slot,
     last_error        |-> error,
     history           |-> Append(record.history, new_state)]

\* Mutant: the stop is not recorded.
NotStopped(record, error) == record

\* The update that stops a transaction; everything known is kept.
Stopped(record, error) ==
    Transitioned(record, "RECOVERY_REQUIRED", record.pokemon, record.locations,
                 NoSlot, error)

\* The last state before a stop: what docs/recovery.md tabulates.
LastState(record) ==
    IF record.state = "RECOVERY_REQUIRED"
    THEN record.history[Len(record.history) - 1]
    ELSE record.state

----------------------------------------------------------------------------

\* An audit trail: one entry per sequence number, from IDLE along NEXT_STATE,
\* with a stop only at the end.
IsTrail(record) ==
    /\ Len(record.history) = record.sequence + 1
    /\ record.history[1] = "IDLE"
    /\ record.history[Len(record.history)] = record.state
    /\ \A i \in 1..record.sequence :
          /\ record.history[i] \in DOMAIN NEXT_STATE
          /\ record.history[i + 1] \in {NEXT_STATE[record.history[i]], "RECOVERY_REQUIRED"}

\* Each hash of the record belongs to one of the artifact files.
Evidenced(record, files) ==
    \A l \in Labels :
        record.pokemon[l] # NoMon => <<record.transaction_id, l, record.pokemon[l]>> \in files

Documented(record, files) ==
    record \in JournalRecord /\ IsTrail(record) /\ Evidenced(record, files)

\* The states a record has gone through, a stop left out.
Steps(record) ==
    Len(record.history) - (IF record.state = "RECOVERY_REQUIRED" THEN 1 ELSE 0)

\* next is record, or a later version of it: it went through the same states
\* first and has every hash that record has.  A stop adds only itself, so two
\* records that went through the same states say the same.
Continues(record, next) ==
    /\ Steps(record) <= Steps(next)
    /\ \A i \in 1..Steps(record) : next.history[i] = record.history[i]
    /\ \A l \in Labels : record.pokemon[l] # NoMon => next.pokemon[l] = record.pokemon[l]
    /\ Steps(record) = Steps(next) =>
          /\ next.pokemon = record.pokemon /\ next.locations = record.locations
          /\ next.selected_gba_slot = record.selected_gba_slot

=============================================================================
