-------------------------- MODULE TradeCoordinator --------------------------
(***************************************************************************)
(* TradeCoordinator.execute of broker/transaction.py with the JournalStore *)
(* it writes through, the endpoints it calls, the consoles behind them and *)
(* the operator: one broker process that may fail, be killed or lose power *)
(* at any step and be started again.                                       *)
(*                                                                         *)
(* The ground truth is owner: who really holds each Pokemon.  The process  *)
(* never reads it.  An endpoint call arms the console with the offered     *)
(* record; the swap happens later, and may happen after the call raised or *)
(* the process died.                                                       *)
(***************************************************************************)
EXTENDS Journal

CONSTANTS
    GbaMons,         \* on the GBA at first
    SwitchMons,      \* on the Switch at first
    BrokerMons,      \* placeholders the operator holds at first
    MailMons,        \* the records for which holds_mail is true
    Slots,           \* party slots the GBA endpoint may report
    LinkCloses,      \* values of GbaTradeResult.link_closed
    WriteOutcomes,   \* how _atomic_bytes may end
    MaxTransactions  \* bound: journals created in one behaviour

ASSUME PartiesAssumption ==
    /\ GbaMons \cup SwitchMons \cup BrokerMons = Mons
    /\ GbaMons \cap SwitchMons = {}
    /\ GbaMons \cap BrokerMons = {}
    /\ SwitchMons \cap BrokerMons = {}
ASSUME MailAssumption == MailMons \subseteq Mons
ASSUME SlotsAssumption == Slots \subseteq Nat
ASSUME LinkAssumption == LinkCloses \subseteq BOOLEAN
ASSUME OutcomesAssumption ==
    /\ WriteOutcomes \subseteq {"ok", "fail_before", "fail_after"}
    /\ "ok" \in WriteOutcomes
ASSUME BoundAssumption == MaxTransactions \in Nat \ {0}

VARIABLES
    (* the process *)
    pc,          \* where execute is; "down" when no process runs
    record,      \* the in-memory JournalRecord, mutated by transition
    mon,         \* execute's local records
    slot,        \* gba_result.selected_slot
    connected,   \* gba_connected and switch_connected
    exc,         \* the exception being handled, "none" if none
    exit,        \* how the last process ended
    (* the file system *)
    disk,        \* what the journal path shows
    survivors,   \* what it may show after a power loss
    artifacts,   \* artifact files: <<transaction, label, record>>
    synced,      \* those with a durable entry in their directory
    txs,         \* transactions created so far
    settled,     \* those up to here have a durable directory, or have lost it
    (* the consoles *)
    owner,       \* who really holds each record
    armed,       \* the record an endpoint has on offer, per console
    gave,        \* what the console handed over in the current call
    (* observation only *)
    confirmed    \* records received with confirmed commit, this transaction

processVars == <<pc, record, mon, slot, connected, exc, exit>>
fileVars    == <<disk, survivors, artifacts, synced, txs, settled>>
consoleVars == <<owner, armed, gave>>
vars        == <<processVars, fileVars, consoleVars, confirmed>>

Consoles == {"gba", "switch"}
Holders  == {"gba", "switch", "broker"}
Locals   == {"placeholder", "b_mon", "a_mon", "returned"}
Exits    == {"none", "complete", "error", "recovery", "killed"}

ControlPoints ==
    {"down", "require", "loaded", "create_artifact", "create_write", "connect_switch",
     "connect_gba", "start1", "menu1", "trade1", "artifact_b", "captured_b",
     "placed", "start_gba", "offer_gba", "trade_gba", "artifact_a",
     "captured_a", "committed_b", "start2", "menu2", "trade2", "artifact_p",
     "committed_a", "verify", "complete", "recover", "closing"}

NoLocals == [l \in Locals |-> NoMon]
NoOffer  == [c \in Consoles |-> NoMon]

TypeOK ==
    /\ pc \in ControlPoints
    /\ record \in JournalRecord \cup {NoRecord}
    /\ mon \in [Locals -> Mons \cup {NoMon}]
    /\ slot \in 0..5 \cup {NoSlot}
    /\ connected \subseteq Consoles
    /\ exc \in Errors
    /\ exit \in Exits
    /\ disk \in JournalRecord \cup {NoRecord}
    /\ survivors \subseteq JournalRecord \cup {NoRecord}
    /\ artifacts \subseteq Nat \X {"A", "B", "P", "P_RETURNED"} \X Mons
    /\ synced \subseteq artifacts
    /\ txs \in Nat
    /\ settled \in Nat
    /\ owner \in [Mons -> Holders]
    /\ armed \in [Consoles -> Mons \cup {NoMon}]
    /\ gave \in [Consoles -> Mons \cup {NoMon}]
    /\ confirmed \subseteq Mons

Init ==
    /\ pc = "down" /\ record = NoRecord /\ mon = NoLocals /\ slot = NoSlot
    /\ connected = {} /\ exc = "none" /\ exit = "none"
    /\ disk = NoRecord /\ survivors = {NoRecord}
    /\ artifacts = {} /\ synced = {} /\ txs = 0 /\ settled = 0
    /\ owner = [m \in Mons |-> CASE m \in GbaMons    -> "gba"
                                 [] m \in SwitchMons -> "switch"
                                 [] OTHER            -> "broker"]
    /\ armed = NoOffer /\ gave = NoOffer
    /\ confirmed = {}

----------------------------------------------------------------------------
(***************************************************************************)
(* Files.  _atomic_bytes writes and syncs a temporary file, renames it     *)
(* over the path and syncs the directory.  It raises JournalError before   *)
(* the rename (nothing visible changed) or after it (the new content is    *)
(* visible, but a power loss may still bring an older one back).           *)
(***************************************************************************)

WriteJournal(r, outcome) ==
    /\ disk' = IF outcome = "fail_before" THEN disk ELSE r
    /\ survivors' = CASE outcome = "ok"          -> {r}
                      [] outcome = "fail_before" -> survivors
                      [] OTHER                   -> survivors \cup {r}

\* Mutant: the transaction's directory is not synced after the rename.
UnsyncedArtifact(a, outcome) ==
    /\ artifacts' = IF outcome = "fail_before" THEN artifacts ELSE artifacts \cup {a}
    /\ synced' = synced

\* save_artifact: the file and its entry in artifacts/<transaction_id> are
\* synced.  The entry of that directory in its own parent never is.
WriteArtifact(a, outcome) ==
    /\ artifacts' = IF outcome = "fail_before" THEN artifacts ELSE artifacts \cup {a}
    /\ synced' = IF outcome = "ok" THEN synced \cup {a} ELSE synced

(***************************************************************************)
(* Leaving the try block of execute with exception e, or going on.         *)
(***************************************************************************)
Raise(e) == pc' = "recover" /\ exc' = e

Continue(next) == pc' = next /\ UNCHANGED exc

\* Leaving the process altogether: main maps the exception to an exit code.
ExitCode(e) ==
    CASE e = "none"                                        -> "complete"
      [] e \in {"RecoveryRequired", "PlaceholderMismatch"} -> "recovery"
      [] OTHER                                             -> "error"

Gone ==
    /\ pc' = "down" /\ record' = NoRecord /\ mon' = NoLocals /\ slot' = NoSlot
    /\ connected' = {} /\ exc' = "none"

Exit(e) == Gone /\ exit' = ExitCode(e)

----------------------------------------------------------------------------
(***************************************************************************)
(* Process start: refuse_mail, require_new_transaction and create, all     *)
(* outside the try block.                                                  *)
(***************************************************************************)

\* The operator runs the CLI.  She may run it again whatever the journal
\* says; for a new transaction the placeholder is really hers to give.
Start(p) ==
    /\ pc = "down"
    /\ disk = NoRecord => owner[p] = "broker" /\ txs < MaxTransactions
    /\ IF p \in MailMons
       THEN Exit("MailNotSupported")
       ELSE /\ pc' = "require" /\ exit' = "none"
            /\ mon' = [NoLocals EXCEPT !["placeholder"] = p]
            /\ UNCHANGED <<record, slot, connected, exc>>
    /\ UNCHANGED <<fileVars, consoleVars, confirmed>>

NoJournalFound ==
    /\ pc = "require"
    /\ disk = NoRecord
    /\ pc' = "create_artifact"
    /\ UNCHANGED <<record, mon, slot, connected, exc, exit, fileVars, consoleVars, confirmed>>

\* load: what follows is decided on, and made from, the record in memory.
LoadJournal ==
    /\ pc = "require"
    /\ disk # NoRecord
    /\ pc' = "loaded" /\ record' = disk
    /\ UNCHANGED <<mon, slot, connected, exc, exit, fileVars, consoleVars, confirmed>>

\* A journal that is not terminal is stopped; the process never resumes it.
StopIncomplete(outcome) ==
    /\ pc = "loaded"
    /\ Open(record)
    /\ WriteJournal(Stopped(record, "restart"), outcome)
    /\ Exit(IF outcome = "ok" THEN "RecoveryRequired" ELSE "JournalError")
    /\ UNCHANGED <<artifacts, synced, txs, settled, consoleVars, confirmed>>

TerminalFound ==
    /\ pc = "loaded"
    /\ ~Open(record)
    /\ Exit("RecoveryRequired")
    /\ UNCHANGED <<fileVars, consoleVars, confirmed>>

\* create tests the path once more.  Only another process can have made it
\* appear, so this is a step of JournalSharing and not of Process.
JournalAppeared ==
    /\ pc = "create_artifact"
    /\ disk # NoRecord
    /\ Exit("RecoveryRequired")
    /\ UNCHANGED <<fileVars, consoleVars, confirmed>>

\* Mutant: the transaction id comes from the journal's path.
CreateArtifactNamed(outcome) ==
    /\ pc = "create_artifact"
    /\ disk = NoRecord
    /\ txs' = txs + 1
    /\ WriteArtifact(<<1, "P", mon["placeholder"]>>, outcome)
    /\ IF outcome = "ok"
       THEN /\ pc' = "create_write"
            /\ record' = NewRecord(1, mon["placeholder"])
            /\ confirmed' = {}
            /\ UNCHANGED <<mon, slot, connected, exc, exit>>
       ELSE Exit("JournalError") /\ UNCHANGED confirmed
    /\ UNCHANGED <<disk, survivors, settled, consoleVars>>

\* create saves P under a fresh transaction id before the journal names it.
CreateArtifact(outcome) ==
    /\ pc = "create_artifact"
    /\ disk = NoRecord
    /\ txs' = txs + 1
    /\ WriteArtifact(<<txs + 1, "P", mon["placeholder"]>>, outcome)
    /\ IF outcome = "ok"
       THEN /\ pc' = "create_write"
            /\ record' = NewRecord(txs + 1, mon["placeholder"])
            /\ confirmed' = {}
            /\ UNCHANGED <<mon, slot, connected, exc, exit>>
       ELSE Exit("JournalError") /\ UNCHANGED confirmed
    /\ UNCHANGED <<disk, survivors, settled, consoleVars>>

CreateWrite(outcome) ==
    /\ pc = "create_write"
    /\ WriteJournal(record, outcome)
    /\ IF outcome = "ok"
       THEN pc' = "connect_switch" /\ UNCHANGED <<record, mon, slot, connected, exc, exit>>
       ELSE Exit("JournalError")
    /\ UNCHANGED <<artifacts, synced, txs, settled, consoleVars, confirmed>>

----------------------------------------------------------------------------
(***************************************************************************)
(* The shapes of the steps inside the try block.                           *)
(***************************************************************************)

\* Mutant: a failed write is only logged.
ProceedAnyhow(outcome, next) == Continue(next)

\* After a write that ended with outcome.
Proceed(outcome, next) ==
    IF outcome = "ok" THEN Continue(next) ELSE Raise("JournalError")

\* self.journal.transition: the in-memory record changes even if the write
\* then fails.
Persist(at, new_state, pokemon, locations, newSlot, next, outcome) ==
    /\ pc = at
    /\ IF LegalTransition(record, new_state, pokemon, newSlot)
       THEN LET r == Transitioned(record, new_state, pokemon, locations, newSlot, "none")
            IN  /\ record' = r
                /\ WriteJournal(r, outcome)
                /\ Proceed(outcome, next)
       ELSE Raise("JournalError") /\ UNCHANGED <<record, disk, survivors>>
    /\ UNCHANGED <<mon, slot, connected, exit, artifacts, synced, txs, settled, consoleVars,
                   confirmed>>

SaveArtifact(at, label, m, next, outcome) ==
    /\ pc = at
    /\ WriteArtifact(<<record.transaction_id, label, m>>, outcome)
    /\ Proceed(outcome, next)
    /\ UNCHANGED <<record, mon, slot, connected, exit, disk, survivors, txs, settled, consoleVars,
                   confirmed>>

Connect(at, console, next) ==
    /\ pc = at
    /\ connected' = connected \cup {console}
    /\ Continue(next)
    /\ UNCHANGED <<record, mon, slot, exit, fileVars, consoleVars, confirmed>>

\* trade_once refuses Mail and hands the offer to the console.
Offer(at, console, m, next) ==
    /\ pc = at
    /\ IF m \in MailMons
       THEN Raise("MailNotSupported") /\ UNCHANGED <<armed, gave>>
       ELSE /\ Continue(next)
            /\ armed' = [armed EXCEPT ![console] = m]
            /\ gave' = [gave EXCEPT ![console] = NoMon]
    /\ UNCHANGED <<record, mon, slot, connected, exit, fileVars, owner, confirmed>>

\* What trade_once may return.  An endpoint that confirms the commit of the
\* expected offer is trusted; nothing else it says is.
TradeResult(console, offer) ==
    {r \in [offered_mon : Mons, received_mon : Mons, commit_confirmed : BOOLEAN] :
        r.offered_mon = offer /\ r.commit_confirmed => gave[console] = r.received_mon}

GbaTradeResult(offer) ==
    {r \in [offered_mon : Mons, received_mon : Mons, commit_confirmed : BOOLEAN,
            selected_slot : Slots, link_closed : LinkCloses] :
        r.offered_mon = offer /\ r.commit_confirmed => gave["gba"] = r.received_mon}

\* The first error of two checks made in order.
OrElse(e1, e2) == IF e1 # "none" THEN e1 ELSE e2

\* if failed: raise error
Check(failed, error) == IF failed THEN error ELSE "none"

\* Mutant: commit_confirmed is not looked at.
OfferError(result, expected_offer) ==
    Check(result.offered_mon # expected_offer, "EndpointError")

\* _validate_result: the exception it raises.
ResultError(result, expected_offer) ==
    OrElse(Check(result.offered_mon # expected_offer, "EndpointError"),
           Check(~result.commit_confirmed, "CommitNotConfirmed"))

\* Mutant: the slot is not looked at.
GbaLinkError(result, expected_offer) ==
    OrElse(ResultError(result, expected_offer),
           Check(~result.link_closed, "CommitNotConfirmed"))

\* _validate_gba_result.
GbaResultError(result, expected_offer) ==
    OrElse(ResultError(result, expected_offer),
           OrElse(Check(result.selected_slot \notin 0..5, "EndpointError"),
                  Check(~result.link_closed, "CommitNotConfirmed")))

\* The endpoint's answer: remember confirmed commits, then go on or raise.
Receive(result, expected_offer, error, local, next) ==
    /\ confirmed' = IF ResultError(result, expected_offer) = "none"
                    THEN confirmed \cup {result.received_mon}
                    ELSE confirmed
    /\ IF error = "none"
       THEN Continue(next) /\ mon' = [mon EXCEPT ![local] = result.received_mon]
       ELSE Raise(error) /\ UNCHANGED mon

\* refuse_mail on a received record, after its commit was confirmed.
MailError(m) == Check(m \in MailMons, "MailNotSupported")

\* Any endpoint call may raise: disconnect, timeout, protocol error.
EndpointRaises ==
    /\ pc \in {"connect_switch", "connect_gba", "menu1", "trade1", "trade_gba",
               "menu2", "trade2"}
    /\ Raise("EndpointError")
    /\ UNCHANGED <<record, mon, slot, connected, exit, fileVars, consoleVars, confirmed>>

----------------------------------------------------------------------------
(***************************************************************************)
(* execute, in program order.                                              *)
(***************************************************************************)

ConnectSwitch == Connect("connect_switch", "switch", "connect_gba")
ConnectGba    == Connect("connect_gba", "gba", "start1")

StartStage1(outcome) ==
    Persist("start1", "SWITCH_STAGE1_STARTED", record.pokemon, record.locations,
            NoSlot, "menu1", outcome)

OfferPlaceholder == Offer("menu1", "switch", mon["placeholder"], "trade1")

Switch1Returns ==
    /\ pc = "trade1"
    /\ \E r \in TradeResult("switch", mon["placeholder"]) :
           Receive(r, mon["placeholder"],
                   OrElse(ResultError(r, mon["placeholder"]), MailError(r.received_mon)),
                   "b_mon", "artifact_b")
    /\ UNCHANGED <<record, slot, connected, exit, fileVars, consoleVars>>

SaveB(outcome) == SaveArtifact("artifact_b", "B", mon["b_mon"], "captured_b", outcome)

CaptureB(outcome) ==
    Persist("captured_b", "SWITCH_B_CAPTURED",
            [record.pokemon EXCEPT !["B"] = mon["b_mon"]],
            [record.locations EXCEPT !["B"] = "broker", !["P"] = "switch"],
            NoSlot, "placed", outcome)

RecordPlaced(outcome) ==
    Persist("placed", "PLACEHOLDER_ON_SWITCH", record.pokemon, record.locations,
            NoSlot, "start_gba", outcome)

StartGba(outcome) ==
    Persist("start_gba", "GBA_STAGE_STARTED", record.pokemon, record.locations,
            NoSlot, "offer_gba", outcome)

OfferB == Offer("offer_gba", "gba", mon["b_mon"], "trade_gba")

GbaReturns ==
    /\ pc = "trade_gba"
    /\ \E r \in GbaTradeResult(mon["b_mon"]) :
           LET error == OrElse(GbaResultError(r, mon["b_mon"]), MailError(r.received_mon))
           IN  /\ Receive(r, mon["b_mon"], error, "a_mon", "artifact_a")
               /\ slot' = IF error = "none" THEN r.selected_slot ELSE slot
    /\ UNCHANGED <<record, connected, exit, fileVars, consoleVars>>

SaveA(outcome) == SaveArtifact("artifact_a", "A", mon["a_mon"], "captured_a", outcome)

CaptureA(outcome) ==
    Persist("captured_a", "GBA_A_CAPTURED",
            [record.pokemon EXCEPT !["A"] = mon["a_mon"]],
            [record.locations EXCEPT !["A"] = "broker", !["B"] = "gba"],
            slot, "committed_b", outcome)

RecordCommittedB(outcome) ==
    Persist("committed_b", "B_COMMITTED_TO_GBA", record.pokemon, record.locations,
            NoSlot, "start2", outcome)

StartStage2(outcome) ==
    Persist("start2", "SWITCH_STAGE2_STARTED", record.pokemon, record.locations,
            NoSlot, "menu2", outcome)

\* Mutant: the wrong local.
OfferBAgain == Offer("menu2", "switch", mon["b_mon"], "trade2")

OfferA == Offer("menu2", "switch", mon["a_mon"], "trade2")

Switch2Returns ==
    /\ pc = "trade2"
    /\ \E r \in TradeResult("switch", mon["a_mon"]) :
           Receive(r, mon["a_mon"], ResultError(r, mon["a_mon"]), "returned", "artifact_p")
    /\ UNCHANGED <<record, slot, connected, exit, fileVars, consoleVars>>

SaveReturned(outcome) ==
    SaveArtifact("artifact_p", "P_RETURNED", mon["returned"], "committed_a", outcome)

CommitA(outcome) ==
    Persist("committed_a", "A_COMMITTED_TO_SWITCH", record.pokemon,
            [record.locations EXCEPT !["A"] = "switch", !["B"] = "gba",
                                     !["P"] = "broker (unverified candidate)"],
            NoSlot, "verify", outcome)

\* Mutant: any record will do.
NoPlaceholderError == "none"

PlaceholderError == Check(mon["returned"] # mon["placeholder"], "PlaceholderMismatch")

VerifyPlaceholder ==
    /\ pc = "verify"
    /\ IF PlaceholderError = "none" THEN Continue("complete") ELSE Raise(PlaceholderError)
    /\ UNCHANGED <<record, mon, slot, connected, exit, fileVars, consoleVars, confirmed>>

Complete(outcome) ==
    Persist("complete", "COMPLETE", record.pokemon,
            [record.locations EXCEPT !["P"] = "broker"],
            NoSlot, "closing", outcome)

\* _mark_recovery: a failed write is logged and the exception goes on.
MarkRecovery(outcome) ==
    /\ pc = "recover"
    /\ pc' = "closing"
    /\ IF Open(record)
       THEN /\ record' = Stopped(record, exc)
            /\ WriteJournal(Stopped(record, exc), outcome)
       ELSE UNCHANGED <<record, disk, survivors>>
    /\ UNCHANGED <<mon, slot, connected, exc, exit, artifacts, synced, txs, settled, consoleVars,
                   confirmed>>

\* The finally block, then the return or the re-raised exception.
Close ==
    /\ pc = "closing"
    /\ Exit(exc)
    /\ UNCHANGED <<fileVars, consoleVars, confirmed>>

----------------------------------------------------------------------------
(***************************************************************************)
(* The consoles, failures and the operator.                                *)
(***************************************************************************)

\* A console swaps the record on offer for one of its own.
Swap(console, m) ==
    /\ armed[console] # NoMon
    /\ owner[m] = console
    /\ owner' = [owner EXCEPT ![m] = "broker", ![armed[console]] = console]
    /\ armed' = [armed EXCEPT ![console] = NoMon]
    /\ gave' = [gave EXCEPT ![console] = m]
    /\ UNCHANGED <<processVars, fileVars, confirmed>>

\* The process is killed, or interrupted by an exception execute does not
\* catch; open files keep what was renamed.
Crash ==
    /\ pc # "down"
    /\ Gone /\ exit' = "killed"
    /\ UNCHANGED <<fileVars, consoleVars, confirmed>>

\* A power loss takes any artifact whose entry is not durable, and any
\* transaction's directory made since the last one, with all that is in it.
PowerLoss ==
    /\ Gone /\ exit' = "killed"
    /\ disk' \in survivors
    /\ survivors' = {disk'}
    /\ \E lost \in SUBSET (artifacts \ synced), dirs \in SUBSET ((settled + 1)..txs) :
          artifacts' = {a \in artifacts \ lost : a[1] \notin dirs}
    /\ synced' = artifacts'
    /\ settled' = txs
    /\ UNCHANGED <<txs, consoleVars, confirmed>>

\* The operator reconciles a stopped or finished transaction, ends both
\* sessions and moves the journal away.
Archive ==
    /\ pc = "down"
    /\ disk # NoRecord
    /\ ~Open(disk)
    /\ disk' = NoRecord /\ survivors' = {NoRecord}
    /\ armed' = NoOffer /\ gave' = NoOffer
    /\ exit' = "none"
    /\ UNCHANGED <<pc, record, mon, slot, connected, exc, artifacts, synced, txs, settled, owner,
                   confirmed>>

----------------------------------------------------------------------------

Journaling(outcome) ==
    \/ StartStage1(outcome) \/ CaptureB(outcome) \/ RecordPlaced(outcome)
    \/ StartGba(outcome) \/ CaptureA(outcome) \/ RecordCommittedB(outcome)
    \/ StartStage2(outcome) \/ CommitA(outcome) \/ Complete(outcome)

Writing(outcome) ==
    \/ StopIncomplete(outcome) \/ CreateArtifact(outcome) \/ CreateWrite(outcome)
    \/ SaveB(outcome) \/ SaveA(outcome) \/ SaveReturned(outcome)
    \/ MarkRecovery(outcome) \/ Journaling(outcome)

Calling ==
    \/ ConnectSwitch \/ ConnectGba \/ OfferPlaceholder \/ OfferB \/ OfferA
    \/ Switch1Returns \/ GbaReturns \/ Switch2Returns \/ EndpointRaises

Process ==
    \/ NoJournalFound \/ LoadJournal \/ TerminalFound \/ VerifyPlaceholder \/ Close \/ Calling
    \/ \E outcome \in WriteOutcomes : Writing(outcome)

Environment ==
    \/ \E p \in Mons : Start(p)
    \/ \E c \in Consoles, m \in Mons : Swap(c, m)
    \/ Crash \/ PowerLoss \/ Archive

Next == Process \/ Environment

Spec == Init /\ [][Next]_vars

(***************************************************************************)
(* Fairness.  The process keeps running and the disk keeps answering.  The *)
(* GBA endpoint bounds every wait by a timeout; the Switch driver promises *)
(* none, so the steps that wait for it are not assumed to happen.  The     *)
(* operator restarts a dead broker; not every process is killed before it  *)
(* has looked at the journal, and not every write fails.                   *)
(***************************************************************************)
SwitchWait == {"connect_switch", "menu1", "trade1", "menu2", "trade2"}

Fairness ==
    /\ WF_vars(pc \notin SwitchWait /\ Process)
    /\ WF_vars(\E p \in Mons \ MailMons : Start(p))
    /\ SF_vars(LoadJournal) /\ SF_vars(StopIncomplete("ok"))

FairSpec == Spec /\ Fairness

----------------------------------------------------------------------------
(***************************************************************************)
(* Properties.                                                             *)
(***************************************************************************)

\* The journals an operator may ever find, now or after a power loss.
Journals == survivors \ {NoRecord}

\* docs/recovery.md: the labels whose whereabouts the last state leaves open.
InDoubt(state) ==
    CASE state = "SWITCH_STAGE1_STARTED" -> {"P"}
      [] state = "GBA_STAGE_STARTED"     -> {"B"}
      [] state = "SWITCH_STAGE2_STARTED" -> {"A", "P"}
      [] state = "A_COMMITTED_TO_SWITCH" -> {"P"}
      [] OTHER                           -> {}

StageConsole(state) == IF state = "GBA_STAGE_STARTED" THEN "gba" ELSE "switch"

\* Where a journal lets the operator look for the record labelled l.
Whereabouts(r, l) ==
    IF l \in InDoubt(LastState(r))
    THEN {"broker", StageConsole(LastState(r))}
    ELSE {r.locations[l]}

\* Whatever failed and whenever it failed, each hash in a journal that may be
\* found names a record that really is where the journal says, or, for the
\* trade its last state leaves open, on one of the two sides of that trade.
RecoveryTableHolds ==
    \A r \in Journals : \A l \in Labels :
        r.pokemon[l] # NoMon => owner[r.pokemon[l]] \in Whereabouts(r, l)

\* The broker only ever offers what it holds, and offers it to one console
\* only: no interleaving of failures, late swaps and restarts makes execute
\* trade a record away twice (transaction.py, trade_once calls).
OffersWhatItHolds ==
    /\ \A c \in Consoles : armed[c] # NoMon => owner[armed[c]] = "broker"
    /\ \E c \in Consoles : armed[c] = NoMon

\* A power loss took the directory with the transaction's artifacts.
DirectoryLost(txid) == txid <= settled /\ \A a \in artifacts : a[1] # txid

\* save_artifact precedes the transition that names the hash: whatever fails,
\* a journal that may be found has the bytes of every record it names, and no
\* power loss can take some of them.  It can only take all of them at once,
\* with the directory that save_artifact made and never synced.
EvidenceWhole ==
    \A r \in Journals : Evidenced(r, synced) \/ DirectoryLost(r.transaction_id)

\* Every journal that may be found is an audit trail, although transition
\* mutates the record before a write that may fail.
HistoryIsPath == \A r \in Journals : IsTrail(r)

\* The CLI reports COMPLETE only for a durable COMPLETE journal whose three
\* records are really where the exchange should leave them.
CompleteIsTrue ==
    exit = "complete" =>
        /\ disk.state = "COMPLETE"
        /\ survivors = {disk}
        /\ owner[disk.pokemon["A"]] = "switch"
        /\ owner[disk.pokemon["B"]] = "gba"
        /\ owner[disk.pokemon["P"]] = "broker"

\* The coordinator persists before it initiates an external stage: when a
\* console gets an offer, every journal that may be found already says so.
PersistBeforeTrade ==
    [][\A c \in Consoles :
          armed'[c] \notin {NoMon, armed[c]} =>
              \A r \in survivors :
                  r.state = CASE c = "gba"                     -> "GBA_STAGE_STARTED"
                              [] armed'[c] = r.pokemon["P"] -> "SWITCH_STAGE1_STARTED"
                              [] OTHER                      -> "SWITCH_STAGE2_STARTED"]_vars

\* A durable terminal journal is never changed or resumed by any later
\* process; only the operator takes it away.
TerminalIsFinal ==
    [][(disk.state \in TERMINAL_STATES /\ survivors = {disk})
          => (disk' = disk \/ disk' = NoRecord)]_vars

\* A journal left open by a failure, a crash or a power loss is eventually
\* closed, unless the process is waiting for the Switch driver.
OpenIsResolved ==
    disk.state \in DOMAIN NEXT_STATE
        ~> (disk.state \notin DOMAIN NEXT_STATE \/ pc \in SwitchWait)

\* README.md: the journal and its adjacent artifact directory are the recovery
\* evidence.  So the artifacts of every record that a journal names are there.
\* Violated: the journal survives a power loss, and the directory, which
\* nobody synced into its parent, does not.
EvidenceDurable == \A r \in Journals : Evidenced(r, artifacts)

\* docs/transaction-model.md: any exception leads to RECOVERY_REQUIRED.  So
\* execute never leaves with an exception and a COMPLETE journal, which no
\* later process would turn into RECOVERY_REQUIRED.  Violated: the write of
\* COMPLETE may raise after its rename.
ExceptionNeverComplete ==
    pc = "closing" /\ exc # "none" => disk.state # "COMPLETE"

\* docs/transaction-model.md: the coordinator persists immediately after an
\* endpoint returns commit evidence.  So execute never leaves without the
\* bytes of every record it received that way.  Violated where execute
\* refuses a record, or the link close, after the commit was confirmed.
ConfirmedIsSaved ==
    pc = "closing" =>
        \A m \in confirmed : \E a \in artifacts : a[1] = record.transaction_id /\ a[3] = m

=============================================================================
