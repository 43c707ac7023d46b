------------------------ MODULE TradeCoordinatorInv ------------------------
(***************************************************************************)
(* The inductive invariant behind the safety properties of                 *)
(* TradeCoordinator: what each journal implies about the consoles, and     *)
(* what execute knows at each of its steps.                                *)
(***************************************************************************)
EXTENDS TradeCoordinator

\* Steps of the try block, by the journal state they run under.
UnderIdle    == {"connect_switch", "connect_gba", "start1"}
UnderStage1  == {"menu1", "trade1", "artifact_b", "captured_b"}
UnderB       == {"placed", "start_gba"}
UnderGba     == {"offer_gba", "trade_gba", "artifact_a", "captured_a"}
UnderA       == {"committed_b", "start2"}
UnderStage2  == {"menu2", "trade2", "artifact_p", "committed_a"}
UnderCommit  == {"verify", "complete"}
TryPoints    == UnderIdle \cup UnderStage1 \cup UnderB \cup UnderGba
                  \cup UnderA \cup UnderStage2 \cup UnderCommit

\* What state s, with the hashes pk, says of the owners own and the offers
\* arm.  An offer may be out only in the three *_STARTED states, and only to
\* that stage's console.
Truth(s, pk, own, arm) ==
    /\ pk["P"] \in Mons
    /\ s \in {"IDLE", "SWITCH_STAGE1_STARTED"} => pk["B"] = NoMon
    /\ s \in {"IDLE", "SWITCH_STAGE1_STARTED", "SWITCH_B_CAPTURED",
              "PLACEHOLDER_ON_SWITCH", "GBA_STAGE_STARTED"} => pk["A"] = NoMon
    /\ s \notin {"IDLE", "SWITCH_STAGE1_STARTED"} => pk["B"] \in Mons
    /\ s \in {"GBA_A_CAPTURED", "B_COMMITTED_TO_GBA", "SWITCH_STAGE2_STARTED",
              "A_COMMITTED_TO_SWITCH", "COMPLETE"} => pk["A"] \in Mons
    /\ s = "IDLE" => arm = NoOffer /\ own[pk["P"]] = "broker"
    /\ s = "SWITCH_STAGE1_STARTED" =>
          /\ arm["gba"] = NoMon
          /\ arm["switch"] \in {NoMon, pk["P"]}
          /\ own[pk["P"]] \in {"broker", "switch"}
    /\ s \in {"SWITCH_B_CAPTURED", "PLACEHOLDER_ON_SWITCH"} =>
          /\ arm = NoOffer
          /\ own[pk["B"]] = "broker" /\ own[pk["P"]] = "switch"
    /\ s = "GBA_STAGE_STARTED" =>
          /\ arm["switch"] = NoMon
          /\ arm["gba"] \in {NoMon, pk["B"]}
          /\ own[pk["B"]] \in {"broker", "gba"} /\ own[pk["P"]] = "switch"
    /\ s \in {"GBA_A_CAPTURED", "B_COMMITTED_TO_GBA"} =>
          /\ arm = NoOffer
          /\ own[pk["A"]] = "broker" /\ own[pk["B"]] = "gba"
          /\ own[pk["P"]] = "switch"
    /\ s = "SWITCH_STAGE2_STARTED" =>
          /\ arm["gba"] = NoMon
          /\ arm["switch"] \in {NoMon, pk["A"]}
          /\ own[pk["A"]] \in {"broker", "switch"} /\ own[pk["B"]] = "gba"
          /\ own[pk["P"]] \in {"broker", "switch"}
    /\ s = "A_COMMITTED_TO_SWITCH" =>
          /\ arm = NoOffer
          /\ own[pk["A"]] = "switch" /\ own[pk["B"]] = "gba"
          /\ own[pk["P"]] \in {"broker", "switch"}
    /\ s = "COMPLETE" =>
          /\ arm = NoOffer
          /\ own[pk["A"]] = "switch" /\ own[pk["B"]] = "gba"
          /\ own[pk["P"]] = "broker"

\* The locations that go with state s, for the labels with a known hash.
Located(s, loc) ==
    /\ s \in {"IDLE", "SWITCH_STAGE1_STARTED"} => loc["P"] = "broker"
    /\ s \in {"SWITCH_B_CAPTURED", "PLACEHOLDER_ON_SWITCH", "GBA_STAGE_STARTED"} =>
          loc["B"] = "broker" /\ loc["P"] = "switch"
    /\ s \in {"GBA_A_CAPTURED", "B_COMMITTED_TO_GBA", "SWITCH_STAGE2_STARTED"} =>
          loc["A"] = "broker" /\ loc["B"] = "gba" /\ loc["P"] = "switch"
    /\ s \in {"A_COMMITTED_TO_SWITCH", "COMPLETE"} =>
          loc["A"] = "switch" /\ loc["B"] = "gba"
    /\ s = "COMPLETE" => loc["P"] = "broker"

\* A record tells the truth, whether it is stored or only in memory.
Truthful(r, own, arm) ==
    /\ Len(r.history) = r.sequence + 1
    /\ r.history[r.sequence + 1] = r.state
    /\ r.state = "RECOVERY_REQUIRED" => r.sequence > 0
    /\ LastState(r) # "RECOVERY_REQUIRED"
    /\ Truth(LastState(r), r.pokemon, own, arm)
    /\ Located(LastState(r), r.locations)

JournalsTruthful == \A r \in Journals : Truthful(r, owner, armed)

FilesAgree ==
    /\ disk \in survivors
    /\ NoRecord \in survivors => armed = NoOffer

\* Between start and the first write: the journal that was read is the one
\* that is there, or there is none and the placeholder is in hand.
BeforeCreate ==
    /\ pc = "loaded" => record \in JournalRecord /\ disk = record
    /\ pc = "require" => mon["placeholder"] \in Mons
    /\ pc \in {"create_artifact", "create_write"} => disk = NoRecord
    /\ pc \in {"require", "create_artifact", "create_write"} /\ disk = NoRecord =>
          owner[mon["placeholder"]] = "broker" /\ mon["placeholder"] \in Mons
    /\ pc = "create_write" =>
          /\ record \in JournalRecord
          /\ Truthful(record, owner, armed)
          /\ record.state = "IDLE" /\ record.pokemon["P"] = mon["placeholder"]

\* Inside the try block memory and disk agree, and the journal state is the
\* one the program text puts there.
InTry ==
    /\ pc \in TryPoints =>
          /\ record \in JournalRecord
          /\ disk = record /\ survivors = {record}
          /\ mon["placeholder"] \in Mons
          /\ record.pokemon["P"] = mon["placeholder"]
    /\ pc \in UnderIdle   => record.state = "IDLE"
    /\ pc \in UnderStage1 => record.state = "SWITCH_STAGE1_STARTED"
    /\ pc = "placed"      => record.state = "SWITCH_B_CAPTURED"
    /\ pc = "start_gba"   => record.state = "PLACEHOLDER_ON_SWITCH"
    /\ pc \in UnderGba    => record.state = "GBA_STAGE_STARTED"
    /\ pc = "committed_b" => record.state = "GBA_A_CAPTURED"
    /\ pc = "start2"      => record.state = "B_COMMITTED_TO_GBA"
    /\ pc \in UnderStage2 => record.state = "SWITCH_STAGE2_STARTED"
    /\ pc \in UnderCommit => record.state = "A_COMMITTED_TO_SWITCH"
    /\ pc \in UnderB \cup UnderGba \cup UnderA \cup UnderStage2 \cup UnderCommit =>
          record.pokemon["B"] = mon["b_mon"]
    /\ pc \in UnderA \cup UnderStage2 \cup UnderCommit =>
          record.pokemon["A"] = mon["a_mon"]

\* An offer is out, or the console has handed a record over for it.
Traded(console, offer, own, arm, given) ==
    \/ arm = offer /\ given = NoMon
    \/ /\ arm = NoMon
       /\ given \in Mons
       /\ own[given] = "broker"
       /\ own[offer] = console

\* What execute knows of the current stage's trade.
TradeKnown ==
    /\ pc \in {"menu1", "offer_gba", "menu2"} => armed = NoOffer
    /\ pc = "menu1" => owner[mon["placeholder"]] = "broker"
    /\ pc = "offer_gba" => owner[mon["b_mon"]] = "broker"
    /\ pc = "menu2" =>
          owner[mon["a_mon"]] = "broker" /\ owner[mon["placeholder"]] = "switch"
    /\ pc = "trade1" => Traded("switch", mon["placeholder"], owner, armed["switch"], gave["switch"])
    /\ pc = "trade_gba" => Traded("gba", mon["b_mon"], owner, armed["gba"], gave["gba"])
    /\ pc = "trade2" => Traded("switch", mon["a_mon"], owner, armed["switch"], gave["switch"])
    /\ pc \in {"artifact_b", "captured_b"} =>
          /\ armed = NoOffer /\ mon["b_mon"] \in Mons
          /\ owner[mon["b_mon"]] = "broker" /\ owner[mon["placeholder"]] = "switch"
    /\ pc \in {"artifact_a", "captured_a"} =>
          /\ armed = NoOffer /\ mon["a_mon"] \in Mons
          /\ owner[mon["a_mon"]] = "broker" /\ owner[mon["b_mon"]] = "gba"
    /\ pc \in {"artifact_p", "committed_a", "verify", "complete"} =>
          /\ armed = NoOffer /\ mon["returned"] \in Mons
          /\ owner[mon["returned"]] = "broker" /\ owner[mon["a_mon"]] = "switch"
    /\ pc = "complete" => mon["returned"] = mon["placeholder"]

\* Leaving execute: the record in memory may be ahead of the journal, never
\* ahead of the truth.
Leaving ==
    /\ pc = "recover" =>
          /\ record \in JournalRecord /\ record.state # "RECOVERY_REQUIRED"
          /\ Truthful(record, owner, armed)
          /\ exc # "none"
          /\ disk.state \in TERMINAL_STATES => record.state \in TERMINAL_STATES
    /\ pc \notin {"recover", "closing"} => exc = "none"
    /\ pc = "closing" /\ exc = "none" =>
          disk # NoRecord /\ survivors = {disk} /\ disk.state = "COMPLETE"
    /\ pc # "down" => exit = "none"
    /\ exit = "complete" =>
          disk # NoRecord /\ survivors = {disk} /\ disk.state = "COMPLETE"

\* The inductive invariant: with it, every step of every actor keeps every
\* journal that may be found truthful about who holds what.
CoordinatorInvariant ==
    /\ TypeOK
    /\ OffersWhatItHolds
    /\ JournalsTruthful
    /\ FilesAgree
    /\ BeforeCreate
    /\ InTry
    /\ TradeKnown
    /\ Leaving

=============================================================================
