-------------------------- MODULE EscrowRefinement --------------------------
(***************************************************************************)
(* TradeCoordinator implements Escrow: what a journal and the consoles     *)
(* together say of an exchange.                                            *)
(***************************************************************************)
EXTENDS TradeCoordinatorInv

\* Trades that are recorded: the journal's last state says so itself.
TradesRecorded(state) ==
    CASE state \in {"IDLE", "SWITCH_STAGE1_STARTED"}                                      -> 0
      [] state \in {"SWITCH_B_CAPTURED", "PLACEHOLDER_ON_SWITCH", "GBA_STAGE_STARTED"}    -> 1
      [] state \in {"GBA_A_CAPTURED", "B_COMMITTED_TO_GBA", "SWITCH_STAGE2_STARTED"}      -> 2
      [] state \in {"A_COMMITTED_TO_SWITCH", "COMPLETE"}                                  -> 3

\* The record that the trade of a *_STARTED state gives away.
Given(state) ==
    CASE state = "SWITCH_STAGE1_STARTED" -> "P"
      [] state = "GBA_STAGE_STARTED"     -> "B"
      [] state = "SWITCH_STAGE2_STARTED" -> "A"

Started == {"SWITCH_STAGE1_STARTED", "GBA_STAGE_STARTED", "SWITCH_STAGE2_STARTED"}

\* A started trade is made once the record is no longer the broker's.
Turn(state, pk, own) ==
    IF state \in Started /\ own[pk[Given(state)]] # "broker"
    THEN TradesRecorded(state) + 1
    ELSE TradesRecorded(state)

\* The placeholder, and then what the last console gave.
Hand(turn, pk, given) ==
    CASE turn = 0 -> pk["P"]
      [] turn = 2 -> given["gba"]
      [] OTHER    -> given["switch"]

\* Who held what when the exchange began: the trades made in it, undone.
Before(turn, hand, pk, own) ==
    CASE turn = 0 -> own
      [] turn = 1 -> [own EXCEPT ![hand] = "switch", ![pk["P"]] = "broker"]
      [] turn = 2 -> [own EXCEPT ![hand] = "gba", ![pk["B"]] = "switch", ![pk["P"]] = "broker"]
      [] OTHER    -> [own EXCEPT ![hand] = "switch", ![pk["A"]] = "gba", ![pk["B"]] = "switch",
                                 ![pk["P"]] = "broker"]

\* The exchange that a journal r stands for.
Exchange(r, own, given) ==
    IF r = NoRecord
    THEN [placeholder |-> NoMon, turn |-> 0, hand |-> NoMon, before |-> own]
    ELSE LET turn == Turn(LastState(r), r.pokemon, own)
             hand == Hand(turn, r.pokemon, given)
         IN  [placeholder |-> r.pokemon["P"], turn |-> turn, hand |-> hand,
              before |-> Before(turn, hand, r.pokemon, own)]

Broker == INSTANCE Escrow WITH
    InitialOwner <- [m \in Mons |-> CASE m \in GbaMons    -> "gba"
                                      [] m \in SwitchMons -> "switch"
                                      [] OTHER            -> "broker"],
    placeholder  <- Exchange(disk, owner, gave).placeholder,
    turn         <- Exchange(disk, owner, gave).turn,
    hand         <- Exchange(disk, owner, gave).hand,
    done         <- disk.state = "COMPLETE" /\ survivors = {disk},
    before       <- Exchange(disk, owner, gave).before

\* Whatever fails and whenever it fails, the broker trades as Escrow does: one
\* record in hand, passed on once to the next console, and an exchange that is
\* durably COMPLETE has brought the placeholder back, made one record of each
\* player the other's and left every other record where it was.
ImplementsEscrow == Broker!Spec

----------------------------------------------------------------------------

\* The journals that may be found, and the one about to be written.
Known == Journals \cup (IF pc = "recover" THEN {record} ELSE {})

\* What a journal in state s with the hashes pk says a console gave last.
Handed(s, pk, given) ==
    /\ s \in {"SWITCH_B_CAPTURED", "PLACEHOLDER_ON_SWITCH", "GBA_STAGE_STARTED"} =>
          given["switch"] = pk["B"]
    /\ s \in {"GBA_A_CAPTURED", "B_COMMITTED_TO_GBA", "SWITCH_STAGE2_STARTED"} =>
          given["gba"] = pk["A"]
    /\ s = "COMPLETE" => given["switch"] = pk["P"]

\* What execute took from a console is what that console gave.
Received ==
    /\ pc \in {"artifact_b", "captured_b"} => gave["switch"] = mon["b_mon"]
    /\ pc \in {"artifact_a", "captured_a"} => gave["gba"] = mon["a_mon"]
    /\ pc \in {"artifact_p", "committed_a", "verify", "complete"} =>
          gave["switch"] = mon["returned"]

\* Whichever journal a failure leaves, it stands for the same exchange, and
\* the record it would pass on next is the one a console really gave.
EscrowInvariant ==
    /\ \A r, q \in Known : Exchange(r, owner, gave) = Exchange(q, owner, gave)
    /\ \A r \in Known : Handed(LastState(r), r.pokemon, gave)
    /\ disk = NoRecord => survivors = {NoRecord} /\ pc # "recover"
    /\ Received

=============================================================================
