--------------------------- MODULE JournalSharing ---------------------------
(***************************************************************************)
(* Two broker processes with the same --journal path.  Nothing in          *)
(* JournalStore keeps them apart: require_new_transaction and create test  *)
(* the path, and transition replaces whatever it shows, without a lock.    *)
(*                                                                         *)
(* Each process is a TradeCoordinator with variables of its own; files and *)
(* consoles are shared.  Both are given one of the operator's placeholders. *)
(***************************************************************************)
EXTENDS Journal

CONSTANTS
    GbaMons, SwitchMons, BrokerMons, MailMons,
    Slots, LinkCloses, WriteOutcomes, MaxTransactions

\* Those of TradeCoordinator.
ASSUME SharingAssumption ==
    /\ GbaMons \cup SwitchMons \cup BrokerMons = Mons
    /\ GbaMons \cap SwitchMons = {} /\ GbaMons \cap BrokerMons = {}
    /\ SwitchMons \cap BrokerMons = {}
    /\ MailMons \subseteq Mons /\ Slots \subseteq Nat /\ LinkCloses \subseteq BOOLEAN
    /\ WriteOutcomes \subseteq {"ok", "fail_before", "fail_after"} /\ "ok" \in WriteOutcomes
    /\ MaxTransactions \in Nat \ {0}

VARIABLES
    pc1, record1, mon1, slot1, connected1, exc1, exit1,
    pc2, record2, mon2, slot2, connected2, exc2, exit2,
    disk, survivors, artifacts, synced, txs, settled,
    owner, armed, gave, confirmed

First == INSTANCE JournalTrail WITH
    pc <- pc1, record <- record1, mon <- mon1, slot <- slot1,
    connected <- connected1, exc <- exc1, exit <- exit1

Second == INSTANCE JournalTrail WITH
    pc <- pc2, record <- record2, mon <- mon2, slot <- slot2,
    connected <- connected2, exc <- exc2, exit <- exit2

first  == <<pc1, record1, mon1, slot1, connected1, exc1, exit1>>
second == <<pc2, record2, mon2, slot2, connected2, exc2, exit2>>
shared == <<disk, survivors, artifacts, synced, txs, settled, owner, armed, gave, confirmed>>
vars   == <<first, second, shared>>

Init == First!Init /\ Second!Init

FirstRuns ==
    /\ \/ First!Process \/ First!JournalAppeared \/ First!Crash
       \/ \E p \in BrokerMons : First!Start(p)
    /\ UNCHANGED second

SecondRuns ==
    /\ \/ Second!Process \/ Second!JournalAppeared \/ Second!Crash
       \/ \E p \in BrokerMons : Second!Start(p)
    /\ UNCHANGED first

Swap ==
    /\ \E c \in First!Consoles, m \in Mons : First!Swap(c, m)
    /\ UNCHANGED second

\* A power loss ends both, and the operator archives when neither runs.
PowerLoss == First!PowerLoss /\ Second!PowerLoss

Archive == First!Archive /\ Second!Archive

Next == FirstRuns \/ SecondRuns \/ Swap \/ PowerLoss \/ Archive

Spec == Init /\ [][Next]_vars

----------------------------------------------------------------------------

\* View: which of two brokers is called the first makes no difference.
EitherOrder == <<{first, second}, shared>>

\* The records of the journals that may be found and of the brokers' memories.
Held == First!Journals \cup First!Own \cup Second!Own

\* However two brokers interleave their reads and writes, the records of one
\* transaction are versions of one trail: of any two, on disk or in memory, one
\* has the other's states and hashes and only goes on from there.  No journal
\* mixes what one broker traded with what the other did, since each writes the
\* whole record from its own memory under an id of its own, and one that loaded
\* the other's record can only stop it.
OneTrail ==
    \A r, q \in Held :
        r.transaction_id = q.transaction_id => Continues(r, q) \/ Continues(q, r)

\* And each journal has all its artifacts or, after a power loss, none of them:
\* the two never replace or borrow each other's files.
OwnEvidence == First!EvidenceWhole

\* The inductive invariant: the files are in order whoever wrote them, each
\* broker holds a record that it may write over whatever is there, and no one
\* else goes on with the transaction that a broker has created.
SharingInvariant ==
    /\ First!FilesKept /\ First!MemoryKept /\ Second!MemoryKept
    /\ First!Chained(Second!Own, Second!Making)

\* docs/transaction-model.md: a restart in a nonterminal state leads to
\* RECOVERY_REQUIRED, which is terminal.  So once a broker has stopped the
\* journal and told the operator so (exit code 2), it stays stopped until she
\* archives it.  Violated: the broker that created the transaction is still
\* alive and replaces the stop by its own next state.
ReportedStopHolds ==
    [][("recovery" \in {exit1, exit2} /\ disk.state = "RECOVERY_REQUIRED")
          => disk'.state \in {"RECOVERY_REQUIRED", "NONE"}]_vars

=============================================================================
