------------------------ MODULE JournalSharingProofs ------------------------
(***************************************************************************)
(* Two brokers on one journal path never mix their trails or borrow their  *)
(* evidence: each step is one broker's, which keeps the files in order and *)
(* goes on with its own transaction only (JournalTrail), and takes nothing *)
(* away that the other relies on.                                          *)
(***************************************************************************)
EXTENDS JournalSharing, TLAPS

\* The assumptions of the two instances.
LEMMA InstanceAssumptions ==
    /\ NoMon \notin Mons
    /\ GbaMons \cup SwitchMons \cup BrokerMons = Mons
    /\ GbaMons \cap SwitchMons = {} /\ GbaMons \cap BrokerMons = {}
    /\ SwitchMons \cap BrokerMons = {}
    /\ MailMons \subseteq Mons /\ Slots \subseteq Nat /\ LinkCloses \subseteq BOOLEAN
    /\ WriteOutcomes \subseteq {"ok", "fail_before", "fail_after"} /\ "ok" \in WriteOutcomes
    /\ MaxTransactions \in Nat \ {0}
BY NoMonAssumption, SharingAssumption

\* What a record is does not depend on who looks at it.
LEMMA SameRecords ==
    /\ First!JournalRecord = Second!JournalRecord /\ First!NoRecord = Second!NoRecord
    /\ \A r : First!IsTrail(r) <=> Second!IsTrail(r)
    /\ \A r, files : First!Evidenced(r, files) <=> Second!Evidenced(r, files)
    /\ \A r, q : First!Continues(r, q) <=> Second!Continues(r, q)
    /\ \A r, q : First!Continues(r, q) <=> Continues(r, q)
<1>1. First!JournalRecord = Second!JournalRecord /\ First!NoRecord = Second!NoRecord
  BY DEF First!JournalRecord, First!JournalState, First!Labels, First!Places, First!NoSlot, First!Errors,
         Second!JournalRecord, Second!JournalState, Second!Labels, Second!Places, Second!NoSlot,
         Second!Errors, First!NoRecord, Second!NoRecord
<1>2. ASSUME NEW r
      PROVE  First!IsTrail(r) <=> Second!IsTrail(r)
  BY DEF First!IsTrail, Second!IsTrail, First!NEXT_STATE, Second!NEXT_STATE
<1>3. ASSUME NEW r, NEW files
      PROVE  First!Evidenced(r, files) <=> Second!Evidenced(r, files)
  BY DEF First!Evidenced, Second!Evidenced, First!Labels, Second!Labels
<1>4. ASSUME NEW r, NEW q
      PROVE  /\ First!Continues(r, q) <=> Second!Continues(r, q)
             /\ First!Continues(r, q) <=> Continues(r, q)
  <2>1. /\ First!Steps(r) = Steps(r) /\ Second!Steps(r) = Steps(r)
        /\ First!Steps(q) = Steps(q) /\ Second!Steps(q) = Steps(q)
    BY Zenon DEF Steps, First!Steps, Second!Steps
  <2> QED
    BY <2>1 DEF First!Continues, Second!Continues, Continues, First!Labels, Second!Labels, Labels
<1> QED
  BY <1>1, <1>2, <1>3, <1>4

\* The files are the same to both.
LEMMA FilesAreShared == First!FilesKept <=> Second!FilesKept
BY SameRecords DEF First!FilesKept, Second!FilesKept, First!Recorded, Second!Recorded,
                   First!DirectoryLost, Second!DirectoryLost

\* So is the order of the records that they hold.
LEMMA ChainIsShared ==
    First!Chained(Second!Own, Second!Making) <=> Second!Chained(First!Own, First!Making)
<1>1. First!Journals = Second!Journals
  BY SameRecords DEF First!Journals, Second!Journals
<1> QED
  BY <1>1, SameRecords DEF First!Chained, Second!Chained

\* The transactions a broker goes on with are among those it holds.
LEMMA MadeIsOwn == First!Making \subseteq First!Own /\ Second!Making \subseteq Second!Own
BY DEF First!Making, First!Own, First!Working, Second!Making, Second!Own, Second!Working

\* A step of the first broker: the second does nothing, and its evidence stays.
LEMMA FirstKeeps ==
    ASSUME SharingInvariant, FirstRuns
    PROVE  SharingInvariant'
<1>1. First!TrailInvariant /\ Second!MemoryKept /\ First!Chained(Second!Own, Second!Making)
  BY FilesAreShared, ChainIsShared DEF SharingInvariant, First!TrailInvariant
<1>2. \/ First!Process \/ First!JournalAppeared \/ First!Crash
      \/ \E p \in Mons : First!Start(p)
  BY InstanceAssumptions DEF FirstRuns
<1>3. First!FilesKept' /\ First!MemoryKept' /\ First!Adds
  BY <1>1, <1>2, InstanceAssumptions, First!RunKeepsTrail DEF First!Keeps
<1>4. UNCHANGED <<pc2, record2, mon2, exc2>> /\ settled \in Nat
  BY <1>1 DEF FirstRuns, second, First!TrailInvariant, First!FilesKept
<1>5. Second!MemoryKept'
  <2>1. Second!Adds
    BY <1>3 DEF First!Adds, Second!Adds
  <2> QED
    BY <1>1, <1>4, <2>1, InstanceAssumptions, Second!IdleKeepsMemory
<1>6. First!Chained(Second!Own, Second!Making)'
  <2>1. PICK others, makers : others = Second!Own /\ makers = Second!Making
    OBVIOUS
  <2>2. Second!Own' = others /\ Second!Making' = makers
    BY <1>4, <2>1 DEF Second!Own, Second!Making
  <2>3. makers \subseteq others
    BY <2>1, MadeIsOwn
  <2>4. First!Chained(others, makers)
    BY <1>1, <2>1
  <2>5. First!Moves
    BY <1>1, <1>2, InstanceAssumptions, First!RunMoves
  <2>6. First!Chained(others, makers)'
    BY <2>3, <2>4, <2>5, InstanceAssumptions, First!ChainMoves
  <2> QED
    BY <2>2, <2>6 DEF First!Chained
<1> QED
  BY <1>3, <1>5, <1>6, FilesAreShared, ChainIsShared, PTL DEF SharingInvariant

\* A step of the second broker: the first does nothing, and its evidence stays.
LEMMA SecondKeeps ==
    ASSUME SharingInvariant, SecondRuns
    PROVE  SharingInvariant'
<1>1. Second!TrailInvariant /\ First!MemoryKept /\ Second!Chained(First!Own, First!Making)
  BY FilesAreShared, ChainIsShared DEF SharingInvariant, Second!TrailInvariant
<1>2. \/ Second!Process \/ Second!JournalAppeared \/ Second!Crash
      \/ \E p \in Mons : Second!Start(p)
  BY InstanceAssumptions DEF SecondRuns
<1>3. Second!FilesKept' /\ Second!MemoryKept' /\ Second!Adds
  BY <1>1, <1>2, InstanceAssumptions, Second!RunKeepsTrail DEF Second!Keeps
<1>4. UNCHANGED <<pc1, record1, mon1, exc1>> /\ settled \in Nat
  BY <1>1 DEF SecondRuns, first, Second!TrailInvariant, Second!FilesKept
<1>5. First!MemoryKept'
  <2>1. First!Adds
    BY <1>3 DEF Second!Adds, First!Adds
  <2> QED
    BY <1>1, <1>4, <2>1, InstanceAssumptions, First!IdleKeepsMemory
<1>6. Second!Chained(First!Own, First!Making)'
  <2>1. PICK others, makers : others = First!Own /\ makers = First!Making
    OBVIOUS
  <2>2. First!Own' = others /\ First!Making' = makers
    BY <1>4, <2>1 DEF First!Own, First!Making
  <2>3. makers \subseteq others
    BY <2>1, MadeIsOwn
  <2>4. Second!Chained(others, makers)
    BY <1>1, <2>1
  <2>5. Second!Moves
    BY <1>1, <1>2, InstanceAssumptions, Second!RunMoves
  <2>6. Second!Chained(others, makers)'
    BY <2>3, <2>4, <2>5, InstanceAssumptions, Second!ChainMoves
  <2> QED
    BY <2>2, <2>6 DEF Second!Chained
<1> QED
  BY <1>3, <1>5, <1>6, FilesAreShared, ChainIsShared, PTL DEF SharingInvariant

\* A power loss ends both; the operator and the consoles touch neither's memory.
LEMMA OthersKeep ==
    ASSUME SharingInvariant, Swap \/ PowerLoss \/ Archive \/ UNCHANGED vars
    PROVE  SharingInvariant'
<1>1. /\ First!FilesKept /\ First!MemoryKept /\ Second!FilesKept /\ Second!MemoryKept
      /\ First!Chained(Second!Own, Second!Making) /\ settled \in Nat /\ txs \in Nat
  BY FilesAreShared DEF SharingInvariant, First!FilesKept
<1>2. First!Chained(Second!Own, Second!Making)'
  <2>1. PICK others, makers : others = Second!Own /\ makers = Second!Making
    OBVIOUS
  <2>2. PICK fewer, makers2 : fewer = Second!Own' /\ makers2 = Second!Making'
    OBVIOUS
  <2>3. txs' = txs /\ First!Journals' \subseteq First!Journals
    BY DEF Swap, PowerLoss, Archive, vars, shared, First!Journals, First!Swap, First!PowerLoss,
           First!Archive, First!fileVars
  <2>4. \/ UNCHANGED <<pc1, record1, pc2, record2>>
        \/ pc1' = "down" /\ pc2' = "down"
    BY DEF Swap, PowerLoss, Archive, vars, first, second, First!Swap, First!PowerLoss, First!Gone,
           First!Archive, First!processVars, Second!PowerLoss, Second!Gone, Second!Archive
  <2>5. /\ First!Own' \subseteq First!Own /\ First!Making' \subseteq First!Making
        /\ fewer \subseteq others /\ makers2 \subseteq makers
    BY <2>1, <2>2, <2>4 DEF First!Own, First!Making, Second!Own, Second!Making, First!Working,
                            Second!Working, First!InMemory, Second!InMemory
  <2>6. First!Chained(fewer, makers2)'
    BY <1>1, <2>1, <2>3, <2>5, InstanceAssumptions, First!ChainShrinks
  <2> QED
    BY <2>2, <2>6 DEF First!Chained
<1>3. CASE PowerLoss
  <2>1. First!FilesKept' /\ First!MemoryKept'
    BY <1>1, <1>3, InstanceAssumptions, First!PowerLossKeepsTrail DEF PowerLoss
  <2>2. Second!MemoryKept'
    BY <1>1, <1>3, InstanceAssumptions, Second!PowerLossKeepsTrail DEF PowerLoss
  <2> QED
    BY <1>2, <2>1, <2>2 DEF SharingInvariant
<1>4. CASE Swap \/ Archive \/ UNCHANGED vars
  <2>1. First!FilesKept' /\ First!Adds
    <3>1. CASE Swap
      BY <1>1, <3>1, InstanceAssumptions, First!OutsideKeepsFiles DEF Swap
    <3>2. CASE Archive
      BY <1>1, <3>2, InstanceAssumptions, First!OutsideKeepsFiles DEF Archive
    <3>3. CASE UNCHANGED vars
      BY <1>1, <3>3, InstanceAssumptions, First!FilesUntouched DEF vars, shared, First!fileVars
    <3> QED
      BY <1>4, <3>1, <3>2, <3>3
  <2>2. UNCHANGED <<pc1, record1, mon1, exc1>> /\ UNCHANGED <<pc2, record2, mon2, exc2>>
    BY <1>4 DEF Swap, Archive, vars, first, second, First!Swap, First!processVars,
                First!Archive, Second!Archive
  <2>3. Second!Adds
    BY <2>1 DEF First!Adds, Second!Adds
  <2>4. First!MemoryKept' /\ Second!MemoryKept'
    BY <1>1, <2>1, <2>2, <2>3, InstanceAssumptions, First!IdleKeepsMemory, Second!IdleKeepsMemory
  <2> QED
    BY <1>2, <2>1, <2>4 DEF SharingInvariant
<1> QED
  BY <1>3, <1>4

\* The inductive invariant of two brokers whose JournalStores save to one file
\* holds throughout: whatever each read before the other's os.replace, its copy
\* in memory and every file that can be found after a power loss is a version of
\* its own transaction's trail, and only the broker that created it goes on.
THEOREM SharingIsInvariant == Spec => []SharingInvariant
<1>1. Init => SharingInvariant
  <2> SUFFICES ASSUME Init PROVE SharingInvariant
    OBVIOUS
  <2>1. First!TrailInvariant
    BY InstanceAssumptions, First!InitTrail DEF Init
  <2>2. Second!TrailInvariant
    BY InstanceAssumptions, Second!InitTrail DEF Init
  <2>3. First!Chained(Second!Own, Second!Making)
    BY DEF Init, First!Init, Second!Init, First!Chained, First!Journals, First!Own, First!Making,
           Second!Own, Second!Making, First!Working, Second!Working, First!InMemory, Second!InMemory
  <2> QED
    BY <2>1, <2>2, <2>3 DEF SharingInvariant, First!TrailInvariant, Second!TrailInvariant
<1>2. SharingInvariant /\ [Next]_vars => SharingInvariant'
  BY FirstKeeps, SecondKeeps, OthersKeep DEF Next
<1> QED
  BY <1>1, <1>2, PTL DEF Spec

\* Nothing keeps two brokers from writing the same journal, yet they never mix
\* what they did: any two records of one transaction, in a journal that may be
\* found or in a broker's memory, are an earlier and a later version of one
\* trail, hashes included, because transition writes the record in memory and
\* never reads the file it replaces.
THEOREM TrailsNeverMix == Spec => []OneTrail
<1>1. SharingInvariant => OneTrail
  BY SameRecords DEF SharingInvariant, First!Chained, OneTrail, Held
<1> QED
  BY <1>1, SharingIsInvariant, PTL

\* Each hash in a journal has an artifact of its own transaction, whichever
\* broker saved it and whatever the other did meanwhile, until a power loss
\* takes that transaction's directory as a whole.
THEOREM EvidenceIsOwn == Spec => []OwnEvidence
<1>1. SharingInvariant => OwnEvidence
  BY InstanceAssumptions, First!TrailGivesProperties DEF SharingInvariant, OwnEvidence
<1> QED
  BY <1>1, SharingIsInvariant, PTL

=============================================================================
