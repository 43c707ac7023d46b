# Verification of the FRLG GBA ↔ Switch trade broker

The broker exchanges two Pokémon between a GBA cartridge and a Switch game that
cannot talk to each other. It holds a placeholder `P`, trades it for `B` on the
Switch, trades `B` for `A` on the GBA, and trades `A` for `P` on the Switch
again. Each trade is irreversible and none can be made atomic with a file
write, so what the program promises is about failure: after any exception, kill
or power loss the journal must tell the operator who holds what, and no later
process may trade on from a guess. These TLA+ modules state that, check it with
TLC on small instances and prove with TLAPS the safety of the coordinator, its
files and its GBA endpoint, and what is read out of a record.

Paths below are relative to the repository root (`src/` in `PROJECT.json`).

## Inventory

| Component | State | Operations | Interacts with |
|---|---|---|---|
| `TradeCoordinator` (`broker/transaction.py`) | locals of `execute`, the in-memory `JournalRecord`, two connected flags | `execute` with nine journal transitions, three trades, four artifacts; `_mark_recovery`; the `finally` block | calls the journal and both endpoints; raises to `main` |
| `JournalStore` (`broker/journal.py`) | one JSON file, artifact files, the record passed around and mutated | `create`, `transition`, `require_new_transaction`, `save_artifact`, `_atomic_bytes` | the file system; any other broker with the same path |
| `GbLinkEndpoint` (`broker/gba/gb_link.py`) | transaction id, decoder, replay window, out sequence | `connect`, `trade_once`, `_wait_for`, `close`, `abort_if_safe` (no caller) | frames over USB to the firmware |
| FGBR framing (`broker/gba/protocol.py`) | byte buffer, last sequence per transaction | `FrameDecoder.feed`, `ReplayWindow.accept` | endpoint |
| `SerialTransport` (`broker/gba/serial.py`) | two byte buffers, the port | `open`, `read`, `write`, `_feed_outer` | USB |
| Switch session (`broker/switch/`) | connected flag | `connect`, `wait_for_trade_menu`, `trade_once`, `close` | an external driver without a timeout |
| `Pokemon100` (`broker/pokemon.py`) | none (a value) | hash, held item, `refuse_mail` | everyone |
| CLI (`broker/main.py`) | none | starts one `execute`, maps exceptions to exit codes | operator |
| Firmware codec (`firmware/gb-link/broker_protocol.cpp`) | transaction id, send and receive sequences, two buffers | `feed`, `consume`, `send`, `setTransaction` | USB; bridge |
| Firmware bridge (`broker_trade_bridge.cpp`, the patch) | offer, selection, ready flag | `handle`, `sessionStarted`, `partnerPartyReady`, `select`, `committed`, `linkClosed` | codec; the GBA trade section |

What is hard here: the swap on a console and the journal write are two events
with a failure possible in between, and the swap may even come after the call
that asked for it has raised; `transition` changes memory before a write that
may fail before or after its rename; a restarted process finds any of these
leftovers; two brokers may share a path; frames may be repeated, lost, damaged,
coalesced or left over from an earlier endpoint; the GBA player may choose
twice, or leave without a trade; the byte stream is cut anywhere by the reads, and its inner magic `FGBR`
contains its outer sync `GB`. `PROJECT.json` lists these hazards at their lines, with the properties
that cover each.

## Modules

| Module | Models |
|---|---|
| `Journal` | the record, `NEXT_STATE`, the pure part of `create` and `transition` |
| `TradeCoordinator` | one broker process, its files, both consoles, the operator, failures; the properties |
| `TradeCoordinatorInv` | its inductive invariant |
| `TradeCoordinatorProofs` | proofs: who holds what, offers, completion, terminal journals |
| `Escrow` | abstract: the exchange as the two players see it, without journal, process or failure |
| `EscrowRefinement` | the mapping under which `TradeCoordinator` implements `Escrow`, and the invariant behind it |
| `EscrowProofs` | proof of that refinement |
| `JournalProofs` | lemmas about `NewRecord`, `Transitioned` and `Stopped` |
| `JournalTrail` | proofs: journals are audit trails whose evidence is whole; written about one process's effect on the files |
| `JournalSharing` | two `TradeCoordinator` processes over the same files and consoles |
| `JournalSharingProofs` | the same proofs for both processes, by instantiating `JournalTrail` twice |
| `DurableCell` | abstract: a file as a value that is replaced whole |
| `AtomicFile` | the system calls of `_atomic_bytes` on a file system that loses what was not synced; implements `DurableCell` |
| `AtomicFileProofs` | proof of that refinement and of `ReturnedStays` |
| `GbLinkEndpoint` | host endpoint, USB stream, firmware codec and bridge, GBA player |
| `GbLinkEndpointInv` | its inductive invariant: what sequence numbers say of the frames in the stream |
| `GbLinkEndpointProofs` | proofs: types, and what a returned trade is evidence of |
| `UsbStream` | the bytes below it: `SerialTransport` and `FrameDecoder` towards the host, `write` and the firmware `Codec` towards the device |
| `Pokemon100` | what is read out of a record: held item, Mail, checksum |
| `Pokemon100Proofs` | proofs: the item read is the one written, and damage to a halfword is noticed |
| `MCGbLinkEndpoint`, `MCUsbStream`, `MCPokemon100` | the parties, frames and personalities of the small instances |

A definition called a mutant is a deliberately wrong variant of the one that
follows it. Nothing uses it in a run; substituting it shows that a property
depends on what the code does there.

### TradeCoordinator

`pc` is the statement `execute` is at; `record` is the object that `transition`
mutates; `mon` and `slot` are the locals. `disk` is what the journal path shows
and `survivors` what it may show after a power loss. `owner` is the truth: who
really holds each record. No action of the process reads it.

`_atomic_bytes` has three outcomes: `ok`; `fail_before` (it raised before
`os.replace`, nothing visible changed); `fail_after` (it raised after it: the
new content is visible, not yet durable). A kill in the middle of a write leaves
the files as one of these followed by `Crash`.

An endpoint call arms a console with the offered record (`Offer`). `Swap` may
happen any time while the console is armed: during the call, after the call
raised (`EndpointRaises`), or after the process died. `TradeResult` is the set
of all answers; the one restriction is that an endpoint which confirms a commit
of the expected offer tells the truth about what it received, which is the trust
model of `docs/architecture.md`. `PowerLoss` picks any survivor, drops any
artifacts that were not synced, and takes any transaction's directory whose own
entry may still be on its way to the disk: `save_artifact` makes
`artifacts/<transaction>` and nothing syncs its parent, so the next power loss
may take the whole directory, with files in it that were synced one by one. One
that is still there afterwards stays (`settled`). `Archive` is step 7 of `docs/recovery.md`; it
also ends both sessions, as step 1 demands.

Abstractions. A SHA-256 is the record it was computed from. Timestamps and notes
are left out. A fresh UUID is a fresh number. `KeyboardInterrupt`, which
`except Exception` does not catch, is `Crash`. `fault_hook` is a no-op. A
journal that cannot be parsed makes `load` raise and changes nothing, and the
model never produces one, because a rename shows an old or a new file. The file
system keeps a directory entry that was synced, and the journal's own directory
exists before the broker starts.

`require_new_transaction` is two steps, as in the code: `LoadJournal` reads the
file into memory, and `StopIncomplete` or `TerminalFound` decides on what was
read.

### Escrow and EscrowRefinement

`Escrow` says what the broker is for: it gives its placeholder for a record of
the Switch, that one for a record of the GBA, that one for what the Switch gives
back, and has one record to give at any time. The exchange is done only if the
placeholder came back, one record of each player has become the other's, and
every other record is with whoever held it `before` the exchange; it may end
unfinished, which is the operator's case.

The mapping reads the abstract exchange off the journal on disk and the owners
together (`Exchange`). `Turn` is the number of trades the last recorded state stands for,
plus one in a `*_STARTED` state whose record has already left the broker: the
trade that a crash may hide. `Hand` is what the last console gave. `done` is a
durable COMPLETE. `Before` undoes the trades made so far; no variable of the
model remembers the holders at the start, and `before` may not change during an
exchange, so a trade that moved any other record would show. So every journal write between two trades is a stutter, a late
`Swap` after a crash is the abstract trade, and a power loss never takes a trade
back.

### JournalSharing

Two instances of `TradeCoordinator` have process variables of their own and
share files, consoles and transaction numbers. `JournalAppeared`, the second
test in `create`, can only fire here, and a broker may stop a journal from a
record it loaded before the other one wrote. Both are started with one of the
operator's placeholders: which record a broker carries that only stops an old
journal makes no difference.

`OneTrail` is about all records there are (`Held`): those of journals that may be
found and those in the memories of both brokers. Two of the same transaction are
always versions of one trail: one `Continues` the other, with all its states and
all its hashes. A file that held one broker's entries and the other's hashes
would break it, and so would two brokers that trade under one transaction id.

### AtomicFile and DurableCell

One action per system call of `_atomic_bytes`: a new temporary file, the write,
its fsync, the rename, the directory fsync. Each may fail or be the last before
a kill. A power loss tears any file that was not synced and lets the path name
any file it has named since the last directory sync. `DurableCell` is the
contract that `WriteJournal` and `WriteArtifact` of `TradeCoordinator` rely on,
with its three outcomes: `GiveUp` is `fail_before`, `Replace` alone is
`fail_after`, `Replace` and `Sync` are `ok`. A writer of the cell asks for a
value while it is before its rename.

### GbLinkEndpoint

`pc` is the wait of `connect` or `trade_once`. `Read(k)` is one
`transport.read` that completes `k` frames followed by the loop of `_wait_for`:
each frame is refused (other transaction, replay), wanted, an `ERROR`, or
skipped; what follows the frame that ends the loop is dropped. A damaged frame
makes `feed` raise and takes the chunk with it.

`faults` is observation only: the faults of the stream so far, and whether one
of them delivered a HELLO twice.

The device side has one action per command and per call the patch inserts.
`PartnerPartyReady` may repeat, as the patch's own safety notes say it does.
`Select` is `LINKCMD_READY_TO_TRADE`, including `tradePkmnAtIndices`, which runs
even if `select` reported an error because no offer is there or the slot is
above 5; the session is then `refused`, and a trade made in it is `unseen`.
`Swap` is the point where both games have saved. `Committed` is
`LINKCMD_READY_CLOSE_LINK`: the patch calls `committed` there, and neither the
patch nor the bridge tests that a trade went before, so it is possible in every
open session. Whether a GBA game closes the link in this way without a trade is
for the hardware tests that the patch asks for; the model takes the code at its
word. `closes` records what the bridge had whenever that happens and the trade
of the session was not reported. It is reached: a player who selects, trades
nothing and closes the link makes `trade_once` return, with the hashes it
expects, and `EvidenceIsReal` admits just that.

`Codec::consume` as written discards every HELLO (run `HelloDropped`), so
nothing after the handshake would be reachable. The constant `HelloOpens` lets
HELLO through; every other run of this module sets it, and says what the code
does once that is repaired.

### UsbStream

One direction at a time: `to` says who receives. A frame is encoded, cut into
chunks and, towards the host, wrapped into outer packets between which the
adapter may put status packets. `ReadPort(n)` is one turn of the loop of `read`
for a port that has `n` bytes; `FeedOuter` and `Feed` are the two decoding loops
on bytes, exceptions included, and an exception ends the endpoint. Towards the
device the packet layer belongs to the upstream firmware, so `FeedCodec` gets a
chunk as `write` cut it. `Fault` takes bytes away or puts one in at any place.

Abstractions. The header has seven bytes: flags, transaction id and sequence are
left out, and what they are for is in `GbLinkEndpoint`. Length and CRC take one
byte. The CRC of a body that is no frame's is a value no frame has: CRC32
collisions are assumed away, and so is a fault that turns one frame into
another. The limits 4096, 64 and 512 are constants of which the run keeps the
order.

### Pokemon100

A word is a pair of 16-bit halfwords, because TLC's integers have 32 bits with a
sign; `OrderIndex` is `personality % 24` computed from the pair. The exclusive
or is put together from that of the two halves of a number, down to bits, which
both TLC and the provers can read. `Checksum` is the sum over the 24 halfwords
as they are decrypted. The reference encoder builds a record from an item, a
personality and a trainer id by enumerating the permutations in order, not by
the table the code has, and adds up the substructures before it encrypts them.
`Damage` turns over the bits of any one of the `Masks` in one
halfword of the secure part.

## Runs

| Run | Result | States | Shows |
|---|---|---:|---|
| `Coordinator` | pass | 80 k | `TypeOK`, the inductive `CoordinatorInvariant`, `RecoveryTableHolds`, `OffersWhatItHolds`, `EvidenceWhole`, `HistoryIsPath`, `EscrowInvariant`, `CompleteIsTrue`, `PersistBeforeTrade`, `TerminalIsFinal`; `ImplementsEscrow`; `OpenIsResolved` under `Fairness` |
| `SharedJournal` | pass | 0.9 M | with two brokers all records of a transaction are versions of one trail (`OneTrail`) and its evidence is its own and whole (`OwnEvidence`), by the inductive `SharingInvariant` |
| `AtomicWrite` | pass | 57 k | `_atomic_bytes` implements `DurableCell` (`ImplementsCell`); a call that returned is never undone (`ReturnedStays`); the inductive `FileInvariant` |
| `Endpoint` | pass | 1.3 M | `TypeOK`; `EvidenceIsReal`: `trade_once` returns only for a trade of its own transaction and offer, or a link closed right there without one; `EvidenceInvariant`, the inductive invariant behind it |
| `Stream` | pass | 0.3 M | `OnlyWhatWasSent` under a fault, `EverythingArrives` without one, in both directions |
| `Records` | pass | 42 k | `MailIsFound` for all 24 orders, `DamageIsNoticed` for every halfword |
| `CompleteRaises` | violation | | an exception may leave a COMPLETE journal |
| `ConfirmedDropped` | violation | | a confirmed trade may leave no trace of the record received: it holds Mail, or the link did not close |
| `EvidenceLost` | violation | | a power loss keeps the journal and takes the directory with its artifacts |
| `SecondBroker` | violation | | a live broker overwrites the stop that a second one has written and reported |
| `HelloDropped` | violation | | the firmware never answers the handshake |
| `OfferNotInjected` | violation | | the GBA does not receive the acknowledged offer |

The violations are disagreements between the code and a sentence of its docs or
a comment; `findings` in `PROJECT.json` quotes each.

Bounds. `MaxTransactions = 2` lets a second transaction start after an archived
one, so artifacts, owners and late swaps of the first are around; five records
give each console a second one to answer with, which holds Mail, and the Switch
a wrong record to return instead of `P`; slot 6 is a slot out of range.
`MaxTransactions = 1` in `JournalSharing` still admits two transactions: both
brokers may pass the test before either creates its journal; the view
`EitherOrder` makes states one that differ in which broker is called the first,
about which no property of the run asks. Three writes of two
writers in `AtomicFile` let one writer return between two renames of the other.
In `GbLinkEndpoint`, one fault, two selections (or a repeated party), two
sessions and two endpoints are the smallest numbers with which a frame can be
repeated, a choice taken back or a frame left over from an earlier endpoint;
slot 6 is the one `select` refuses; `MaxWire = 2` lets a selection's two frames
arrive in one read. The view `Seen` merges states that differ only in what no
guard reads any more: the exception raised, the emulated slot 0, the evidence of
earlier transactions, whether evidence is in `trades` or in `closes`, and a choice
that is over. Of the run's properties only `TypeOK` names these, and that is
proved. A state constraint, `StillRead`, stops where
the last endpoint is gone or has raised: nobody reads the stream from there on,
so nothing more can be returned and what the invariants say of waits and
numbers has no reader. In `UsbStream`, packets hold seven bytes, so
every frame takes two, reads of eight bytes are larger than a packet as 512 is
larger than 64 and still leave data over, payloads hold `G` and `GB`, one frame has the
largest size, and a fault takes up to two bytes away and may put in a `G`.
`Pokemon100` has personalities for all 24 orders from both halfwords, up to the
largest word, a key of 0 and one that is not, and both ends of the Mail range.

Deadlock checking is off where the system may stop: in `GbLinkEndpoint` the
bounded player may stop playing, in `UsbStream` the frames run out or the
endpoint has raised, in `Pokemon100` a record is only damaged once.

Fairness (`OpenIsResolved`). A running process goes on and the disk answers. The
GBA endpoint bounds every wait by its timeout; the Switch driver's contract has
none, so the steps that wait for it get no fairness, and the property excepts
them. The operator starts a dead broker again. A broker that is started again
and again eventually gets as far as reading the journal, and eventually one of
its writes succeeds: strong fairness of `LoadJournal` and of
`StopIncomplete("ok")`, since each attempt is a new process and a kill in
between disables them.

## Proofs

Each theorem holds for every value of the constants that the named assumptions
of its module allow: any records and parties, any write outcomes, any number of
transactions, writers, selections, sessions and faults, any personality, trainer
id, item and damage. The assumptions say only that model values differ, that
parties partition the records, that a GBA party has six slots, that a write may
succeed, that words and items are made of 16-bit halfwords, that damage turns
over at least one bit, and of which type the other constants are.

| Module | Theorem | States |
|---|---|---|
| `TradeCoordinatorProofs` | `InvariantHolds` | `[]CoordinatorInvariant` |
| | `TypeCorrect`, `OffersAreHeld`, `RecoveryIsSound`, `CompletionIsTrue` | the invariants `TypeOK`, `OffersWhatItHolds`, `RecoveryTableHolds`, `CompleteIsTrue` |
| | `FinalJournals`, `PersistsFirst` | the action properties `TerminalIsFinal`, `PersistBeforeTrade` |
| `EscrowProofs` | `OneExchangeIsKnown` | `[]EscrowInvariant` |
| | `BrokerImplementsEscrow` | `ImplementsEscrow` |
| `JournalTrail` | `HistoryStaysPath`, `EvidenceStaysWhole` | `HistoryIsPath`, `EvidenceWhole` |
| `JournalSharingProofs` | `SharingIsInvariant` | `[]SharingInvariant` |
| | `TrailsNeverMix`, `EvidenceIsOwn` | `OneTrail`, `OwnEvidence` for two brokers |
| `AtomicFileProofs` | `FilesAreInvariant`, `ReturnedWritesStay` | `FileInvariant`, `ReturnedStays` |
| | `AtomicBytesImplementsCell` | `ImplementsCell` |
| `GbLinkEndpointProofs` | `EndpointTypes` | `TypeOK` |
| | `EvidenceIsInvariant` | `[]EvidenceInvariant` |
| | `ReturnedTradesAreReal` | `EvidenceIsReal` as long as no HELLO was delivered twice |
| `Pokemon100Proofs` | `MailIsAlwaysFound`, `DamageIsAlwaysNoticed` | the invariants `MailIsFound`, `DamageIsNoticed` |

### Who holds what

`RecoveryTableHolds` is not inductive: it speaks of the journals that may be
found and not of what execute is about to write or what a console is about to
swap. `CoordinatorInvariant` adds, in this order: what a journal state implies
about owners and open offers (`Truth`, `Located`, `Truthful`) — an offer may be
out only in the three `*_STARTED` states, and only to that stage's console, so a
late swap can only do what the recovery table leaves open; that an offer implies
a durable journal (`FilesAgree`); what holds before the first write
(`BeforeCreate`); that inside the `try` block memory and disk agree, with the
state the program text puts there (`InTry`); what execute knows of the current
trade (`TradeKnown`); and that when execute leaves, the in-memory record may be
ahead of the file but not of the truth (`Leaving`). `PersistKeeps`,
`TransitionTruthful` and `SwapTruthful` carry the argument; every action has a
lemma of its own.

### The exchange

`CoordinatorInvariant` is not enough for the refinement. A power loss replaces
`disk` by any survivor, and `_mark_recovery` writes from a record that may be
ahead of the file; the abstract exchange must not move then. `EscrowInvariant`
says that all of these journals (`Known`) stand for one exchange, the holders at
its beginning included, that the
console whose record is to be passed on next really gave it (`Handed`), and the
same of what execute has received and not yet recorded (`Received`).
`SwapExchange` shows that a swap is the next trade for every known journal
alike, `Unmoved` that a step which moves no record is `Finish`, `End` or a
stutter, and `PersistKeepsEscrow` that the nine transitions stand still. A swap
keeps `before` because undoing it as well gives the owners there were before it
(`SameBefore`). That Escrow's `Finish` is allowed at COMPLETE (`CompleteIsOver`)
combines the recovery table, which says where the three records are, with
`before`, which says that nothing else moved.

### Audit trail and evidence

`TrailInvariant` has two halves: every journal that may be found is a path with
synced evidence for its hashes, or its directory is lost (`FilesKept`), and the
record a process holds in memory is one too, together with the artifact it is
about to refer to (`MemoryKept`). A process that has created a transaction has
been running since, so its directory is still there (`transaction_id > settled`):
that is why evidence is lost whole or not at all. The lemmas say what one process
does to both halves and that only a power loss takes evidence away. They use
neither owners nor consoles, nor that the file is what this process wrote last.
So two processes may share the files: `JournalSharingProofs` instantiates the
lemmas for each broker and shows that the steps of one keep the memory half of
the other.

`OneTrail` needs a third part, `Chained`: of any two records of a transaction one
continues the other, the one that the creator of the transaction has in memory
continues all of them, and no two brokers created the same. Then the creator's
next transition continues every other version (`TransitionContinues`), while a
broker that loaded an older one can only stop it (`StoppedContinues`). That the
stop may then be overwritten is no contradiction: a stop adds neither a state of
the graph nor a hash. Nothing of the kind holds for `CoordinatorInvariant`, as
the run `SecondBroker` shows.

### Files

`FileInvariant` says that a name which may survive never leads to a file that
was not flushed, which needs that a temporary file belongs to one writer
(`OwnFile`), what each writer has done to its own (`Progress`), and in which
order the path was renamed relative to what a returned call has made durable
(`RenamedInOrder`).

### The endpoint's evidence

Only three things of the protocol are used: the bridge numbers its frames
upwards within a transaction, `ReplayWindow` takes rising numbers, and
`trade_once` waits for `OFFER_READY`, then a session start, then a commit.
`NumbersAreSound` follows them backwards: from its wait for the commit on, every
`TRADE_COMMITTED` numbered above the last accepted frame is about a trade of
this transaction, or about a link closed in it without one (`Sound`); while it waits for the session, whatever follows the
next session start is sound (`SoundOnceStarted`); and before that, whatever
follows an `OFFER_READY` is. Frames may be lost, damaged or repeated any number
of times, except that HELLO starts the numbers of its transaction over, on both
counters of the codec; the theorems are stated under `~faults.hello`. What they
say is that transaction ids, numbers and hashes rule out every false commit but
one: the bridge's own, when it takes the closing of the link for a trade.

The hypothesis is needed. With enough faults in one transaction
`EvidenceIsReal` is false after a repeated HELLO: the GBA player trades under an
earlier endpoint's offer after HELLO has arrived and before SET_OFFER_MON; the
bridge then commits under the new offer, as frame 8, which stays in the stream;
HELLO, GET_CAPABILITIES and SET_OFFER_MON arrive a second time; and the frames
of a second session, numbered 3 to 7, lead the endpoint to the old commit. TLC
finds this when it is led along that path, with 18 faults. Nothing in this
repository sends a HELLO again, and a single fault does not suffice: the
`Endpoint` run has one repeated HELLO among its faults and passes.

### Records

`RecordInvariant` says that a record which is not damaged was written by the
reference encoder from words and items of the right size, and that a damaged one
is such a record with one halfword changed. Reading it back rests on three
things. Exclusive or with the same key twice gives the number back, and with a
mask that is not 0 gives another one (`XorLaws`): shown for bits and carried up
half by half. `OrderIndex` is the 32-bit personality modulo 24 (`OrderIndexIs`),
and the table has `G` where the permutation of that number has it
(`TableGrowth`, `ReferenceGrowth`), so the item is read where it was written.
And a sum of which one term changes by less than 65536 either way, but not by 0,
is another number modulo 65536 (`ChecksumShows`).

### What is only model-checked

- `OpenIsResolved`: liveness is beyond the prover.
- `EvidenceIsReal` with a HELLO that is delivered twice and no other fault.
- `OnlyWhatWasSent` and `EverythingArrives`: the decoding loops of `UsbStream`
  are recursive, and what they return for every stream needs an induction over
  data. `OnlyWhatWasSent` is also no theorem for arbitrary frames and faults: a
  payload may hold the bytes of a whole frame, which is found when the bytes
  before it are lost. The run has payloads that hold the outer sync `GB` and
  no whole frame.

## Not modelled

JSON, CRC32 and the struct layouts as such. Opening the serial port and the mode
command it sends. The mock endpoints, which are test doubles whose behaviour is
within what `TradeCoordinator` allows an endpoint. Logging, argument parsing and
`--status`. `abort_if_safe`, which nobody calls. The Zephyr threads that share
the codec: which thread calls `send` is not decided in this repository. The
external Switch driver beyond its contract.

`TradeCoordinator` and `GbLinkEndpoint` are not composed into one state machine:
the product is out of TLC's reach at bounds where both fail. They meet in
`GbaTradeResult`, whose one restriction (a confirmed commit of the expected offer
names the record that was given) is `EvidenceIsReal` of the endpoint, but for the
link that is closed without a trade: for a GBA that does so the trust model
fails, and with it what `TradeCoordinator` concludes from that result. Likewise
`GbLinkEndpoint` takes from `UsbStream` that what it reads are frames that were
sent, in order, or an exception, and `TradeCoordinator` takes the three outcomes
of a write from `DurableCell`.

## Plan

The behaviour of the system is modelled as far as the sources allow, and its
safety is proved but for what `What is only model-checked` lists. When the code
changes, the model follows in this order: a definition whose lines in the `map`
of `PROJECT.json` changed, the run that fires it, the lemma of its action. Four
changes to the code would let more be stated: a sync of the artifact directory's
parent, which makes `EvidenceDurable` an invariant; a `committed` that is called
only after a trade, which makes `closes` unnecessary in `EvidenceIsReal`; a HELLO that does
not start the numbers of its own transaction over, which makes `~faults.hello`
unnecessary; and a timeout in the Switch driver's contract, which makes the
exception in `OpenIsResolved` unnecessary.
