----------------------------- MODULE AtomicFile -----------------------------
(***************************************************************************)
(* JournalStore._atomic_bytes of broker/journal.py, one system call at a   *)
(* time, for processes that share the path, on a file system that keeps in *)
(* memory what was not synced.  Every call may fail, every process may be  *)
(* killed between two calls, and the power may go at any time.             *)
(*                                                                         *)
(* Files are numbered as they are created; NamedTemporaryFile never gives  *)
(* out a name that is taken.  File 0 stands for the missing one.           *)
(***************************************************************************)
EXTENDS Integers, Sequences, FiniteSets

CONSTANTS
    Writers,     \* processes that write the path
    Payloads,
    Nothing,     \* the content of a missing file
    Torn,        \* the content of a file that is not all there
    MaxWrites    \* bound: calls of _atomic_bytes

ASSUME ContentAssumption == Nothing # Torn /\ {Nothing, Torn} \cap Payloads = {}

VARIABLES
    (* the processes *)
    pc,         \* the next system call of each, "idle" outside
    payload,    \* the argument
    file,       \* the file of the last call of _atomic_bytes
    result,     \* how that call ended
    (* the file system *)
    content,    \* of each file, as a reader sees it
    flushed,    \* the files whose content is on the disk
    path,       \* the file that the path names
    entries,    \* the files it may name after a power loss
    renames     \* observation: the files the path has named, in order

processVars == <<pc, payload, file, result>>
fileVars    == <<content, flushed, path, entries, renames>>
vars        == <<processVars, fileVars>>

Init ==
    /\ pc = [w \in Writers |-> "idle"]
    /\ payload = [w \in Writers |-> Nothing]
    /\ file = [w \in Writers |-> 0]
    /\ result = [w \in Writers |-> "none"]
    /\ content = <<>> /\ flushed = {}
    /\ path = 0 /\ entries = {0} /\ renames = <<>>

----------------------------------------------------------------------------

\* Process w makes the system call that is next and goes on to another.
Call(w, call, next) ==
    /\ pc[w] = call
    /\ pc' = [pc EXCEPT ![w] = next]
    /\ UNCHANGED <<payload, file, result>>

\* _atomic_bytes is over.
End(w, call, how) ==
    /\ pc[w] = call
    /\ pc' = [pc EXCEPT ![w] = "idle"]
    /\ result' = [result EXCEPT ![w] = how]
    /\ UNCHANGED <<payload, file>>

Begin(w, v) ==
    /\ pc[w] = "idle"
    /\ Len(content) + Cardinality({u \in Writers : pc[u] = "create"}) < MaxWrites
    /\ pc' = [pc EXCEPT ![w] = "create"]
    /\ payload' = [payload EXCEPT ![w] = v]
    /\ result' = [result EXCEPT ![w] = "none"]
    /\ UNCHANGED <<file, fileVars>>

\* NamedTemporaryFile: a new, empty file.
Create(w) ==
    /\ pc[w] = "create"
    /\ pc' = [pc EXCEPT ![w] = "write"]
    /\ content' = Append(content, Torn)
    /\ file' = [file EXCEPT ![w] = Len(content')]
    /\ UNCHANGED <<payload, result, flushed, path, entries, renames>>

Write(w) ==
    /\ Call(w, "write", "fsync")
    /\ content' = [content EXCEPT ![file[w]] = payload[w]]
    /\ UNCHANGED <<flushed, path, entries, renames>>

\* Mutant: the data stays in memory.
FlushOnly(w) ==
    /\ Call(w, "fsync", "replace")
    /\ UNCHANGED fileVars

Fsync(w) ==
    /\ Call(w, "fsync", "replace")
    /\ flushed' = flushed \cup {file[w]}
    /\ UNCHANGED <<content, path, entries, renames>>

Replace(w) ==
    /\ Call(w, "replace", "sync_dir")
    /\ path' = file[w]
    /\ entries' = entries \cup {file[w]}
    /\ renames' = Append(renames, file[w])
    /\ UNCHANGED <<content, flushed>>

\* Mutant: the directory is opened and closed.
OpenDirectory(w) ==
    /\ End(w, "sync_dir", "ok")
    /\ UNCHANGED fileVars

SyncDirectory(w) ==
    /\ End(w, "sync_dir", "ok")
    /\ entries' = {path}
    /\ UNCHANGED <<content, flushed, path, renames>>

\* Any system call may raise, or never come because the process is killed.
\* Before the rename the finally block unlinks the temporary file; whether it
\* gets there makes no difference to the path.
Fails(w) ==
    /\ pc[w] # "idle"
    /\ End(w, pc[w], "error")
    /\ UNCHANGED fileVars

\* What was not synced is all there, or not.
PowerLoss ==
    /\ pc' = [w \in Writers |-> "idle"]
    /\ result' = [w \in Writers |-> IF pc[w] = "idle" THEN result[w] ELSE "error"]
    /\ path' \in entries /\ entries' = {path'}
    /\ content' \in {[n \in DOMAIN content |-> IF n \in lost THEN Torn ELSE content[n]] :
                        lost \in SUBSET (DOMAIN content \ flushed)}
    /\ flushed' = DOMAIN content
    /\ UNCHANGED <<payload, file, renames>>

Next ==
    \/ PowerLoss
    \/ \E w \in Writers :
          \/ \E v \in Payloads : Begin(w, v)
          \/ Create(w) \/ Write(w) \/ Fsync(w) \/ Replace(w) \/ SyncDirectory(w) \/ Fails(w)

Spec == Init /\ [][Next]_vars

----------------------------------------------------------------------------
(***************************************************************************)
(* Properties.                                                             *)
(***************************************************************************)

\* What a reader may find in file n, now and after a power loss.
Shows(n)    == IF n = 0 THEN Nothing ELSE content[n]
Survives(n) == {Shows(n)} \cup (IF n \in {0} \cup flushed THEN {} ELSE {Torn})

\* The variables of DurableCell.
value     == Shows(path)
survivors == UNION {Survives(n) : n \in entries}
asked     == [w \in Writers |-> IF pc[w] \in {"create", "write", "fsync", "replace"}
                                THEN payload[w] ELSE Nothing]

Cell == INSTANCE DurableCell WITH Values <- Payloads

\* _atomic_bytes makes a file a cell that is replaced whole: no reader, before
\* or after a power loss, finds half a payload or one nobody was writing, and
\* a write that raised before its rename, or died, leaves no trace.
ImplementsCell == Cell!Spec

\* In the sequence s, m occurs, and n at the same place or later.
Followed(s, m, n) ==
    \E i, j \in DOMAIN s : s[i] = m /\ s[j] = n /\ i <= j

\* Once a call has returned, a power loss never brings back what the path named
\* before it, whatever other writers did in between.
ReturnedStays ==
    \A w \in Writers : result[w] = "ok" => \A n \in entries : Followed(renames, file[w], n)

----------------------------------------------------------------------------
(***************************************************************************)
(* The inductive invariant.                                                *)
(***************************************************************************)

TypeOK ==
    /\ pc \in [Writers -> {"idle", "create", "write", "fsync", "replace", "sync_dir"}]
    /\ payload \in [Writers -> Payloads \cup {Nothing}]
    /\ file \in [Writers -> Nat]
    /\ result \in [Writers -> {"none", "ok", "error"}]
    /\ content \in Seq(Payloads \cup {Torn})
    /\ flushed \subseteq DOMAIN content
    /\ renames \in Seq(Nat)

\* A file still being written is its writer's alone, and not on the disk.
Unfinished(w) == pc[w] \in {"write", "fsync"}

OwnFile ==
    /\ \A w \in Writers : Unfinished(w) => file[w] \in DOMAIN content \ flushed
    /\ \A u, w \in Writers : Unfinished(u) /\ Unfinished(w) /\ u # w => file[u] # file[w]

\* What a writer has done so far.
Progress ==
    \A w \in Writers :
        /\ pc[w] # "idle" => payload[w] \in Payloads /\ result[w] = "none"
        /\ pc[w] \in {"fsync", "replace"} => content[file[w]] = payload[w]
        /\ pc[w] \in {"replace", "sync_dir"} => file[w] \in flushed

\* The path only names files whose content is on the disk.
NamesAreFlushed == path \in entries /\ entries \subseteq {0} \cup flushed

RenamedInOrder ==
    \A w \in Writers :
        /\ pc[w] = "sync_dir" => Followed(renames, file[w], path)
        /\ result[w] = "ok" => \A n \in entries : Followed(renames, file[w], n)

\* _atomic_bytes syncs before it renames, so a name never leads to a file that
\* a power loss could tear, and a file that can be torn is no other writer's.
FileInvariant ==
    TypeOK /\ OwnFile /\ Progress /\ NamesAreFlushed /\ RenamedInOrder

=============================================================================
