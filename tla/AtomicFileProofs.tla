-------------------------- MODULE AtomicFileProofs --------------------------
(***************************************************************************)
(* _atomic_bytes implements a durable cell, for any number of writers,     *)
(* payloads and calls: proofs about AtomicFile.                            *)
(***************************************************************************)
EXTENDS AtomicFile, TLAPS

\* A rename comes last: it follows itself and whatever was named before.
LEMMA FollowedAppend ==
    ASSUME NEW s \in Seq(Nat), NEW f \in Nat
    PROVE  /\ Followed(Append(s, f), f, f)
           /\ \A m, n : Followed(s, m, n) =>
                 Followed(Append(s, f), m, n) /\ Followed(Append(s, f), m, f)
<1> DEFINE t == Append(s, f)
           e == Len(s) + 1
<1>1. /\ DOMAIN s = 1..Len(s) /\ Len(s) \in Nat /\ DOMAIN t = 1..e
      /\ \A i \in DOMAIN s : t[i] = s[i]
      /\ t[e] = f
  OBVIOUS
<1> HIDE DEF t
<1>2. Followed(t, f, f)
  <2>1. e \in DOMAIN t /\ e <= e
    BY <1>1
  <2> QED
    BY <1>1, <2>1 DEF Followed
<1>3. ASSUME NEW m, NEW n, Followed(s, m, n)
      PROVE  Followed(t, m, n) /\ Followed(t, m, f)
  <2>1. PICK i, j \in DOMAIN s : s[i] = m /\ s[j] = n /\ i <= j
    BY <1>3 DEF Followed
  <2>2. /\ i \in DOMAIN t /\ j \in DOMAIN t /\ e \in DOMAIN t /\ i <= e
        /\ t[i] = m /\ t[j] = n
    BY <1>1, <2>1
  <2> QED
    BY <1>1, <2>1, <2>2 DEF Followed
<1> QED
  BY <1>2, <1>3 DEF t

\* Before the first call nothing is named but the missing file.
LEMMA InitFileInvariant == Init => FileInvariant
<1> SUFFICES ASSUME Init PROVE FileInvariant
  OBVIOUS
<1>1. TypeOK
  BY DEF Init, TypeOK
<1>2. OwnFile /\ Progress /\ NamesAreFlushed /\ RenamedInOrder
  BY DEF Init, OwnFile, Unfinished, Progress, NamesAreFlushed, RenamedInOrder
<1> QED
  BY <1>1, <1>2 DEF FileInvariant

\* A call begins with a result of its own.
LEMMA BeginKeeps ==
    ASSUME FileInvariant, NEW w \in Writers, NEW v \in Payloads, Begin(w, v)
    PROVE  FileInvariant'
<1> USE DEF FileInvariant, fileVars
<1>1. TypeOK'
  BY DEF Begin, TypeOK
<1>2. OwnFile'
  BY DEF Begin, TypeOK, OwnFile, Unfinished
<1>3. Progress'
  BY DEF Begin, TypeOK, Progress
<1>4. NamesAreFlushed'
  BY DEF Begin, NamesAreFlushed
<1>5. RenamedInOrder'
  BY DEF Begin, TypeOK, RenamedInOrder, Followed
<1> QED
  BY <1>1, <1>2, <1>3, <1>4, <1>5

\* The new file is nobody else's.
LEMMA CreateKeeps ==
    ASSUME FileInvariant, NEW w \in Writers, Create(w)
    PROVE  FileInvariant'
<1> DEFINE n == Len(content) + 1
<1>1. /\ TypeOK /\ OwnFile /\ Progress /\ NamesAreFlushed /\ RenamedInOrder
      /\ content \in Seq(Payloads \cup {Torn})
      /\ flushed \subseteq DOMAIN content
  BY DEF FileInvariant, TypeOK
<1>2. /\ content' \in Seq(Payloads \cup {Torn})
      /\ Len(content') = n /\ DOMAIN content' = DOMAIN content \cup {n}
      /\ n \notin DOMAIN content /\ n \in Nat
      /\ \A i \in DOMAIN content : content'[i] = content[i]
  BY <1>1 DEF Create
<1>3. /\ file' = [file EXCEPT ![w] = n] /\ pc' = [pc EXCEPT ![w] = "write"] /\ pc[w] = "create"
      /\ UNCHANGED <<payload, result, flushed, path, entries, renames>>
  BY <1>2 DEF Create
<1> HIDE DEF n
<1>4. TypeOK'
  BY <1>1, <1>2, <1>3 DEF TypeOK
<1>5. OwnFile'
  BY <1>1, <1>2, <1>3 DEF TypeOK, OwnFile, Unfinished
<1>6. Progress'
  BY <1>1, <1>2, <1>3 DEF TypeOK, Progress, OwnFile, Unfinished
<1>7. NamesAreFlushed'
  BY <1>1, <1>3 DEF NamesAreFlushed
<1>8. RenamedInOrder'
  BY <1>1, <1>3 DEF TypeOK, RenamedInOrder, Followed, Progress
<1> QED
  BY <1>4, <1>5, <1>6, <1>7, <1>8 DEF FileInvariant

\* Writing touches no file of another writer and none that has a name.
LEMMA WriteKeeps ==
    ASSUME FileInvariant, NEW w \in Writers, Write(w)
    PROVE  FileInvariant'
<1>1. /\ TypeOK /\ OwnFile /\ Progress /\ NamesAreFlushed /\ RenamedInOrder
      /\ content \in Seq(Payloads \cup {Torn})
      /\ flushed \subseteq DOMAIN content
  BY DEF FileInvariant, TypeOK
<1>2. /\ pc[w] = "write" /\ pc' = [pc EXCEPT ![w] = "fsync"]
      /\ content' = [content EXCEPT ![file[w]] = payload[w]]
      /\ UNCHANGED <<payload, file, result, flushed, path, entries, renames>>
      /\ file[w] \in DOMAIN content \ flushed /\ payload[w] \in Payloads
  BY <1>1 DEF Write, Call, OwnFile, Unfinished, Progress
<1>3. content' \in Seq(Payloads \cup {Torn}) /\ DOMAIN content' = DOMAIN content
  BY <1>1, <1>2
<1>4. TypeOK'
  BY <1>1, <1>2, <1>3 DEF TypeOK
<1>5. OwnFile'
  BY <1>1, <1>2, <1>3 DEF TypeOK, OwnFile, Unfinished
<1>6. Progress'
  BY <1>1, <1>2, <1>3 DEF TypeOK, Progress, OwnFile, Unfinished
<1>7. NamesAreFlushed'
  BY <1>1, <1>2 DEF NamesAreFlushed
<1>8. RenamedInOrder'
  BY <1>1, <1>2 DEF TypeOK, RenamedInOrder, Followed
<1> QED
  BY <1>4, <1>5, <1>6, <1>7, <1>8 DEF FileInvariant

\* fsync makes the file of its caller durable, and no other.
LEMMA FsyncKeeps ==
    ASSUME FileInvariant, NEW w \in Writers, Fsync(w)
    PROVE  FileInvariant'
<1>1. /\ TypeOK /\ OwnFile /\ Progress /\ NamesAreFlushed /\ RenamedInOrder
  BY DEF FileInvariant
<1>2. /\ pc[w] = "fsync" /\ pc' = [pc EXCEPT ![w] = "replace"]
      /\ flushed' = flushed \cup {file[w]}
      /\ UNCHANGED <<payload, file, result, content, path, entries, renames>>
      /\ file[w] \in DOMAIN content
  BY <1>1 DEF Fsync, Call, OwnFile, Unfinished
<1>3. TypeOK'
  BY <1>1, <1>2 DEF TypeOK
<1>4. OwnFile'
  BY <1>1, <1>2 DEF TypeOK, OwnFile, Unfinished
<1>5. Progress'
  BY <1>1, <1>2 DEF TypeOK, Progress
<1>6. NamesAreFlushed'
  BY <1>1, <1>2 DEF NamesAreFlushed
<1>7. RenamedInOrder'
  BY <1>1, <1>2 DEF TypeOK, RenamedInOrder, Followed
<1> QED
  BY <1>3, <1>4, <1>5, <1>6, <1>7 DEF FileInvariant

\* A rename comes after every earlier one.
LEMMA ReplaceKeeps ==
    ASSUME FileInvariant, NEW w \in Writers, Replace(w)
    PROVE  FileInvariant'
<1>1. /\ TypeOK /\ OwnFile /\ Progress /\ NamesAreFlushed /\ RenamedInOrder
      /\ renames \in Seq(Nat) /\ file[w] \in Nat
  BY DEF FileInvariant, TypeOK
<1>2. /\ pc[w] = "replace" /\ pc' = [pc EXCEPT ![w] = "sync_dir"]
      /\ path' = file[w] /\ entries' = entries \cup {file[w]}
      /\ renames' = Append(renames, file[w])
      /\ UNCHANGED <<payload, file, result, content, flushed>>
      /\ file[w] \in flushed
  BY <1>1 DEF Replace, Call, Progress
<1>3. TypeOK'
  BY <1>1, <1>2 DEF TypeOK
<1>4. OwnFile'
  BY <1>1, <1>2 DEF TypeOK, OwnFile, Unfinished
<1>5. Progress'
  BY <1>1, <1>2 DEF TypeOK, Progress
<1>6. NamesAreFlushed'
  BY <1>1, <1>2 DEF NamesAreFlushed
<1>7. ASSUME NEW u \in Writers, pc'[u] = "sync_dir"
      PROVE  Followed(renames', file'[u], path')
  <2>1. CASE u = w
    BY <1>1, <1>2, <2>1, FollowedAppend
  <2>2. CASE u # w
    <3>1. Followed(renames, file[u], path)
      BY <1>1, <1>2, <1>7, <2>2 DEF RenamedInOrder, TypeOK
    <3> QED
      BY <1>1, <1>2, <3>1, FollowedAppend
  <2> QED
    BY <2>1, <2>2
<1>8. ASSUME NEW u \in Writers, result'[u] = "ok", NEW n \in entries'
      PROVE  Followed(renames', file'[u], n)
  <2>1. /\ result[u] = "ok" /\ path \in entries
        /\ \A m \in entries : Followed(renames, file[u], m)
    BY <1>1, <1>2, <1>8 DEF RenamedInOrder, NamesAreFlushed
  <2>2. CASE n \in entries
    BY <1>1, <1>2, <2>1, <2>2, FollowedAppend
  <2>3. CASE n = file[w]
    BY <1>1, <1>2, <2>1, <2>3, FollowedAppend
  <2> QED
    BY <1>2, <2>2, <2>3
<1>9. RenamedInOrder'
  BY <1>7, <1>8 DEF RenamedInOrder
<1> QED
  BY <1>3, <1>4, <1>5, <1>6, <1>9 DEF FileInvariant

\* Once the directory is synced, only the last name is left.
LEMMA SyncDirectoryKeeps ==
    ASSUME FileInvariant, NEW w \in Writers, SyncDirectory(w)
    PROVE  FileInvariant'
<1>1. /\ TypeOK /\ OwnFile /\ Progress /\ NamesAreFlushed /\ RenamedInOrder
  BY DEF FileInvariant
<1>2. /\ pc[w] = "sync_dir" /\ pc' = [pc EXCEPT ![w] = "idle"]
      /\ result' = [result EXCEPT ![w] = "ok"]
      /\ entries' = {path}
      /\ UNCHANGED <<payload, file, content, flushed, path, renames>>
  BY DEF SyncDirectory, End
<1>3. TypeOK'
  BY <1>1, <1>2 DEF TypeOK
<1>4. OwnFile' /\ Progress'
  BY <1>1, <1>2 DEF TypeOK, OwnFile, Unfinished, Progress
<1>5. NamesAreFlushed'
  BY <1>1, <1>2 DEF NamesAreFlushed
<1>6. RenamedInOrder'
  BY <1>1, <1>2 DEF TypeOK, RenamedInOrder, Followed, NamesAreFlushed
<1> QED
  BY <1>3, <1>4, <1>5, <1>6 DEF FileInvariant

\* A call that fails leaves the files alone.
LEMMA FailsKeeps ==
    ASSUME FileInvariant, NEW w \in Writers, Fails(w)
    PROVE  FileInvariant'
<1>1. /\ TypeOK /\ OwnFile /\ Progress /\ NamesAreFlushed /\ RenamedInOrder
  BY DEF FileInvariant
<1>2. /\ pc' = [pc EXCEPT ![w] = "idle"] /\ result' = [result EXCEPT ![w] = "error"]
      /\ UNCHANGED <<payload, file, content, flushed, path, entries, renames>>
  BY DEF Fails, End, fileVars
<1>3. TypeOK'
  BY <1>1, <1>2 DEF TypeOK
<1>4. OwnFile' /\ Progress' /\ NamesAreFlushed'
  BY <1>1, <1>2 DEF TypeOK, OwnFile, Unfinished, Progress, NamesAreFlushed
<1>5. RenamedInOrder'
  BY <1>1, <1>2 DEF TypeOK, RenamedInOrder, Followed
<1> QED
  BY <1>3, <1>4, <1>5 DEF FileInvariant

\* What a power loss does: a named file keeps its content.
LEMMA PowerLossFacts ==
    ASSUME FileInvariant, PowerLoss
    PROVE  /\ content' \in Seq(Payloads \cup {Torn}) /\ DOMAIN content' = DOMAIN content
           /\ \A n \in flushed : content'[n] = content[n]
           /\ path' \in entries /\ entries' = {path'} /\ flushed' = DOMAIN content
           /\ UNCHANGED <<payload, file, renames>>
<1>1. content \in Seq(Payloads \cup {Torn}) /\ flushed \subseteq DOMAIN content
  BY DEF FileInvariant, TypeOK
<1>2. PICK lost \in SUBSET (DOMAIN content \ flushed) :
          content' = [n \in DOMAIN content |-> IF n \in lost THEN Torn ELSE content[n]]
  BY DEF PowerLoss
<1>3. DOMAIN content' = DOMAIN content /\ \A n \in flushed : content'[n] = content[n]
  BY <1>1, <1>2
<1>4. content' \in Seq(Payloads \cup {Torn})
  BY <1>1, <1>2
<1> QED
  BY <1>3, <1>4 DEF PowerLoss

\* It ends every call.
LEMMA PowerLossKeeps ==
    ASSUME FileInvariant, PowerLoss
    PROVE  FileInvariant'
<1>1. /\ TypeOK /\ OwnFile /\ Progress /\ NamesAreFlushed /\ RenamedInOrder
  BY DEF FileInvariant
<1>2. /\ pc' = [w \in Writers |-> "idle"]
      /\ result' = [w \in Writers |-> IF pc[w] = "idle" THEN result[w] ELSE "error"]
  BY DEF PowerLoss
<1>3. TypeOK'
  BY <1>1, <1>2, PowerLossFacts DEF TypeOK
<1>4. OwnFile' /\ Progress'
  BY <1>2 DEF OwnFile, Unfinished, Progress
<1>5. NamesAreFlushed'
  BY <1>1, PowerLossFacts DEF NamesAreFlushed, TypeOK
<1>6. RenamedInOrder'
  <2>1. path' \in entries /\ entries' = {path'} /\ file' = file /\ renames' = renames
    BY PowerLossFacts
  <2> QED
    BY <1>1, <1>2, <2>1 DEF RenamedInOrder, Followed
<1> QED
  BY <1>3, <1>4, <1>5, <1>6 DEF FileInvariant

\* Every system call of every writer, and a power loss, keep the invariant.
LEMMA StepFileInvariant == FileInvariant /\ [Next]_vars => FileInvariant'
<1> SUFFICES ASSUME FileInvariant, [Next]_vars PROVE FileInvariant'
  OBVIOUS
<1>1. CASE PowerLoss
  BY <1>1, PowerLossKeeps
<1>2. ASSUME NEW w \in Writers, NEW v \in Payloads, Begin(w, v)
      PROVE  FileInvariant'
  BY <1>2, BeginKeeps
<1>3. ASSUME NEW w \in Writers,
             Create(w) \/ Write(w) \/ Fsync(w) \/ Replace(w) \/ SyncDirectory(w) \/ Fails(w)
      PROVE  FileInvariant'
  BY <1>3, CreateKeeps, WriteKeeps, FsyncKeeps, ReplaceKeeps, SyncDirectoryKeeps, FailsKeeps
<1>4. CASE UNCHANGED vars
  BY <1>4 DEF vars, processVars, fileVars, FileInvariant, TypeOK, OwnFile, Unfinished, Progress,
              NamesAreFlushed, RenamedInOrder, Followed
<1> QED
  BY <1>1, <1>2, <1>3, <1>4 DEF Next

\* The inductive invariant holds throughout.
THEOREM FilesAreInvariant == Spec => []FileInvariant
BY InitFileInvariant, StepFileInvariant, PTL DEF Spec

\* A write that has returned is never undone by a power loss: whatever the path
\* may name afterwards was renamed over it no earlier than that write, for any
\* number of processes writing the journal or an artifact.
THEOREM ReturnedWritesStay == Spec => []ReturnedStays
<1>1. FileInvariant => ReturnedStays
  BY DEF FileInvariant, RenamedInOrder, ReturnedStays
<1> QED
  BY <1>1, FilesAreInvariant, PTL

----------------------------------------------------------------------------
(***************************************************************************)
(* The refinement.                                                         *)
(***************************************************************************)

\* Nothing torn is ever named, so what survives is what the names show.
LEMMA SurvivorsAreShown ==
    ASSUME FileInvariant
    PROVE  survivors = {Shows(n) : n \in entries}
BY DEF FileInvariant, NamesAreFlushed, survivors, Survives

\* A step that leaves every named file and its content alone is one of the
\* cell's, or none, if it is for what the writers ask.
LEMMA SameFiles ==
    ASSUME FileInvariant, FileInvariant', UNCHANGED <<path, entries>>,
           \A n \in flushed : content'[n] = content[n]
    PROVE  UNCHANGED <<value, survivors>>
<1>1. \A n \in entries : Shows(n)' = Shows(n)
  BY DEF FileInvariant, NamesAreFlushed, Shows
<1>2. survivors' = {Shows(n)' : n \in entries'} /\ survivors = {Shows(n) : n \in entries}
  BY SurvivorsAreShown DEF FileInvariant, NamesAreFlushed, survivors, Survives
<1>3. Shows(path)' = Shows(path)
  BY <1>1 DEF FileInvariant, NamesAreFlushed, Shows
<1> QED
  BY <1>1, <1>2, <1>3 DEF value

\* Begin asks for a write.
LEMMA BeginAsks ==
    ASSUME FileInvariant, FileInvariant', NEW w \in Writers, NEW v \in Payloads, Begin(w, v)
    PROVE  Cell!Ask(w, v)
<1>1. /\ pc[w] = "idle" /\ pc' = [pc EXCEPT ![w] = "create"]
      /\ payload' = [payload EXCEPT ![w] = v]
      /\ UNCHANGED <<content, path, entries>>
  BY DEF Begin, fileVars
<1>2. asked' = [asked EXCEPT ![w] = v]
  BY <1>1 DEF FileInvariant, TypeOK, asked
<1>3. asked[w] = Nothing
  BY <1>1 DEF asked
<1>4. UNCHANGED <<value, survivors>>
  BY <1>1, SameFiles
<1> QED
  BY <1>2, <1>3, <1>4 DEF Cell!Ask

\* Creating, writing and syncing the temporary file cannot be seen.
LEMMA PreparingIsUnseen ==
    ASSUME FileInvariant, FileInvariant', NEW w \in Writers, Create(w) \/ Write(w) \/ Fsync(w)
    PROVE  UNCHANGED <<value, survivors, asked>>
<1>1. UNCHANGED <<path, entries, payload>>
  BY DEF Create, Write, Fsync, Call
<1>2. \A n \in flushed : content'[n] = content[n]
  <2>1. content \in Seq(Payloads \cup {Torn}) /\ flushed \subseteq DOMAIN content
    BY DEF FileInvariant, TypeOK
  <2>2. CASE Create(w)
    BY <2>1, <2>2 DEF Create
  <2>3. CASE Write(w)
    BY <2>1, <2>3 DEF Write, Call, FileInvariant, OwnFile, Unfinished
  <2>4. CASE Fsync(w)
    BY <2>4 DEF Fsync
  <2> QED
    BY <2>2, <2>3, <2>4
<1>3. asked' = asked
  BY <1>1 DEF FileInvariant, TypeOK, asked, Create, Write, Fsync, Call
<1> QED
  BY <1>1, <1>2, <1>3, SameFiles

\* The rename is the write.
LEMMA ReplaceReplaces ==
    ASSUME FileInvariant, FileInvariant', NEW w \in Writers, Replace(w)
    PROVE  Cell!Replace(w)
<1>1. /\ pc[w] = "replace" /\ pc' = [pc EXCEPT ![w] = "sync_dir"]
      /\ path' = file[w] /\ entries' = entries \cup {file[w]}
      /\ UNCHANGED <<payload, content, flushed>>
      /\ file[w] \in flushed /\ content[file[w]] = payload[w] /\ payload[w] \in Payloads
  BY DEF Replace, Call, FileInvariant, Progress
<1>2. file[w] # 0
  BY <1>1 DEF FileInvariant, TypeOK
<1>3. asked[w] = payload[w] /\ asked[w] # Nothing
  BY <1>1, ContentAssumption DEF asked
<1>4. asked' = [asked EXCEPT ![w] = Nothing]
  BY <1>1 DEF FileInvariant, TypeOK, asked
<1>5. value' = asked[w]
  BY <1>1, <1>2, <1>3 DEF value, Shows
<1>6. survivors' = survivors \cup {asked[w]}
  <2>1. survivors' = UNION {Survives(n) : n \in entries \cup {file[w]}}
    BY <1>1 DEF survivors, Survives, Shows
  <2>2. Survives(file[w]) = {payload[w]}
    BY <1>1, <1>2 DEF Survives, Shows
  <2> QED
    BY <1>3, <2>1, <2>2 DEF survivors
<1> QED
  BY <1>3, <1>4, <1>5, <1>6 DEF Cell!Replace

\* Syncing the directory makes the value durable.
LEMMA SyncDirectorySyncs ==
    ASSUME FileInvariant, FileInvariant', NEW w \in Writers, SyncDirectory(w)
    PROVE  Cell!Sync
<1>1. /\ pc[w] = "sync_dir" /\ pc' = [pc EXCEPT ![w] = "idle"]
      /\ entries' = {path} /\ UNCHANGED <<payload, content, flushed, path>>
  BY DEF SyncDirectory, End
<1>2. asked' = asked
  BY <1>1 DEF FileInvariant, TypeOK, asked
<1>3. value' = value
  BY <1>1 DEF value, Shows
<1>4. survivors' = {value}
  <2>1. survivors' = Survives(path)
    BY <1>1 DEF survivors, Survives, Shows
  <2> QED
    BY <2>1 DEF FileInvariant, NamesAreFlushed, Survives, value
<1> QED
  BY <1>2, <1>3, <1>4 DEF Cell!Sync

\* A call that fails before its rename gives up; after it, nothing is left to do.
LEMMA FailsGivesUp ==
    ASSUME FileInvariant, FileInvariant', NEW w \in Writers, Fails(w)
    PROVE  Cell!GiveUp(w) \/ UNCHANGED <<value, survivors, asked>>
<1>1. /\ pc[w] # "idle" /\ pc' = [pc EXCEPT ![w] = "idle"]
      /\ UNCHANGED <<payload, content, path, entries>>
  BY DEF Fails, End, fileVars
<1>2. UNCHANGED <<value, survivors>>
  BY <1>1, SameFiles
<1>3. asked' = [asked EXCEPT ![w] = Nothing]
  BY <1>1 DEF FileInvariant, TypeOK, asked
<1>4. CASE pc[w] = "sync_dir"
  BY <1>1, <1>2, <1>4 DEF FileInvariant, TypeOK, asked
<1>5. CASE pc[w] # "sync_dir"
  <2>1. asked[w] # Nothing
    BY <1>1, <1>5, ContentAssumption DEF FileInvariant, TypeOK, Progress, asked
  <2> QED
    BY <1>2, <1>3, <2>1 DEF Cell!GiveUp
<1> QED
  BY <1>4, <1>5

\* A power loss brings back one of the survivors.
LEMMA PowerLossLoses ==
    ASSUME FileInvariant, FileInvariant', PowerLoss
    PROVE  Cell!PowerLoss
<1>1. /\ path' \in entries /\ entries' = {path'} /\ pc' = [w \in Writers |-> "idle"]
      /\ \A n \in flushed : content'[n] = content[n]
  BY PowerLossFacts DEF PowerLoss
<1>2. value' = Shows(path')
  BY <1>1 DEF FileInvariant, NamesAreFlushed, value, Shows
<1>3. value' \in survivors
  BY <1>1, <1>2, SurvivorsAreShown
<1>4. survivors' = {value'}
  BY <1>1 DEF FileInvariant, NamesAreFlushed, survivors, Survives, value, Shows
<1>5. asked' = Cell!Idle
  BY <1>1 DEF asked, Cell!Idle
<1> QED
  BY <1>3, <1>4, <1>5 DEF Cell!PowerLoss

\* JournalStore._atomic_bytes makes the path a cell that is replaced as a whole:
\* for any number of processes, writes, failures and power losses nobody finds
\* half a payload, one that nobody was writing, or one that was given up.
THEOREM AtomicBytesImplementsCell == Spec => ImplementsCell
<1>1. Init => Cell!Init
  BY DEF Init, Cell!Init, Cell!Idle, value, survivors, asked, Shows, Survives
<1>2. FileInvariant /\ FileInvariant' /\ [Next]_vars => [Cell!Next]_(Cell!vars)
  <2> SUFFICES ASSUME FileInvariant, FileInvariant', [Next]_vars
               PROVE  Cell!Next \/ UNCHANGED <<value, survivors, asked>>
    BY DEF Cell!vars
  <2>1. CASE PowerLoss
    BY <2>1, PowerLossLoses DEF Cell!Next
  <2>2. ASSUME NEW w \in Writers, NEW v \in Payloads, Begin(w, v)
        PROVE  Cell!Next
    BY <2>2, BeginAsks DEF Cell!Next
  <2>3. ASSUME NEW w \in Writers, Create(w) \/ Write(w) \/ Fsync(w)
        PROVE  UNCHANGED <<value, survivors, asked>>
    BY <2>3, PreparingIsUnseen
  <2>4. ASSUME NEW w \in Writers, Replace(w) \/ SyncDirectory(w) \/ Fails(w)
        PROVE  Cell!Next \/ UNCHANGED <<value, survivors, asked>>
    BY <2>4, ReplaceReplaces, SyncDirectorySyncs, FailsGivesUp DEF Cell!Next
  <2>5. CASE UNCHANGED vars
    BY <2>5 DEF vars, processVars, fileVars, value, survivors, asked, Shows, Survives
  <2> QED
    BY <2>1, <2>2, <2>3, <2>4, <2>5 DEF Next
<1> QED
  BY <1>1, <1>2, FilesAreInvariant, PTL DEF Spec, ImplementsCell, Cell!Spec

=============================================================================
