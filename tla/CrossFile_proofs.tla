------------------------- MODULE CrossFile_proofs --------------------------
(* Proofs about transactions over several files.  Transactions that run    *)
(* one at a time: a single writer, any number of files, contents and I/O   *)
(* errors, and processes that die anywhere.  The cross-file operations of  *)
(* one process, for any files, nodes, relations and sequence of operations *)
(* and injected failures: references resolve, lineages stay unbranched,    *)
(* and the version of a file counts its changes, so that the version a     *)
(* caller expects guards them.                                             *)
EXTENDS CrossFileMutation, TLAPS

-----------------------------------------------------------------------------
(* Transactions.                                                           *)

\* Where the loops of commit() are.
Placed(t) ==
  LET size == Len(t.staged)
  IN  /\ t \in Transaction
      /\ size <= 2 /\ t.written <= size /\ t.next \in 1..(size + 1)
      /\ t.faults <= MaxFaults
      /\ t.phase \in {"staging", "logging", "writing"} => t.next = 1
      /\ t.phase \in {"staging", "logging"} => t.written = 0
      /\ t.phase = "logging" => size > 0
      /\ t.phase = "writing" => t.written < size
      /\ t.phase \in {"renaming", "restoring", "completing"} => t.written = size
      /\ t.phase = "renaming" => t.next <= size

FilesTyped ==
  /\ disk \in [File -> Version]
  /\ temp \in [File -> Version]
  /\ wal \in {Absent, Torn} \cup SUBSET (File \X Content)
  /\ crashed \subseteq interrupted /\ interrupted \subseteq Writer

TxnsPlaced == txn \in [Writer -> Transaction] /\ \A w \in Writer : Placed(txn[w])

PlaceInv == FilesTyped /\ TxnsPlaced

\* The names and pre-images of the batch, by position.
Path(w, i) == txn[w].staged[i].path
Size(w) == Len(txn[w].staged)

\* The last of the first k to write its file.
Latest(w, i, k) == \A j \in 1..k : j > i => Path(w, j) # Path(w, i)

\* Until the renames nothing is replaced, after a rollback or a restoration
\* everything is as it was, whether or not the clean-up went through.
Untouched(w) ==
  /\ \A i, j \in 1..Size(w) : Path(w, i) = Path(w, j) =>
       txn[w].staged[i].original = txn[w].staged[j].original
  /\ w \notin crashed
     /\ txn[w].phase \in {"staging", "logging", "writing", "aborting", "rolled_back", "restored",
                       "uncleaned"} =>
       \A i \in 1..Size(w) : disk[Path(w, i)] = txn[w].staged[i].original

Written(w) ==
  /\ txn[w].phase \in {"writing", "renaming"} => wal = Log(w)
  /\ w \notin crashed /\ txn[w].phase = "writing" =>
       \A i \in 1..txn[w].written : Latest(w, i, txn[w].written) =>
         temp[Path(w, i)] = txn[w].staged[i].graph

\* The files the first renames have replaced.
Renamed(w) == {Path(w, i) : i \in 1..(txn[w].next - 1)}

Renaming(w) ==
  txn[w].phase = "renaming" =>
    /\ \A i, j \in 1..(txn[w].next - 1) : Path(w, i) = Path(w, j) => i = j
    /\ \A i \in 1..Size(w) :
         IF Path(w, i) \in Renamed(w)
           THEN /\ temp[Path(w, i)] = Absent
                /\ Latest(w, i, Size(w)) => disk[Path(w, i)] = txn[w].staged[i].graph
           ELSE /\ disk[Path(w, i)] = txn[w].staged[i].original
                /\ Latest(w, i, Size(w)) => temp[Path(w, i)] = txn[w].staged[i].graph

Restoring(w) ==
  w \notin crashed /\ txn[w].phase = "restoring" =>
    \A i \in 1..(txn[w].next - 1) : disk[Path(w, i)] = txn[w].staged[i].original

\* During a restoration, and after one that failed: the log names the batch, and
\* every file of it has its pre-image, a staged content or a torn pre-image.
Held(w) ==
  txn[w].phase \in {"restoring", "unrestored"} =>
    wal = Log(w) /\ \A i \in 1..Size(w) : disk[Path(w, i)] \in Left(w, Path(w, i))

Replaced(w) ==
  txn[w].phase \in {"completing", "committed", "unlogged"} =>
    \A i \in 1..Size(w) : /\ disk[Path(w, i)] = txn[w].staged[i].graph
                          /\ temp[Path(w, i)] = Absent

\* Until a process dies, the transaction knows every complete temporary.
Clean(w) ==
  interrupted = {} =>
    /\ txn[w].phase \in Ended \ {"unlogged"} => wal = Absent /\ txn[w].written = 0
    /\ \A f \in File : temp[f] \in {Absent, Torn} \/ f \in Temps(w)

DataInv(w) ==
  /\ Untouched(w) /\ Written(w) /\ Renaming(w) /\ Restoring(w) /\ Held(w)
  /\ Replaced(w) /\ Clean(w)

-----------------------------------------------------------------------------
LEMMA PlacedIsTyped == PlaceInv => TxnTypeOK
BY DEF PlaceInv, FilesTyped, TxnsPlaced, Placed, TxnTypeOK, Label

LEMMA NewIsPlaced ==
  ASSUME NEW point \in InjectPoint \cup {"none"}
  PROVE  Placed(NewTransaction(point))
<1>1. <<>> \in Seq(StagedWrite) /\ Len(<<>>) = 0
  OBVIOUS
<1>2. NewTransaction(point) \in Transaction
  BY <1>1 DEF NewTransaction, Transaction, Phase
<1> QED BY <1>1, <1>2, MaxFaultsAssumption DEF NewTransaction, Placed

LEMMA InitPlaced == TxnInit => PlaceInv
<1> SUFFICES ASSUME TxnInit PROVE PlaceInv
  OBVIOUS
<1>1. "none" \in InjectPoint \cup {"none"}
  OBVIOUS
<1>2. Placed(NewTransaction("none"))
  BY <1>1, NewIsPlaced
<1>3. TxnsPlaced
  BY <1>2 DEF TxnInit, TxnsPlaced, Placed
<1>4. FilesTyped
  BY DEF TxnInit, FilesTyped, Version
<1> QED BY <1>3, <1>4 DEF PlaceInv

\* A step of one writer leaves the others' transactions alone.
LEMMA Moves ==
  ASSUME TxnsPlaced, NEW w \in Writer, NEW t, Placed(t), txn' = [txn EXCEPT ![w] = t]
  PROVE  TxnsPlaced'
<1>1. t \in Transaction
  BY DEF Placed
<1>2. txn' \in [Writer -> Transaction]
  BY <1>1 DEF TxnsPlaced
<1>3. ASSUME NEW v \in Writer PROVE Placed(txn'[v])
  BY DEF TxnsPlaced
<1>4. ASSUME NEW v \in Writer PROVE Placed(txn[v])'
  BY <1>3 DEF Placed
<1> QED BY <1>2, <1>4 DEF TxnsPlaced

LEMMA CountedIsTyped ==
  ASSUME NEW t \in Transaction, NEW phase \in Phase, NEW faults \in Nat
  PROVE  [t EXCEPT !.phase = phase, !.next = 1, !.faults = faults] \in Transaction
BY DEF Transaction

LEMMA Faulted ==
  ASSUME TxnsPlaced, NEW w \in Writer, MayFault(w),
         NEW phase \in {"aborting", "restoring", "unrestored", "uncleaned", "unlogged"},
         phase = "restoring" => txn[w].written = Len(txn[w].staged),
         Fault(w, phase)
  PROVE  TxnsPlaced'
<1> DEFINE t == [txn[w] EXCEPT !.phase = phase, !.next = 1, !.faults = @ + 1]
<1>1. txn[w] \in Transaction /\ Placed(txn[w])
  BY DEF TxnsPlaced
<1>2. txn[w].faults + 1 \in Nat /\ phase \in Phase
  BY <1>1 DEF Transaction, Phase, Ended
<1>3. t \in Transaction
  BY <1>1, <1>2, CountedIsTyped
<1>4. Placed(t)
  BY <1>1, <1>3, MaxFaultsAssumption DEF Placed, MayFault, Transaction
<1>5. txn' = [txn EXCEPT ![w] = t]
  BY <1>1 DEF Fault, Transaction, TxnsPlaced
<1> QED BY <1>4, <1>5, Moves

-----------------------------------------------------------------------------
LEMMA StepTxnsPlaced ==
  ASSUME PlaceInv, NEW w \in Writer, Step(w) \/ Crash(w) \/ Restart(w)
  PROVE  TxnsPlaced'
<1> DEFINE t == txn[w]
<1>1. txn[w] \in Transaction /\ Placed(txn[w]) /\ TxnsPlaced /\ txn \in [Writer -> Transaction]
  BY DEF PlaceInv, TxnsPlaced
<1>a. ASSUME NEW point \in InjectPoint \cup {"none"}, Open(w, point) PROVE TxnsPlaced'
  BY <1>1, <1>a, NewIsPlaced, Moves DEF Open
<1>b. ASSUME NEW f \in File, NEW content \in Content, Stage(w, f, content) PROVE TxnsPlaced'
  <2> DEFINE s == [path |-> f, graph |-> content, original |-> disk[f]]
             u == [t EXCEPT !.staged = Append(@, s)]
  <2>1. s \in StagedWrite
    BY DEF StagedWrite, PlaceInv, FilesTyped
  <2>2. Append(t.staged, s) \in Seq(StagedWrite) /\ Len(Append(t.staged, s)) = Len(t.staged) + 1
    BY <1>1, <2>1 DEF Transaction
  <2>3. u \in Transaction
    BY <1>1, <2>2 DEF Transaction
  <2>4. u.staged = Append(t.staged, s) /\ u.written = t.written /\ u.next = t.next
        /\ u.phase = t.phase /\ u.faults = t.faults
    BY <1>1 DEF Transaction
  <2>5. Placed(u)
    BY <1>1, <1>b, <2>2, <2>3, <2>4 DEF Placed, Stage, Running, Label, Transaction
  <2>6. txn' = [txn EXCEPT ![w] = u]
    BY <1>1, <1>b DEF Stage
  <2> HIDE DEF u
  <2> QED BY <1>1, <2>5, <2>6, Moves
<1>c. CASE Commit(w)
  <2> DEFINE u == [t EXCEPT !.phase = "logging"]
  <2>1. u \in Transaction
    BY <1>1 DEF Transaction, Phase
  <2>2. Placed(u)
    BY <1>1, <1>c, <2>1 DEF Placed, Commit, Running, Transaction
  <2>3. txn' = [txn EXCEPT ![w] = u]
    BY <1>1, <1>c DEF Commit
  <2> HIDE DEF u
  <2> QED BY <1>1, <2>2, <2>3, Moves
<1>d. CASE WriteWal(w)
  <2> DEFINE u == [t EXCEPT !.phase = Passing(w, "wal_written", "writing")]
  <2>1. u \in Transaction
    BY <1>1 DEF Transaction, Phase, Passing
  <2>2. Placed(u)
    BY <1>1, <1>d, <2>1 DEF Placed, WriteWal, Running, Transaction, Passing
  <2>3. txn' = [txn EXCEPT ![w] = u]
    BY <1>1, <1>d DEF WriteWal
  <2> HIDE DEF u
  <2> QED BY <1>1, <2>2, <2>3, Moves
<1>e. CASE WalFails(w)
  BY <1>1, <1>e, Faulted DEF WalFails
<1>f. CASE WriteTemp(w)
  <2> DEFINE i == t.written + 1
             p == IF t.fail_after = Label[i] THEN "aborting"
                  ELSE IF i < Len(t.staged) THEN "writing"
                  ELSE Passing(w, "before_rename", "renaming")
             u == [t EXCEPT !.written = i, !.phase = p]
  <2>1. i \in Nat /\ p \in Phase
    BY <1>1 DEF Transaction, Phase, Passing
  <2>2. u \in Transaction
    BY <1>1, <2>1 DEF Transaction
  <2>3. p \in {"aborting", "writing", "renaming"} /\ (p = "writing" => i < Len(t.staged))
        /\ (p = "renaming" => ~(i < Len(t.staged)))
    BY DEF Passing
  <2>4. u.staged = t.staged /\ u.written = i /\ u.next = t.next /\ u.phase = p
        /\ u.faults = t.faults
    BY <1>1, <2>1 DEF Transaction
  <2>5. Placed(u)
    <3> HIDE DEF u, p
    <3> QED BY <1>1, <1>f, <2>2, <2>3, <2>4 DEF Placed, WriteTemp, Running, Transaction
  <2>6. txn' = [txn EXCEPT ![w] = u]
    BY <1>1, <1>f DEF WriteTemp
  <2> HIDE DEF u
  <2> QED BY <1>1, <2>5, <2>6, Moves
<1>g. CASE TempFails(w)
  BY <1>1, <1>g, Faulted DEF TempFails
<1>h. CASE Abort(w)
  <2> DEFINE u == [t EXCEPT !.phase = "rolled_back", !.written = 0]
  <2>1. u \in Transaction
    BY <1>1 DEF Transaction, Phase, Ended
  <2>2. Placed(u)
    BY <1>1, <2>1 DEF Placed, Transaction
  <2>3. txn' = [txn EXCEPT ![w] = u]
    BY <1>1, <1>h DEF Abort
  <2> HIDE DEF u
  <2> QED BY <1>1, <2>2, <2>3, Moves
<1>i. CASE Rename(w)
  <2> DEFINE p == IF t.next = Len(t.staged) THEN "completing" ELSE t.phase
             n == t.next + 1
             u == [t EXCEPT !.next = n, !.phase = p]
  <2>1. p \in Phase /\ n \in Nat
    BY <1>1 DEF Transaction, Phase
  <2>2. u \in Transaction
    BY <1>1, <2>1 DEF Transaction
  <2>3. u.staged = t.staged /\ u.written = t.written /\ u.next = n /\ u.phase = p
        /\ u.faults = t.faults
    BY <1>1, <2>1 DEF Transaction
  <2>4. Placed(u)
    <3> HIDE DEF u
    <3> QED BY <1>1, <1>i, <2>2, <2>3 DEF Placed, Rename, Running, Transaction
  <2>5. txn' = [txn EXCEPT ![w] = u]
    BY <1>1, <1>i DEF Rename
  <2> HIDE DEF u
  <2> QED BY <1>1, <2>4, <2>5, Moves
<1>j. CASE RenameFails(w)
  <2> DEFINE u == [t EXCEPT !.phase = "restoring", !.next = 1]
  <2>1. u \in Transaction
    BY <1>1 DEF Transaction, Phase
  <2>2. Placed(u)
    BY <1>1, <1>j, <2>1 DEF Placed, RenameFails, Running, Transaction
  <2>3. t.written = Len(t.staged)
    BY <1>1, <1>j DEF Placed, RenameFails, Running
  <2>4. CASE txn' = [txn EXCEPT ![w] = u]
    <3> HIDE DEF u
    <3> QED BY <1>1, <2>2, <2>4, Moves
  <2>5. CASE MayFault(w) /\ Fault(w, "restoring")
    BY <1>1, <2>3, <2>5, Faulted
  <2>6. [txn EXCEPT ![w].phase = "restoring", ![w].next = 1] = [txn EXCEPT ![w] = u]
    BY <1>1
  <2> QED BY <1>j, <2>4, <2>5, <2>6 DEF RenameFails
<1>k. CASE RestoreFile(w)
  <2> DEFINE u == [t EXCEPT !.next = @ + 1]
  <2>1. t.next + 1 \in Nat
    BY <1>1 DEF Transaction
  <2>2. u \in Transaction
    BY <1>1, <2>1 DEF Transaction
  <2>3. Placed(u)
    BY <1>1, <1>k, <2>2 DEF Placed, RestoreFile, Running, Transaction
  <2>4. txn' = [txn EXCEPT ![w] = u]
    BY <1>1, <1>k DEF RestoreFile
  <2> HIDE DEF u
  <2> QED BY <1>1, <2>3, <2>4, Moves
<1>l. CASE EndRestore(w)
  <2> DEFINE u == [t EXCEPT !.phase = "restored", !.written = 0]
  <2>1. u \in Transaction
    BY <1>1 DEF Transaction, Phase, Ended
  <2>2. Placed(u)
    BY <1>1, <2>1 DEF Placed, Transaction
  <2>3. txn' = [txn EXCEPT ![w] = u]
    BY <1>1, <1>l DEF EndRestore
  <2> HIDE DEF u
  <2> QED BY <1>1, <2>2, <2>3, Moves
<1>m. CASE Complete(w)
  <2> DEFINE u == [t EXCEPT !.phase = "committed", !.written = 0]
  <2>1. u \in Transaction
    BY <1>1 DEF Transaction, Phase, Ended
  <2>2. Placed(u)
    BY <1>1, <2>1 DEF Placed, Transaction
  <2>3. txn' = [txn EXCEPT ![w] = u]
    BY <1>1, <1>m DEF Complete
  <2> HIDE DEF u
  <2> QED BY <1>1, <2>2, <2>3, Moves
<1>n. CASE CompleteFails(w)
  <2> DEFINE u == [t EXCEPT !.phase = "unlogged"]
  <2>1. u \in Transaction
    BY <1>1 DEF Transaction, Phase, Ended
  <2>2. Placed(u)
    BY <1>1, <2>1 DEF Placed, Transaction
  <2>3. CASE txn' = [txn EXCEPT ![w] = u]
    <3> HIDE DEF u
    <3> QED BY <1>1, <2>2, <2>3, Moves
  <2>4. CASE MayFault(w) /\ Fault(w, "unlogged")
    BY <1>1, <2>4, Faulted
  <2>5. [txn EXCEPT ![w].phase = "unlogged"] = [txn EXCEPT ![w] = u]
    BY <1>1
  <2> QED BY <1>n, <2>3, <2>4, <2>5 DEF CompleteFails
<1>o. CASE Crash(w)
  BY <1>1, <1>o DEF Crash, TxnsPlaced, Placed
<1>p. CASE Restart(w)
  BY <1>1, <1>p, NewIsPlaced, Moves DEF Restart
<1>q. CASE RestoreFails(w)
  BY <1>1, <1>q, Faulted DEF RestoreFails
<1>r. CASE CleanUpFails(w)
  BY <1>1, <1>r, Faulted DEF CleanUpFails
<1> QED BY <1>a, <1>b, <1>c, <1>d, <1>e, <1>f, <1>g, <1>h, <1>i, <1>j, <1>k, <1>l,
      <1>m, <1>n, <1>o, <1>p, <1>q, <1>r DEF Step, CommitStep

LEMMA BatchTyped ==
  ASSUME PlaceInv, NEW w \in Writer
  PROVE  /\ txn[w] \in Transaction
         /\ Size(w) \in 0..2
         /\ DOMAIN txn[w].staged = 1..Size(w)
         /\ \A i \in 1..Size(w) : txn[w].staged[i] \in StagedWrite /\ Path(w, i) \in File
<1>1. Placed(txn[w]) /\ txn[w] \in Transaction
  BY DEF PlaceInv, TxnsPlaced
<1>2. txn[w].staged \in Seq(StagedWrite)
  BY <1>1 DEF Transaction
<1>3. ASSUME NEW i \in 1..Size(w) PROVE txn[w].staged[i] \in StagedWrite
  BY <1>2, <1>3 DEF Size
<1>4. DOMAIN txn[w].staged = 1..Size(w)
  BY <1>2 DEF Size
<1>5. Size(w) <= 2
  BY <1>1 DEF Placed, Size
<1>6. Size(w) \in Nat
  BY <1>2 DEF Size
<1>7. Size(w) \in 0..2
  BY <1>5, <1>6
<1> QED BY <1>1, <1>3, <1>4, <1>7 DEF Path, StagedWrite

LEMMA StepFilesTyped ==
  ASSUME PlaceInv, NEW w \in Writer, Step(w) \/ Crash(w) \/ Restart(w)
  PROVE  FilesTyped'
<1>1. FilesTyped /\ Placed(txn[w])
  BY DEF PlaceInv, TxnsPlaced
<1>2. Absent \in Version /\ Torn \in Version /\ Content \subseteq Version
  BY DEF Version
<1>a. CASE \/ \E point \in InjectPoint \cup {"none"} : Open(w, point)
           \/ \E f \in File, content \in Content : Stage(w, f, content)
           \/ Commit(w) \/ RenameFails(w)
  BY <1>1, <1>a DEF Open, Stage, Commit, RenameFails, FilesTyped
<1>b. CASE WriteWal(w)
  <2>1. Batch(w) \subseteq StagedWrite
    BY BatchTyped DEF Batch
  <2>2. Log(w) \subseteq File \X Content
    BY <2>1 DEF Log, StagedWrite
  <2> QED BY <1>1, <1>b, <2>2 DEF WriteWal, FilesTyped
<1>c. CASE WalFails(w) \/ Complete(w) \/ CompleteFails(w)
  BY <1>1, <1>c DEF WalFails, Complete, CompleteFails, FilesTyped
<1>d. CASE WriteTemp(w) \/ TempFails(w)
  <2> DEFINE i == txn[w].written + 1
  <2>1. i \in 1..Size(w)
    <3>1. txn[w].phase = "writing"
      BY <1>d DEF WriteTemp, TempFails, Running
    <3>2. txn[w].written < Len(txn[w].staged) /\ txn[w].written \in Nat
      BY <1>1, <3>1 DEF Placed, Transaction
    <3>3. Size(w) \in Nat
      BY BatchTyped
    <3> QED BY <3>2, <3>3 DEF Size
  <2>2. txn[w].staged[i] \in StagedWrite
    BY <2>1, BatchTyped
  <2> HIDE DEF i
  <2>3. txn[w].staged[i].path \in File /\ txn[w].staged[i].graph \in Version
    BY <1>2, <2>2 DEF StagedWrite
  <2>4. temp' \in [File -> Version]
    BY <1>1, <1>2, <1>d, <2>3 DEF WriteTemp, TempFails, FilesTyped, i
  <2> QED BY <1>1, <1>d, <2>4 DEF WriteTemp, TempFails, FilesTyped
<1>e. CASE Abort(w) \/ EndRestore(w)
  BY <1>1, <1>2, <1>e DEF Abort, EndRestore, FilesTyped
<1>f. CASE Rename(w)
  <2>1. txn[w].next \in 1..Size(w)
    BY <1>1, <1>f, BatchTyped DEF Rename, Running, Placed, Size
  <2>2. txn[w].staged[txn[w].next].path \in File
    BY <2>1, BatchTyped DEF Path
  <2> QED BY <1>1, <1>2, <1>f, <2>2 DEF Rename, FilesTyped
<1>g. CASE RestoreFile(w)
  <2>1. txn[w].next \in 1..Size(w)
    BY <1>1, <1>g, BatchTyped DEF RestoreFile, Running, Placed, Size
  <2>2. txn[w].staged[txn[w].next] \in StagedWrite
    BY <2>1, BatchTyped
  <2> QED BY <1>1, <1>g, <2>2 DEF RestoreFile, FilesTyped, StagedWrite
<1>h. CASE Crash(w)
  BY <1>1, <1>2, <1>h DEF Crash, FilesTyped
<1>i. CASE Restart(w)
  BY <1>1, <1>i DEF Restart, FilesTyped
<1>j. CASE RestoreFails(w)
  <2>1. txn[w].next \in 1..Size(w)
    BY <1>1, <1>j, BatchTyped DEF RestoreFails, Running, Placed, Size
  <2>2. txn[w].staged[txn[w].next].path \in File
    BY <2>1, BatchTyped DEF Path
  <2> QED BY <1>1, <1>2, <1>j, <2>2 DEF RestoreFails, FilesTyped
<1>k. CASE CleanUpFails(w)
  BY <1>1, <1>2, <1>k DEF CleanUpFails, FilesTyped
<1> QED BY <1>a, <1>b, <1>c, <1>d, <1>e, <1>f, <1>g, <1>h, <1>i, <1>j, <1>k
      DEF Step, CommitStep

-----------------------------------------------------------------------------
LEMMA SameBatch ==
  ASSUME NEW w, txn'[w].staged = txn[w].staged
  PROVE  /\ Batch(w)' = Batch(w) /\ Log(w)' = Log(w) /\ Size(w)' = Size(w)
         /\ \A i : Path(w, i)' = Path(w, i)
         /\ \A i, k : Latest(w, i, k)' = Latest(w, i, k)
         /\ \A f : Left(w, f)' = Left(w, f)
<1>1. Batch(w)' = Batch(w)
  BY DEF Batch
<1>2. Log(w)' = Log(w)
  BY <1>1 DEF Log
<1>3. \A f : Left(w, f)' = Left(w, f)
  BY <1>1 DEF Left
<1> QED BY <1>1, <1>2, <1>3 DEF Size, Path, Latest

\* Some staged write of a file is the last.
LEMMA HasLatest ==
  ASSUME PlaceInv, NEW w \in Writer, NEW i \in 1..Size(w)
  PROVE  \E k \in 1..Size(w) : Path(w, k) = Path(w, i) /\ Latest(w, k, Size(w))
<1>1. Size(w) \in 0..2
  BY BatchTyped
<1>2. CASE \E k \in 1..Size(w) : k > i /\ Path(w, k) = Path(w, i)
  BY <1>1, <1>2 DEF Latest
<1>3. CASE ~ \E k \in 1..Size(w) : k > i /\ Path(w, k) = Path(w, i)
  BY <1>3 DEF Latest
<1> QED BY <1>2, <1>3

LEMMA LeftHas ==
  ASSUME PlaceInv, NEW w \in Writer, NEW i \in 1..Size(w)
  PROVE  {Torn, txn[w].staged[i].original, txn[w].staged[i].graph} \subseteq Left(w, Path(w, i))
<1>1. txn[w].staged[i] \in Batch(w) /\ txn[w].staged[i].path = Path(w, i)
  BY BatchTyped DEF Batch, Path
<1> QED BY <1>1 DEF Left

\* A file of the batch changes to what it may be left with.
LEMMA HeldKept ==
  ASSUME PlaceInv, NEW w \in Writer, Held(w), txn[w].phase = "restoring",
         txn'[w].staged = txn[w].staged, wal' = wal,
         NEW i \in 1..Size(w), NEW left \in Left(w, Path(w, i)),
         disk' = [disk EXCEPT ![Path(w, i)] = left]
  PROVE  Held(w)'
<1>1. disk \in [File -> Version] /\ \A j \in 1..Size(w) : Path(w, j) \in File
  BY BatchTyped DEF PlaceInv, FilesTyped
<1>2. \A j \in 1..Size(w) : disk'[Path(w, j)] \in Left(w, Path(w, j))
  BY <1>1 DEF Held
<1>3. wal' = Log(w)
  BY DEF Held
<1> QED BY <1>2, <1>3, SameBatch DEF Held

LEMMA DataStep ==
  ASSUME PlaceInv, PlaceInv', NEW w \in Writer, DataInv(w), Writer = {w},
         Step(w) \/ Crash(w) \/ Restart(w)
  PROVE  DataInv(w)'
<1> DEFINE t == txn[w]
<1>1. /\ t \in Transaction /\ Placed(t) /\ txn \in [Writer -> Transaction]
      /\ t.next \in Nat /\ t.written \in Nat /\ t.written <= Size(w)
      /\ disk \in [File -> Version] /\ temp \in [File -> Version]
      /\ Size(w) \in 0..2 /\ DOMAIN t.staged = 1..Size(w) /\ t.staged \in Seq(StagedWrite)
      /\ \A i \in 1..Size(w) : t.staged[i] \in StagedWrite /\ Path(w, i) \in File
  BY BatchTyped DEF PlaceInv, TxnsPlaced, FilesTyped, Transaction, Placed, Size
<1> USE <1>1 DEF DataInv
<1>a. ASSUME NEW point \in InjectPoint \cup {"none"}, Open(w, point) PROVE DataInv(w)'
  <2>1. Untouched(w)'
    BY <1>a DEF Open, NewTransaction, Untouched, Path, Size, Ended, Temps
  <2>2. Written(w)'
    BY <1>a DEF Open, NewTransaction, Written, Path, Size, Ended, Temps
  <2>3. Renaming(w)'
    BY <1>a DEF Open, NewTransaction, Renaming, Path, Size, Ended, Temps
  <2>4. Restoring(w)'
    BY <1>a DEF Open, NewTransaction, Restoring, Path, Size, Ended, Temps
  <2>5. Replaced(w)'
    BY <1>a DEF Open, NewTransaction, Replaced, Path, Size, Ended, Temps
  <2>6. Clean(w)'
    <3>1. ASSUME NEW f \in Temps(w), interrupted = {} PROVE temp[f] \in {Absent, Torn}
      BY <1>a, <3>1 DEF Open, Ended, Clean, Replaced, Temps, Path, Size
    <3>2. txn'[w].phase = "staging" /\ UNCHANGED <<temp, interrupted>>
      BY <1>a DEF Open, NewTransaction
    <3> QED BY <3>1, <3>2 DEF Clean, Ended
  <2>7. Held(w)'
    BY <1>a DEF Open, NewTransaction, Held
  <2> QED BY <2>1, <2>2, <2>3, <2>4, <2>5, <2>6, <2>7
<1>b. ASSUME NEW f \in File, NEW content \in Content, Stage(w, f, content) PROVE DataInv(w)'
  <2>1. Untouched(w)'
    BY <1>b DEF Stage, Running, Untouched, Path, Size, Ended, Temps
  <2>2. Written(w)'
    BY <1>b DEF Stage, Running, Written, Path, Size, Ended, Temps
  <2>3. Renaming(w)'
    BY <1>b DEF Stage, Running, Renaming, Path, Size, Ended, Temps
  <2>4. Restoring(w)'
    BY <1>b DEF Stage, Running, Restoring, Path, Size, Ended, Temps
  <2>5. Replaced(w)'
    BY <1>b DEF Stage, Running, Replaced, Path, Size, Ended, Temps
  <2>6. Clean(w)'
    BY <1>b DEF Stage, Running, Clean, Path, Size, Ended, Temps
  <2>7. Held(w)'
    BY <1>b DEF Stage, Running, Held
  <2> QED BY <2>1, <2>2, <2>3, <2>4, <2>5, <2>6, <2>7
<1>c. CASE Commit(w)
  <2>1. Untouched(w)'
    BY <1>c DEF Commit, Running, Untouched, Path, Size, Ended, Temps
  <2>2. Written(w)'
    BY <1>c DEF Commit, Running, Written, Path, Size, Ended, Temps
  <2>3. Renaming(w)'
    BY <1>c DEF Commit, Running, Renaming, Path, Size, Ended, Temps
  <2>4. Restoring(w)'
    BY <1>c DEF Commit, Running, Restoring, Path, Size, Ended, Temps
  <2>5. Replaced(w)'
    BY <1>c DEF Commit, Running, Replaced, Path, Size, Ended, Temps
  <2>6. Clean(w)'
    BY <1>c DEF Commit, Running, Clean, Path, Size, Ended, Temps
  <2>7. Held(w)'
    BY <1>c DEF Commit, Running, Held
  <2> QED BY <2>1, <2>2, <2>3, <2>4, <2>5, <2>6, <2>7
<1>d. CASE WriteWal(w)
  <2>1. Untouched(w)'
    BY <1>d DEF WriteWal, Running, Passing, Untouched, Path, Size, Ended, Temps
  <2>2. Written(w)'
    <3>1. txn'[w].staged = t.staged
      BY <1>d DEF WriteWal
    <3>2. Log(w)' = Log(w)
      BY <3>1, SameBatch
    <3>3. t.written = 0 /\ txn'[w].written = 0 /\ wal' = Log(w)
      BY <1>d DEF WriteWal, Running, Placed
    <3> QED BY <3>2, <3>3 DEF Written
  <2>3. Renaming(w)'
    BY <1>d DEF WriteWal, Running, Passing, Renaming, Path, Size, Ended, Temps
  <2>4. Restoring(w)'
    BY <1>d DEF WriteWal, Running, Passing, Restoring, Path, Size, Ended, Temps
  <2>5. Replaced(w)'
    BY <1>d DEF WriteWal, Running, Passing, Replaced, Path, Size, Ended, Temps
  <2>6. Clean(w)'
    BY <1>d DEF WriteWal, Running, Passing, Clean, Path, Size, Ended, Temps
  <2>7. Held(w)'
    BY <1>d DEF WriteWal, Running, Passing, Held
  <2> QED BY <2>1, <2>2, <2>3, <2>4, <2>5, <2>6, <2>7
<1>e. CASE WalFails(w)
  <2>1. Untouched(w)'
    BY <1>e DEF WalFails, Running, Fault, Untouched, Path, Size, Ended, Temps
  <2>2. Written(w)'
    BY <1>e DEF WalFails, Running, Fault, Written, Path, Size, Ended, Temps
  <2>3. Renaming(w)'
    BY <1>e DEF WalFails, Running, Fault, Renaming, Path, Size, Ended, Temps
  <2>4. Restoring(w)'
    BY <1>e DEF WalFails, Running, Fault, Restoring, Path, Size, Ended, Temps
  <2>5. Replaced(w)'
    BY <1>e DEF WalFails, Running, Fault, Replaced, Path, Size, Ended, Temps
  <2>6. Clean(w)'
    BY <1>e DEF WalFails, Running, Fault, Clean, Path, Size, Ended, Temps
  <2>7. Held(w)'
    BY <1>e DEF WalFails, Running, Fault, Held
  <2> QED BY <2>1, <2>2, <2>3, <2>4, <2>5, <2>6, <2>7
<1>f. CASE WriteTemp(w)
  <2>1. Untouched(w)'
    BY <1>f DEF WriteTemp, Running, Passing, Untouched, Path, Size, Ended, Temps
  <2>2. Written(w)'
    <3> PICK i \in Nat : i = t.written + 1
      OBVIOUS
    <3>1. /\ txn'[w].staged = t.staged /\ txn'[w].written = i /\ i \in 1..Size(w)
          /\ w \notin crashed /\ t.phase = "writing" /\ wal' = wal
      BY <1>f DEF WriteTemp, Running, Placed, Size
    <3>2. temp' = [temp EXCEPT ![Path(w, i)] = t.staged[i].graph]
      BY <1>f DEF WriteTemp, Path
    <3>3. Log(w)' = Log(w) /\ \A k : Path(w, k)' = Path(w, k)
      BY <3>1, SameBatch
    <3>4. ASSUME NEW k \in 1..i, Latest(w, k, i)'
          PROVE  temp'[Path(w, k)] = t.staged[k].graph
      <4>1. Latest(w, k, i)
        BY <3>1, <3>4, SameBatch
      <4>2. CASE k = i
        BY <3>1, <3>2, <4>2
      <4>3. CASE k # i
        <5>1. Latest(w, k, t.written) /\ k \in 1..t.written /\ Path(w, i) # Path(w, k)
          BY <4>1, <4>3, <3>1 DEF Latest
        <5> QED BY <3>1, <3>2, <5>1 DEF Written
      <4> QED BY <4>2, <4>3
    <3> QED BY <3>1, <3>3, <3>4 DEF Written
  <2>3. Renaming(w)'
    <3> SUFFICES ASSUME txn'[w].phase = "renaming" PROVE Renaming(w)'
      BY DEF Renaming
    <3>1. /\ txn'[w].staged = t.staged /\ txn'[w].written = t.written + 1
          /\ w \notin crashed /\ t.phase = "writing" /\ UNCHANGED <<disk, wal, crashed>>
          /\ txn'[w].next = t.next
      BY <1>f DEF WriteTemp, Running
    <3>2. t.next = 1 /\ t.written + 1 = Size(w)
      BY <1>f, <3>1 DEF WriteTemp, Running, Placed, Size, Passing
    <3>3. Renamed(w)' = {} /\ 1..(txn'[w].next - 1) = {}
      BY <3>1, <3>2 DEF Renamed
    <3>4. \A i \in 1..Size(w) : disk[Path(w, i)] = t.staged[i].original
      BY <3>1 DEF Untouched
    <3>5. \A i \in 1..Size(w) : Latest(w, i, Size(w)) => temp'[Path(w, i)] = t.staged[i].graph
      <4> DEFINE i == t.written + 1
      <4>1. temp' = [temp EXCEPT ![Path(w, i)] = t.staged[i].graph]
        BY <1>f DEF WriteTemp, Path
      <4>2. ASSUME NEW k \in 1..Size(w), Latest(w, k, Size(w)), k # i
            PROVE  temp'[Path(w, k)] = t.staged[k].graph
        <5>1. Latest(w, k, t.written) /\ k \in 1..t.written /\ Path(w, i) # Path(w, k)
          BY <4>2, <3>2 DEF Latest
        <5> QED BY <3>1, <4>1, <5>1 DEF Written
      <4> QED BY <3>2, <4>1, <4>2
    <3>6. \A i \in 1..Size(w)' :
            /\ disk'[Path(w, i)'] = txn'[w].staged[i].original
            /\ Latest(w, i, Size(w))' => temp'[Path(w, i)'] = txn'[w].staged[i].graph
      BY <3>1, <3>4, <3>5, SameBatch
    <3> QED BY <3>3, <3>6 DEF Renaming
  <2>4. Restoring(w)'
    BY <1>f DEF WriteTemp, Running, Passing, Restoring, Path, Size, Ended, Temps
  <2>5. Replaced(w)'
    BY <1>f DEF WriteTemp, Running, Passing, Replaced, Path, Size, Ended, Temps
  <2>6. Clean(w)'
    BY <1>f DEF WriteTemp, Running, Passing, Clean, Path, Size, Ended, Temps
  <2>7. Held(w)'
    BY <1>f DEF WriteTemp, Running, Passing, Held
  <2> QED BY <2>1, <2>2, <2>3, <2>4, <2>5, <2>6, <2>7
<1>g. CASE TempFails(w)
  <2>1. Untouched(w)'
    BY <1>g DEF TempFails, Running, Fault, Untouched, Path, Size, Ended, Temps
  <2>2. Written(w)'
    BY <1>g DEF TempFails, Running, Fault, Written, Path, Size, Ended, Temps
  <2>3. Renaming(w)'
    <3>1. txn'[w].phase = "aborting"
      BY <1>g DEF TempFails, Fault
    <3> QED BY <3>1 DEF Renaming
  <2>4. Restoring(w)'
    BY <1>g DEF TempFails, Running, Fault, Restoring, Path, Size, Ended, Temps
  <2>5. Replaced(w)'
    BY <1>g DEF TempFails, Running, Fault, Replaced, Path, Size, Ended, Temps
  <2>6. Clean(w)'
    BY <1>g DEF TempFails, Running, Fault, Clean, Path, Size, Ended, Temps
  <2>7. Held(w)'
    BY <1>g DEF TempFails, Running, Fault, Held
  <2> QED BY <2>1, <2>2, <2>3, <2>4, <2>5, <2>6, <2>7
<1>h. CASE Abort(w)
  <2>1. Untouched(w)'
    BY <1>h DEF Abort, Running, Untouched, Path, Size, Ended, Temps
  <2>2. Written(w)'
    BY <1>h DEF Abort, Running, Written, Path, Size, Ended, Temps
  <2>3. Renaming(w)'
    BY <1>h DEF Abort, Running, Renaming, Path, Size, Ended, Temps
  <2>4. Restoring(w)'
    BY <1>h DEF Abort, Running, Restoring, Path, Size, Ended, Temps
  <2>5. Replaced(w)'
    BY <1>h DEF Abort, Running, Replaced, Path, Size, Ended, Temps
  <2>6. Clean(w)'
    BY <1>h DEF Abort, Running, Clean, Path, Size, Ended, Temps
  <2>7. Held(w)'
    BY <1>h DEF Abort, Running, Held
  <2> QED BY <2>1, <2>2, <2>3, <2>4, <2>5, <2>6, <2>7
<1>i. CASE Rename(w)
  <2>1. Untouched(w)'
    <3>1. /\ txn'[w].staged = t.staged /\ txn'[w].phase \in {"renaming", "completing"}
          /\ w \notin crashed
      BY <1>i DEF Rename, Running
    <3> QED BY <3>1 DEF Untouched, Path, Size
  <2>2. Written(w)'
    <3>1. txn'[w].staged = t.staged
      BY <1>i DEF Rename
    <3>2. Log(w)' = Log(w)
      BY <3>1, SameBatch
    <3> QED BY <1>i, <3>2 DEF Rename, Running, Written
  <2>3. Renaming(w)'
    <3> DEFINE n == t.next
               f == Path(w, n)
    <3> SUFFICES ASSUME txn'[w].phase = "renaming" PROVE Renaming(w)'
      BY DEF Renaming
    <3>1. /\ txn'[w].staged = t.staged /\ txn'[w].next = n + 1 /\ n \in 1..Size(w)
          /\ t.phase = "renaming" /\ temp[f] # Absent
          /\ disk' = [disk EXCEPT ![f] = temp[f]] /\ temp' = [temp EXCEPT ![f] = Absent]
      BY <1>i DEF Rename, Running, Path, Placed, Size
    <3>2. f \notin Renamed(w) /\ f \in File
      BY <3>1 DEF Renaming
    <3>3. \A g : g \in Renamed(w)' <=> g \in Renamed(w) \/ g = f
      BY <3>1, SameBatch DEF Renamed
    <3>4. ASSUME NEW i \in 1..n, NEW j \in 1..n, Path(w, i) = Path(w, j) PROVE i = j
      BY <3>1, <3>2, <3>4 DEF Renaming, Renamed
    <3>5. ASSUME NEW i \in 1..Size(w), Path(w, i) \in Renamed(w)'
          PROVE  /\ temp'[Path(w, i)] = Absent
                 /\ Latest(w, i, Size(w)) => disk'[Path(w, i)] = t.staged[i].graph
      <4>1. CASE Path(w, i) = f
        BY <3>1, <3>2, <4>1 DEF Renaming
      <4>2. CASE Path(w, i) # f
        BY <3>1, <3>3, <3>5, <4>2 DEF Renaming
      <4> QED BY <4>1, <4>2
    <3>6. ASSUME NEW i \in 1..Size(w), Path(w, i) \notin Renamed(w)'
          PROVE  /\ disk'[Path(w, i)] = t.staged[i].original
                 /\ Latest(w, i, Size(w)) => temp'[Path(w, i)] = t.staged[i].graph
      BY <3>1, <3>3, <3>6 DEF Renaming
    <3> QED BY <3>1, <3>4, <3>5, <3>6, SameBatch DEF Renaming
  <2>4. Restoring(w)'
    BY <1>i DEF Rename, Running, Restoring, Path, Size, Ended, Temps
  <2>5. Replaced(w)'
    <3> DEFINE n == t.next
               f == Path(w, n)
    <3> SUFFICES ASSUME txn'[w].phase = "completing" PROVE Replaced(w)'
      BY <1>i DEF Replaced, Rename, Running
    <3>1. /\ txn'[w].staged = t.staged /\ n = Size(w) /\ n \in 1..Size(w)
          /\ t.phase = "renaming" /\ temp[f] # Absent
          /\ disk' = [disk EXCEPT ![f] = temp[f]] /\ temp' = [temp EXCEPT ![f] = Absent]
      BY <1>i DEF Rename, Running, Path, Placed, Size
    <3>2. f \notin Renamed(w) /\ f \in File
      BY <3>1 DEF Renaming
    <3>3. ASSUME NEW i \in 1..Size(w), NEW j \in 1..Size(w), Path(w, i) = Path(w, j) PROVE i = j
      BY <3>1, <3>2, <3>3 DEF Renaming, Renamed
    <3>4. \A i \in 1..Size(w) : Latest(w, i, Size(w))
      BY <3>3 DEF Latest
    <3>5. \A i \in 1..Size(w) : i # n => Path(w, i) \in Renamed(w) /\ Path(w, i) # f
      BY <3>1, <3>3 DEF Renamed
    <3>6. ASSUME NEW i \in 1..Size(w)
          PROVE  disk'[Path(w, i)] = t.staged[i].graph /\ temp'[Path(w, i)] = Absent
      BY <3>1, <3>2, <3>4, <3>5 DEF Renaming
    <3> QED BY <3>1, <3>6, SameBatch DEF Replaced
  <2>6. Clean(w)'
    BY <1>i DEF Rename, Running, Clean, Path, Size, Ended, Temps
  <2>7. Held(w)'
    BY <1>i DEF Rename, Running, Held
  <2> QED BY <2>1, <2>2, <2>3, <2>4, <2>5, <2>6, <2>7
<1>j. CASE RenameFails(w)
  <2>1. /\ txn'[w].staged = t.staged /\ txn'[w].phase = "restoring" /\ txn'[w].next = 1
        /\ txn'[w].written = t.written /\ UNCHANGED <<disk, temp, wal, crashed, interrupted>>
        /\ t.phase = "renaming"
    <3>1. \/ txn' = [txn EXCEPT ![w].phase = "restoring", ![w].next = 1]
          \/ Fault(w, "restoring")
      BY <1>j DEF RenameFails
    <3>2. /\ t.phase = "renaming" /\ UNCHANGED <<disk, temp, wal, crashed, interrupted>>
      BY <1>j DEF RenameFails, Running
    <3> QED BY <3>1, <3>2 DEF Fault, Transaction
  <2>2. Temps(w)' = Temps(w)
    BY <2>1 DEF Temps
  <2>3. ASSUME NEW i \in 1..Size(w) PROVE disk[Path(w, i)] \in Left(w, Path(w, i))
    <3>1. PICK k \in 1..Size(w) : Path(w, k) = Path(w, i) /\ Latest(w, k, Size(w))
      BY HasLatest
    <3>2. disk[Path(w, k)] \in {t.staged[k].original, t.staged[k].graph}
      BY <2>1, <3>1 DEF Renaming
    <3> QED BY <3>1, <3>2, LeftHas
  <2>4. Held(w)'
    BY <2>1, <2>3, SameBatch DEF Held, Written
  <2> QED BY <2>1, <2>2, <2>4, SameBatch
          DEF Untouched, Written, Renaming, Restoring, Replaced, Clean, Ended
<1>k. CASE RestoreFile(w)
  <2>1. Untouched(w)'
    BY <1>k DEF RestoreFile, Running, Untouched, Path, Size, Ended, Temps
  <2>2. Written(w)'
    BY <1>k DEF RestoreFile, Running, Written, Path, Size, Ended, Temps
  <2>3. Renaming(w)'
    BY <1>k DEF RestoreFile, Running, Renaming, Path, Size, Ended, Temps
  <2>4. Restoring(w)'
    <3> DEFINE n == t.next
    <3>1. /\ txn'[w].staged = t.staged /\ txn'[w].next = n + 1 /\ n \in 1..Size(w)
          /\ t.phase = "restoring" /\ w \notin crashed
          /\ disk' = [disk EXCEPT ![Path(w, n)] = t.staged[n].original]
      BY <1>k DEF RestoreFile, Running, Path, Placed, Size
    <3>2. \A i \in 1..(n - 1) : disk[Path(w, i)] = t.staged[i].original
      BY <3>1 DEF Restoring
    <3>3. ASSUME NEW i \in 1..n PROVE disk'[Path(w, i)] = t.staged[i].original
      <4>1. CASE Path(w, i) = Path(w, n)
        <5>1. t.staged[i].original = t.staged[n].original
          BY <3>1, <4>1 DEF Untouched
        <5> QED BY <3>1, <4>1, <5>1
      <4>2. CASE Path(w, i) # Path(w, n)
        BY <3>1, <3>2, <4>2
      <4> QED BY <4>1, <4>2
    <3> QED BY <3>1, <3>3, SameBatch DEF Restoring
  <2>5. Replaced(w)'
    BY <1>k DEF RestoreFile, Running, Replaced, Path, Size, Ended, Temps
  <2>6. Clean(w)'
    BY <1>k DEF RestoreFile, Running, Clean, Path, Size, Ended, Temps
  <2>7. Held(w)'
    <3>1. /\ t.phase = "restoring" /\ txn'[w].staged = t.staged /\ wal' = wal
          /\ t.next \in 1..Size(w)
          /\ disk' = [disk EXCEPT ![Path(w, t.next)] = t.staged[t.next].original]
      BY <1>k DEF RestoreFile, Running, Path, Placed, Size
    <3>2. t.staged[t.next].original \in Left(w, Path(w, t.next))
      BY <3>1, LeftHas
    <3> QED BY <3>1, <3>2, HeldKept
  <2> QED BY <2>1, <2>2, <2>3, <2>4, <2>5, <2>6, <2>7
<1>l. CASE EndRestore(w)
  <2>1. Untouched(w)'
    <3>1. /\ txn'[w].staged = t.staged /\ t.next > Size(w) /\ t.phase = "restoring"
          /\ w \notin crashed /\ disk' = disk
      BY <1>l DEF EndRestore, Restored, Running, Size
    <3>2. \A i \in 1..Size(w) : disk[Path(w, i)] = t.staged[i].original
      BY <3>1 DEF Restoring
    <3> QED BY <3>1, <3>2, SameBatch DEF Untouched
  <2>2. Written(w)'
    BY <1>l DEF EndRestore, Restored, Running, Written, Path, Size, Ended, Temps
  <2>3. Renaming(w)'
    BY <1>l DEF EndRestore, Restored, Running, Renaming, Path, Size, Ended, Temps
  <2>4. Restoring(w)'
    BY <1>l DEF EndRestore, Restored, Running, Restoring, Path, Size, Ended, Temps
  <2>5. Replaced(w)'
    BY <1>l DEF EndRestore, Restored, Running, Replaced, Path, Size, Ended, Temps
  <2>6. Clean(w)'
    BY <1>l DEF EndRestore, Restored, Running, Clean, Path, Size, Ended, Temps
  <2>7. Held(w)'
    BY <1>l DEF EndRestore, Restored, Running, Held
  <2> QED BY <2>1, <2>2, <2>3, <2>4, <2>5, <2>6, <2>7
<1>m. CASE Complete(w)
  <2>1. Untouched(w)'
    BY <1>m DEF Complete, Running, Untouched, Path, Size, Ended, Temps
  <2>2. Written(w)'
    BY <1>m DEF Complete, Running, Written, Path, Size, Ended, Temps
  <2>3. Renaming(w)'
    BY <1>m DEF Complete, Running, Renaming, Path, Size, Ended, Temps
  <2>4. Restoring(w)'
    BY <1>m DEF Complete, Running, Restoring, Path, Size, Ended, Temps
  <2>5. Replaced(w)'
    BY <1>m DEF Complete, Running, Replaced, Path, Size, Ended, Temps
  <2>6. Clean(w)'
    <3>1. \A f \in Temps(w) : temp[f] = Absent
      BY <1>m DEF Complete, Running, Replaced, Temps, Path, Size
    <3>2. wal' = Absent /\ txn'[w].written = 0 /\ UNCHANGED <<temp, interrupted>>
      BY <1>m DEF Complete
    <3> QED BY <3>1, <3>2 DEF Clean
  <2>7. Held(w)'
    BY <1>m DEF Complete, Running, Held
  <2> QED BY <2>1, <2>2, <2>3, <2>4, <2>5, <2>6, <2>7
<1>n. CASE CompleteFails(w)
  <2>1. /\ txn'[w].staged = t.staged /\ txn'[w].phase = "unlogged"
        /\ txn'[w].written = t.written /\ UNCHANGED <<disk, temp, crashed, interrupted>>
        /\ t.phase = "completing"
    <3>1. txn' = [txn EXCEPT ![w].phase = "unlogged"] \/ Fault(w, "unlogged")
      BY <1>n DEF CompleteFails
    <3>2. /\ t.phase = "completing" /\ UNCHANGED <<disk, temp, crashed, interrupted>>
      BY <1>n DEF CompleteFails, Running
    <3> QED BY <3>1, <3>2 DEF Fault, Transaction
  <2>2. Temps(w)' = Temps(w)
    BY <2>1 DEF Temps
  <2> QED BY <2>1, <2>2, SameBatch
          DEF Untouched, Written, Renaming, Restoring, Held, Replaced, Clean, Ended
<1>o. CASE Crash(w)
  <2>1. Untouched(w)'
    <3>1. txn' = txn /\ w \in crashed'
      BY <1>o DEF Crash
    <3> QED BY <3>1 DEF Untouched, Path, Size
  <2>2. Written(w)'
    <3>1. Log(w)' = Log(w)
      BY <1>o, SameBatch DEF Crash
    <3> QED BY <1>o, <3>1 DEF Crash, Written
  <2>3. Renaming(w)'
    <3>1. txn' = txn /\ (txn[w].phase = "renaming" => UNCHANGED <<disk, temp>>)
      BY <1>o DEF Crash
    <3>2. Renamed(w)' = Renamed(w)
      BY <3>1 DEF Renamed, Path
    <3> QED BY <3>1, <3>2, SameBatch DEF Renaming
  <2>4. Restoring(w)'
    BY <1>o DEF Crash, Restoring, Path, Size, Ended, Temps
  <2>5. Replaced(w)'
    BY <1>o DEF Crash, Replaced, Path, Size, Ended, Temps
  <2>6. Clean(w)'
    BY <1>o DEF Crash, Clean, Path, Size, Ended, Temps
  <2>7. Held(w)'
    <3> SUFFICES ASSUME t.phase \in {"restoring", "unrestored"} PROVE Held(w)'
      BY <1>o DEF Crash, Held
    <3>1. txn' = txn /\ t.phase = "restoring" /\ wal' = wal
      BY <1>o DEF Crash, Ended
    <3>2. CASE disk' = disk
      BY <3>1, <3>2, SameBatch DEF Held
    <3>3. CASE disk' # disk
      <4>1. t.next \in 1..Size(w) /\ disk' = [disk EXCEPT ![Path(w, t.next)] = Torn]
        BY <1>o, <3>3 DEF Crash, Path, Placed, Size
      <4> QED BY <3>1, <4>1, LeftHas, HeldKept
    <3> QED BY <3>2, <3>3
  <2> QED BY <2>1, <2>2, <2>3, <2>4, <2>5, <2>6, <2>7
<1>p. CASE Restart(w)
  <2>1. Untouched(w)'
    BY <1>p DEF Restart, NewTransaction, Untouched, Path, Size, Ended, Temps
  <2>2. Written(w)'
    BY <1>p DEF Restart, NewTransaction, Written, Path, Size, Ended, Temps
  <2>3. Renaming(w)'
    BY <1>p DEF Restart, NewTransaction, Renaming, Path, Size, Ended, Temps
  <2>4. Restoring(w)'
    BY <1>p DEF Restart, NewTransaction, Restoring, Path, Size, Ended, Temps
  <2>5. Replaced(w)'
    BY <1>p DEF Restart, NewTransaction, Replaced, Path, Size, Ended, Temps
  <2>6. Clean(w)'
    BY <1>p DEF Restart, Clean, PlaceInv, FilesTyped
  <2>7. Held(w)'
    BY <1>p DEF Restart, NewTransaction, Held
  <2> QED BY <2>1, <2>2, <2>3, <2>4, <2>5, <2>6, <2>7
<1>q. CASE RestoreFails(w)
  <2>1. /\ txn'[w].staged = t.staged /\ txn'[w].phase = "unrestored" /\ t.phase = "restoring"
        /\ interrupted' # {} /\ t.next \in 1..Size(w) /\ wal' = wal
    BY <1>q DEF RestoreFails, Running, Fault, Placed, Size
  <2>2. PICK left : /\ left \in {disk[Path(w, t.next)], Torn}
                    /\ disk' = [disk EXCEPT ![Path(w, t.next)] = left]
    BY <1>q DEF RestoreFails, Path
  <2>3. left \in Left(w, Path(w, t.next))
    BY <2>1, <2>2, LeftHas DEF Held
  <2>4. Held(w)'
    BY <2>1, <2>2, <2>3, HeldKept
  <2>5. Untouched(w)'
    BY <2>1, SameBatch DEF Untouched
  <2>6. Clean(w)'
    BY <2>1 DEF Clean
  <2> QED BY <2>1, <2>4, <2>5, <2>6 DEF Written, Renaming, Restoring, Replaced
<1>r. CASE CleanUpFails(w)
  <2>1. /\ txn'[w].staged = t.staged /\ txn'[w].phase = "uncleaned" /\ w \notin crashed
        /\ interrupted' # {} /\ disk' = disk /\ crashed' = crashed
        /\ t.phase = "aborting" \/ (t.phase = "restoring" /\ t.next > Size(w))
    <3>1. Fault(w, "uncleaned") /\ interrupted' = interrupted \cup {w}
          /\ UNCHANGED <<disk, wal, crashed>>
      BY <1>r DEF CleanUpFails
    <3>2. txn'[w].staged = t.staged /\ txn'[w].phase = "uncleaned"
      BY <3>1 DEF Fault
    <3>3. w \notin crashed
          /\ (t.phase = "aborting" \/ (t.phase = "restoring" /\ t.next > Size(w)))
      <4>1. Running(w, "aborting") \/ Restored(w)
        BY <1>r DEF CleanUpFails
      <4> QED BY <4>1 DEF Restored, Running, Size
    <3> QED BY <3>1, <3>2, <3>3
  <2>2. \A i \in 1..Size(w) : disk[Path(w, i)] = t.staged[i].original
    <3>1. CASE t.phase = "aborting"
      BY <2>1, <3>1 DEF Untouched
    <3>2. CASE t.phase = "restoring" /\ t.next > Size(w)
      <4>1. \A i \in 1..Size(w) : i \in 1..(t.next - 1)
        BY <3>2
      <4> QED BY <2>1, <3>2, <4>1 DEF Restoring
    <3> QED BY <2>1, <3>1, <3>2
  <2>3. Untouched(w)'
    BY <2>1, <2>2, SameBatch DEF Untouched
  <2> QED BY <2>1, <2>3 DEF Written, Renaming, Restoring, Held, Replaced, Clean
<1> QED BY <1>a, <1>b, <1>c, <1>d, <1>e, <1>f, <1>g, <1>h, <1>i, <1>j, <1>k, <1>l, <1>m, <1>n,
      <1>o, <1>p, <1>q, <1>r
      DEF Step, CommitStep

-----------------------------------------------------------------------------
LEMMA InitData ==
  ASSUME TxnInit, NEW w \in Writer
  PROVE  DataInv(w)
<1>1. txn[w].staged = <<>> /\ Size(w) = 0 /\ txn[w].phase = "staging" /\ txn[w].written = 0
  BY DEF TxnInit, NewTransaction, Size
<1> QED BY <1>1 DEF TxnInit, DataInv, Untouched, Written, Renaming, Restoring, Held, Replaced,
          Clean, Ended

\* The invariant of a writer that has the directory to itself.
LEMMA OneWriter ==
  ASSUME NEW w, Writer = {w}
  PROVE  TxnSpec => [](PlaceInv /\ DataInv(w))
<1>1. TxnInit => PlaceInv /\ DataInv(w)
  BY InitPlaced, InitData
<1>2. PlaceInv /\ DataInv(w) /\ [TxnNext]_txnVars => (PlaceInv /\ DataInv(w))'
  <2> SUFFICES ASSUME PlaceInv, DataInv(w), [TxnNext]_txnVars PROVE (PlaceInv /\ DataInv(w))'
    OBVIOUS
  <2>1. CASE Step(w) \/ Crash(w) \/ Restart(w)
    <3>1. PlaceInv'
      BY <2>1, StepTxnsPlaced, StepFilesTyped DEF PlaceInv
    <3> QED BY <2>1, <3>1, DataStep
  <2>2. CASE UNCHANGED txnVars
    <3>1. PlaceInv'
      BY <2>2 DEF txnVars, PlaceInv, FilesTyped, TxnsPlaced, Placed
    <3>2. Renamed(w)' = Renamed(w) /\ Temps(w)' = Temps(w)
      BY <2>2 DEF txnVars, Renamed, Temps, Path
    <3> QED BY <2>2, <3>1, <3>2, SameBatch DEF txnVars, DataInv, Untouched, Written, Renaming,
              Restoring, Held, Replaced, Clean
  <2> QED BY <2>1, <2>2 DEF TxnNext
<1> QED BY <1>1, <1>2, PTL DEF TxnSpec

-----------------------------------------------------------------------------
\* The state of the transactions of any number of writers keeps its shape, and
\* the loops of commit() stay within their batch (transaction.py:122-233).
THEOREM TransactionTyped == TxnSpec => []TxnTypeOK
<1>1. PlaceInv /\ [TxnNext]_txnVars => PlaceInv'
  <2> SUFFICES ASSUME PlaceInv, [TxnNext]_txnVars PROVE PlaceInv'
    OBVIOUS
  <2>1. CASE TxnNext
    BY <2>1, StepTxnsPlaced, StepFilesTyped DEF TxnNext, PlaceInv
  <2>2. CASE UNCHANGED txnVars
    BY <2>2 DEF txnVars, PlaceInv, FilesTyped, TxnsPlaced, Placed
  <2> QED BY <2>1, <2>2
<1> QED BY <1>1, InitPlaced, PlacedIsTyped, PTL DEF TxnSpec

LEMMA BatchIsStaged ==
  ASSUME PlaceInv, NEW w \in Writer, NEW s \in Batch(w)
  PROVE  \E i \in 1..Size(w) : s = txn[w].staged[i] /\ s.path = Path(w, i)
BY BatchTyped DEF Batch, Path

\* When a writer's transaction has ended, wherever I/O errors or an injected
\* failure struck and however its process died before, the whole batch is in
\* place or none of it, whether or not the clean-up went through.  The exception
\* is an I/O error in the restoration itself: then the log still names the whole
\* batch, and no file of it holds anything but its pre-image, a staged content or
\* a torn pre-image (transaction.py:3-4, 141-153).
THEOREM TransactionAllOrNothing ==
  ASSUME NEW w, Writer = {w}
  PROVE  TxnSpec => []AllOrNothing
<1>1. PlaceInv /\ DataInv(w) => AllOrNothing
  BY BatchIsStaged DEF AllOrNothing, DataInv, Untouched, Held, Replaced
<1> QED BY <1>1, OneWriter, PTL

\* As long as its process lives and no restoration or clean-up fails, an ended transaction leaves no complete
\* temporary, and no log unless marking it failed (transaction.py:183-233).
THEOREM TransactionEndsClean ==
  ASSUME NEW w, Writer = {w}
  PROVE  TxnSpec => []EndsClean
<1>1. PlaceInv /\ DataInv(w) => EndsClean
  <2> SUFFICES ASSUME PlaceInv, DataInv(w), interrupted = {}, txn[w].phase \in Ended,
                      NEW s \in Batch(w)
               PROVE  temp[s.path] \in {Absent, Torn}
    BY DEF EndsClean, DataInv, Clean
  <2>1. PICK i \in 1..Size(w) : s.path = Path(w, i) /\ s.path \in File
    BY BatchIsStaged, BatchTyped
  <2>2. CASE txn[w].phase = "unlogged"
    BY <2>1, <2>2 DEF DataInv, Replaced
  <2>3. CASE txn[w].phase # "unlogged"
    BY <2>1, <2>3 DEF DataInv, Clean, Temps
  <2> QED BY <2>2, <2>3
<1> QED BY <1>1, OneWriter, PTL

LEMMA LastStaged ==
  ASSUME PlaceInv, NEW w \in Writer, NEW f \in {s.path : s \in Batch(w)}
  PROVE  \E k \in 1..Size(w) : /\ Path(w, k) = f /\ Latest(w, k, Size(w))
                               /\ Staged(w)[f] = txn[w].staged[k].graph
<1> DEFINE I == {i \in 1..Len(txn[w].staged) : txn[w].staged[i].path = f}
<1>1. I # {} /\ I \subseteq 1..2 /\ I \subseteq 1..Size(w)
  BY BatchIsStaged, BatchTyped DEF Size, Path
<1>2. \E k \in I : \A i \in I : k >= i
  <2>1. I # {} /\ \A i \in I : i = 1 \/ i = 2
    BY <1>1
  <2> HIDE DEF I
  <2>2. CASE 2 \in I
    BY <2>1, <2>2
  <2>3. CASE 2 \notin I
    <3>1. I = {1}
      BY <2>1, <2>3
    <3> QED BY <3>1
  <2> QED BY <2>2, <2>3
<1>3. Max(I) \in I /\ \A i \in I : Max(I) >= i
  BY <1>2 DEF Max
<1>4. SelectLastInSeq(txn[w].staged, LAMBDA s : s.path = f) = Max(I)
  BY <1>1 DEF SelectLastInSeq
<1>5. Staged(w)[f] = txn[w].staged[Max(I)].graph
  BY <1>4 DEF Staged
<1>6. \A i \in 1..Size(w) : i \in I <=> Path(w, i) = f
  BY DEF Path, Size
<1> HIDE DEF I
<1>7. PICK k \in 1..Size(w) : k = Max(I) /\ k \in I /\ \A i \in I : k >= i
  BY <1>1, <1>3
<1>8. Latest(w, k, Size(w))
  BY <1>1, <1>6, <1>7, BatchTyped DEF Latest
<1> QED BY <1>5, <1>6, <1>7, <1>8

\* The write-ahead rule: if the process dies between two renames, the log names
\* the batch, and the rest of it lies ready (transaction.py:7).
THEOREM TransactionRecoverable ==
  ASSUME NEW w, Writer = {w}
  PROVE  TxnSpec => []Recoverable
<1>1. PlaceInv /\ DataInv(w) => Recoverable
  <2> SUFFICES ASSUME PlaceInv, DataInv(w), txn[w].phase = "renaming",
                      NEW f \in DOMAIN Staged(w)
               PROVE  Staged(w)[f] \in {disk[f], temp[f]}
    BY DEF Recoverable, DataInv, Written
  <2>1. f \in {s.path : s \in Batch(w)}
    BY DEF Staged
  <2> QED BY <2>1, LastStaged DEF DataInv, Renaming
<1> QED BY <1>1, OneWriter, PTL

-----------------------------------------------------------------------------
LEMMA SettledOutside ==
  ASSUME NEW w, Writer = {w}, txn[w].phase \notin Between
  PROVE  Settled = [f \in File |-> disk[f]]
BY DEF Settled

\* While the renames or the restoration run: the pre-images of the batch.
LEMMA SettledBetween ==
  ASSUME PlaceInv, NEW w, Writer = {w}, Untouched(w), txn[w].phase \in Between
  PROVE  /\ Settled \in [File -> Version]
         /\ \A i \in 1..Size(w) : Settled[Path(w, i)] = txn[w].staged[i].original
         /\ \A f \in File : (\A i \in 1..Size(w) : Path(w, i) # f) => Settled[f] = disk[f]
<1>1. ASSUME NEW f \in File, \E s \in Batch(w) : s.path = f
      PROVE  Settled[f] = (CHOOSE s \in Batch(w) : s.path = f).original
  <2>1. (CHOOSE v \in Writer : txn[v].phase \in Between /\ \E s \in Batch(v) : s.path = f) = w
    BY <1>1
  <2> QED BY <1>1, <2>1 DEF Settled
<1>2. ASSUME NEW f \in File, ~ \E s \in Batch(w) : s.path = f
      PROVE  Settled[f] = disk[f]
  BY <1>2 DEF Settled
<1>3. \A i \in 1..Size(w) : /\ txn[w].staged[i] \in Batch(w) /\ txn[w].staged[i] \in StagedWrite
                            /\ Path(w, i) \in File
  BY BatchTyped DEF Batch
<1>4. ASSUME NEW i \in 1..Size(w) PROVE Settled[Path(w, i)] = txn[w].staged[i].original
  <2> DEFINE c == CHOOSE s \in Batch(w) : s.path = Path(w, i)
  <2>1. c \in Batch(w) /\ c.path = Path(w, i)
    BY <1>3 DEF Path
  <2> HIDE DEF c
  <2>2. PICK k \in 1..Size(w) : c = txn[w].staged[k] /\ Path(w, k) = Path(w, i)
    BY <2>1, BatchIsStaged
  <2>3. c.original = txn[w].staged[i].original
    BY <2>2 DEF Untouched
  <2>4. Settled[Path(w, i)] = c.original
    BY <1>1, <1>3 DEF Path, c
  <2> QED BY <2>3, <2>4
<1>5. ASSUME NEW f \in File PROVE Settled[f] \in Version
  <2>1. CASE \E s \in Batch(w) : s.path = f
    <3>1. PICK i \in 1..Size(w) : f = Path(w, i)
      BY <2>1, BatchIsStaged
    <3> QED BY <1>3, <1>4, <3>1 DEF StagedWrite
  <2>2. CASE ~ \E s \in Batch(w) : s.path = f
    BY <1>2, <2>2 DEF PlaceInv, FilesTyped
  <2> QED BY <2>1, <2>2
<1>6. Settled \in [File -> Version]
  BY <1>5 DEF Settled
<1>7. ASSUME NEW f \in File, \A i \in 1..Size(w) : Path(w, i) # f PROVE Settled[f] = disk[f]
  BY <1>2, <1>7, BatchIsStaged
<1> QED BY <1>4, <1>6, <1>7

LEMMA SettledIsDisk ==
  ASSUME PlaceInv, NEW w, Writer = {w}, Untouched(w), txn[w].phase \in Between,
         \A i \in 1..Size(w) : disk[Path(w, i)] = txn[w].staged[i].original
  PROVE  Settled = disk
<1>1. \A f \in File : Settled[f] = disk[f]
  BY SettledBetween
<1> QED BY <1>1, SettledBetween DEF PlaceInv, FilesTyped

\* The same facts of the state after a step.
LEMMA SettledNext ==
  ASSUME NEW w, Writer = {w}
  PROVE  /\ (txn[w].phase \notin Between => Settled = [f \in File |-> disk[f]])'
         /\ (PlaceInv /\ Untouched(w) /\ txn[w].phase \in Between =>
              /\ Settled \in [File -> Version]
              /\ \A i \in 1..Size(w) : Settled[Path(w, i)] = txn[w].staged[i].original
              /\ \A f \in File : (\A i \in 1..Size(w) : Path(w, i) # f) => Settled[f] = disk[f])'
<1>1. txn[w].phase \notin Between => Settled = [f \in File |-> disk[f]]
  BY SettledOutside
<1>2. PlaceInv /\ Untouched(w) /\ txn[w].phase \in Between =>
         /\ Settled \in [File -> Version]
         /\ \A i \in 1..Size(w) : Settled[Path(w, i)] = txn[w].staged[i].original
         /\ \A f \in File : (\A i \in 1..Size(w) : Path(w, i) # f) => Settled[f] = disk[f]
  BY SettledBetween
<1> QED BY <1>1, <1>2, PTL

LEMMA LastStagedNext ==
  ASSUME NEW w, Writer = {w}
  PROVE  (PlaceInv => \A f \in {s.path : s \in Batch(w)} :
            \E k \in 1..Size(w) : /\ Path(w, k) = f /\ Latest(w, k, Size(w))
                                  /\ Staged(w)[f] = txn[w].staged[k].graph)'
<1>1. PlaceInv => \A f \in {s.path : s \in Batch(w)} :
        \E k \in 1..Size(w) : /\ Path(w, k) = f /\ Latest(w, k, Size(w))
                              /\ Staged(w)[f] = txn[w].staged[k].graph
  BY LastStaged
<1> QED BY <1>1, PTL

LEMMA SettledKept ==
  ASSUME NEW w, Writer = {w}, PlaceInv, PlaceInv', Untouched(w), Untouched(w)',
         txn'[w].staged = txn[w].staged, txn[w].phase \in Between, txn'[w].phase \in Between,
         \A f \in File : (\A i \in 1..Size(w) : Path(w, i) # f) => disk'[f] = disk[f]
  PROVE  Settled' = Settled
<1>1. /\ Settled' \in [File -> Version] /\ Settled \in [File -> Version]
  BY SettledNext, SettledBetween
<1>2. ASSUME NEW i \in 1..Size(w) PROVE Settled'[Path(w, i)] = Settled[Path(w, i)]
  BY SettledNext, SettledBetween, SameBatch
<1>3. ASSUME NEW f \in File, \A i \in 1..Size(w) : Path(w, i) # f PROVE Settled'[f] = Settled[f]
  BY <1>3, SettledNext, SettledBetween, SameBatch
<1> QED BY <1>1, <1>2, <1>3

\* staging f and content: the batch with that entry on top.
LEMMA StagePuts ==
  ASSUME NEW w, Writer = {w}, PlaceInv, PlaceInv', NEW f \in File, NEW content \in Content,
         Stage(w, f, content)
  PROVE  Staged(w)' = [g \in DOMAIN Staged(w) \cup {f} |-> IF g = f THEN content ELSE Staged(w)[g]]
<1> DEFINE s == [path |-> f, graph |-> content, original |-> disk[f]]
           S == {b.path : b \in Batch(w)}
<1> PICK n \in Nat : n = Size(w)
  BY BatchTyped
<1>1. txn'[w].staged = Append(txn[w].staged, s) /\ txn[w].staged \in Seq(StagedWrite)
      /\ s \in StagedWrite
  BY BatchTyped DEF Stage, PlaceInv, TxnsPlaced, Transaction, FilesTyped, StagedWrite
<1>2. Size(w)' = n + 1 /\ txn'[w].staged[n + 1] = s /\ DOMAIN txn'[w].staged = 1..(n + 1)
      /\ \A i \in 1..n : txn'[w].staged[i] = txn[w].staged[i]
  BY <1>1 DEF Size
<1>3. Path(w, n + 1)' = f /\ \A i \in 1..n : Path(w, i)' = Path(w, i)
  <2>1. \A i : Path(w, i)' = txn'[w].staged[i].path
    BY DEF Path
  <2> QED BY <1>2, <2>1 DEF Path
<1>4. S' = S \cup {f}
  <2>1. \A b : b \in Batch(w)' <=> \E i \in 1..(n + 1) : b = txn'[w].staged[i]
    BY <1>2 DEF Batch
  <2>2. \A b : b \in Batch(w) <=> \E i \in 1..n : b = txn[w].staged[i]
    BY BatchTyped DEF Batch
  <2>3. s.path = f
    OBVIOUS
  <2> HIDE DEF s
  <2>4. \A b : b \in Batch(w)' <=> b \in Batch(w) \/ b = s
    <3>1. n + 1 \in 1..(n + 1) /\ \A i : i \in 1..(n + 1) <=> i \in 1..n \/ i = n + 1
      OBVIOUS
    <3>2. \A i \in 1..n : txn'[w].staged[i] = txn[w].staged[i]
      BY <1>2
    <3>3. txn'[w].staged[n + 1] = s
      BY <1>2
    <3>4. ASSUME NEW b, b \in Batch(w)' PROVE b \in Batch(w) \/ b = s
      <4>1. PICK i \in 1..(n + 1) : b = txn'[w].staged[i]
        BY <2>1, <3>4
      <4>2. CASE i = n + 1
        BY <3>3, <4>1, <4>2
      <4>3. CASE i \in 1..n
        BY <2>2, <3>2, <4>1, <4>3
      <4> QED BY <3>1, <4>1, <4>2, <4>3
    <3>5. ASSUME NEW b, b \in Batch(w) \/ b = s PROVE b \in Batch(w)'
      <4>1. CASE b = s
        BY <2>1, <3>1, <3>3, <4>1
      <4>2. CASE b \in Batch(w)
        <5>1. PICK i \in 1..n : b = txn[w].staged[i]
          BY <2>2, <4>2
        <5> QED BY <2>1, <3>1, <3>2, <5>1
      <4> QED BY <3>5, <4>1, <4>2
    <3> QED BY <3>4, <3>5
  <2>5. {b.path : b \in Batch(w)'} = {b.path : b \in Batch(w)} \cup {f}
    BY <2>3, <2>4
  <2> QED BY <2>5
<1>5. DOMAIN Staged(w)' = S \cup {f} /\ DOMAIN Staged(w) = S
  BY <1>4 DEF Staged
<1>6. Staged(w)'[f] = content
  <2>1. PICK k \in 1..(n + 1) : /\ Path(w, k)' = f /\ Latest(w, k, n + 1)'
                                /\ Staged(w)'[f] = txn'[w].staged[k].graph
    BY <1>2, <1>4, LastStagedNext
  <2>2. k = n + 1
    BY <1>3, <2>1 DEF Latest
  <2> QED BY <1>2, <2>1, <2>2
<1>7. ASSUME NEW g \in S, g # f PROVE Staged(w)'[g] = Staged(w)[g]
  <2>0. g \in {b.path : b \in Batch(w)'}
    BY <1>4
  <2>1. PICK k \in 1..(n + 1) : /\ Path(w, k)' = g /\ Latest(w, k, n + 1)'
                                /\ Staged(w)'[g] = txn'[w].staged[k].graph
    <3> HIDE DEF S
    <3> QED BY <1>2, <2>0, LastStagedNext
  <2>2. PICK m \in 1..n : /\ Path(w, m) = g /\ Latest(w, m, n)
                          /\ Staged(w)[g] = txn[w].staged[m].graph
    BY LastStaged
  <2>3. k \in 1..n
    BY <1>3, <1>7, <2>1
  <2>4. ~(k > m) /\ ~(m > k)
    BY <1>3, <2>1, <2>2, <2>3 DEF Latest
  <2> QED BY <1>2, <2>1, <2>2, <2>3, <2>4
<1>8. Staged(w)' = [g \in S \cup {f} |-> IF g = f THEN content ELSE Staged(w)[g]]
  <2>1. \A g \in S \cup {f} : Staged(w)'[g] = IF g = f THEN content ELSE Staged(w)[g]
    BY <1>6, <1>7
  <2>2. Staged(w)' = [g \in DOMAIN Staged(w)' |-> Staged(w)'[g]]
    BY DEF Staged
  <2> QED BY <1>5, <2>1, <2>2
<1> QED BY <1>5, <1>8

LEMMA StagedKept ==
  ASSUME NEW w, txn'[w].staged = txn[w].staged
  PROVE  Staged(w)' = Staged(w)
<1>1. Batch(w)' = Batch(w)
  BY SameBatch
<1> QED BY <1>1 DEF Staged, SelectLastInSeq

LEMMA StoreStep ==
  ASSUME NEW w, Writer = {w}, PlaceInv, PlaceInv', DataInv(w), DataInv(w)', Step(w),
         txn'[w].phase # "unrestored"
  PROVE  \/ Store!StoreNext
         \/ UNCHANGED <<Settled, [v \in Writer |-> Staged(v)]>>
<1> DEFINE t == txn[w]
           B == [v \in Writer |-> Staged(v)]
<1>1. /\ t \in Transaction /\ Placed(t) /\ txn \in [Writer -> Transaction]
      /\ disk \in [File -> Version] /\ disk' \in [File -> Version]
      /\ Untouched(w) /\ Untouched(w)'
  BY DEF PlaceInv, TxnsPlaced, FilesTyped, DataInv
<1>2. txn'[w].staged = t.staged => B' = B
  BY StagedKept
<1>3. t.phase \notin Between => Settled = disk
  BY <1>1, SettledOutside
<1>4. txn'[w].phase \notin Between => Settled' = disk'
  BY <1>1, SettledNext
<1>a. ASSUME NEW point \in InjectPoint \cup {"none"}, Open(w, point) PROVE Store!Begin(w)
  <2>1. txn'[w].staged = <<>> /\ txn'[w].phase = "staging" /\ t.phase \in Ended /\ disk' = disk
    BY <1>1, <1>a DEF Open, NewTransaction
  <2>2. Settled' = Settled
    BY <1>3, <1>4, <2>1 DEF Between, Ended
  <2>3. Batch(w)' = {}
    BY <2>1 DEF Batch
  <2>4. Staged(w)' = [f \in {} |-> {}]
    BY <2>3 DEF Staged
  <2>5. B' = [B EXCEPT ![w] = [f \in {} |-> {}]]
    BY <2>4
  <2> QED BY <2>2, <2>5 DEF Store!Begin, Store!NoBatch
<1>b. ASSUME NEW f \in File, NEW content \in Content, Stage(w, f, content)
      PROVE  Store!Put(w, f, content) /\ content \in Version
  <2>1. txn'[w].phase = "staging" /\ t.phase = "staging" /\ disk' = disk
    BY <1>1, <1>b DEF Stage, Running, Transaction
  <2>2. Settled' = Settled
    BY <1>3, <1>4, <2>1 DEF Between
  <2>3. B' = [B EXCEPT ![w] =
          [g \in DOMAIN Staged(w) \cup {f} |-> IF g = f THEN content ELSE Staged(w)[g]]]
    BY <1>b, StagePuts
  <2>4. B[w] = Staged(w)
    OBVIOUS
  <2> QED BY <2>2, <2>3, <2>4 DEF Store!Put, Version
<1>c. ASSUME txn'[w].staged = t.staged, t.phase \notin Between, txn'[w].phase \notin Between,
             disk' = disk
      PROVE  UNCHANGED <<Settled, B>>
  BY <1>2, <1>3, <1>4, <1>c
<1>d. CASE Commit(w) \/ WriteWal(w) \/ Complete(w)
  BY <1>1, <1>c, <1>d DEF Commit, WriteWal, Complete, Running, Passing, Between, Transaction
<1>e. CASE WalFails(w) \/ TempFails(w) \/ Abort(w)
  BY <1>1, <1>c, <1>e DEF WalFails, TempFails, Abort, Running, Fault, Between, Transaction
<1>f. CASE CompleteFails(w)
  <2>1. txn' = [txn EXCEPT ![w].phase = "unlogged"] \/ Fault(w, "unlogged")
    BY <1>f DEF CompleteFails
  <2>2. txn'[w].staged = t.staged /\ txn'[w].phase = "unlogged"
    BY <1>1, <2>1 DEF Fault, Transaction
  <2> QED BY <1>c, <1>f, <2>2 DEF CompleteFails, Running, Between
<1>g. CASE WriteTemp(w)
  <2>1. /\ txn'[w].staged = t.staged /\ t.phase = "writing" /\ disk' = disk /\ w \notin crashed
    BY <1>1, <1>g DEF WriteTemp, Running, Transaction
  <2>2. CASE txn'[w].phase \notin Between
    BY <1>c, <2>1, <2>2 DEF Between
  <2>3. CASE txn'[w].phase \in Between
    <3>1. \A i \in 1..Size(w) : disk[Path(w, i)] = t.staged[i].original
      BY <1>1, <2>1 DEF Untouched
    <3>2. Settled' = disk
      <4>1. \A f \in File : Settled'[f] = disk[f]
        BY <1>1, <2>1, <2>3, <3>1, SettledNext, SameBatch
      <4> QED BY <1>1, <2>3, <4>1, SettledNext
    <3> QED BY <1>2, <1>3, <2>1, <3>2 DEF Between
  <2> QED BY <2>2, <2>3
<1>h. CASE Rename(w)
  <2> DEFINE n == t.next
  <2>1. /\ txn'[w].staged = t.staged /\ t.phase = "renaming" /\ n \in 1..Size(w)
        /\ disk' = [disk EXCEPT ![Path(w, n)] = temp[Path(w, n)]]
        /\ txn'[w].phase \in {"renaming", "completing"}
    BY <1>1, <1>h, BatchTyped DEF Rename, Running, Placed, Path, Size, Transaction
  <2>2. \A f \in File : (\A i \in 1..Size(w) : Path(w, i) # f) => disk'[f] = disk[f]
    BY <1>1, <2>1
  <2>3. CASE txn'[w].phase = "renaming"
    <3>1. Settled' = Settled
      BY <1>1, <2>1, <2>2, <2>3, SettledKept DEF Between
    <3> QED BY <1>2, <2>1, <3>1
  <2>4. CASE txn'[w].phase = "completing"
    <3>1. Settled' = disk'
      BY <1>4, <2>4 DEF Between
    <3>2. \A i \in 1..Size(w) : disk'[Path(w, i)] = t.staged[i].graph
      BY <2>1, <2>4, SameBatch DEF DataInv, Replaced
    <3>3. ASSUME NEW f \in File
          PROVE  disk'[f] = IF f \in DOMAIN Staged(w) THEN Staged(w)[f] ELSE Settled[f]
      <4>1. CASE f \in DOMAIN Staged(w)
        <5>1. f \in {s.path : s \in Batch(w)}
          BY <4>1 DEF Staged
        <5> QED BY <3>2, <4>1, <5>1, LastStaged
      <4>2. CASE f \notin DOMAIN Staged(w)
        <5>1. \A i \in 1..Size(w) : Path(w, i) # f
          BY <4>2, BatchTyped DEF Staged, Batch, Path
        <5> QED BY <1>1, <2>1, <2>2, <4>2, <5>1, SettledBetween DEF Between
      <4> QED BY <4>1, <4>2
    <3>4. disk' = [f \in File |-> IF f \in DOMAIN B[w] THEN B[w][f] ELSE Settled[f]]
      BY <1>1, <3>3
    <3>5. Store!Replace(w)
      BY <1>2, <2>1, <3>1, <3>4 DEF Store!Replace
    <3> QED BY <3>5 DEF Store!StoreNext
  <2> QED BY <2>1, <2>3, <2>4
<1>i. CASE RenameFails(w)
  <2>1. \/ txn' = [txn EXCEPT ![w].phase = "restoring", ![w].next = 1]
        \/ Fault(w, "restoring")
    BY <1>i DEF RenameFails
  <2>2. txn'[w].staged = t.staged /\ txn'[w].phase = "restoring" /\ t.phase = "renaming"
        /\ disk' = disk
    BY <1>1, <1>i, <2>1 DEF Fault, Transaction, RenameFails, Running
  <2>3. Settled' = Settled
    BY <1>1, <2>2, SettledKept DEF Between
  <2> QED BY <1>2, <2>2, <2>3
<1>j. CASE RestoreFile(w)
  <2>1. /\ txn'[w].staged = t.staged /\ t.phase = "restoring" /\ txn'[w].phase = "restoring"
        /\ t.next \in 1..Size(w)
        /\ disk' = [disk EXCEPT ![Path(w, t.next)] = t.staged[t.next].original]
    BY <1>1, <1>j, BatchTyped DEF RestoreFile, Running, Placed, Path, Size, Transaction
  <2>2. \A f \in File : (\A i \in 1..Size(w) : Path(w, i) # f) => disk'[f] = disk[f]
    BY <1>1, <2>1
  <2>3. Settled' = Settled
    BY <1>1, <2>1, <2>2, SettledKept DEF Between
  <2> QED BY <1>2, <2>1, <2>3
<1>k. CASE EndRestore(w)
  <2>1. /\ txn'[w].staged = t.staged /\ t.phase = "restoring" /\ txn'[w].phase = "restored"
        /\ t.next > Size(w) /\ w \notin crashed /\ disk' = disk
    BY <1>1, <1>k DEF EndRestore, Restored, Running, Size, Transaction
  <2>2. \A i \in 1..Size(w) : disk[Path(w, i)] = t.staged[i].original
    BY <1>1, <2>1, BatchTyped DEF DataInv, Restoring, Transaction
  <2>3. Settled = disk
    BY <1>1, <2>1, <2>2, SettledIsDisk DEF Between
  <2> QED BY <1>2, <1>4, <2>1, <2>3 DEF Between
<1>l. CASE CleanUpFails(w)
  <2>1. Fault(w, "uncleaned") /\ disk' = disk /\ (Running(w, "aborting") \/ Restored(w))
    BY <1>l DEF CleanUpFails
  <2>2. txn'[w].staged = t.staged /\ txn'[w].phase = "uncleaned"
    BY <1>1, <2>1 DEF Fault, Transaction
  <2>3. CASE Running(w, "aborting")
    BY <1>c, <2>1, <2>2, <2>3 DEF Running, Between
  <2>4. CASE Restored(w)
    <3>1. t.phase = "restoring" /\ t.next > Size(w) /\ w \notin crashed
      BY <2>4 DEF Restored, Running, Size
    <3>2. \A i \in 1..Size(w) : disk[Path(w, i)] = t.staged[i].original
      BY <1>1, <3>1, BatchTyped DEF DataInv, Restoring, Transaction
    <3>3. Settled = disk
      BY <1>1, <3>1, <3>2, SettledIsDisk DEF Between
    <3> QED BY <1>2, <1>4, <2>1, <2>2, <3>3 DEF Between
  <2> QED BY <2>1, <2>3, <2>4
<1>m. ~RestoreFails(w)
  BY <1>1 DEF RestoreFails, Fault, Transaction
<1> HIDE DEF B
<1> QED BY <1>a, <1>b, <1>d, <1>e, <1>f, <1>g, <1>h, <1>i, <1>j, <1>k, <1>l, <1>m
      DEF Step, CommitStep, Store!StoreNext, B

\* The transactions of one writer implement the atomic store: between transactions
\* a batch is taken whole or not at all, whichever calls fail, and again after a
\* death, a restart or a failed restoration; only those three steps themselves may
\* leave part of a batch behind (transaction.py:14-16).
THEOREM TransactionsAreAtomic ==
  ASSUME NEW w, Writer = {w}
  PROVE  TxnSpec => ImplementsAtomicStore
<1>1. TxnInit => Store!StoreInit
  <2> SUFFICES ASSUME TxnInit PROVE Store!StoreInit
    OBVIOUS
  <2>1. txn[w].staged = <<>> /\ txn[w].phase = "staging"
    BY DEF TxnInit, NewTransaction
  <2>2. Settled = disk
    BY <2>1, SettledOutside DEF TxnInit, Between
  <2>3. Batch(w) = {}
    BY <2>1 DEF Batch
  <2>4. Staged(w) = [f \in {} |-> {}]
    BY <2>3 DEF Staged
  <2> QED BY <2>2, <2>4 DEF TxnInit, Version, Store!StoreInit, Store!NoBatch
<1>2. PlaceInv /\ PlaceInv' /\ DataInv(w) /\ DataInv(w)' /\ [TxnNext]_txnVars
      => [Undisturbed => Store!StoreNext \/ UNCHANGED Store!storeVars]_txnVars
  <2> SUFFICES ASSUME PlaceInv, PlaceInv', DataInv(w), DataInv(w)', TxnNext,
                      crashed' = crashed, txn'[w].phase # "unrestored"
               PROVE  Store!StoreNext \/ UNCHANGED Store!storeVars
    BY DEF Undisturbed
  <2>1. CASE Step(w)
    BY <2>1, StoreStep DEF Store!storeVars
  <2>2. ~Crash(w) /\ ~Restart(w)
    BY DEF Crash, Restart
  <2> QED BY <2>1, <2>2 DEF TxnNext
<1> QED BY <1>1, <1>2, OneWriter, PTL DEF TxnSpec, ImplementsAtomicStore

-----------------------------------------------------------------------------
(* The cross-file operations of one process.                               *)

-----------------------------------------------------------------------------
(* The invariant.                                                          *)

GoodFiles(files) ==
  /\ files \in [File -> Graph]
  /\ AllResolve(files)
  /\ \A f \in File : LineageSound(files[f])

Distinct(w) == \A i, j \in 1..Size(w) : Path(w, i) = Path(w, j) => i = j

\* The directory once the batch has replaced its files.
Result(w) ==
  [f \in File |->
     IF \E i \in 1..Size(w) : Path(w, i) = f
       THEN txn[w].staged[CHOOSE i \in 1..Size(w) : Path(w, i) = f].graph
       ELSE graphs[w][f]]

\* One version on, with every node it had.
Advances(new, old) ==
  /\ new.version = old.version + 1
  /\ \A n \in NodeId : Has(old, n) => Has(new, n)

\* The batch was computed from this process's copies, which are what the files
\* held, and leaves good files if it names no file twice.
Prepared(w) ==
  /\ \A i \in 1..Size(w) :
       /\ txn[w].staged[i].original = graphs[w][Path(w, i)]
       /\ txn[w].staged[i].graph \in Graph
       /\ Advances(txn[w].staged[i].graph, graphs[w][Path(w, i)])
  /\ Distinct(w) => GoodFiles(Result(w))

Working == {"logging", "writing", "aborting", "renaming", "restoring"}

\* The files are replaced and the copies are not yet read again.
Taken(w) ==
  \/ txn[w].phase = "completing"
  \/ txn[w].phase = "committed" /\ ~reloaded[w]

CopiesTyped ==
  /\ graphs \in [Writer -> [File -> Graph]]
  /\ reloaded \in [Writer -> BOOLEAN]
  /\ expected \in [Writer -> {<<>>} \cup (File \X Nat)]

TxnSound(w) ==
  /\ interrupted = {}
  /\ txn[w].phase \notin {"unrestored", "uncleaned", "unlogged"}
  /\ Size(w) = 0 => txn[w].phase = "staging"
  /\ txn[w].phase = "completing" => wal = Log(w)
  /\ txn[w].phase \in Working \cup {"completing"} => ~reloaded[w]

\* Except between the first rename and the reload the copies are the files.
CopiesCurrent(w) ==
  /\ ~Taken(w) /\ txn[w].phase \notin Between => disk = graphs[w]
  /\ txn[w].phase \in Between =>
       \A f \in File : (\A i \in 1..Size(w) : Path(w, i) # f) => disk[f] = graphs[w][f]
  /\ Taken(w) => Distinct(w) /\ disk = Result(w)

ExpectedHolds(w) ==
  txn[w].phase \in Working /\ expected[w] # <<>> =>
    graphs[w][expected[w][1]].version = expected[w][2]

MutInv(w) ==
  /\ PlaceInv /\ DataInv(w)
  /\ CopiesTyped /\ TxnSound(w)
  /\ GoodFiles(graphs[w])
  /\ txn[w].phase \in Working \/ Taken(w) => Prepared(w)
  /\ CopiesCurrent(w)
  /\ ExpectedHolds(w)

-----------------------------------------------------------------------------
(* What the operations do to good files.                                   *)

LEMMA RefsTyped ==
  /\ \A n \in NodeId : Here(n) \in Ref
  /\ \A f \in File, n \in NodeId : <<f, n>> \in Ref
  /\ \A f \in File, m, n \in NodeId : <<f, m>> # Here(n)
  /\ \A m, n : Here(m) = Here(n) => m = n
BY LocalAssumption DEF Here, Ref

LEMMA Redirected ==
  ASSUME NEW edges \in SUBSET Link, NEW from \in Ref, NEW to \in Ref
  PROVE  /\ Redirect(edges, from, to) \subseteq Link
         /\ \A d \in Redirect(edges, from, to) : \E e \in edges :
              /\ d.source_id = e.source_id /\ d.relation = e.relation
              /\ IF e.target_id = from THEN d.target_id = to ELSE d = e
         /\ \A e \in edges : \E d \in Redirect(edges, from, to) :
              d.source_id = e.source_id /\ d.relation = e.relation
<1> DEFINE turned(e) == IF e.target_id = from THEN [e EXCEPT !.target_id = to] ELSE e
<1>1. ASSUME NEW e \in edges
      PROVE  /\ turned(e) \in Link
             /\ turned(e).source_id = e.source_id /\ turned(e).relation = e.relation
             /\ IF e.target_id = from THEN turned(e).target_id = to ELSE turned(e) = e
  <2>1. e \in Link
    OBVIOUS
  <2>2. [e EXCEPT !.target_id = to] \in Link
    BY <2>1 DEF Link
  <2>3. /\ [e EXCEPT !.target_id = to].source_id = e.source_id
        /\ [e EXCEPT !.target_id = to].relation = e.relation
        /\ [e EXCEPT !.target_id = to].target_id = to
    BY <2>1 DEF Link
  <2> QED BY <2>1, <2>2, <2>3
<1>2. Redirect(edges, from, to) = {turned(e) : e \in edges}
  BY DEF Redirect
<1> HIDE DEF turned
<1> QED BY <1>1, <1>2

\* The parts of a graph after its version has moved on.
LEMMA BumpTyped ==
  ASSUME NEW nodes \in [NodeId -> {"active", "stale", NoNode}], NEW edges \in SUBSET Link,
         NEW version \in 1..MaxVersion, version < MaxVersion
  PROVE  LET g == Bump([nodes |-> nodes, edges |-> edges, version |-> version])
         IN  /\ g \in Graph
             /\ g.nodes = nodes /\ g.edges = edges /\ g.version = version + 1
<1>1. version + 1 \in 1..MaxVersion
  BY VersionAssumption
<1>2. Bump([nodes |-> nodes, edges |-> edges, version |-> version])
        = [nodes |-> nodes, edges |-> edges, version |-> version + 1]
  BY DEF Bump
<1> QED BY <1>1, <1>2 DEF Graph

LEMMA GraphParts ==
  ASSUME NEW g \in Graph
  PROVE  /\ g = [nodes |-> g.nodes, edges |-> g.edges, version |-> g.version]
         /\ g.nodes \in [NodeId -> {"active", "stale", NoNode}]
         /\ g.edges \in SUBSET Link /\ g.version \in 1..MaxVersion
BY DEF Graph

LEMMA WithLinkIs ==
  ASSUME NEW g \in Graph, g.version < MaxVersion, NEW link \in Link
  PROVE  /\ WithLink(g, link) \in Graph
         /\ WithLink(g, link).nodes = g.nodes
         /\ WithLink(g, link).edges = g.edges \cup {link}
         /\ WithLink(g, link).version = g.version + 1
<1> DEFINE E == g.edges \cup {link}
<1>1. E \in SUBSET Link
  BY GraphParts
<1>2. WithLink(g, link) = Bump([g EXCEPT !.edges = E])
  BY DEF WithLink
<1> HIDE DEF E
<1>3. [g EXCEPT !.edges = E] = [nodes |-> g.nodes, edges |-> E, version |-> g.version]
  BY GraphParts
<1>4. LET h == Bump([nodes |-> g.nodes, edges |-> E, version |-> g.version])
      IN  h \in Graph /\ h.nodes = g.nodes /\ h.edges = E /\ h.version = g.version + 1
  BY <1>1, GraphParts, BumpTyped
<1> QED BY <1>2, <1>3, <1>4 DEF E

LEMMA WithNodeIs ==
  ASSUME NEW g \in Graph, g.version < MaxVersion, NEW n \in NodeId
  PROVE  /\ WithNode(g, n) \in Graph
         /\ WithNode(g, n).nodes = [g.nodes EXCEPT ![n] = "active"]
         /\ WithNode(g, n).edges = g.edges
         /\ WithNode(g, n).version = g.version + 1
<1>1. [g EXCEPT !.nodes[n] = "active"]
        = [nodes |-> [g.nodes EXCEPT ![n] = "active"], edges |-> g.edges, version |-> g.version]
  BY GraphParts
<1>2. [g.nodes EXCEPT ![n] = "active"] \in [NodeId -> {"active", "stale", NoNode}]
  BY GraphParts
<1> QED BY <1>1, <1>2, GraphParts, BumpTyped DEF WithNode

LEMMA RereferencedIs ==
  ASSUME NEW g \in Graph, g.version < MaxVersion, NEW f \in File,
         NEW original \in NodeId, NEW replacement \in NodeId
  PROVE  LET h == Rereferenced(g, f, original, replacement)
         IN  /\ h \in Graph
             /\ h.nodes = g.nodes
             /\ h.edges = Redirect(g.edges, <<f, original>>, <<f, replacement>>)
             /\ h.version = g.version + 1
<1> DEFINE E == Redirect(g.edges, <<f, original>>, <<f, replacement>>)
<1>1. [g EXCEPT !.edges = Redirect(@, <<f, original>>, <<f, replacement>>)]
        = [nodes |-> g.nodes, edges |-> E, version |-> g.version]
  BY GraphParts
<1>2. E \in SUBSET Link
  BY GraphParts, RefsTyped, Redirected
<1> HIDE DEF E
<1>3. LET h == Bump([nodes |-> g.nodes, edges |-> E, version |-> g.version])
      IN  h \in Graph /\ h.nodes = g.nodes /\ h.edges = E /\ h.version = g.version + 1
  BY <1>2, GraphParts, BumpTyped
<1> QED BY <1>1, <1>3 DEF Rereferenced, E

LEMMA SupersededIs ==
  ASSUME NEW g \in Graph, g.version < MaxVersion,
         NEW original \in NodeId, NEW replacement \in NodeId
  PROVE  LET h == Superseded(g, original, replacement)
             lineage == {e \in g.edges : e.relation = SUPERSEDED_BY}
         IN  /\ h \in Graph
             /\ h.nodes = [g.nodes EXCEPT ![original] = "stale", ![replacement] = "active"]
             /\ h.edges = lineage
                  \cup Redirect(g.edges \ lineage, Here(original), Here(replacement))
                  \cup {LinkTo(original, Here(replacement), SUPERSEDED_BY)}
             /\ h.version = g.version + 1
<1> DEFINE lineage == {e \in g.edges : e.relation = SUPERSEDED_BY}
           N == [g.nodes EXCEPT ![original] = "stale", ![replacement] = "active"]
           E == lineage \cup Redirect(g.edges \ lineage, Here(original), Here(replacement))
                  \cup {LinkTo(original, Here(replacement), SUPERSEDED_BY)}
<1>1. N \in [NodeId -> {"active", "stale", NoNode}]
  BY GraphParts
<1>2. E \in SUBSET Link
  <2>1. LinkTo(original, Here(replacement), SUPERSEDED_BY) \in Link
    BY RefsTyped, RelationAssumption DEF LinkTo, Link
  <2>2. lineage \subseteq Link /\ g.edges \ lineage \in SUBSET Link
    BY GraphParts
  <2> HIDE DEF lineage
  <2>3. Redirect(g.edges \ lineage, Here(original), Here(replacement)) \subseteq Link
    BY <2>2, RefsTyped, Redirected
  <2> QED BY <2>1, <2>2, <2>3
<1>3. Superseded(g, original, replacement)
        = Bump([nodes |-> N, edges |-> E, version |-> g.version])
  BY DEF Superseded
<1> HIDE DEF N, E
<1>4. LET h == Bump([nodes |-> N, edges |-> E, version |-> g.version])
      IN  h \in Graph /\ h.nodes = N /\ h.edges = E /\ h.version = g.version + 1
  BY <1>1, <1>2, GraphParts, BumpTyped
<1> QED BY <1>3, <1>4 DEF N, E

LEMMA Parts ==
  ASSUME NEW files, GoodFiles(files), NEW f \in File
  PROVE  /\ files[f] \in Graph
         /\ files[f].nodes \in [NodeId -> {"active", "stale", NoNode}]
         /\ files[f].edges \in SUBSET Link
         /\ files[f].version \in 1..MaxVersion
         /\ LineageSound(files[f])
         /\ \A e \in files[f].edges :
              /\ e.source_id \in NodeId /\ e.target_id \in Ref /\ e.relation \in Relation
              /\ Has(files[f], e.source_id) /\ Resolves(files, f, e.target_id)
<1>1. files[f] \in Graph /\ LineageSound(files[f])
  BY DEF GoodFiles
<1>2. files[f].edges \in SUBSET Link
  BY <1>1, GraphParts
<1>3. \A e \in files[f].edges :
        e.source_id \in NodeId /\ e.target_id \in Ref /\ e.relation \in Relation
  BY <1>2 DEF Link
<1> QED BY <1>1, <1>2, <1>3, GraphParts DEF GoodFiles, AllResolve

\* Files that keep their nodes and gain only links that resolve.
LEMMA StillResolve ==
  ASSUME NEW old, GoodFiles(old), NEW new \in [File -> Graph],
         \A f \in File, n \in NodeId : Has(old[f], n) => Has(new[f], n),
         \A f \in File : \A d \in new[f].edges :
           \/ \E e \in old[f].edges : d.source_id = e.source_id /\ d.target_id = e.target_id
           \/ Has(new[f], d.source_id) /\ Resolves(new, f, d.target_id)
           \/ /\ \E e \in old[f].edges : d.source_id = e.source_id
              /\ Resolves(new, f, d.target_id)
  PROVE  AllResolve(new)
<1> SUFFICES ASSUME NEW f \in File, NEW d \in new[f].edges
             PROVE  Has(new[f], d.source_id) /\ Resolves(new, f, d.target_id)
  BY DEF AllResolve
<1>1. ASSUME NEW e \in old[f].edges
      PROVE  Has(new[f], e.source_id) /\ Resolves(new, f, e.target_id)
  <2>1. e.target_id \in Ref /\ Has(old[f], e.source_id) /\ Resolves(old, f, e.target_id)
        /\ e.source_id \in NodeId
    BY Parts
  <2>2. e.target_id[2] \in NodeId
        /\ (IF e.target_id[1] = Local THEN f ELSE e.target_id[1]) \in File
    BY <2>1 DEF Ref
  <2> QED BY <2>1, <2>2 DEF Resolves
<1> QED BY <1>1

\* A new link that leads into a named file is no lineage, whatever its relation.
LEMMA LinkSound ==
  ASSUME NEW g \in Graph, LineageSound(g), g.version < MaxVersion, NEW link \in Link,
         link.target_id[1] # Local
  PROVE  LineageSound(WithLink(g, link))
<1> DEFINE h == WithLink(g, link)
<1>1. h.nodes = g.nodes /\ h.edges = g.edges \cup {link}
  BY WithLinkIs
<1> HIDE DEF h
<1>2. LineageOf(h) = LineageOf(g) /\ \A n : Lineage(h, n) = Lineage(g, n)
  BY <1>1 DEF LineageOf, Lineage
<1>3. \A n \in NodeId : link.target_id # Here(n)
  BY DEF Here
<1> QED BY <1>1, <1>2, <1>3 DEF LineageSound, h

LEMMA NodeSound ==
  ASSUME NEW g \in Graph, LineageSound(g), g.version < MaxVersion, NEW n \in NodeId, ~Has(g, n)
  PROVE  LineageSound(WithNode(g, n))
<1> DEFINE h == WithNode(g, n)
<1>1. h.nodes = [g.nodes EXCEPT ![n] = "active"] /\ h.edges = g.edges
  BY WithNodeIs
<1> HIDE DEF h
<1>2. LineageOf(h) = LineageOf(g) /\ \A m : Lineage(h, m) = Lineage(g, m)
  BY <1>1 DEF LineageOf, Lineage
<1>3. \A m \in NodeId : h.nodes[m] = "stale" <=> g.nodes[m] = "stale"
  BY <1>1, GraphParts DEF Has, NoNode
<1> QED BY <1>1, <1>2, <1>3 DEF LineageSound, h

\* References into another file are no lineage, before and after they are redirected.
LEMMA RereferencedSound ==
  ASSUME NEW g \in Graph, LineageSound(g), g.version < MaxVersion, NEW f \in File,
         NEW original \in NodeId, NEW replacement \in NodeId
  PROVE  LineageSound(Rereferenced(g, f, original, replacement))
<1> DEFINE h == Rereferenced(g, f, original, replacement)
           from == <<f, original>>
           to == <<f, replacement>>
           turned(e) == IF e.target_id = from THEN [e EXCEPT !.target_id = to] ELSE e
<1>1. h.nodes = g.nodes /\ h.edges = {turned(e) : e \in g.edges}
  BY RereferencedIs DEF Redirect
<1>2. g.edges \in SUBSET Link
  BY GraphParts
<1>3. from[1] # Local /\ to[1] # Local
  BY LocalAssumption
<1>4. ASSUME NEW e \in g.edges
      PROVE  turned(e).target_id[1] = Local <=> e.target_id[1] = Local
  <2>1. e \in Link
    BY <1>2
  <2>2. [e EXCEPT !.target_id = to].target_id = to
    BY <2>1 DEF Link
  <2> HIDE DEF from, to
  <2> QED BY <1>3, <2>2
<1>5. ASSUME NEW e \in g.edges, e.target_id[1] = Local PROVE turned(e) = e
  BY <1>3, <1>5
<1> HIDE DEF from, to, h, turned
<1>6. \A d : d \in h.edges /\ d.target_id[1] = Local <=> d \in g.edges /\ d.target_id[1] = Local
  BY <1>1, <1>4, <1>5
<1>7. LineageOf(h) = LineageOf(g) /\ \A n : Lineage(h, n) = Lineage(g, n)
  BY <1>6 DEF LineageOf, Lineage
<1>8. \A n : Here(n)[1] = Local
  BY DEF Here
<1> QED BY <1>1, <1>6, <1>7, <1>8 DEF LineageSound, h

\* The original gets its one successor; what led to it, lineage aside, leads to
\* the replacement.
LEMMA SupersededSound ==
  ASSUME NEW g \in Graph, LineageSound(g), g.version < MaxVersion,
         NEW original \in NodeId, NEW replacement \in NodeId,
         g.nodes[original] = "active", ~Has(g, replacement),
         \A e \in g.edges : e.target_id # Here(replacement)
  PROVE  LineageSound(Superseded(g, original, replacement))
<1> DEFINE h == Superseded(g, original, replacement)
           lineage == {e \in g.edges : e.relation = SUPERSEDED_BY}
           others == g.edges \ lineage
           from == Here(original)
           to == Here(replacement)
           link == LinkTo(original, to, SUPERSEDED_BY)
<1>1. /\ h.nodes = [g.nodes EXCEPT ![original] = "stale", ![replacement] = "active"]
      /\ h.edges = lineage \cup Redirect(others, from, to) \cup {link}
  BY SupersededIs
<1>2. from \in Ref /\ to \in Ref /\ from # to /\ original # replacement
  BY RefsTyped DEF Has, NoNode
<1>3. g.edges \in SUBSET Link /\ others \in SUBSET Link
  BY GraphParts
<1>4. link.source_id = original /\ link.target_id = to /\ link.relation = SUPERSEDED_BY
  BY DEF LinkTo
<1>5. /\ \A m, n : Here(m) = Here(n) => m = n
      /\ \A e \in others : e.relation # SUPERSEDED_BY /\ e \in g.edges
      /\ \A e : e \in lineage <=> e \in g.edges /\ e.relation = SUPERSEDED_BY
  BY RefsTyped
<1> HIDE DEF h, lineage, others, link
<1>0. from[1] = Local /\ to[1] = Local
  BY DEF Here
<1> HIDE DEF from, to
<1>6. \A d \in Redirect(others, from, to) : \E e \in others :
        /\ d.source_id = e.source_id /\ d.relation = e.relation
        /\ IF e.target_id = from THEN d.target_id = to ELSE d = e
  BY <1>2, <1>3, Redirected
<1>7. \A d \in Redirect(others, from, to) : d.relation # SUPERSEDED_BY
  BY <1>5, <1>6
<1>8. \A d : d \in LineageOf(h) <=> d \in LineageOf(g) \/ d = link
  BY <1>0, <1>1, <1>4, <1>5, <1>7 DEF LineageOf
<1>9. \A n \in NodeId : h.nodes[n] = IF n = replacement THEN "active"
                                     ELSE IF n = original THEN "stale" ELSE g.nodes[n]
  BY <1>1, <1>2, GraphParts
<1>10. \A n \in NodeId : \A d : d \in Lineage(h, n) <=> d \in Lineage(g, n) \/ (d = link /\ n = original)
  BY <1>4, <1>8 DEF Lineage
<1>11. Lineage(g, original) = {} /\ Lineage(g, replacement) = {}
  BY DEF LineageSound, Has, NoNode
<1>12. ASSUME NEW n \in NodeId
       PROVE  /\ h.nodes[n] = "stale" <=> Lineage(h, n) # {}
              /\ \A d, e \in Lineage(h, n) : d = e
  <2>1. CASE n = original
    BY <1>2, <1>9, <1>10, <1>11, <2>1
  <2>2. CASE n # original
    <3>1. Lineage(h, n) = Lineage(g, n)
      BY <1>10, <2>2
    <3>2. h.nodes[n] = "stale" <=> g.nodes[n] = "stale"
      BY <1>9, <2>2 DEF Has, NoNode
    <3> QED BY <3>1, <3>2 DEF LineageSound
  <2> QED BY <2>1, <2>2
<1>13. ASSUME NEW d \in LineageOf(h), NEW e \in LineageOf(h), d.target_id = e.target_id
       PROVE  d = e
  <2>1. (d \in LineageOf(g) \/ d = link) /\ (e \in LineageOf(g) \/ e = link)
    BY <1>8, <1>13
  <2>2. \A c \in LineageOf(g) : c.target_id # to
    BY DEF LineageOf, to
  <2>3. CASE d \in LineageOf(g) /\ e \in LineageOf(g)
    BY <1>13, <2>3 DEF LineageSound
  <2> QED BY <1>4, <1>13, <2>1, <2>2, <2>3
<1>14. ASSUME NEW d \in h.edges, NEW n \in NodeId, d.target_id = Here(n), h.nodes[n] = "stale"
       PROVE  d \in LineageOf(h)
  <2>0. Here(n)[1] = Local
    BY DEF Here
  <2>1. n # replacement
    BY <1>9, <1>14
  <2>2. CASE d \in Redirect(others, from, to)
    <3>1. PICK e \in others : /\ d.relation = e.relation
                              /\ IF e.target_id = from THEN d.target_id = to ELSE d = e
      BY <1>6, <2>2
    <3>2. d = e /\ n # original
      BY <1>5, <1>14, <2>1, <3>1 DEF from, to
    <3>3. g.nodes[n] = "stale"
      BY <1>9, <1>14, <2>1, <3>2
    <3>4. d \in LineageOf(g)
      BY <1>5, <1>14, <3>2, <3>3 DEF LineageSound
    <3> QED BY <1>8, <3>4
  <2>3. CASE d \in lineage \/ d = link
    BY <1>5, <1>8, <1>14, <2>0, <2>3 DEF LineageOf
  <2> QED BY <1>1, <2>2, <2>3
<1> QED BY <1>12, <1>13, <1>14 DEF LineageSound, h

-----------------------------------------------------------------------------
(* What the operations do to the files, source and target apart.           *)

LEMMA NewGraphsAdvance ==
  ASSUME NEW g \in Graph, g.version < MaxVersion, NEW m \in NodeId, NEW n \in NodeId,
         NEW link \in Link, NEW f \in File
  PROVE  /\ Advances(WithLink(g, link), g)
         /\ Advances(WithNode(g, n), g)
         /\ Advances(Rereferenced(g, f, m, n), g)
         /\ Advances(Superseded(g, m, n), g)
<1>1. Advances(WithLink(g, link), g)
  BY WithLinkIs DEF Advances, Has
<1>2. Advances(WithNode(g, n), g)
  <2> DEFINE h == WithNode(g, n)
  <2>1. h.nodes = [g.nodes EXCEPT ![n] = "active"] /\ h.version = g.version + 1
    BY WithNodeIs
  <2> HIDE DEF h
  <2>2. \A i \in NodeId : Has(g, i) => Has(h, i)
    BY <2>1, GraphParts DEF Has, NoNode
  <2> QED BY <2>1, <2>2 DEF Advances, h
<1>3. Advances(Rereferenced(g, f, m, n), g)
  BY RereferencedIs DEF Advances, Has
<1>4. Advances(Superseded(g, m, n), g)
  <2> DEFINE h == Superseded(g, m, n)
  <2>1. h.nodes = [g.nodes EXCEPT ![m] = "stale", ![n] = "active"] /\ h.version = g.version + 1
    BY SupersededIs
  <2> HIDE DEF h
  <2>2. \A i \in NodeId : Has(g, i) => Has(h, i)
    BY <2>1, GraphParts DEF Has, NoNode
  <2> QED BY <2>1, <2>2 DEF Advances, h
<1> QED BY <1>1, <1>2, <1>3, <1>4

LEMMA LinkTyped ==
  ASSUME NEW m \in NodeId, NEW r \in Ref, NEW relation \in Relation
  PROVE  /\ LinkTo(m, r, relation) \in Link
         /\ LinkTo(m, r, relation).source_id = m
         /\ LinkTo(m, r, relation).target_id = r
         /\ LinkTo(m, r, relation).relation = relation
BY DEF LinkTo, Link

LEMMA MutateGood ==
  ASSUME NEW files, GoodFiles(files), NEW source \in File, NEW target \in File,
         source # target,
         files[source].version < MaxVersion, files[target].version < MaxVersion,
         NEW n \in NodeId, Has(files[source], n), NEW new \in NodeId, ~Has(files[target], new),
         NEW relation \in Relation, NEW F \in [File -> Graph],
         F[source] = WithLink(files[source], LinkTo(n, <<target, new>>, relation)),
         F[target] = WithNode(files[target], new),
         \A f \in File \ {source, target} : F[f] = files[f]
  PROVE  GoodFiles(F)
<1> DEFINE link == LinkTo(n, <<target, new>>, relation)
<1>1. /\ link \in Link /\ link.source_id = n /\ link.target_id = <<target, new>>
      /\ link.target_id[1] # Local
  BY RefsTyped, LinkTyped, LocalAssumption
<1>2. files[source] \in Graph /\ files[target] \in Graph
      /\ LineageSound(files[source]) /\ LineageSound(files[target])
  BY Parts
<1> HIDE DEF link
<1>3. F[source].nodes = files[source].nodes /\ F[source].edges = files[source].edges \cup {link}
  BY <1>1, <1>2, WithLinkIs DEF link
<1>4. F[target].nodes = [files[target].nodes EXCEPT ![new] = "active"]
      /\ F[target].edges = files[target].edges
  BY <1>2, WithNodeIs
<1>5. \A f \in File, m \in NodeId : Has(files[f], m) => Has(F[f], m)
  <2> SUFFICES ASSUME NEW f \in File, NEW m \in NodeId, Has(files[f], m) PROVE Has(F[f], m)
    OBVIOUS
  <2>1. CASE f = target
    BY <1>2, <1>4, <2>1, GraphParts DEF Has, NoNode
  <2>2. CASE f # target
    BY <1>3, <2>2 DEF Has
  <2> QED BY <2>1, <2>2
<1>6. Has(F[source], n) /\ Resolves(F, source, <<target, new>>)
  <2>1. Has(F[target], new)
    BY <1>2, <1>4, GraphParts DEF Has, NoNode
  <2> QED BY <1>5, <2>1, LocalAssumption DEF Resolves
<1>7. AllResolve(F)
  <2>1. ASSUME NEW f \in File, NEW d \in F[f].edges
        PROVE  d \in files[f].edges \/ (f = source /\ d = link)
    BY <1>3, <1>4, <2>1
  <2> QED BY <1>1, <1>5, <1>6, <2>1, StillResolve
<1>8. \A f \in File : LineageSound(F[f])
  <2>1. LineageSound(F[source])
    BY <1>1, <1>2, LinkSound DEF link
  <2>2. LineageSound(F[target])
    BY <1>2, NodeSound
  <2> QED BY <2>1, <2>2, Parts
<1> QED BY <1>7, <1>8 DEF GoodFiles

LEMMA AddEdgeGood ==
  ASSUME NEW files, GoodFiles(files), NEW source \in File, files[source].version < MaxVersion,
         NEW n \in NodeId, Has(files[source], n), NEW target \in File, NEW id \in NodeId,
         Resolves(files, source, <<target, id>>),
         NEW relation \in Relation, NEW F \in [File -> Graph],
         F[source] = WithLink(files[source], LinkTo(n, <<target, id>>, relation)),
         \A f \in File \ {source} : F[f] = files[f]
  PROVE  GoodFiles(F)
<1> DEFINE link == LinkTo(n, <<target, id>>, relation)
<1>1. /\ link \in Link /\ link.source_id = n /\ link.target_id = <<target, id>>
      /\ link.target_id[1] # Local
  BY RefsTyped, LinkTyped, LocalAssumption
<1>2. files[source] \in Graph /\ LineageSound(files[source])
  BY Parts
<1> HIDE DEF link
<1>3. F[source].nodes = files[source].nodes /\ F[source].edges = files[source].edges \cup {link}
  BY <1>1, <1>2, WithLinkIs DEF link
<1>4. \A f \in File, m \in NodeId : Has(files[f], m) <=> Has(F[f], m)
  BY <1>3 DEF Has
<1>5. Has(F[source], n) /\ Resolves(F, source, <<target, id>>)
  BY <1>4, LocalAssumption DEF Resolves
<1>6. AllResolve(F)
  <2>1. ASSUME NEW f \in File, NEW d \in F[f].edges
        PROVE  d \in files[f].edges \/ (f = source /\ d = link)
    BY <1>3, <2>1
  <2> QED BY <1>1, <1>4, <1>5, <2>1, StillResolve
<1>7. LineageSound(F[source])
  BY <1>1, <1>2, LinkSound DEF link
<1> QED BY <1>6, <1>7, Parts DEF GoodFiles

LEMMA SupersedeGood ==
  ASSUME NEW files, GoodFiles(files), NEW source \in File, NEW target \in File,
         source # target,
         files[source].version < MaxVersion, files[target].version < MaxVersion,
         NEW original \in NodeId, files[target].nodes[original] = "active",
         NEW replacement \in NodeId, ~Has(files[target], replacement),
         NEW F \in [File -> Graph],
         F[source] = Rereferenced(files[source], target, original, replacement),
         F[target] = Superseded(files[target], original, replacement),
         \A f \in File \ {source, target} : F[f] = files[f]
  PROVE  GoodFiles(F)
<1> DEFINE g == files[target]
           lineage == {e \in g.edges : e.relation = SUPERSEDED_BY}
           others == g.edges \ lineage
           link == LinkTo(original, Here(replacement), SUPERSEDED_BY)
           away == <<target, original>>
           back == <<target, replacement>>
<1>1. files[source] \in Graph /\ g \in Graph /\ LineageSound(files[source]) /\ LineageSound(g)
  BY Parts
<1>2. /\ away \in Ref /\ back \in Ref /\ Here(original) \in Ref /\ Here(replacement) \in Ref
  BY RefsTyped
<1>3. F[source].nodes = files[source].nodes
      /\ F[source].edges = Redirect(files[source].edges, away, back)
  BY <1>1, RereferencedIs
<1>4. /\ F[target].nodes = [g.nodes EXCEPT ![original] = "stale", ![replacement] = "active"]
      /\ F[target].edges = lineage \cup Redirect(others, Here(original), Here(replacement))
           \cup {link}
  <2> HIDE DEF g
  <2>1. F[target] = Superseded(g, original, replacement) /\ g.version < MaxVersion
    BY DEF g
  <2> DEFINE h == Superseded(g, original, replacement)
  <2>2. /\ h.nodes = [g.nodes EXCEPT ![original] = "stale", ![replacement] = "active"]
        /\ h.edges = lineage \cup Redirect(others, Here(original), Here(replacement)) \cup {link}
    <3>1. g \in Graph /\ g.version < MaxVersion
      BY <1>1, <2>1
    <3> QED BY <3>1, SupersededIs, SMTT(20)
  <2> HIDE DEF h
  <2>3. F[target] = h
    BY <2>1 DEF h
  <2> QED BY <2>2, <2>3
<1>5. files[source].edges \in SUBSET Link /\ others \in SUBSET Link /\ lineage \subseteq g.edges
      /\ others \subseteq g.edges
  BY <1>1, GraphParts
<1>6. link.source_id = original /\ link.target_id = Here(replacement)
  BY DEF LinkTo
<1>7. \A f \in File, m \in NodeId : Has(files[f], m) => Has(F[f], m)
  <2> SUFFICES ASSUME NEW f \in File, NEW m \in NodeId, Has(files[f], m) PROVE Has(F[f], m)
    OBVIOUS
  <2>1. CASE f = target
    BY <1>1, <1>4, <2>1, GraphParts DEF Has, NoNode
  <2>2. CASE f # target
    BY <1>3, <2>2 DEF Has
  <2> QED BY <2>1, <2>2
<1>8. Has(F[target], original) /\ Has(F[target], replacement)
  BY <1>1, <1>4, GraphParts DEF Has, NoNode
<1>9. Resolves(F, source, back) /\ Resolves(F, target, Here(replacement))
  BY <1>8, LocalAssumption DEF Resolves, Here
<1> HIDE DEF lineage, others, link, away, back
<1>10. \A d \in Redirect(files[source].edges, away, back) : \E e \in files[source].edges :
         /\ d.source_id = e.source_id
         /\ IF e.target_id = away THEN d.target_id = back ELSE d = e
  BY <1>2, <1>5, Redirected
<1>11. \A d \in Redirect(others, Here(original), Here(replacement)) : \E e \in others :
         /\ d.source_id = e.source_id
         /\ IF e.target_id = Here(original) THEN d.target_id = Here(replacement) ELSE d = e
  BY <1>2, <1>5, Redirected
<1>12. AllResolve(F)
  <2>1. ASSUME NEW f \in File, NEW d \in F[f].edges
        PROVE  \/ \E e \in files[f].edges :
                    d.source_id = e.source_id /\ d.target_id = e.target_id
               \/ Has(F[f], d.source_id) /\ Resolves(F, f, d.target_id)
               \/ /\ \E e \in files[f].edges : d.source_id = e.source_id
                  /\ Resolves(F, f, d.target_id)
    <3>1. CASE f = source
      BY <1>3, <1>9, <1>10, <3>1
    <3>2. CASE f = target
      <4>1. CASE d \in lineage
        BY <1>5, <3>2, <4>1
      <4>2. CASE d \in Redirect(others, Here(original), Here(replacement))
        BY <1>5, <1>9, <1>11, <3>2, <4>2
      <4>3. CASE d = link
        BY <1>6, <1>8, <1>9, <3>2, <4>3
      <4> QED BY <1>4, <3>2, <4>1, <4>2, <4>3
    <3> QED BY <3>1, <3>2
  <2> QED BY <1>7, <2>1, StillResolve
<1>13. LineageSound(F[source])
  BY <1>1, RereferencedSound
<1>14. LineageSound(F[target])
  <2>1. \A e \in g.edges : e.target_id # Here(replacement)
    BY Parts DEF Resolves, Here
  <2> QED BY <1>1, <2>1, SupersededSound
<1> QED BY <1>12, <1>13, <1>14, Parts DEF GoodFiles

-----------------------------------------------------------------------------
(* The steps.                                                              *)

\* Between operations no temporary is left.
LEMMA IdleIsClean ==
  ASSUME NEW w, Writer = {w}, PlaceInv, DataInv(w), TxnSound(w), Idle(w)
  PROVE  /\ txn[w].phase \in {"staging", "rolled_back", "restored", "committed"}
         /\ txn[w].phase = "committed" => reloaded[w]
         /\ \A f \in File : temp[f] \in {Absent, Torn}
<1>1. Placed(txn[w]) /\ txn[w] \in Transaction
  BY DEF PlaceInv, TxnsPlaced
<1>2. txn[w].staged = <<>> => txn[w].phase = "staging"
  BY DEF TxnSound, Size
<1>3. txn[w].phase \in {"staging", "rolled_back", "restored", "committed"}
  BY <1>2 DEF Idle, Ended, TxnSound
<1>4. txn[w].phase = "committed" => reloaded[w]
  BY <1>2 DEF Idle, Ended
<1>5. txn[w].written = 0
  BY <1>1, <1>3 DEF Placed, DataInv, Clean, TxnSound, Ended
<1>6. Temps(w) = {}
  BY <1>5 DEF Temps
<1> QED BY <1>3, <1>4, <1>6 DEF DataInv, Clean, TxnSound

IsBatch(writes, n) == DOMAIN writes = 1..n /\ \A i \in 1..n : writes[i] \in File \X Graph

StagedAs(w, writes, n) ==
  /\ Size(w) = n
  /\ \A i \in 1..n : /\ Path(w, i) = writes[i][1]
                     /\ txn[w].staged[i].graph = writes[i][2]
                     /\ txn[w].staged[i].original = disk[writes[i][1]]

LEMMA BeginStep ==
  ASSUME NEW w, Writer = {w}, Content = Graph, PlaceInv, DataInv(w), TxnSound(w), Idle(w),
         NEW point \in InjectPoint \cup {"none"}, NEW n \in 1..2, NEW writes,
         IsBatch(writes, n), NEW expects, Begin(w, point, writes, expects)
  PROVE  /\ PlaceInv' /\ DataInv(w)'
         /\ txn'[w].phase = "logging" /\ interrupted' = {} /\ StagedAs(w, writes, n)'
<1>0. DOMAIN writes = 1..n /\ \A i \in 1..n : writes[i] \in File \X Graph
  BY DEF IsBatch
<1> DEFINE s == [i \in 1..n |-> [path |-> writes[i][1], graph |-> writes[i][2],
                                 original |-> disk[writes[i][1]]]]
           new == NewTransaction(point)
           t == [new EXCEPT !.phase = "logging", !.staged = s]
<1>1. /\ PlaceInv /\ TxnsPlaced /\ FilesTyped /\ txn \in [Writer -> Transaction]
      /\ disk \in [File -> Version]
  BY DEF PlaceInv, TxnsPlaced, FilesTyped
<1>2. ASSUME NEW i \in 1..n
      PROVE  s[i] \in StagedWrite /\ s[i].path = writes[i][1] /\ s[i].graph = writes[i][2]
             /\ s[i].original = disk[writes[i][1]]
  BY <1>0, <1>1 DEF StagedWrite
<1>3. DOMAIN s = 1..n /\ s = [i \in 1..n |-> s[i]]
  OBVIOUS
<1>4. txn' = [txn EXCEPT ![w] = t]
  <2>1. [i \in DOMAIN writes |-> [path |-> writes[i][1], graph |-> writes[i][2],
                                  original |-> disk[writes[i][1]]]] = s
    BY <1>0
  <2>2. txn' = [txn EXCEPT ![w] = [NewTransaction(point) EXCEPT !.phase = "logging", !.staged = s]]
    BY <2>1 DEF Begin
  <2> QED BY <2>2
<1> HIDE DEF s
<1>5. s \in Seq(StagedWrite) /\ Len(s) = n
  BY <1>2, <1>3
<1>6. /\ new \in Transaction
      /\ new.written = 0 /\ new.next = 1 /\ new.faults = 0
  BY NewIsPlaced DEF Placed, NewTransaction
<1> HIDE DEF new
<1>7. t \in Transaction
  BY <1>5, <1>6 DEF Transaction, Phase
<1>8. /\ t.phase = "logging" /\ t.staged = s /\ t.written = 0 /\ t.next = 1
      /\ t.faults = 0
  BY <1>6 DEF Transaction
<1> HIDE DEF t
<1>18. Placed(t)
  BY <1>5, <1>7, <1>8, MaxFaultsAssumption DEF Placed
<1>9. TxnsPlaced'
  BY <1>1, <1>4, <1>18, Moves
<1>10. txn'[w] = t
  BY <1>1, <1>4
<1>11. /\ Size(w)' = n
       /\ \A i \in 1..n : /\ Path(w, i)' = writes[i][1]
                          /\ txn'[w].staged[i].graph = writes[i][2]
                          /\ txn'[w].staged[i].original = disk[writes[i][1]]
  BY <1>2, <1>5, <1>8, <1>10 DEF Size, Path
<1>12. disk' = disk /\ temp' = temp /\ wal' = wal /\ crashed' = crashed /\ interrupted' = interrupted
  BY DEF Begin
<1>13. FilesTyped'
  BY <1>1, <1>12 DEF FilesTyped
<1>14. txn'[w].phase = "logging" /\ txn'[w].written = 0 /\ interrupted' = {}
  BY <1>8, <1>10, <1>12 DEF TxnSound
<1>15. Untouched(w)'
  BY <1>11, <1>12 DEF Untouched
<1>16. (Written(w) /\ Renaming(w) /\ Restoring(w) /\ Held(w) /\ Replaced(w))'
  BY <1>14 DEF Written, Renaming, Restoring, Held, Replaced
<1>17. Clean(w)'
  BY <1>12, <1>14, IdleIsClean DEF Clean, Ended
<1>19. StagedAs(w, writes, n)'
  BY <1>11, <1>12 DEF StagedAs
<1> QED BY <1>9, <1>13, <1>14, <1>15, <1>16, <1>17, <1>19 DEF PlaceInv, DataInv

\* The directory after a batch that names no file twice.
LEMMA ResultIs ==
  ASSUME NEW w, Distinct(w)
  PROVE  /\ \A i \in 1..Size(w) : Path(w, i) \in File => Result(w)[Path(w, i)] = txn[w].staged[i].graph
         /\ \A f \in File : (\A i \in 1..Size(w) : Path(w, i) # f) => Result(w)[f] = graphs[w][f]
<1>1. ASSUME NEW i \in 1..Size(w)
      PROVE  (CHOOSE j \in 1..Size(w) : Path(w, j) = Path(w, i)) = i
  BY DEF Distinct
<1> QED BY <1>1 DEF Result

LEMMA ResultIsNext ==
  ASSUME NEW w
  PROVE  (Distinct(w) =>
           /\ \A i \in 1..Size(w) : Path(w, i) \in File => Result(w)[Path(w, i)] = txn[w].staged[i].graph
           /\ \A f \in File : (\A i \in 1..Size(w) : Path(w, i) # f) => Result(w)[f] = graphs[w][f])'
<1>1. Distinct(w) =>
        /\ \A i \in 1..Size(w) : Path(w, i) \in File => Result(w)[Path(w, i)] = txn[w].staged[i].graph
        /\ \A f \in File : (\A i \in 1..Size(w) : Path(w, i) # f) => Result(w)[f] = graphs[w][f]
  BY ResultIs
<1> QED BY <1>1, PTL

LEMMA ResultTyped ==
  ASSUME NEW w \in Writer, CopiesTyped,
         \A i \in 1..Size(w) : txn[w].staged[i].graph \in Graph
  PROVE  Result(w) \in [File -> Graph]
<1>1. ASSUME NEW f \in File PROVE Result(w)[f] \in Graph
  <2>1. CASE \E i \in 1..Size(w) : Path(w, i) = f
    <3>1. (CHOOSE i \in 1..Size(w) : Path(w, i) = f) \in 1..Size(w)
      BY <2>1
    <3> QED BY <2>1, <3>1 DEF Result
  <2>2. CASE ~ \E i \in 1..Size(w) : Path(w, i) = f
    BY <2>2 DEF Result, CopiesTyped
  <2> QED BY <2>1, <2>2
<1> QED BY <1>1 DEF Result

LEMMA ResultTypedNext ==
  ASSUME NEW w \in Writer
  PROVE  (CopiesTyped /\ (\A i \in 1..Size(w) : txn[w].staged[i].graph \in Graph)
           => Result(w) \in [File -> Graph])'
<1>1. CopiesTyped /\ (\A i \in 1..Size(w) : txn[w].staged[i].graph \in Graph)
        => Result(w) \in [File -> Graph]
  BY ResultTyped
<1> QED BY <1>1, PTL

LEMMA PreparesBatch ==
  ASSUME NEW w, Writer = {w}, Content = Graph, MutInv(w), Idle(w),
         NEW point \in FailAfter, NEW n \in 1..2, NEW writes, DOMAIN writes = 1..n,
         \A i \in 1..n : /\ writes[i] \in File \X Graph
                         /\ Advances(writes[i][2], graphs[w][writes[i][1]]),
         \A F \in [File -> Graph] :
           /\ \A i, j \in 1..n : writes[i][1] = writes[j][1] => i = j
           /\ \A i \in 1..n : F[writes[i][1]] = writes[i][2]
           /\ \A f \in File : (\A i \in 1..n : writes[i][1] # f) => F[f] = graphs[w][f]
           => GoodFiles(F),
         NEW expects,
         expects = <<>> \/ \E f \in File : expects = <<f, graphs[w][f].version>>,
         Begin(w, point, writes, expects)
  PROVE  MutInv(w)' /\ txn'[w].phase = "logging"
<1>1. /\ PlaceInv /\ DataInv(w) /\ TxnSound(w) /\ CopiesTyped /\ GoodFiles(graphs[w])
      /\ CopiesCurrent(w) /\ point \in InjectPoint \cup {"none"}
  BY FailAfterAssumption DEF MutInv
<1>2. /\ PlaceInv' /\ DataInv(w)'
      /\ txn'[w].phase = "logging" /\ Size(w)' = n /\ interrupted' = {}
      /\ \A i \in 1..n : /\ Path(w, i)' = writes[i][1]
                         /\ txn'[w].staged[i].graph = writes[i][2]
                         /\ txn'[w].staged[i].original = disk[writes[i][1]]
  <2>1. IsBatch(writes, n)
    BY DEF IsBatch
  <2>2. /\ PlaceInv' /\ DataInv(w)'
        /\ txn'[w].phase = "logging" /\ interrupted' = {} /\ StagedAs(w, writes, n)'
    BY <1>1, <2>1, BeginStep
  <2> QED BY <2>2 DEF StagedAs, Begin
<1>3. /\ disk' = disk /\ graphs' = graphs
      /\ reloaded' = [reloaded EXCEPT ![w] = FALSE]
      /\ expected' = [expected EXCEPT ![w] = expects]
  BY DEF Begin
<1>4. disk = graphs[w]
  BY <1>1, IdleIsClean DEF CopiesCurrent, Taken, Between
<1>5. \A f \in File : graphs[w][f].version \in Nat
  BY <1>1, Parts
<1>6. CopiesTyped' /\ ~reloaded'[w] /\ expected'[w] = expects
  <2>1. expects \in {<<>>} \cup (File \X Nat)
    BY <1>5
  <2> QED BY <1>1, <1>3, <2>1 DEF CopiesTyped
<1>7. TxnSound(w)'
  BY <1>2, <1>6 DEF TxnSound
<1>8. Prepared(w)'
  <2>1. \A i \in 1..n : /\ txn'[w].staged[i].original = graphs'[w][writes[i][1]]
                        /\ txn'[w].staged[i].graph \in Graph
                        /\ Advances(txn'[w].staged[i].graph, graphs'[w][writes[i][1]])
    BY <1>2, <1>3, <1>4
  <2>2. \A i \in 1..Size(w)' : /\ txn'[w].staged[i].original = graphs'[w][Path(w, i)']
                               /\ txn'[w].staged[i].graph \in Graph
                               /\ Advances(txn'[w].staged[i].graph, graphs'[w][Path(w, i)'])
    BY <1>2, <2>1
  <2>3. ASSUME Distinct(w)' PROVE GoodFiles(Result(w)')
    <3>1. Result(w)' \in [File -> Graph]
      BY <1>6, <2>2, ResultTypedNext
    <3>2. /\ \A i, j \in 1..n : writes[i][1] = writes[j][1] => i = j
      BY <1>2, <2>3 DEF Distinct
    <3>3. /\ \A i \in 1..n : Path(w, i)' \in File => Result(w)'[Path(w, i)'] = txn'[w].staged[i].graph
          /\ \A f \in File : (\A i \in 1..n : Path(w, i)' # f) => Result(w)'[f] = graphs'[w][f]
      BY <1>2, <2>3, ResultIsNext
    <3>4. /\ \A i \in 1..n : Result(w)'[writes[i][1]] = writes[i][2]
          /\ \A f \in File : (\A i \in 1..n : writes[i][1] # f) => Result(w)'[f] = graphs[w][f]
      BY <1>2, <1>3, <3>3
    <3> QED BY <3>1, <3>2, <3>4
  <2> QED BY <2>2, <2>3 DEF Prepared, Advances, Has, GoodFiles, AllResolve, Resolves
<1>9. CopiesCurrent(w)'
  BY <1>2, <1>3, <1>4 DEF CopiesCurrent, Taken, Between
<1>10. ExpectedHolds(w)'
  BY <1>3, <1>6 DEF ExpectedHolds
<1>11. GoodFiles(graphs[w])'
  BY <1>1, <1>3
<1> QED BY <1>2, <1>6, <1>7, <1>8, <1>9, <1>10, <1>11 DEF MutInv

LEMMA OperationStep ==
  ASSUME NEW w, Writer = {w}, Content = Graph, MutInv(w), Operations(w)
  PROVE  /\ Idle(w) /\ graphs' = graphs /\ disk' = disk
         /\ MutInv(w)' /\ txn'[w].phase = "logging"
<1> DEFINE g == graphs[w]
<1>1. GoodFiles(g)
  BY DEF MutInv
<1> HIDE DEF g
<1>2. PICK point \in FailAfter, pair \in Pairs, n \in NodeId :
        \/ \E new \in NodeId, relation \in Relation :
             MutateCrossFile(w, point, pair[1], pair[2], n, new, relation)
        \/ \E id \in NodeId, relation \in Relation :
             AddCrossFileEdge(w, point, pair[1], n, <<pair[2], id>>, relation)
        \/ \E replacement \in NodeId, version \in 0..MaxVersion :
             SupersedeCrossFile(w, point, pair[1], pair[2], n, replacement, version)
  BY DEF Operations
<1> DEFINE source == pair[1]
           target == pair[2]
<1>3. source \in File /\ target \in File
  BY PairsAssumption
<1>4. g[source] \in Graph /\ g[target] \in Graph
  BY <1>1, <1>3, Parts
<1> HIDE DEF source, target
<1>5. ASSUME NEW new \in NodeId, NEW relation \in Relation,
             MutateCrossFile(w, point, source, target, n, new, relation)
      PROVE  MutInv(w)' /\ txn'[w].phase = "logging"
  <2> DEFINE link == LinkTo(n, <<target, new>>, relation)
             writes == << <<source, WithLink(g[source], link)>>, <<target, WithNode(g[target], new)>> >>
  <2>1. /\ Idle(w) /\ Has(g[source], n) /\ ~Has(g[target], new)
        /\ g[source].version < MaxVersion /\ g[target].version < MaxVersion
        /\ Begin(w, point, writes, <<>>)
    BY <1>5 DEF MutateCrossFile, Room, g
  <2>2. link \in Link
    BY <1>3, RefsTyped, LinkTyped
  <2>3. /\ WithLink(g[source], link) \in Graph /\ Advances(WithLink(g[source], link), g[source])
        /\ WithNode(g[target], new) \in Graph /\ Advances(WithNode(g[target], new), g[target])
    BY <1>3, <1>4, <2>1, <2>2, WithLinkIs, WithNodeIs, NewGraphsAdvance
  <2>4. /\ DOMAIN writes = 1..2
        /\ writes[1] = <<source, WithLink(g[source], link)>>
        /\ writes[2] = <<target, WithNode(g[target], new)>>
    OBVIOUS
  <2>5. ASSUME NEW F \in [File -> Graph],
               \A i, j \in 1..2 : writes[i][1] = writes[j][1] => i = j,
               \A i \in 1..2 : F[writes[i][1]] = writes[i][2],
               \A f \in File : (\A i \in 1..2 : writes[i][1] # f) => F[f] = g[f]
        PROVE  GoodFiles(F)
    <3>1. source # target
      BY <2>4, <2>5
    <3>2. F[source] = WithLink(g[source], link) /\ F[target] = WithNode(g[target], new)
      BY <2>4, <2>5
    <3>3. \A f \in File \ {source, target} : F[f] = g[f]
      BY <2>4, <2>5
    <3> QED BY <1>1, <1>3, <2>1, <3>1, <3>2, <3>3, MutateGood
  <2>6. \A i \in 1..2 : writes[i] \in File \X Graph /\ Advances(writes[i][2], g[writes[i][1]])
    BY <1>3, <2>3, <2>4
  <2> HIDE DEF writes
  <2> QED BY <2>1, <2>4, <2>5, <2>6, PreparesBatch DEF g
<1>6. ASSUME NEW id \in NodeId, NEW relation \in Relation,
             AddCrossFileEdge(w, point, source, n, <<target, id>>, relation)
      PROVE  MutInv(w)' /\ txn'[w].phase = "logging"
  <2> DEFINE link == LinkTo(n, <<target, id>>, relation)
             writes == << <<source, WithLink(g[source], link)>> >>
  <2>1. /\ Idle(w) /\ Has(g[source], n) /\ Resolves(g, source, <<target, id>>)
        /\ g[source].version < MaxVersion
        /\ Begin(w, point, writes, <<>>)
    BY <1>6 DEF AddCrossFileEdge, Room, g
  <2>2. link \in Link
    BY <1>3, RefsTyped, LinkTyped
  <2>3. WithLink(g[source], link) \in Graph /\ Advances(WithLink(g[source], link), g[source])
    BY <1>3, <1>4, <2>1, <2>2, WithLinkIs, NewGraphsAdvance
  <2>4. DOMAIN writes = 1..1 /\ writes[1] = <<source, WithLink(g[source], link)>>
    OBVIOUS
  <2>5. ASSUME NEW F \in [File -> Graph],
               \A i \in 1..1 : F[writes[i][1]] = writes[i][2],
               \A f \in File : (\A i \in 1..1 : writes[i][1] # f) => F[f] = g[f]
        PROVE  GoodFiles(F)
    <3>1. F[source] = WithLink(g[source], link)
      BY <2>4, <2>5
    <3>2. \A f \in File \ {source} : F[f] = g[f]
      BY <2>4, <2>5
    <3> QED BY <1>1, <1>3, <2>1, <3>1, <3>2, AddEdgeGood
  <2>6. \A i \in 1..1 : writes[i] \in File \X Graph /\ Advances(writes[i][2], g[writes[i][1]])
    BY <1>3, <2>3, <2>4
  <2> HIDE DEF writes
  <2> QED BY <2>1, <2>4, <2>5, <2>6, PreparesBatch DEF g
<1>7. ASSUME NEW replacement \in NodeId, NEW version \in 0..MaxVersion,
             SupersedeCrossFile(w, point, source, target, n, replacement, version)
      PROVE  MutInv(w)' /\ txn'[w].phase = "logging"
  <2> DEFINE writes == << <<source, Rereferenced(g[source], target, n, replacement)>>,
                          <<target, Superseded(g[target], n, replacement)>> >>
             expects == IF version = 0 THEN <<>> ELSE <<target, version>>
  <2>1. /\ Idle(w) /\ g[target].nodes[n] = "active" /\ ~Has(g[target], replacement)
        /\ g[source].version < MaxVersion /\ g[target].version < MaxVersion
        /\ Begin(w, point, writes, expects)
        /\ version # 0 => version = g[target].version
    BY <1>7 DEF SupersedeCrossFile, Room, g
  <2>2. expects = <<>> \/ \E f \in File : expects = <<f, g[f].version>>
    BY <1>3, <2>1
  <2>3. /\ Rereferenced(g[source], target, n, replacement) \in Graph
        /\ Superseded(g[target], n, replacement) \in Graph
    BY <1>3, <1>4, <2>1, RereferencedIs, SupersededIs
  <2>4. /\ DOMAIN writes = 1..2
        /\ writes[1] = <<source, Rereferenced(g[source], target, n, replacement)>>
        /\ writes[2] = <<target, Superseded(g[target], n, replacement)>>
    OBVIOUS
  <2>5. ASSUME NEW F \in [File -> Graph],
               \A i, j \in 1..2 : writes[i][1] = writes[j][1] => i = j,
               \A i \in 1..2 : F[writes[i][1]] = writes[i][2],
               \A f \in File : (\A i \in 1..2 : writes[i][1] # f) => F[f] = g[f]
        PROVE  GoodFiles(F)
    <3>1. source # target
      BY <2>4, <2>5
    <3>2. /\ F[source] = Rereferenced(g[source], target, n, replacement)
          /\ F[target] = Superseded(g[target], n, replacement)
      BY <2>4, <2>5
    <3>3. \A f \in File \ {source, target} : F[f] = g[f]
      BY <2>4, <2>5
    <3> QED BY <1>1, <1>3, <2>1, <3>1, <3>2, <3>3, SupersedeGood
  <2>6. /\ Advances(Rereferenced(g[source], target, n, replacement), g[source])
        /\ Advances(Superseded(g[target], n, replacement), g[target])
    <3>1. LinkTo(n, <<target, replacement>>, SUPERSEDED_BY) \in Link
      BY <1>3, RefsTyped, LinkTyped, RelationAssumption
    <3> QED BY <1>3, <1>4, <2>1, <3>1, NewGraphsAdvance
  <2>7. \A i \in 1..2 : writes[i] \in File \X Graph /\ Advances(writes[i][2], g[writes[i][1]])
    BY <1>3, <2>3, <2>4, <2>6
  <2> HIDE DEF writes, expects
  <2> QED BY <2>1, <2>2, <2>4, <2>5, <2>7, PreparesBatch DEF g
<1>8. Idle(w) /\ graphs' = graphs /\ disk' = disk
  BY <1>2 DEF MutateCrossFile, AddCrossFileEdge, SupersedeCrossFile, Begin
<1> QED BY <1>2, <1>5, <1>6, <1>7, <1>8 DEF source, target

\* A complete log is told from a missing and from a torn one.
LogsAreTold ==
  Absent \notin SUBSET (File \X Content) /\ Torn \notin SUBSET (File \X Content)

LEMMA LogIsTold ==
  ASSUME LogsAreTold, PlaceInv, NEW w \in Writer
  PROVE  Log(w) \notin {Absent, Torn}
<1>1. Batch(w) \subseteq StagedWrite
  BY BatchTyped DEF Batch
<1>2. Log(w) \in SUBSET (File \X Content)
  BY <1>1 DEF Log, StagedWrite
<1> QED BY <1>2 DEF LogsAreTold

\* The steps of commit() without I/O errors, by what they do to the files.
LEMMA CommitSteps ==
  ASSUME NEW w, Writer = {w}, Content = Graph, MaxFaults = 0, LogsAreTold,
         MutInv(w), CommitStep(w)
  PROVE  /\ txn'[w].staged = txn[w].staged /\ interrupted' = {}
         /\ \/ /\ txn[w].phase \in {"logging", "writing", "aborting"}
               /\ txn'[w].phase \in {"writing", "aborting", "renaming", "rolled_back"}
               /\ disk' = disk
            \/ /\ txn[w].phase = "renaming" /\ txn'[w].phase = "restoring"
               /\ disk' = disk
            \/ /\ txn[w].phase = "renaming" /\ txn[w].next \in 1..Size(w)
               /\ temp[Path(w, txn[w].next)] # Absent
               /\ IF txn[w].next = Size(w) THEN txn'[w].phase = "completing" /\ wal' = wal
                                           ELSE txn'[w].phase = "renaming"
               /\ \A f \in File : (\A i \in 1..Size(w) : Path(w, i) # f) => disk'[f] = disk[f]
            \/ /\ txn[w].phase = "restoring" /\ txn'[w].phase = "restoring"
               /\ \A f \in File : (\A i \in 1..Size(w) : Path(w, i) # f) => disk'[f] = disk[f]
            \/ /\ txn[w].phase = "restoring" /\ txn'[w].phase = "restored"
               /\ txn[w].next > Size(w) /\ w \notin crashed /\ disk' = disk
            \/ /\ txn[w].phase = "completing" /\ txn'[w].phase = "committed"
               /\ disk' = disk
<1> DEFINE t == txn[w]
<1>1. /\ t \in Transaction /\ Placed(t) /\ txn \in [Writer -> Transaction]
      /\ disk \in [File -> Version] /\ t.staged \in Seq(StagedWrite)
  BY DEF MutInv, PlaceInv, TxnsPlaced, FilesTyped, Transaction
<1>2. ~MayFault(w)
  BY <1>1 DEF MayFault, Transaction
<1>3. ~RestoreFails(w) /\ ~CleanUpFails(w)
  BY <1>2 DEF RestoreFails, CleanUpFails
<1>4. interrupted' = {} /\ TxnSound(w) /\ PlaceInv
  BY <1>3 DEF MutInv, TxnSound, CommitStep, WriteWal, WalFails, WriteTemp, TempFails, Abort,
         Rename, RenameFails, RestoreFile, EndRestore, Complete, CompleteFails
<1>a. CASE WriteWal(w)
  BY <1>1, <1>4, <1>a DEF WriteWal, Running, Passing, Transaction
<1>b. CASE WalFails(w) \/ TempFails(w)
  BY <1>2, <1>b DEF WalFails, TempFails
<1>c. CASE WriteTemp(w)
  <2> DEFINE p == IF t.fail_after = Label[t.written + 1] THEN "aborting"
                  ELSE IF t.written + 1 < Len(t.staged) THEN "writing"
                  ELSE Passing(w, "before_rename", "renaming")
  <2>1. p \in {"writing", "aborting", "renaming"}
    BY DEF Passing
  <2> HIDE DEF p
  <2>2. txn' = [txn EXCEPT ![w].written = t.written + 1, ![w].phase = p]
    BY <1>c DEF WriteTemp, p
  <2>3. txn'[w].staged = t.staged /\ txn'[w].phase = p
    BY <1>1, <2>2 DEF Transaction
  <2> QED BY <1>4, <1>c, <2>1, <2>3 DEF WriteTemp, Running
<1>d. CASE Abort(w)
  BY <1>1, <1>4, <1>d DEF Abort, Running, Transaction
<1>e. CASE Rename(w)
  <2>1. t.next \in 1..Size(w) /\ Size(w) = Len(t.staged) /\ Path(w, t.next) \in File
    BY <1>1, <1>4, <1>e, BatchTyped DEF Rename, Running, Placed, Size, Transaction
  <2> DEFINE p == IF t.next = Len(t.staged) THEN "completing" ELSE t.phase
  <2>2. txn' = [txn EXCEPT ![w].next = t.next + 1, ![w].phase = p]
    BY <1>1, <1>e DEF Rename, Transaction
  <2>3. txn'[w].staged = t.staged /\ txn'[w].phase = p
    BY <1>1, <2>2 DEF Transaction
  <2>4. /\ t.phase = "renaming" /\ temp[Path(w, t.next)] # Absent /\ wal' = wal
        /\ disk' = [disk EXCEPT ![Path(w, t.next)] = temp[Path(w, t.next)]]
    BY <1>e DEF Rename, Running, Path
  <2>5. \A f \in File : (\A i \in 1..Size(w) : Path(w, i) # f) => disk'[f] = disk[f]
    BY <1>1, <2>1, <2>4
  <2> QED BY <1>4, <2>1, <2>3, <2>4, <2>5
<1>f. CASE RenameFails(w)
  BY <1>1, <1>4, <1>2, <1>f DEF RenameFails, Running, Transaction
<1>g. CASE RestoreFile(w)
  <2>1. t.next \in 1..Size(w) /\ Path(w, t.next) \in File
    BY <1>1, <1>4, <1>g, BatchTyped DEF RestoreFile, Running, Size, Placed, Transaction
  <2>2. disk' = [disk EXCEPT ![Path(w, t.next)] = t.staged[t.next].original]
    BY <1>g DEF RestoreFile, Path
  <2>3. \A f \in File : (\A i \in 1..Size(w) : Path(w, i) # f) => disk'[f] = disk[f]
    BY <1>1, <2>1, <2>2
  <2>4. t.phase = "restoring" /\ txn'[w].phase = "restoring" /\ txn'[w].staged = t.staged
    BY <1>1, <1>g DEF RestoreFile, Running, Transaction
  <2> QED BY <1>4, <2>3, <2>4
<1>h. CASE EndRestore(w)
  BY <1>1, <1>4, <1>h DEF EndRestore, Restored, Running, Size, Transaction
<1>i. CASE Complete(w)
  BY <1>1, <1>4, <1>i DEF Complete, Running, Transaction
<1>j. CASE CompleteFails(w)
  <2>1. wal \notin {Absent, Torn}
    BY <1>4, <1>j, LogIsTold DEF CompleteFails, Running, TxnSound
  <2> QED BY <1>2, <1>j, <2>1 DEF CompleteFails
<1> QED BY <1>3, <1>a, <1>b, <1>c, <1>d, <1>e, <1>f, <1>g, <1>h, <1>i, <1>j DEF CommitStep

\* The batch and the copies decide what was prepared.
LEMMA PreparedKept ==
  ASSUME NEW w, txn'[w].staged = txn[w].staged, graphs' = graphs
  PROVE  /\ Prepared(w)' <=> Prepared(w)
         /\ Distinct(w)' <=> Distinct(w)
         /\ Result(w)' = Result(w)
<1>1. Size(w)' = Size(w) /\ \A i : Path(w, i)' = Path(w, i)
  BY SameBatch
<1>2. Distinct(w)' <=> Distinct(w)
  BY <1>1 DEF Distinct
<1>3. Result(w)' = Result(w)
  BY <1>1 DEF Result
<1>4. Prepared(w)' <=> Prepared(w)
  <2>1. GoodFiles(Result(w))' <=> GoodFiles(Result(w))
    BY <1>3
  <2> QED BY <1>1, <1>2, <2>1 DEF Prepared
<1> QED BY <1>2, <1>3, <1>4

LEMMA ProceedStep ==
  ASSUME NEW w, Writer = {w}, Content = Graph, MaxFaults = 0, LogsAreTold,
         MutInv(w), Proceed(w)
  PROVE  MutInv(w)'
<1> DEFINE t == txn[w]
<1>1. /\ PlaceInv /\ DataInv(w) /\ CopiesTyped /\ TxnSound(w) /\ GoodFiles(graphs[w])
      /\ CopiesCurrent(w) /\ ExpectedHolds(w)
      /\ t.phase \in Working \/ Taken(w) => Prepared(w)
  BY DEF MutInv
<1>2. CommitStep(w) /\ graphs' = graphs /\ reloaded' = reloaded /\ expected' = expected
  BY DEF Proceed
<1>3. PlaceInv' /\ DataInv(w)'
  <2>1. Step(w)
    BY <1>2 DEF Step
  <2>2. PlaceInv'
    BY <1>1, <2>1, StepTxnsPlaced, StepFilesTyped DEF PlaceInv
  <2> QED BY <1>1, <2>1, <2>2, DataStep
<1>4. /\ txn'[w].staged = t.staged /\ interrupted' = {}
      /\ \/ /\ t.phase \in {"logging", "writing", "aborting"}
            /\ txn'[w].phase \in {"writing", "aborting", "renaming", "rolled_back"}
            /\ disk' = disk
         \/ /\ t.phase = "renaming" /\ txn'[w].phase = "restoring"
            /\ disk' = disk
         \/ /\ t.phase = "renaming" /\ t.next \in 1..Size(w)
            /\ temp[Path(w, t.next)] # Absent
            /\ IF t.next = Size(w) THEN txn'[w].phase = "completing" /\ wal' = wal
                                   ELSE txn'[w].phase = "renaming"
            /\ \A f \in File : (\A i \in 1..Size(w) : Path(w, i) # f) => disk'[f] = disk[f]
         \/ /\ t.phase = "restoring" /\ txn'[w].phase = "restoring"
            /\ \A f \in File : (\A i \in 1..Size(w) : Path(w, i) # f) => disk'[f] = disk[f]
         \/ /\ t.phase = "restoring" /\ txn'[w].phase = "restored"
            /\ t.next > Size(w) /\ w \notin crashed /\ disk' = disk
         \/ /\ t.phase = "completing" /\ txn'[w].phase = "committed"
            /\ disk' = disk
  BY <1>2, CommitSteps
<1>5. /\ Size(w)' = Size(w) /\ Log(w)' = Log(w) /\ \A i : Path(w, i)' = Path(w, i)
      /\ Prepared(w)' <=> Prepared(w)
      /\ Distinct(w)' <=> Distinct(w)
      /\ Result(w)' = Result(w)
  BY <1>2, <1>4, SameBatch, PreparedKept
<1>6. t.phase \in Working \cup {"completing"}
  BY <1>4 DEF Working
<1>7. ~reloaded[w] /\ Prepared(w)
  BY <1>1, <1>6 DEF TxnSound, Taken
<1>8. /\ disk \in [File -> Version] /\ disk' \in [File -> Version]
      /\ graphs[w] \in [File -> Graph] /\ Size(w) \in 0..2
      /\ \A i \in 1..Size(w) : Path(w, i) \in File
  BY <1>1, <1>3, BatchTyped DEF PlaceInv, FilesTyped, GoodFiles
<1>9. CopiesTyped' /\ GoodFiles(graphs[w])'
  BY <1>1, <1>2 DEF CopiesTyped
<1>10. TxnSound(w)'
  <2>1. Size(w) = 0 => FALSE
    BY <1>1, <1>6 DEF TxnSound, Working
  <2>2. txn'[w].phase = "completing" => wal' = Log(w)'
    <3>1. txn'[w].phase = "completing" => t.phase = "renaming" /\ wal' = wal
      BY <1>4
    <3> QED BY <1>1, <1>5, <3>1 DEF DataInv, Written
  <2>3. txn'[w].phase # "unlogged"
    BY <1>4
  <2> QED BY <1>2, <1>4, <1>5, <1>7, <2>1, <2>2, <2>3 DEF TxnSound
<1>11. ExpectedHolds(w)'
  BY <1>1, <1>2, <1>4 DEF ExpectedHolds, Working
<1>12. CopiesCurrent(w)'
  <2>1. CASE t.phase \in {"logging", "writing", "aborting"}
    <3>1. disk' = graphs[w] /\ ~Taken(w)' /\ txn'[w].phase # "restoring"
      BY <1>1, <1>4, <2>1 DEF CopiesCurrent, Taken, Between
    <3> QED BY <1>2, <3>1 DEF CopiesCurrent
  <2>2. CASE t.phase \in Between /\ txn'[w].phase \in Between
    <3>1. \A f \in File : (\A i \in 1..Size(w) : Path(w, i) # f) => disk'[f] = disk[f]
      BY <1>4, <2>2 DEF Between
    <3>2. ~Taken(w)'
      BY <2>2 DEF Taken, Between
    <3> QED BY <1>1, <1>2, <1>5, <2>2, <3>1, <3>2 DEF CopiesCurrent
  <2>3. CASE t.phase = "renaming" /\ txn'[w].phase = "completing"
    <3>1. t.next = Size(w) /\ t.next \in 1..Size(w) /\ temp[Path(w, t.next)] # Absent
      BY <1>4, <2>3
    <3>2. Path(w, t.next) \notin Renamed(w)
      BY <1>1, <2>3, <3>1 DEF DataInv, Renaming
    <3>3. Distinct(w)
      <4>1. \A i \in 1..Size(w) : i = t.next \/ i \in 1..(t.next - 1)
        BY <1>8, <3>1
      <4>2. \A i, j \in 1..(t.next - 1) : Path(w, i) = Path(w, j) => i = j
        BY <1>1, <2>3 DEF DataInv, Renaming
      <4> QED BY <3>2, <4>1, <4>2 DEF Distinct, Renamed
    <3>4. \A i \in 1..Size(w) : disk'[Path(w, i)] = txn[w].staged[i].graph
      BY <1>3, <1>4, <1>5, <2>3 DEF DataInv, Replaced
    <3>5. \A f \in File : (\A i \in 1..Size(w) : Path(w, i) # f) => disk'[f] = graphs[w][f]
      BY <1>1, <1>4, <2>3 DEF CopiesCurrent, Between
    <3>6. Result(w) \in [File -> Graph]
      BY <1>7, <3>3 DEF Prepared, GoodFiles
    <3>7. disk' = Result(w)
      <4>1. \A f \in File : disk'[f] = Result(w)[f]
        BY <1>8, <3>3, <3>4, <3>5, ResultIs
      <4> QED BY <1>8, <3>6, <4>1
    <3> QED BY <1>5, <2>3, <3>3, <3>7 DEF CopiesCurrent, Taken, Between
  <2>4. CASE t.phase = "restoring" /\ txn'[w].phase = "restored"
    <3>1. t.next > Size(w) /\ w \notin crashed /\ disk' = disk /\ t.next \in Nat
      BY <1>1, <1>4, <2>4, BatchTyped DEF Transaction
    <3>2. \A i \in 1..Size(w) : i \in 1..(t.next - 1)
      BY <1>8, <3>1
    <3>3. \A i \in 1..Size(w) : disk[Path(w, i)] = graphs[w][Path(w, i)]
      BY <1>1, <1>7, <2>4, <3>1, <3>2 DEF DataInv, Restoring, Prepared
    <3>4. \A f \in File : (\A i \in 1..Size(w) : Path(w, i) # f) => disk[f] = graphs[w][f]
      BY <1>1, <2>4 DEF CopiesCurrent, Between
    <3>5. disk = graphs[w]
      <4>1. \A f \in File : disk[f] = graphs[w][f]
        BY <3>3, <3>4
      <4> QED BY <1>8, <4>1
    <3> QED BY <1>2, <2>4, <3>1, <3>5 DEF CopiesCurrent, Taken, Between
  <2>5. CASE t.phase = "completing" /\ txn'[w].phase = "committed"
    <3>1. Distinct(w) /\ disk = Result(w) /\ disk' = disk
      BY <1>1, <1>4, <2>5 DEF CopiesCurrent, Taken
    <3> QED BY <1>2, <1>5, <1>7, <2>5, <3>1 DEF CopiesCurrent, Taken, Between
  <2> QED BY <1>4, <2>1, <2>2, <2>3, <2>4, <2>5 DEF Between
<1> QED BY <1>3, <1>5, <1>7, <1>9, <1>10, <1>11, <1>12 DEF MutInv

LEMMA ReloadStep ==
  ASSUME NEW w, Writer = {w}, Content = Graph, MutInv(w), Reload(w)
  PROVE  MutInv(w)' /\ Taken(w) /\ graphs'[w] = disk /\ disk' = disk
<1>1. /\ PlaceInv /\ DataInv(w) /\ CopiesTyped /\ TxnSound(w) /\ CopiesCurrent(w)
      /\ Taken(w) => Prepared(w)
  BY DEF MutInv
<1>2. /\ txn[w].phase = "committed" /\ Taken(w)
      /\ graphs' = [graphs EXCEPT ![w] = disk]
      /\ reloaded' = [reloaded EXCEPT ![w] = TRUE]
      /\ UNCHANGED <<disk, temp, wal, txn, crashed, interrupted, expected>>
  BY DEF Reload, Running, Taken, txnVars
<1>3. GoodFiles(disk)
  BY <1>1, <1>2 DEF CopiesCurrent, Prepared
<1>4. graphs'[w] = disk /\ reloaded'[w] /\ CopiesTyped'
  BY <1>1, <1>2, <1>3 DEF CopiesTyped, GoodFiles
<1>5. ~Taken(w)'
  BY <1>2, <1>4 DEF Taken
<1>6. PlaceInv' /\ DataInv(w)'
  <2>1. Size(w)' = Size(w) /\ Log(w)' = Log(w) /\ \A i : Path(w, i)' = Path(w, i)
    BY <1>2, SameBatch
  <2>2. PlaceInv'
    BY <1>1, <1>2 DEF PlaceInv, FilesTyped, TxnsPlaced, Placed
  <2> QED BY <1>1, <1>2, <2>1, <2>2
        DEF DataInv, Untouched, Written, Renaming, Restoring, Held, Replaced, Clean, Renamed,
            Latest, Temps
<1>7. TxnSound(w)' /\ CopiesCurrent(w)' /\ ExpectedHolds(w)'
  <2>1. Size(w)' = Size(w)
    BY <1>2, SameBatch
  <2>2. txn'[w].phase = "committed"
    BY <1>2
  <2> QED BY <1>1, <1>2, <1>4, <1>5, <2>1, <2>2
        DEF TxnSound, CopiesCurrent, ExpectedHolds, Working, Between
<1>8. GoodFiles(graphs[w])'
  BY <1>3, <1>4
<1>9. txn'[w].phase \notin Working
  BY <1>2 DEF Working
<1> QED BY <1>2, <1>4, <1>5, <1>6, <1>7, <1>8, <1>9 DEF MutInv

LEMMA InitMutInv ==
  ASSUME NEW w, Writer = {w}, Content = Graph, MutationInit
  PROVE  MutInv(w)
<1>1. /\ disk = InitialFiles /\ graphs[w] = InitialFiles /\ ~reloaded[w] /\ expected[w] = <<>>
      /\ interrupted = {} /\ txn[w].staged = <<>> /\ txn[w].phase = "staging"
  BY DEF MutationInit, NewTransaction
<1>2. GoodFiles(InitialFiles)
  BY FixturesAssumption DEF GoodFiles
<1>3. TxnInit
  BY <1>2 DEF MutationInit, TxnInit, GoodFiles
<1>4. PlaceInv /\ DataInv(w)
  BY <1>3, InitPlaced, InitData
<1>5. CopiesTyped
  BY <1>2 DEF MutationInit, CopiesTyped, GoodFiles
<1>6. TxnSound(w)
  BY <1>1 DEF TxnSound, Working
<1> QED BY <1>1, <1>2, <1>4, <1>5, <1>6
      DEF MutInv, Working, Taken, Between, CopiesCurrent, ExpectedHolds

LEMMA MutInvKept ==
  ASSUME NEW w, Writer = {w}, Content = Graph, MaxFaults = 0, LogsAreTold,
         MutInv(w), [MutationNext]_mutationVars
  PROVE  MutInv(w)'
<1>1. CASE MutationNext
  BY <1>1, OperationStep, ProceedStep, ReloadStep DEF MutationNext
<1>2. CASE UNCHANGED mutationVars
  <2>1. UNCHANGED <<disk, temp, wal, txn, crashed, interrupted, graphs, reloaded, expected>>
    BY <1>2 DEF mutationVars, txnVars
  <2>2. /\ Size(w)' = Size(w) /\ Log(w)' = Log(w) /\ \A i : Path(w, i)' = Path(w, i)
        /\ \A f : Left(w, f)' = Left(w, f)
        /\ Prepared(w)' <=> Prepared(w)
        /\ Distinct(w)' <=> Distinct(w)
        /\ Result(w)' = Result(w)
    BY <2>1, SameBatch, PreparedKept
  <2>3. PlaceInv'
    BY <2>1 DEF MutInv, PlaceInv, FilesTyped, TxnsPlaced, Placed
  <2>4. DataInv(w)'
    BY <2>1, <2>2
      DEF MutInv, DataInv, Untouched, Written, Renaming, Restoring, Held, Replaced, Clean, Renamed,
          Latest, Temps
  <2>5. Taken(w)' <=> Taken(w)
    BY <2>1 DEF Taken
  <2>6. CopiesTyped' /\ TxnSound(w)' /\ GoodFiles(graphs[w])'
    BY <2>1, <2>2 DEF MutInv, CopiesTyped, TxnSound
  <2>7. CopiesCurrent(w)'
    <3>1. disk' = disk /\ graphs' = graphs /\ txn' = txn
      BY <2>1
    <3> QED BY <2>2, <2>5, <3>1 DEF MutInv, CopiesCurrent
  <2>8. ExpectedHolds(w)'
    BY <2>1 DEF MutInv, ExpectedHolds
  <2> QED BY <2>1, <2>2, <2>3, <2>4, <2>5, <2>6, <2>7, <2>8 DEF MutInv
<1> QED BY <1>1, <1>2

LEMMA OneProcess ==
  ASSUME NEW w, Writer = {w}, Content = Graph, MaxFaults = 0, LogsAreTold
  PROVE  MutationSpec => []MutInv(w)
BY InitMutInv, MutInvKept, PTL DEF MutationSpec

-----------------------------------------------------------------------------
(* What others see.                                                        *)

LEMMA SettledIs ==
  ASSUME NEW w, Writer = {w}, MutInv(w)
  PROVE  Settled = IF Taken(w) THEN Result(w) ELSE graphs[w]
<1>1. /\ PlaceInv /\ Untouched(w) /\ CopiesCurrent(w)
      /\ txn[w].phase \in Working \/ Taken(w) => Prepared(w)
      /\ disk \in [File -> Version] /\ graphs[w] \in [File -> Graph]
  BY DEF MutInv, DataInv, PlaceInv, FilesTyped, GoodFiles
<1>2. CASE txn[w].phase \notin Between
  <2>1. Settled = disk
    BY <1>1, <1>2, SettledOutside
  <2> QED BY <1>1, <1>2, <2>1 DEF CopiesCurrent
<1>3. CASE txn[w].phase \in Between
  <2>1. Prepared(w) /\ ~Taken(w)
    BY <1>1, <1>3 DEF Working, Between, Taken
  <2>2. \A i \in 1..Size(w) : Settled[Path(w, i)] = graphs[w][Path(w, i)]
    BY <1>1, <1>3, <2>1, SettledBetween DEF Prepared
  <2>3. \A f \in File : (\A i \in 1..Size(w) : Path(w, i) # f) => Settled[f] = graphs[w][f]
    BY <1>1, <1>3, SettledBetween DEF CopiesCurrent
  <2>4. Settled \in [File -> Version]
    BY <1>1, <1>3, SettledBetween
  <2>5. \A f \in File : Settled[f] = graphs[w][f]
    BY <2>2, <2>3
  <2>6. Settled = graphs[w]
    BY <1>1, <2>4, <2>5
  <2> QED BY <2>1, <2>6
<1> QED BY <1>2, <1>3

LEMMA SettledIsNext ==
  ASSUME NEW w, Writer = {w}
  PROVE  (MutInv(w) => Settled = IF Taken(w) THEN Result(w) ELSE graphs[w])'
<1>1. MutInv(w) => Settled = IF Taken(w) THEN Result(w) ELSE graphs[w]
  BY SettledIs
<1> QED BY <1>1, PTL

LEMMA SettledIsGood ==
  ASSUME NEW w, Writer = {w}, MutInv(w)
  PROVE  GoodFiles(Settled)
<1>1. Taken(w) => Prepared(w) /\ Distinct(w)
  BY DEF MutInv, CopiesCurrent
<1> QED BY <1>1, SettledIs DEF MutInv, Prepared

\* One process, any sequence of operations and injected failures, no I/O
\* errors: no cross-file reference dangles between transactions
\* (cross_file_mutation.py:210-217).
THEOREM ReferencesAlwaysResolve ==
  ASSUME NEW w, Writer = {w}, Content = Graph, MaxFaults = 0, LogsAreTold
  PROVE  MutationSpec => []ReferencesResolve
<1>1. MutInv(w) => ReferencesResolve
  BY SettledIsGood DEF ReferencesResolve, GoodFiles
<1> QED BY <1>1, OneProcess, PTL

\* Likewise the replacements of every superseded node form one unbranched chain,
\* whatever SUPERSEDED_BY references callers draw beside them
\* (cross_file_mutation.py:185-207).
THEOREM LineagesStayUnbranched ==
  ASSUME NEW w, Writer = {w}, Content = Graph, MaxFaults = 0, LogsAreTold
  PROVE  MutationSpec => []LineageUnbranched
<1>1. MutInv(w) => LineageUnbranched
  BY SettledIsGood DEF LineageUnbranched, GoodFiles
<1> QED BY <1>1, OneProcess, PTL

\* Likewise a supersede that starts to replace files finds its target file at
\* the version its caller expected (cross_file_mutation.py:172-174).
THEOREM ExpectedVersionHolds ==
  ASSUME NEW w, Writer = {w}, Content = Graph, MaxFaults = 0, LogsAreTold
  PROVE  MutationSpec => []VersionGuards
<1>1. MutInv(w) => VersionGuards
  <2> SUFFICES ASSUME MutInv(w), txn[w].phase = "renaming", txn[w].next = 1, expected[w] # <<>>
               PROVE  disk[expected[w][1]].version = expected[w][2]
    BY DEF VersionGuards
  <2>1. expected[w][1] \in File
    BY DEF MutInv, CopiesTyped
  <2>2. Prepared(w) /\ CopiesCurrent(w) /\ Renaming(w) /\ ExpectedHolds(w)
    BY DEF MutInv, DataInv, Working
  <2>3. Renamed(w) = {}
    BY DEF Renamed
  <2>4. \A i \in 1..Size(w) : disk[Path(w, i)] = graphs[w][Path(w, i)]
    BY <2>2, <2>3 DEF Renaming, Prepared
  <2>5. disk[expected[w][1]] = graphs[w][expected[w][1]]
    BY <2>1, <2>2, <2>4 DEF CopiesCurrent, Between
  <2> QED BY <2>2, <2>5 DEF ExpectedHolds, Working
<1> QED BY <1>1, OneProcess, PTL

\* Likewise a file that changes moves on by exactly one version and keeps its
\* nodes, so a version stands for one content (cross_file_mutation.py:57-58).
THEOREM VersionsCountChanges ==
  ASSUME NEW w, Writer = {w}, Content = Graph, MaxFaults = 0, LogsAreTold
  PROVE  MutationSpec => VersionCountsChanges
<1> DEFINE Counted ==
      \A f \in File : Settled'[f] # Settled[f] =>
        /\ Settled'[f].version = Settled[f].version + 1
        /\ \A n \in NodeId : Has(Settled[f], n) => Has(Settled'[f], n)
<1>1. MutInv(w) /\ MutInv(w)' /\ [MutationNext]_mutationVars => [Counted]_mutationVars
  <2> SUFFICES ASSUME MutInv(w), MutInv(w)', MutationNext, NEW f \in File, Settled'[f] # Settled[f]
               PROVE  /\ Settled'[f].version = Settled[f].version + 1
                      /\ \A n \in NodeId : Has(Settled[f], n) => Has(Settled'[f], n)
    OBVIOUS
  <2>1. /\ Settled = IF Taken(w) THEN Result(w) ELSE graphs[w]
        /\ Settled' = IF Taken(w)' THEN Result(w)' ELSE graphs'[w]
    BY SettledIs, SettledIsNext
  <2>2. Taken(w) => disk = Result(w)
    BY DEF MutInv, CopiesCurrent
  <2>3. CASE Operations(w)
    <3>1. ~Taken(w) /\ ~Taken(w)'
      <4>1. Idle(w)
        BY <2>3, OperationStep
      <4>2. txn'[w].phase = "logging"
        BY <2>3, OperationStep
      <4> QED BY <4>1, <4>2, IdleIsClean DEF MutInv, Taken
    <3> QED BY <2>1, <2>3, <3>1, OperationStep
  <2>4. CASE Reload(w)
    <3>1. Taken(w) /\ graphs'[w] = disk /\ ~Taken(w)'
      BY <2>4, ReloadStep DEF Reload, Taken, Running, txnVars, MutInv, CopiesTyped
    <3> QED BY <2>1, <2>2, <3>1
  <2>5. CASE Proceed(w)
    <3>1. /\ CommitStep(w) /\ graphs' = graphs /\ reloaded' = reloaded
      BY <2>5 DEF Proceed
    <3>2. txn'[w].staged = txn[w].staged
      BY <3>1, CommitSteps
    <3>3. Result(w)' = Result(w)
      BY <3>1, <3>2, PreparedKept
    <3>4. Taken(w) => Taken(w)'
      BY <3>1, CommitSteps DEF MutInv, TxnSound, Taken
    <3>5. ~Taken(w) /\ Taken(w)'
      BY <2>1, <3>1, <3>3, <3>4
    <3>6. Settled[f] = graphs[w][f] /\ Settled'[f] = Result(w)[f]
      BY <2>1, <3>3, <3>5
    <3>7. Prepared(w)' /\ Distinct(w)'
      BY <3>5 DEF MutInv, CopiesCurrent
    <3>8. Prepared(w) /\ Distinct(w)
      BY <3>1, <3>2, <3>7, PreparedKept
    <3>9. PICK i \in 1..Size(w) : Path(w, i) = f
      BY <3>6, <3>8, ResultIs
    <3>10. Result(w)[f] = txn[w].staged[i].graph
      BY <3>8, <3>9, ResultIs
    <3> QED BY <3>6, <3>8, <3>9, <3>10 DEF Prepared, Advances
  <2> QED BY <2>3, <2>4, <2>5 DEF MutationNext
<1> QED BY <1>1, OneProcess, PTL DEF MutationSpec, VersionCountsChanges
=============================================================================
