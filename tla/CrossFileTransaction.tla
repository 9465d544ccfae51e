------------------------ MODULE CrossFileTransaction ------------------------
(***************************************************************************)
(* CrossFileTransaction of STUDY-207 (transaction.py): a batch of files is *)
(* logged, written to temporary files and renamed into place.  Every       *)
(* file-system call is a step of its own, may fail, and may be the last    *)
(* one before the process dies.  The log and the temporaries have names    *)
(* derived from the directory and the files, so transactions of several    *)
(* writers share them.                                                     *)
(***************************************************************************)
EXTENDS Naturals, Sequences, SequencesExt

CONSTANTS
  File,         \* the graph files of one directory
  Content,      \* serialized graphs
  Writer,       \* processes that run transactions
  Absent,       \* there is no such file
  Torn,         \* a file whose writing was cut short
  MaxFaults     \* bound on the I/O errors of one transaction

ASSUME ContentAssumption == Absent \notin Content /\ Torn \notin Content /\ Absent # Torn
ASSUME MaxFaultsAssumption == MaxFaults \in Nat

VARIABLES
  disk,         \* the graph files
  temp,         \* <file>.wal.tmp
  wal,          \* .wal.json
  txn,          \* the writers' transactions
  crashed,      \* writers whose process is dead
  interrupted   \* history: writers whose process died, or whose restoration or
                \* clean-up an I/O error cut short, at some time

txnVars == <<disk, temp, wal, txn, crashed, interrupted>>

Version == Content \cup {Absent, Torn}

InjectPoint == {"wal_written", "source_temp_write", "target_temp_write",
                "before_rename"}

\* existed is original # Absent.
StagedWrite == [path : File, graph : Content, original : Version]

\* Callers stage the source file, then perhaps the target file.
Label == <<"source_temp_write", "target_temp_write">>

\* How commit() ends: it returns, or raises after undoing everything, after an
\* I/O error in the undoing, or with every file replaced.
Ended == {"committed", "rolled_back", "restored", "unrestored", "uncleaned", "unlogged"}
Phase == {"staging", "logging", "writing", "aborting", "renaming", "restoring",
          "completing"} \cup Ended

\* written is Len(_temps); next is the position of the rename or restore loop.
Transaction == [phase : Phase, staged : Seq(StagedWrite),
                fail_after : InjectPoint \cup {"none"},
                written : Nat, next : Nat, faults : Nat]

NewTransaction(point) ==
  [phase |-> "staging", staged |-> <<>>, fail_after |-> point,
   written |-> 0, next |-> 1, faults |-> 0]

Batch(w) == {txn[w].staged[i] : i \in DOMAIN txn[w].staged}
Temps(w) == {txn[w].staged[i].path : i \in 1..txn[w].written}

\* The log names every staged write and the digest of its content.
Log(w) == {<<s.path, s.graph>> : s \in Batch(w)}

Running(w, phase) == w \notin crashed /\ txn[w].phase = phase

\* _maybe_fail.
Passing(w, point, phase) == IF txn[w].fail_after = point THEN "aborting" ELSE phase

MayFault(w) == txn[w].faults < MaxFaults
Fault(w, phase) == txn' = [txn EXCEPT ![w].phase = phase, ![w].next = 1,
                                      ![w].faults = @ + 1]

-----------------------------------------------------------------------------
(* The caller: a transaction object, its staged writes, commit().          *)

Open(w, point) ==
  /\ w \notin crashed /\ txn[w].phase \in Ended
  /\ txn' = [txn EXCEPT ![w] = NewTransaction(point)]
  /\ UNCHANGED <<disk, temp, wal, crashed, interrupted>>

\* stage: remembers the bytes the file holds now.  Nothing stops a caller from
\* staging one file as source and as target.
Stage(w, f, content) ==
  /\ Running(w, "staging")
  /\ Len(txn[w].staged) < Len(Label)
  /\ txn' = [txn EXCEPT ![w].staged =
               Append(@, [path |-> f, graph |-> content, original |-> disk[f]])]
  /\ UNCHANGED <<disk, temp, wal, crashed, interrupted>>

Commit(w) ==
  /\ Running(w, "staging")
  /\ txn[w].staged # <<>>
  /\ txn' = [txn EXCEPT ![w].phase = "logging"]
  /\ UNCHANGED <<disk, temp, wal, crashed, interrupted>>

-----------------------------------------------------------------------------
(* Steps 1 and 2 of commit: log and temporaries.                           *)

Mut_WriteWalSkipped(w) ==
  /\ Running(w, "logging")
  /\ txn' = [txn EXCEPT ![w].phase = Passing(w, "wal_written", "writing")]
  /\ UNCHANGED <<disk, temp, wal, crashed, interrupted>>

WriteWal(w) ==
  /\ Running(w, "logging")
  /\ wal' = Log(w)
  /\ txn' = [txn EXCEPT ![w].phase = Passing(w, "wal_written", "writing")]
  /\ UNCHANGED <<disk, temp, crashed, interrupted>>

WalFails(w) ==
  /\ Running(w, "logging") /\ MayFault(w)
  /\ wal' \in {wal, Torn}
  /\ Fault(w, "aborting")
  /\ UNCHANGED <<disk, temp, crashed, interrupted>>

WriteTemp(w) ==
  LET i == txn[w].written + 1
      s == txn[w].staged[i]
  IN  /\ Running(w, "writing")
      /\ temp' = [temp EXCEPT ![s.path] = s.graph]
      /\ txn' = [txn EXCEPT
                   ![w].written = i,
                   ![w].phase = IF txn[w].fail_after = Label[i] THEN "aborting"
                                ELSE IF i < Len(txn[w].staged) THEN "writing"
                                ELSE Passing(w, "before_rename", "renaming")]
      /\ UNCHANGED <<disk, wal, crashed, interrupted>>

\* write_bytes raises before the temporary is entered in _temps.
TempFails(w) ==
  /\ Running(w, "writing") /\ MayFault(w)
  /\ \E left \in {temp[txn[w].staged[txn[w].written + 1].path], Torn} :
       temp' = [temp EXCEPT ![txn[w].staged[txn[w].written + 1].path] = left]
  /\ Fault(w, "aborting")
  /\ UNCHANGED <<disk, wal, crashed, interrupted>>

Mut_AbortKeepsLog(w) ==
  /\ Running(w, "aborting")
  /\ temp' = [f \in File |-> IF f \in Temps(w) THEN Absent ELSE temp[f]]
  /\ txn' = [txn EXCEPT ![w].phase = "rolled_back", ![w].written = 0]
  /\ UNCHANGED <<disk, wal, crashed, interrupted>>

\* _rollback_pre_rename.
Abort(w) ==
  /\ Running(w, "aborting")
  /\ temp' = [f \in File |-> IF f \in Temps(w) THEN Absent ELSE temp[f]]
  /\ wal' = Absent
  /\ txn' = [txn EXCEPT ![w].phase = "rolled_back", ![w].written = 0]
  /\ UNCHANGED <<disk, crashed, interrupted>>

-----------------------------------------------------------------------------
(* Step 3: the renames, and the pre-images put back when one fails.        *)

Rename(w) ==
  LET i == txn[w].next
      f == txn[w].staged[i].path
  IN  /\ Running(w, "renaming")
      /\ temp[f] # Absent
      /\ disk' = [disk EXCEPT ![f] = temp[f]]
      /\ temp' = [temp EXCEPT ![f] = Absent]
      /\ txn' = [txn EXCEPT ![w].next = i + 1,
                   ![w].phase = IF i = Len(txn[w].staged) THEN "completing" ELSE @]
      /\ UNCHANGED <<wal, crashed, interrupted>>

Mut_RenameFailsDiscards(w) ==
  /\ Running(w, "renaming")
  /\ IF temp[txn[w].staged[txn[w].next].path] = Absent
       THEN txn' = [txn EXCEPT ![w].phase = "aborting", ![w].next = 1]
       ELSE MayFault(w) /\ Fault(w, "aborting")
  /\ UNCHANGED <<disk, temp, wal, crashed, interrupted>>

\* os.replace raises: an I/O error, or the temporary is gone.
RenameFails(w) ==
  /\ Running(w, "renaming")
  /\ IF temp[txn[w].staged[txn[w].next].path] = Absent
       THEN txn' = [txn EXCEPT ![w].phase = "restoring", ![w].next = 1]
       ELSE MayFault(w) /\ Fault(w, "restoring")
  /\ UNCHANGED <<disk, temp, wal, crashed, interrupted>>

Mut_RestoreFileKeepsCreated(w) ==
  LET s == txn[w].staged[txn[w].next]
  IN  /\ Running(w, "restoring")
      /\ txn[w].next <= Len(txn[w].staged)
      /\ disk' = IF s.original = Absent THEN disk ELSE [disk EXCEPT ![s.path] = s.original]
      /\ txn' = [txn EXCEPT ![w].next = @ + 1]
      /\ UNCHANGED <<temp, wal, crashed, interrupted>>

\* _restore_from_preimage, one file: rewritten, or unlinked if it did not exist.
RestoreFile(w) ==
  LET s == txn[w].staged[txn[w].next]
  IN  /\ Running(w, "restoring")
      /\ txn[w].next <= Len(txn[w].staged)
      /\ disk' = [disk EXCEPT ![s.path] = s.original]
      /\ txn' = [txn EXCEPT ![w].next = @ + 1]
      /\ UNCHANGED <<temp, wal, crashed, interrupted>>

\* write_bytes raises, with the file truncated by then or not, or unlink does: the
\* error leaves commit(), the other files stay as they are, and so do the
\* temporaries and the log.
RestoreFails(w) ==
  LET s == txn[w].staged[txn[w].next]
  IN  /\ Running(w, "restoring") /\ MayFault(w)
      /\ txn[w].next <= Len(txn[w].staged)
      /\ \E left \in IF s.original = Absent THEN {disk[s.path]} \ {Absent}
                     ELSE {disk[s.path], Torn} :
           disk' = [disk EXCEPT ![s.path] = left]
      /\ Fault(w, "unrestored")
      /\ interrupted' = interrupted \cup {w}
      /\ UNCHANGED <<temp, wal, crashed>>

Restored(w) == Running(w, "restoring") /\ txn[w].next > Len(txn[w].staged)

EndRestore(w) ==
  /\ Restored(w)
  /\ temp' = [f \in File |-> IF f \in Temps(w) THEN Absent ELSE temp[f]]
  /\ wal' = Absent
  /\ txn' = [txn EXCEPT ![w].phase = "restored", ![w].written = 0]
  /\ UNCHANGED <<disk, crashed, interrupted>>

\* One of the unlinks of a rollback or a restoration raises: the temporaries from
\* there on and the log, which is the last to go, stay.
CleanUpFails(w) ==
  /\ Running(w, "aborting") \/ Restored(w)
  /\ MayFault(w)
  /\ \E gone \in 0..txn[w].written :
       /\ temp' = [f \in File |->
                    IF f \in {txn[w].staged[i].path : i \in 1..gone} THEN Absent ELSE temp[f]]
       /\ IF gone < txn[w].written THEN temp'[txn[w].staged[gone + 1].path] # Absent
          ELSE wal # Absent
  /\ Fault(w, "uncleaned")
  /\ interrupted' = interrupted \cup {w}
  /\ UNCHANGED <<disk, wal, crashed>>

-----------------------------------------------------------------------------
(* Step 4: the log is read, marked complete and unlinked, outside any try. *)

Complete(w) ==
  /\ Running(w, "completing")
  /\ wal \notin {Absent, Torn}
  /\ wal' = Absent
  /\ txn' = [txn EXCEPT ![w].phase = "committed", ![w].written = 0]
  /\ UNCHANGED <<disk, temp, crashed, interrupted>>

\* The log is missing or unreadable, or an I/O error: commit() raises although
\* every file was replaced.
CompleteFails(w) ==
  /\ Running(w, "completing")
  /\ IF wal \in {Absent, Torn}
       THEN txn' = [txn EXCEPT ![w].phase = "unlogged"] /\ UNCHANGED wal
       ELSE MayFault(w) /\ Fault(w, "unlogged") /\ wal' \in {wal, Torn}
  /\ UNCHANGED <<disk, temp, crashed, interrupted>>

-----------------------------------------------------------------------------
(* The process dies, perhaps inside a write; nothing reads the log when it *)
(* is started again.                                                       *)

Crash(w) ==
  /\ w \notin crashed /\ txn[w].phase \notin Ended
  /\ crashed' = crashed \cup {w}
  /\ interrupted' = interrupted \cup {w}
  /\ \/ UNCHANGED <<disk, temp, wal>>
     \/ /\ txn[w].phase \in {"logging", "completing"}
        /\ wal' = Torn
        /\ UNCHANGED <<disk, temp>>
     \/ /\ txn[w].phase = "writing"
        /\ temp' = [temp EXCEPT ![txn[w].staged[txn[w].written + 1].path] = Torn]
        /\ UNCHANGED <<disk, wal>>
     \/ /\ txn[w].phase = "restoring" /\ txn[w].next <= Len(txn[w].staged)
        /\ disk' = [disk EXCEPT ![txn[w].staged[txn[w].next].path] = Torn]
        /\ UNCHANGED <<temp, wal>>
  /\ UNCHANGED txn

Restart(w) ==
  /\ w \in crashed
  /\ crashed' = crashed \ {w}
  /\ txn' = [txn EXCEPT ![w] = NewTransaction("none")]
  /\ UNCHANGED <<disk, temp, wal, interrupted>>

-----------------------------------------------------------------------------
TxnInit ==
  /\ disk \in [File -> Content \cup {Absent}]
  /\ temp = [f \in File |-> Absent]
  /\ wal = Absent
  /\ txn = [w \in Writer |-> NewTransaction("none")]
  /\ crashed = {}
  /\ interrupted = {}

CommitStep(w) ==
  \/ WriteWal(w) \/ WalFails(w) \/ WriteTemp(w) \/ TempFails(w) \/ Abort(w)
  \/ Rename(w) \/ RenameFails(w) \/ RestoreFile(w) \/ RestoreFails(w) \/ EndRestore(w)
  \/ CleanUpFails(w) \/ Complete(w) \/ CompleteFails(w)

Step(w) ==
  \/ \E point \in InjectPoint \cup {"none"} : Open(w, point)
  \/ \E f \in File, content \in Content : Stage(w, f, content)
  \/ Commit(w)
  \/ CommitStep(w)

UninterruptedNext == \E w \in Writer : Step(w)
TxnNext == \E w \in Writer : Step(w) \/ Crash(w) \/ Restart(w)

\* Nobody kills the processes.
UninterruptedSpec == TxnInit /\ [][UninterruptedNext]_txnVars
TxnSpec == TxnInit /\ [][TxnNext]_txnVars

-----------------------------------------------------------------------------
(* Properties.                                                             *)

\* The state has its shape, and the loops stay within the staged batch.
TxnTypeOK ==
  /\ disk \in [File -> Version]
  /\ temp \in [File -> Version]
  /\ wal \in {Absent, Torn} \cup SUBSET (File \X Content)
  /\ txn \in [Writer -> Transaction]
  /\ crashed \subseteq interrupted /\ interrupted \subseteq Writer
  /\ \A w \in Writer :
       /\ Len(txn[w].staged) <= Len(Label)
       /\ txn[w].written <= Len(txn[w].staged)
       /\ txn[w].next <= Len(txn[w].staged) + 1
       /\ txn[w].faults <= MaxFaults

\* What the files of a batch may hold while they are being put back.
Left(w, f) == {Torn} \cup UNION {{s.original, s.graph} : s \in {t \in Batch(w) : t.path = f}}

\* Transactions that run one at a time: when one has ended, either every staged
\* file was replaced, or every one is back to the bytes it had when it was
\* staged, files that did not exist included, wherever I/O errors struck and in
\* the clean-up too.  Only an error in the restoration itself (transaction.py:145,
\* 147) leaves the files mixed: each with its pre-image, a staged content or torn,
\* and the log, which still names the whole batch.
AllOrNothing ==
  \A w \in Writer \ crashed :
    /\ txn[w].phase \in {"committed", "unlogged"} =>
         \A s \in Batch(w) : disk[s.path] = s.graph
    /\ txn[w].phase \in {"rolled_back", "restored", "uncleaned"} =>
         \A s \in Batch(w) : disk[s.path] = s.original
    /\ txn[w].phase = "unrestored" =>
         wal = Log(w) /\ \A s \in Batch(w) : disk[s.path] \in Left(w, s.path)

\* The clean-up: as long as no process has died and no restoration or clean-up has
\* failed, an ended transaction leaves no complete temporary that a later one
\* could take for its own, and leaves its log only if marking it failed.  (A
\* temporary whose writing failed stays behind, torn.)
EndsClean ==
  interrupted = {} => \A w \in Writer :
    txn[w].phase \in Ended =>
      /\ \A s \in Batch(w) : temp[s.path] \in {Absent, Torn}
      /\ txn[w].phase # "unlogged" => wal = Absent

\* The batch of the last transaction: for each staged file the content staged
\* last.
Staged(w) ==
  [f \in {s.path : s \in Batch(w)} |->
     txn[w].staged[SelectLastInSeq(txn[w].staged, LAMBDA s : s.path = f)].graph]

\* The write-ahead rule.  If the process dies between two renames, the log on
\* disk names the whole batch, and every file either holds its new content or
\* has it, complete, in its temporary: the batch can be finished.  This is what
\* "a recoverable record of the whole batch" (transaction.py:7) comes to.
Recoverable ==
  \A w \in Writer :
    txn[w].phase = "renaming" =>
      /\ wal = Log(w)
      /\ \A f \in DOMAIN Staged(w) : Staged(w)[f] \in {disk[f], temp[f]}

\* What the rest of the program sees between transactions: while the renames or
\* the restoration run, the files as they were staged.
Between == {"renaming", "restoring"}
Settled == [f \in File |->
  IF \E w \in Writer : txn[w].phase \in Between /\ \E s \in Batch(w) : s.path = f
    THEN LET w == CHOOSE v \in Writer :
                    txn[v].phase \in Between /\ \E s \in Batch(v) : s.path = f
         IN  (CHOOSE s \in Batch(w) : s.path = f).original
    ELSE disk[f]]

Store == INSTANCE AtomicStore
  WITH store <- Settled, batch <- [w \in Writer |-> Staged(w)], Client <- Writer

\* Nobody dies or is started again, and no restoration fails.
Undisturbed ==
  crashed' = crashed /\ \A w \in Writer : txn'[w].phase # "unrestored"

\* Transactions that run one at a time implement the atomic store whatever calls
\* fail on the way, the clean-up's included and whatever happened before: what the
\* callers between them see is a batch taken whole or not at all.  Three kinds of
\* steps are left to themselves: the death of a process, its restart, and the
\* failure of a restoration (transaction.py:145, 147).
ImplementsAtomicStore ==
  /\ Store!StoreInit
  /\ [][Undisturbed => Store!StoreNext \/ UNCHANGED Store!storeVars]_txnVars

\* "There is no observable state in which one file reflects the mutation and
\* the other does not" (transaction.py:14-16).
NoHalfMutation ==
  \A w \in Writer : \A s, t \in Batch(w) :
    /\ s.path # t.path
    /\ s.graph # s.original /\ t.graph # t.original
    => ~(disk[s.path] = s.graph /\ disk[t.path] = t.original)
=============================================================================
