---------------------------- MODULE AtomicStore ----------------------------
(***************************************************************************)
(* What a cross-file transaction promises (transaction.py of STUDY-207,    *)
(* lines 3-4): a writer puts together a batch of new file contents, and    *)
(* the store either takes all of the batch at once or none of it.          *)
(***************************************************************************)
CONSTANTS
  File,       \* file names
  Version,    \* what a file may hold, "no such file" included
  Client      \* writers

VARIABLES
  store,      \* the files
  batch       \* what each writer has put together: file -> new content

storeVars == <<store, batch>>

NoBatch == [f \in {} |-> {}]

StoreInit ==
  /\ store \in [File -> Version]
  /\ batch = [c \in Client |-> NoBatch]

Begin(c) ==
  /\ batch' = [batch EXCEPT ![c] = NoBatch]
  /\ UNCHANGED store

Put(c, f, content) ==
  /\ batch' = [batch EXCEPT ![c] =
       [g \in DOMAIN batch[c] \cup {f} |-> IF g = f THEN content ELSE batch[c][g]]]
  /\ UNCHANGED store

Replace(c) ==
  /\ store' = [f \in File |-> IF f \in DOMAIN batch[c] THEN batch[c][f] ELSE store[f]]
  /\ UNCHANGED batch

StoreNext ==
  \E c \in Client :
    \/ Begin(c)
    \/ \E f \in File, content \in Version : Put(c, f, content)
    \/ Replace(c)

StoreSpec == StoreInit /\ [][StoreNext]_storeVars
=============================================================================
