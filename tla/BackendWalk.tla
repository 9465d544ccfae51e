---------------------------- MODULE BackendWalk ----------------------------
(***************************************************************************)
(* STUDY-208: one walk over five backends of one contract.  A modification *)
(* is staged by write_modification and is live after persist: at once in a *)
(* file, a dictionary or a commit, in a key-value store before it is       *)
(* flushed to its file, or file by file.                                   *)
(***************************************************************************)
EXTENDS Walk

Backend == {"file", "inmemory", "kv", "relational", "multifile"}

\* Where a walk may be after it has left n, in d with all that its nodes add.
FullEdges(d) == ToSet(d.edges) \cup UNION {ToSet(Growth[n].edges) : n \in Growers(d)}
Ahead(d, n) ==
  {S \in SUBSET {e.target_id : e \in FullEdges(d)} :
     \A e \in FullEdges(d) :
       e.relation # "SUPERSEDES" /\ e.source_id \in S \cup {n} => e.target_id \in S}

\* The corpus does not have what its nodes add, does not come back to a node that
\* has grown, and does not go on from its RESULT node.
ASSUME BackendDocumentsAssumption ==
  \A b \in Backend : \A d \in Documents[b] :
    /\ d \in Document /\ Entry[d] \in NodeId /\ GrowsByParts(d)
    /\ \A n \in Growers(d) :
         Apart(d, Growth[n]) /\ \E S \in Ahead(d, n) : n \notin S
    /\ \A e \in FullEdges(d) : Terminal(e.source_id) => e.relation = "SUPERSEDES"

BackendInit == WalkInit(Backend, {"inmemory"})

Mut_BackendReadStagesNothing ==
  /\ pc = "visit" /\ ~LimitReached(walk) /\ Has(doc, walk.at)
  /\ visited' = Append(visited, walk.at)
  /\ walk' = Executed(walk)
  /\ pc' = "route"
  /\ UNCHANGED <<embodiment, doc, files, pending>>

\* read_node, execute, write_modification.
BackendRead ==
  /\ pc = "visit" /\ ~LimitReached(walk) /\ Has(doc, walk.at)
  /\ visited' = Append(visited, walk.at)
  /\ walk' = Executed(walk)
  /\ pending' = IF Grows(walk.at) THEN Growth[walk.at] ELSE Empty
  /\ pc' = IF Grows(walk.at) THEN "persist" ELSE "route"
  /\ UNCHANGED <<embodiment, doc, files>>

\* A node that is not there is a KeyError, a step too many a RuntimeError.
BackendRaises ==
  /\ pc = "visit"
  /\ LimitReached(walk) \/ ~Has(doc, walk.at)
  /\ walk' = Over(walk, "failed")
  /\ pc' = "raised"
  /\ UNCHANGED <<embodiment, doc, files, pending, visited>>

\* What a store that replaces a node it has already keeps of the staged nodes.
NewNodes == [pending EXCEPT !.nodes = Kept(@, ToSet(@) \ ToSet(doc.nodes))]

Committed(modification, written) ==
  /\ doc' = Merge(doc, modification)
  /\ files' = written
  /\ pending' = Empty
  /\ pc' = "route"
  /\ UNCHANGED <<embodiment, walk, visited>>

\* One file that is read, extended and written again.
PersistFile ==
  /\ pc = "persist" /\ embodiment = "file"
  /\ Committed(pending, <<Merge(doc, pending)>>)

\* A dictionary and a list.
PersistDict ==
  /\ pc = "persist" /\ embodiment = "inmemory"
  /\ Committed(NewNodes, <<>>)

\* INSERT OR REPLACE, INSERT, one commit.
PersistTables ==
  /\ pc = "persist" /\ embodiment = "relational"
  /\ Committed(NewNodes, <<Merge(doc, NewNodes)>>)

\* The keys in memory, and then the file they are flushed to.
PersistKeys ==
  /\ pc = "persist" /\ embodiment = "kv"
  /\ doc' = Merge(doc, NewNodes)
  /\ pc' = "flush"
  /\ UNCHANGED <<embodiment, files, walk, pending, visited>>

Mut_FlushForgotten ==
  /\ pc = "flush"
  /\ pending' = Empty
  /\ pc' = "route"
  /\ UNCHANGED <<embodiment, doc, files, walk, visited>>

Flush ==
  /\ pc = "flush"
  /\ files' = <<doc>>
  /\ pending' = Empty
  /\ pc' = "route"
  /\ UNCHANGED <<embodiment, doc, walk, visited>>

\* A file for each node, and one for the edges of each source.
PersistOneFile ==
  /\ pc = "persist" /\ embodiment = "multifile"
  /\ doc' = IF pending.nodes # <<>> /\ Has(doc, Head(pending.nodes)) THEN doc
            ELSE WriteFirst(doc, pending)
  /\ files' = <<doc'>>
  /\ pending' = Rest(pending)
  /\ pc' = IF pending' = Empty THEN "route" ELSE "persist"
  /\ UNCHANGED <<embodiment, walk, visited>>

\* SUPERSEDES edges are structural, not control flow.
BackendRoute ==
  /\ pc = "route"
  /\ LET out == Outgoing(doc, walk.at)
         edges == Kept(out, {e \in ToSet(out) : e.relation # "SUPERSEDES"})
         ways == FirstMatch(edges, walk.result)
     IN  walk' = IF ways = <<>> THEN Over(walk, "done")
                 ELSE MovedTo(walk, Head(ways).target_id)
  /\ pc' = IF walk'.stage = "done" THEN "ended" ELSE "visit"
  /\ UNCHANGED <<embodiment, doc, files, pending, visited>>

\* Killed while it persists: a commit that did not happen leaves nothing, a file
\* that was being written is torn.
Mut_BackendKilledMidCommit ==
  /\ pc \in {"persist", "flush"}
  /\ files' \in {files, IF files = <<>> THEN <<>> ELSE <<Torn>>}
  /\ walk' = Over(walk, "failed")
  /\ pc' = "raised"
  /\ UNCHANGED <<embodiment, doc, pending, visited>>

BackendKilled ==
  /\ pc \in {"persist", "flush"}
  /\ files' \in {files, IF embodiment \in {"inmemory", "relational"} THEN files ELSE <<Torn>>}
  /\ walk' = Over(walk, "failed")
  /\ pc' = "raised"
  /\ UNCHANGED <<embodiment, doc, pending, visited>>

BackendStep ==
  \/ BackendRead \/ BackendRaises
  \/ PersistFile \/ PersistDict \/ PersistTables \/ PersistKeys \/ Flush
  \/ PersistOneFile \/ BackendRoute

BackendNext == BackendStep \/ BackendKilled

BackendSpec == BackendInit /\ [][BackendNext]_walkVars
=============================================================================
