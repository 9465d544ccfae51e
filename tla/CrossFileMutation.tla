------------------------- MODULE CrossFileMutation -------------------------
(***************************************************************************)
(* The cross-file operations of STUDY-207 (cross_file_mutation.py) on the  *)
(* Substrate (substrate.py).  A process works on the copies of the graph   *)
(* files it loaded: every check reads the copies, the new graphs are       *)
(* committed by a CrossFileTransaction, and only after a commit are the    *)
(* copies read again.  Several processes may work on one directory.        *)
(*                                                                         *)
(* The nodes that callers pass are active, as make_node makes them.        *)
(***************************************************************************)
EXTENDS CrossFileTransaction

CONSTANTS
  NodeId,
  Relation,
  SUPERSEDED_BY,     \* the lineage relation
  Local,             \* the file part of a target_id that names none
  InitialFiles,      \* the fixtures: file -> graph
  Pairs,             \* source and target files that callers pass
  FailAfter,         \* values of fail_after that callers pass
  MaxVersion         \* bound on a file's version, hence on the operations

ASSUME RelationAssumption == SUPERSEDED_BY \in Relation
ASSUME FailAfterAssumption == FailAfter \subseteq InjectPoint \cup {"none"}
ASSUME PairsAssumption == Pairs \subseteq File \X File
ASSUME LocalAssumption == Local \notin File
ASSUME VersionAssumption == MaxVersion \in Nat

VARIABLES
  graphs,       \* each process's Substrate.graphs
  reloaded,     \* whether it has reloaded since its last commit
  expected      \* the target file and the version its operation expects

mutationVars == <<txnVars, graphs, reloaded, expected>>

NoNode == "no node"

\* A node is its status.  A target_id is a node id, or <file>:<node id>.
Ref == (File \cup {Local}) \X NodeId
Link == [source_id : NodeId, target_id : Ref, relation : Relation]

\* What the constant Content of CrossFileTransaction stands for here.
Graph == [nodes : [NodeId -> {"active", "stale", NoNode}],
          edges : SUBSET Link,
          version : 1..MaxVersion]

Here(n) == <<Local, n>>
LinkTo(source, target, relation) ==
  [source_id |-> source, target_id |-> target, relation |-> relation]

Has(g, n) == g.nodes[n] # NoNode

\* Substrate.resolve of an edge's target.
Resolves(files, f, r) == Has(files[IF r[1] = Local THEN f ELSE r[1]], r[2])

Bump(g) == [g EXCEPT !.version = @ + 1]

-----------------------------------------------------------------------------
(* The new graphs an operation computes from the copies.                   *)

WithNode(g, n) == Bump([g EXCEPT !.nodes[n] = "active"])

Mut_WithLinkUnversioned(g, link) == [g EXCEPT !.edges = @ \cup {link}]

WithLink(g, link) == Bump([g EXCEPT !.edges = @ \cup {link}])

Redirect(edges, from, to) ==
  {IF e.target_id = from THEN [e EXCEPT !.target_id = to] ELSE e : e \in edges}

\* In the target file: the original is marked stale, its incoming edges are
\* redirected except those of an earlier lineage, and the lineage edge is added.
Superseded(g, original, replacement) ==
  LET lineage == {e \in g.edges : e.relation = SUPERSEDED_BY}
  IN  Bump([nodes |-> [g.nodes EXCEPT ![original] = "stale", ![replacement] = "active"],
            edges |-> lineage
                        \cup Redirect(g.edges \ lineage, Here(original), Here(replacement))
                        \cup {LinkTo(original, Here(replacement), SUPERSEDED_BY)},
            version |-> g.version])

\* In the source file: references to the original follow it.
Rereferenced(g, f, original, replacement) ==
  Bump([g EXCEPT !.edges = Redirect(@, <<f, original>>, <<f, replacement>>)])

-----------------------------------------------------------------------------
(* Operations.                                                             *)

\* Nothing under way: the last call returned or raised.
Idle(w) ==
  /\ w \notin crashed
  /\ \/ txn[w].staged = <<>>
     \/ txn[w].phase = "committed" /\ reloaded[w]
     \/ txn[w].phase \in Ended \ {"committed"}

Room(w, files) == \A f \in files : graphs[w][f].version < MaxVersion

\* A new transaction with its writes staged, about to be committed.
Begin(w, point, writes, expects) ==
  /\ txn' = [txn EXCEPT ![w] =
       [NewTransaction(point) EXCEPT
          !.phase = "logging",
          !.staged = [i \in DOMAIN writes |->
            [path |-> writes[i][1], graph |-> writes[i][2],
             original |-> disk[writes[i][1]]]]]]
  /\ reloaded' = [reloaded EXCEPT ![w] = FALSE]
  /\ expected' = [expected EXCEPT ![w] = expects]
  /\ UNCHANGED <<disk, temp, wal, crashed, interrupted, graphs>>

MutateCrossFile(w, point, source, target, n, new, relation) ==
  LET g == graphs[w]
  IN  /\ Idle(w) /\ Room(w, {source, target})
      /\ Has(g[source], n)
      /\ ~Has(g[target], new)
      /\ Begin(w, point,
               << <<source, WithLink(g[source], LinkTo(n, <<target, new>>, relation))>>,
                  <<target, WithNode(g[target], new)>> >>, <<>>)

Mut_AddCrossFileEdgeUnresolved(w, point, source, n, r, relation) ==
  LET g == graphs[w]
  IN  /\ Idle(w) /\ Room(w, {source})
      /\ Has(g[source], n)
      /\ Begin(w, point, << <<source, WithLink(g[source], LinkTo(n, r, relation))>> >>, <<>>)

AddCrossFileEdge(w, point, source, n, r, relation) ==
  LET g == graphs[w]
  IN  /\ Idle(w) /\ Room(w, {source})
      /\ Has(g[source], n)
      /\ Resolves(g, source, r)
      /\ Begin(w, point, << <<source, WithLink(g[source], LinkTo(n, r, relation))>> >>, <<>>)

Mut_SupersedeStaleAgain(w, point, source, target, original, replacement, version) ==
  LET g == graphs[w]
  IN  /\ Idle(w) /\ Room(w, {source, target})
      /\ version # 0 => version = g[target].version
      /\ Has(g[target], original)
      /\ ~Has(g[target], replacement)
      /\ Begin(w, point,
               << <<source, Rereferenced(g[source], target, original, replacement)>>,
                  <<target, Superseded(g[target], original, replacement)>> >>,
               IF version = 0 THEN <<>> ELSE <<target, version>>)

\* expected_version, 0 if none is passed, was read by the caller at any earlier
\* time; it is compared with this process's copy of the target file.
SupersedeCrossFile(w, point, source, target, original, replacement, version) ==
  LET g == graphs[w]
  IN  /\ Idle(w) /\ Room(w, {source, target})
      /\ version # 0 => version = g[target].version
      /\ g[target].nodes[original] = "active"
      /\ ~Has(g[target], replacement)
      /\ Begin(w, point,
               << <<source, Rereferenced(g[source], target, original, replacement)>>,
                  <<target, Superseded(g[target], original, replacement)>> >>,
               IF version = 0 THEN <<>> ELSE <<target, version>>)

Proceed(w) == CommitStep(w) /\ UNCHANGED <<graphs, reloaded, expected>>

Mut_ReloadForgotten(w) ==
  /\ Running(w, "committed") /\ ~reloaded[w]
  /\ reloaded' = [reloaded EXCEPT ![w] = TRUE]
  /\ UNCHANGED <<txnVars, graphs, expected>>

Reload(w) ==
  /\ Running(w, "committed") /\ ~reloaded[w]
  /\ graphs' = [graphs EXCEPT ![w] = disk]
  /\ reloaded' = [reloaded EXCEPT ![w] = TRUE]
  /\ UNCHANGED <<txnVars, expected>>

-----------------------------------------------------------------------------
MutationInit ==
  /\ disk = InitialFiles
  /\ temp = [f \in File |-> Absent]
  /\ wal = Absent
  /\ txn = [w \in Writer |-> NewTransaction("none")]
  /\ crashed = {}
  /\ interrupted = {}
  /\ graphs = [w \in Writer |-> InitialFiles]
  /\ reloaded = [w \in Writer |-> FALSE]
  /\ expected = [w \in Writer |-> <<>>]

Operations(w) ==
  \E point \in FailAfter, pair \in Pairs, n \in NodeId :
    \/ \E new \in NodeId, relation \in Relation :
         MutateCrossFile(w, point, pair[1], pair[2], n, new, relation)
    \/ \E id \in NodeId, relation \in Relation :
         AddCrossFileEdge(w, point, pair[1], n, <<pair[2], id>>, relation)
    \/ \E replacement \in NodeId, version \in 0..MaxVersion :
         SupersedeCrossFile(w, point, pair[1], pair[2], n, replacement, version)

MutationNext == \E w \in Writer : Operations(w) \/ Proceed(w) \/ Reload(w)

MutationSpec == MutationInit /\ [][MutationNext]_mutationVars

-----------------------------------------------------------------------------
(* Properties.  Settled is the directory as it is between transactions.    *)

\* Every edge's source and target exist, in whatever file the target is.
AllResolve(files) ==
  \A f \in File : \A e \in files[f].edges :
    Has(files[f], e.source_id) /\ Resolves(files, f, e.target_id)

\* The lineage of a file: the edges supersede_cross_file writes, whose target_id
\* names no file.  The SUPERSEDED_BY edges that callers draw with the other two
\* operations carry a reference, to this file or another; they are followed to
\* the replacement like any reference, and nothing keeps them from branching.
LineageOf(g) == {e \in g.edges : e.relation = SUPERSEDED_BY /\ e.target_id[1] = Local}

Lineage(g, n) == {e \in LineageOf(g) : e.source_id = n}

\* A node is stale exactly when it has a successor, then it has one only, nobody
\* is the successor of two, and inside the file nothing but lineage leads to a
\* stale node.
LineageSound(g) ==
  /\ \A n \in NodeId :
       /\ g.nodes[n] = "stale" <=> Lineage(g, n) # {}
       /\ \A d, e \in Lineage(g, n) : d = e
  /\ \A d, e \in LineageOf(g) : d.target_id = e.target_id => d = e
  /\ \A e \in g.edges : \A n \in NodeId :
       e.target_id = Here(n) /\ g.nodes[n] = "stale" => e \in LineageOf(g)

\* The fixtures' references resolve and their lineages are sound.
ASSUME FixturesAssumption ==
  /\ InitialFiles \in [File -> Graph]
  /\ AllResolve(InitialFiles)
  /\ \A f \in File : LineageSound(InitialFiles[f])

\* For one process, whatever sequence of operations and injected failures ran:
\* no cross-file reference dangles, although supersede_cross_file looks for
\* references in one source file only (cross_file_mutation.py:210-217).
ReferencesResolve == AllResolve(Settled)

\* For one process: the history of every superseded node is one unbranched
\* chain, whatever SUPERSEDED_BY references callers have drawn beside it
\* (cross_file_mutation.py:61-69, 123-130, 185-207).
LineageUnbranched == \A f \in File : LineageSound(Settled[f])

\* For one process the version identifies the content: a file that a transaction
\* changes moves on by exactly one version and keeps its nodes.  The check of
\* expected_version is worth nothing if a change could leave the version as it
\* was (cross_file_mutation.py:57-58, 176-183).
VersionCountsChanges ==
  [][\A f \in File : Settled'[f] # Settled[f] =>
       /\ Settled'[f].version = Settled[f].version + 1
       /\ \A n \in NodeId : Has(Settled[f], n) => Has(Settled'[f], n)]_mutationVars

\* "if the target file has advanced since, ConcurrentConflict is raised and
\* nothing is applied" (cross_file_mutation.py:172-174): when a supersede starts
\* to replace files, the target file is still at the version its caller expected.
VersionGuards ==
  \A w \in Writer :
    txn[w].phase = "renaming" /\ txn[w].next = 1 /\ expected[w] # <<>> =>
      disk[expected[w][1]].version = expected[w][2]
=============================================================================
