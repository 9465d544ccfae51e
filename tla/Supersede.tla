----------------------------- MODULE Supersede -----------------------------
(***************************************************************************)
(* The supersede operation of STUDY-140: a graph with a version counter    *)
(* and a provenance log (graph.py), writers that read the version, go      *)
(* away, and come back with a replacement (supersede.py).  The operation   *)
(* applies its changes, validates, and then commits or restores a          *)
(* snapshot; nothing else runs in between.                                 *)
(***************************************************************************)
EXTENDS Integers, Sequences

CONSTANTS
  NodeId,
  Type,            \* every type that callers put into a node
  Property,        \* property names
  AllowedTypes,    \* Schema.allowed_types
  Required,        \* Schema.required_properties, with an entry for every type
  Relation,
  SUPERSEDED_BY,   \* the lineage relation
  Writer,
  NoNode, NotRead, NoOperation,
  MaxVersion       \* bound on the version, hence on the committed operations

\* What callers propose, and what the graph may hold.
Proposal == [type : Type, properties : SUBSET Property, status : {"active"}]
Node == [type : AllowedTypes, properties : SUBSET Property, status : {"active", "stale"}]
Edge == [from_id : NodeId, to_id : NodeId, relation : Relation]

Record == [original_id : NodeId, replacement_id : NodeId, graph_version : 1..MaxVersion]

ASSUME SchemaAssumption ==
  AllowedTypes \subseteq Type /\ Required \in [Type -> SUBSET Property]
ASSUME LineageAssumption == SUPERSEDED_BY \in Relation
ASSUME NoNodeAssumption == NoNode \notin Node
ASSUME MaxVersionAssumption == MaxVersion \in Nat

VARIABLES
  nodes,       \* Graph.nodes, NoNode for a missing key
  edges,       \* Graph.edges
  version,     \* Graph.version
  provenance,  \* Graph.provenance
  pending,     \* the supersede between its apply and its validation
  reads        \* what each writer last read

graphVars == <<nodes, edges, version, provenance>>
vars == <<nodes, edges, version, provenance, pending, reads>>

Has(id) == nodes[id] # NoNode

LineageEdge(from, to) == [from_id |-> from, to_id |-> to, relation |-> SUPERSEDED_BY]
IsLineage(e) == e.relation = SUPERSEDED_BY

Missing(node) == Required[node.type] \ node.properties

State == [nodes : [NodeId -> Node \cup {NoNode}], edges : SUBSET Edge,
          version : 0..MaxVersion, provenance : Seq(Record)]

Operation == [snapshot : State, writer : Writer, original : NodeId, replacement : NodeId]

ASSUME NoOperationAssumption == NoOperation \notin Operation

Snapshot == [nodes |-> nodes, edges |-> edges, version |-> version, provenance |-> provenance]

Quiet == pending = NoOperation

-----------------------------------------------------------------------------
Init ==
  /\ nodes = [id \in NodeId |-> NoNode]
  /\ edges = {}
  /\ version = 0
  /\ provenance = <<>>
  /\ pending = NoOperation
  /\ reads = [w \in Writer |-> NotRead]

AddNode(id, node) ==
  /\ Quiet /\ version < MaxVersion
  /\ ~Has(id)
  /\ node.type \in AllowedTypes
  /\ nodes' = [nodes EXCEPT ![id] = node]
  /\ version' = version + 1
  /\ UNCHANGED <<edges, provenance, pending, reads>>

Mut_AddEdgeUnversioned(edge) ==
  /\ Quiet /\ version < MaxVersion
  /\ Has(edge.from_id) /\ Has(edge.to_id)
  /\ edges' = edges \cup {edge}
  /\ UNCHANGED <<nodes, version, provenance, pending, reads>>

AddEdge(edge) ==
  /\ Quiet /\ version < MaxVersion
  /\ Has(edge.from_id) /\ Has(edge.to_id)
  /\ edges' = edges \cup {edge}
  /\ version' = version + 1
  /\ UNCHANGED <<nodes, provenance, pending, reads>>

\* A writer looks at the graph, and keeps the version to pass it back later.
Read(w) ==
  /\ Quiet
  /\ reads' = [reads EXCEPT ![w] = [version |-> version, nodes |-> nodes, edges |-> edges]]
  /\ UNCHANGED <<graphVars, pending>>

Mut_RedirectLineageToo(original, id) ==
  {IF e.to_id = original THEN [e EXCEPT !.to_id = id] ELSE e : e \in edges}

\* Lineage edges keep their ends, all other incoming edges move on.
Redirected(original, id) ==
  {IF e.to_id = original /\ ~IsLineage(e) THEN [e EXCEPT !.to_id = id] ELSE e : e \in edges}

\* The conflict check: the writer passes the version it read, if it read one.
Unmoved(w) == reads[w] # NotRead => reads[w].version = version

Mut_ApplyToStale(w, original, id, replacement) ==
  /\ Quiet /\ version < MaxVersion
  /\ Unmoved(w)
  /\ Has(original)
  /\ ~Has(id)
  /\ replacement.type \in AllowedTypes
  /\ nodes' = [nodes EXCEPT ![id] = replacement, ![original].status = "stale"]
  /\ edges' = Redirected(original, id) \cup {LineageEdge(original, id)}
  /\ pending' = [snapshot |-> Snapshot, writer |-> w, original |-> original, replacement |-> id]
  /\ UNCHANGED <<version, provenance, reads>>

\* supersede, down to the lineage edge, with the checks that come before.
Apply(w, original, id, replacement) ==
  /\ Quiet /\ version < MaxVersion
  /\ Unmoved(w)
  /\ Has(original) /\ nodes[original].status = "active"
  /\ ~Has(id)
  /\ replacement.type \in AllowedTypes
  /\ nodes' = [nodes EXCEPT ![id] = replacement, ![original].status = "stale"]
  /\ edges' = Redirected(original, id) \cup {LineageEdge(original, id)}
  /\ pending' = [snapshot |-> Snapshot, writer |-> w, original |-> original, replacement |-> id]
  /\ UNCHANGED <<version, provenance, reads>>

Mut_CommitUnvalidated ==
  /\ ~Quiet
  /\ version' = version + 1
  /\ provenance' = Append(provenance,
       [original_id |-> pending.original, replacement_id |-> pending.replacement,
        graph_version |-> version + 1])
  /\ pending' = NoOperation
  /\ UNCHANGED <<nodes, edges, reads>>

Commit ==
  /\ ~Quiet
  /\ Missing(nodes[pending.replacement]) = {}
  /\ version' = version + 1
  /\ provenance' = Append(provenance,
       [original_id |-> pending.original, replacement_id |-> pending.replacement,
        graph_version |-> version + 1])
  /\ pending' = NoOperation
  /\ UNCHANGED <<nodes, edges, reads>>

Mut_RestoreNodesOnly ==
  /\ ~Quiet
  /\ Missing(nodes[pending.replacement]) # {}
  /\ nodes' = pending.snapshot.nodes
  /\ pending' = NoOperation
  /\ UNCHANGED <<edges, version, provenance, reads>>

Restore ==
  /\ ~Quiet
  /\ Missing(nodes[pending.replacement]) # {}
  /\ nodes' = pending.snapshot.nodes
  /\ edges' = pending.snapshot.edges
  /\ version' = pending.snapshot.version
  /\ provenance' = pending.snapshot.provenance
  /\ pending' = NoOperation
  /\ UNCHANGED reads

-----------------------------------------------------------------------------
\* Callers draw no lineage edges themselves.
OrdinaryEdge == {e \in Edge : ~IsLineage(e)}

Next ==
  \/ \E id \in NodeId, node \in Proposal : AddNode(id, node)
  \/ \E edge \in OrdinaryEdge : AddEdge(edge)
  \/ \E w \in Writer : Read(w)
  \/ \E w \in Writer, original, id \in NodeId, replacement \in Proposal :
       Apply(w, original, id, replacement)
  \/ Commit
  \/ Restore

Spec == Init /\ [][Next]_vars

-----------------------------------------------------------------------------
(* Properties.                                                             *)

\* The types of the variables; every node in the graph has a type that the schema
\* allows, however it came in (graph.py:85, supersede.py:89).
TypeOK ==
  /\ nodes \in [NodeId -> Node \cup {NoNode}]
  /\ edges \subseteq Edge
  /\ version \in 0..MaxVersion
  /\ provenance \in Seq(Record)
  /\ pending \in Operation \cup {NoOperation}
  /\ reads \in [Writer -> [version : 0..MaxVersion, nodes : [NodeId -> Node \cup {NoNode}],
                            edges : SUBSET Edge] \cup {NotRead}]

Lineage == {e \in edges : IsLineage(e)}

\* A node is stale exactly when it has a successor, it has one only, and nobody
\* succeeds two nodes: current() finds one holder of every role, and
\* the first edge that supersede_chain meets is the only one (graph.py:110-133).
LineageUnbranched ==
  /\ \A id \in NodeId : Has(id) =>
       (nodes[id].status = "stale" <=> \E e \in Lineage : e.from_id = id)
  /\ \A d, e \in Lineage : d.from_id = e.from_id \/ d.to_id = e.to_id => d = e

\* The provenance log tells the lineage, also halfway through an operation that
\* is undone later: the settled graph's lineage edges are those of the records.
\* Each record's replacement was new, so it cannot be the original of an earlier
\* record: chains follow the log and supersede_chain cannot meet a cycle
\* (graph.py:125).
LineageFollowsLog ==
  LET settled == IF Quiet THEN edges ELSE pending.snapshot.edges
  IN  /\ {e \in settled : IsLineage(e)} =
           {LineageEdge(provenance[i].original_id, provenance[i].replacement_id) :
              i \in DOMAIN provenance}
      /\ \A i, j \in DOMAIN provenance :
           /\ provenance[i].replacement_id = provenance[j].original_id => i < j
           /\ i < j => provenance[i].graph_version < provenance[j].graph_version

\* Every node that took over a role has what its type requires: validation comes
\* after the changes, and those of a replacement that fails it are undone
\* (supersede.py:107-115).
ReplacementsComplete ==
  Quiet => \A e \in Lineage : Missing(nodes[e.to_id]) = {}

\* "restores the pre-operation state on any failure" (supersede.py:16-17): between
\* operations the graph moves by whole operations, each of which moves the
\* version by one; a failed one leaves no trace.
Settled == IF Quiet THEN Snapshot ELSE pending.snapshot
WholeOperations ==
  [][Settled' # Settled => Settled'.version = Settled.version + 1]_vars

\* The version stands for the content: a supersede that passed the conflict check
\* acts on exactly the graph its writer read, whatever committed or failed in
\* the meantime (supersede.py:74-79).
ActsOnWhatWasRead ==
  ~Quiet /\ reads[pending.writer] # NotRead =>
    /\ reads[pending.writer].nodes = pending.snapshot.nodes
    /\ reads[pending.writer].edges = pending.snapshot.edges

=============================================================================
