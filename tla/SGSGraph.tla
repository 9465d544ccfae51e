------------------------------ MODULE SGSGraph ------------------------------
(***************************************************************************)
(* The Superseding Graph Substrate: class SGS of src/sgs/graph.py with the *)
(* Node and Edge models of src/sgs/models.  A graph is a partial map from  *)
(* node ids to nodes (NoNode where the dictionary has no key) and a set of *)
(* edges.  The list order of _edges is abstracted: no operation modelled   *)
(* here reads it.  An operation that raises ValueError or returns None     *)
(* leaves the graph alone, so it is an action that is not enabled.         *)
(***************************************************************************)
EXTENDS Naturals

CONSTANTS
  NodeId,     \* node identifiers
  NodeType,   \* members of the enum NodeType
  Relation,   \* edge relations (free strings in the code)
  Creator,    \* values of metadata.created_by
  Key,        \* keys a node's data dictionary may hold
  NoNode      \* what get_node returns for an unknown id (Python's None)

\* A node: its type, the keys of its data and who is stamped as its creator.
Node == [type : NodeType, data : SUBSET Key, created_by : Creator]

\* An edge; (source, target, relation) is its id "source->relation->target".
Edge == [source_id : NodeId, target_id : NodeId,
         relation : Relation, created_by : Creator]

ASSUME NoNodeAssumption == NoNode \notin Node

VARIABLES nodes, edges

graphVars == <<nodes, edges>>

Exists(n) == nodes[n] # NoNode

\* edge.id: the triple that add_edge and remove_edge compare.
EdgeKey(e) == <<e.source_id, e.relation, e.target_id>>

Incident(e, n) == e.source_id = n \/ e.target_id = n

GraphInit == nodes = [n \in NodeId |-> NoNode] /\ edges = {}

-----------------------------------------------------------------------------
(* Operations.  Mut_* are faulty variants used only to test properties.    *)

Mut_AddNodeOverwrites(n, node) ==
  /\ nodes' = [nodes EXCEPT ![n] = node]
  /\ UNCHANGED edges

AddNode(n, node) ==
  /\ ~Exists(n)
  /\ nodes' = [nodes EXCEPT ![n] = node]
  /\ UNCHANGED edges

Mut_RemoveNodeOutgoingOnly(n) ==
  /\ Exists(n)
  /\ nodes' = [nodes EXCEPT ![n] = NoNode]
  /\ edges' = {e \in edges : e.source_id # n}

\* Removing a node removes every edge that touches it, in the same call.
RemoveNode(n) ==
  /\ Exists(n)
  /\ nodes' = [nodes EXCEPT ![n] = NoNode]
  /\ edges' = {e \in edges : ~Incident(e, n)}

\* The checks of add_edge.
EdgeAccepted(e) ==
  /\ Exists(e.source_id)
  /\ Exists(e.target_id)
  /\ \A f \in edges : EdgeKey(f) # EdgeKey(e)

AddEdge(e) ==
  /\ EdgeAccepted(e)
  /\ edges' = edges \cup {e}
  /\ UNCHANGED nodes

\* remove_edge pops the first edge with the given endpoints and relation.
RemoveEdge(key) ==
  /\ \E e \in edges : EdgeKey(e) = key /\ edges' = edges \ {e}
  /\ UNCHANGED nodes

\* update_node builds a new Node with the old type and metadata and the
\* merged data, and replaces the dictionary entry.
UpdateNode(n, keys) ==
  /\ Exists(n)
  /\ nodes' = [nodes EXCEPT ![n].data = @ \cup keys]
  /\ UNCHANGED edges

-----------------------------------------------------------------------------
(* The graph driven by an arbitrary caller of its public methods.          *)

GraphNext ==
  \/ \E n \in NodeId, node \in Node : AddNode(n, node)
  \/ \E n \in NodeId : RemoveNode(n)
  \/ \E e \in Edge : AddEdge(e)
  \/ \E key \in NodeId \X Relation \X NodeId : RemoveEdge(key)
  \/ \E n \in NodeId, keys \in SUBSET Key : UpdateNode(n, keys)

GraphSpec == GraphInit /\ [][GraphNext]_graphVars

-----------------------------------------------------------------------------
(* Properties.                                                             *)

\* Type invariant of the two collections of SGS.
GraphTypeOK ==
  /\ nodes \in [NodeId -> Node \cup {NoNode}]
  /\ edges \subseteq Edge

NoDanglingEdge == \A e \in edges : Exists(e.source_id) /\ Exists(e.target_id)

EdgeKeysUnique == \A e, f \in edges : EdgeKey(e) = EdgeKey(f) => e = f

\* After any sequence of calls every edge joins two nodes that exist and no two
\* edges share source, relation and target: what add_edge checks once must
\* survive later remove_node, re-add and update_node calls (graph.py:92-145).
\* from_dict relies on it: it re-adds every saved node and edge and raises
\* ValueError on a dangling or repeated edge, so a graph that broke this could
\* be saved but never loaded again (graph.py:405-420).
GraphIntegrity == NoDanglingEdge /\ EdgeKeysUnique

\* While an id stays in the graph its node keeps its type and creator and only
\* gains data keys: update_node is the only way to change a node in place
\* (graph.py:330-359), add_node refuses an id in use (graph.py:87-88), and a
\* different node under the same id needs a remove_node first.
NodeIdentityStable ==
  [][\A n \in NodeId :
       Exists(n) /\ Exists(n)' =>
         /\ nodes'[n].type = nodes[n].type
         /\ nodes'[n].created_by = nodes[n].created_by
         /\ nodes[n].data \subseteq nodes'[n].data]_graphVars
=============================================================================
