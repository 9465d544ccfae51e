------------------------------- MODULE Agents -------------------------------
(***************************************************************************)
(* Type-scoped agents over one shared graph: class Agent of                *)
(* src/sgs/agent.py.  Every agent holds a reference to the same SGS and a  *)
(* set of node types it may touch; it can add nodes and edges and read,    *)
(* and everything it writes is stamped with its id.  Agents have no remove *)
(* or update: whoever holds the graph itself (an application, a transform) *)
(* does that, under a creator name that is not an agent's.                 *)
(***************************************************************************)
EXTENDS SGSGraph

CONSTANT
  Allowed     \* agent_id -> allowed_types

AgentId == DOMAIN Allowed

\* Names stamped by code that writes to the graph without an Agent.
Holder == Creator \ AgentId

ASSUME AllowedAssumption ==
  /\ AgentId \subseteq Creator
  /\ Allowed \in [AgentId -> SUBSET NodeType]

NewNode(type, data, creator) ==
  [type |-> type, data |-> data, created_by |-> creator]

NewEdge(source, relation, target, creator) ==
  [source_id |-> source, target_id |-> target,
   relation |-> relation, created_by |-> creator]

-----------------------------------------------------------------------------
(* What an agent reads.                                                    *)

\* visible_nodes, and the ids for which get_node does not return None.
VisibleNodes(a) == {n \in NodeId : Exists(n) /\ nodes[n].type \in Allowed[a]}

\* get_edges: at least one endpoint is visible.
VisibleEdges(a) ==
  {e \in edges : \E n \in VisibleNodes(a) : Incident(e, n)}

-----------------------------------------------------------------------------
(* What an agent writes.                                                   *)

AgentAddNode(a, n, type, data) ==
  /\ type \in Allowed[a]
  /\ AddNode(n, NewNode(type, data, a))

Mut_AgentAddEdgeOneEndpoint(a, source, relation, target) ==
  /\ {source, target} \cap VisibleNodes(a) # {}
  /\ AddEdge(NewEdge(source, relation, target, a))

Mut_AgentAddEdgeUnscoped(a, source, relation, target) ==
  AddEdge(NewEdge(source, relation, target, a))

\* Both endpoints must exist and be of an allowed type; reading an edge needs
\* only one.
AgentAddEdge(a, source, relation, target) ==
  /\ source \in VisibleNodes(a)
  /\ target \in VisibleNodes(a)
  /\ AddEdge(NewEdge(source, relation, target, a))

-----------------------------------------------------------------------------
AgentWrites ==
  \E a \in AgentId :
    \/ \E n \in NodeId, type \in NodeType, data \in SUBSET Key :
         AgentAddNode(a, n, type, data)
    \/ \E source \in NodeId, relation \in Relation, target \in NodeId :
         AgentAddEdge(a, source, relation, target)

HolderWrites ==
  \/ \E h \in Holder, n \in NodeId, type \in NodeType, data \in SUBSET Key :
       AddNode(n, NewNode(type, data, h))
  \/ \E h \in Holder, s \in NodeId, r \in Relation, t \in NodeId :
       AddEdge(NewEdge(s, r, t, h))
  \/ \E n \in NodeId : RemoveNode(n)
  \/ \E key \in NodeId \X Relation \X NodeId : RemoveEdge(key)
  \/ \E n \in NodeId, keys \in SUBSET Key : UpdateNode(n, keys)

AgentsNext == AgentWrites \/ HolderWrites

AgentsSpec == GraphInit /\ [][AgentsNext]_graphVars

-----------------------------------------------------------------------------
(* Properties.                                                             *)

ScopedNodes ==
  \A n \in NodeId : Exists(n) /\ nodes[n].created_by \in AgentId =>
    nodes[n].type \in Allowed[nodes[n].created_by]

ScopedEdges ==
  \A e \in edges : e.created_by \in AgentId =>
    {e.source_id, e.target_id} \subseteq VisibleNodes(e.created_by)

\* Whatever carries an agent's stamp lies inside that agent's types, now and not
\* only when it was written: Agent checks types once, at the call
\* (agent.py:36, 70-80), but ids can be removed and added again with another
\* type while the edge's author is not asked.  It rests on remove_node taking
\* the edges with it and on update_node keeping the type.
AgentScope == ScopedNodes /\ ScopedEdges

\* An agent can always read back the edges it wrote: get_edges filters by the
\* types of the endpoints at reading time, not by author (agent.py:87-95).
OwnEdgesReadable ==
  \A a \in AgentId : {e \in edges : e.created_by = a} \subseteq VisibleEdges(a)
=============================================================================
