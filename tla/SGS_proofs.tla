---------------------------- MODULE SGS_proofs -----------------------------
(* Proofs about src/sgs.  The graph, the agents that share it and the      *)
(* audit around it, each from the one before.  The bare graph: its type    *)
(* invariant, its integrity and the stability of its nodes, for every set  *)
(* of ids, types and creators.  Agents: every assignment of types to       *)
(* agents.  The audit, for every hash function: the wrapper changes        *)
(* nothing in what agents can do, its chain always verifies, and its       *)
(* ledger determines the graph.  Kahn's algorithm as the executor runs it: *)
(* the order is one of dependencies first, and a cycle is reported exactly *)
(* when there is one, for every finite graph with any parallel edges.  A   *)
(* run over a graph that it extends: the same holds of the order it fixed  *)
(* at the start, the trace follows it, every value arrives, and the graph  *)
(* stays sound whatever a transform returns.                               *)
EXTENDS Provenance, Executor, FiniteSetTheorems, SequenceTheorems, TLAPS

-----------------------------------------------------------------------------
(* The bare graph.                                                         *)

\* A node that is in the graph is a well-formed node (get_node never returns
\* anything but a Node or None).
LEMMA ExistingIsNode ==
  ASSUME GraphTypeOK, NEW n \in NodeId, Exists(n)
  PROVE  nodes[n] \in Node
BY DEF GraphTypeOK, Exists

\* Each of the five operations preserves the types of both collections.
LEMMA OperationsTyped ==
  ASSUME GraphTypeOK, GraphNext
  PROVE  GraphTypeOK'
<1>1. ASSUME NEW n \in NodeId, NEW node \in Node, AddNode(n, node)
      PROVE  GraphTypeOK'
  BY <1>1 DEF GraphTypeOK, AddNode
<1>2. ASSUME NEW n \in NodeId, RemoveNode(n)
      PROVE  GraphTypeOK'
  BY <1>2 DEF GraphTypeOK, RemoveNode
<1>3. ASSUME NEW e \in Edge, AddEdge(e)
      PROVE  GraphTypeOK'
  BY <1>3 DEF GraphTypeOK, AddEdge
<1>4. ASSUME NEW key \in NodeId \X Relation \X NodeId, RemoveEdge(key)
      PROVE  GraphTypeOK'
  BY <1>4 DEF GraphTypeOK, RemoveEdge
<1>5. ASSUME NEW n \in NodeId, NEW keys \in SUBSET Key, UpdateNode(n, keys)
      PROVE  GraphTypeOK'
  <2>1. nodes[n] \in Node
    BY <1>5, ExistingIsNode DEF UpdateNode
  <2>2. [nodes[n] EXCEPT !.data = @ \cup keys] \in Node
    BY <2>1 DEF Node
  <2> QED BY <1>5, <2>2 DEF GraphTypeOK, UpdateNode
<1> QED BY <1>1, <1>2, <1>3, <1>4, <1>5 DEF GraphNext

\* nodes maps every id to a Node or to NoNode and edges holds Edge records only,
\* whatever is called in whatever order (graph.py:41-42).
THEOREM GraphTyped == GraphSpec => []GraphTypeOK
<1>1. GraphInit => GraphTypeOK
  BY DEF GraphInit, GraphTypeOK
<1>2. GraphTypeOK /\ [GraphNext]_graphVars => GraphTypeOK'
  BY OperationsTyped DEF graphVars, GraphTypeOK
<1> QED BY <1>1, <1>2, PTL DEF GraphSpec

-----------------------------------------------------------------------------
\* Integrity is inductive together with the type invariant: add_edge checks
\* both halves, remove_node removes what it would leave dangling.
LEMMA IntegrityStep ==
  ASSUME GraphTypeOK, GraphIntegrity, GraphNext
  PROVE  GraphIntegrity'
<1> USE DEF GraphIntegrity, NoDanglingEdge, EdgeKeysUnique, Exists
<1>1. ASSUME NEW n \in NodeId, NEW node \in Node, AddNode(n, node)
      PROVE  GraphIntegrity'
  <2>1. node # NoNode
    BY NoNodeAssumption
  <2>2. \A m \in NodeId : Exists(m) => Exists(m)'
    BY <1>1, <2>1 DEF AddNode, GraphTypeOK
  <2> QED BY <1>1, <2>2 DEF AddNode, GraphTypeOK, Edge, EdgeKey
<1>2. ASSUME NEW n \in NodeId, RemoveNode(n)
      PROVE  GraphIntegrity'
  BY <1>2 DEF RemoveNode, GraphTypeOK, Edge, EdgeKey, Incident
<1>3. ASSUME NEW e \in Edge, AddEdge(e)
      PROVE  GraphIntegrity'
  BY <1>3 DEF AddEdge, EdgeAccepted, GraphTypeOK, EdgeKey
<1>4. ASSUME NEW key \in NodeId \X Relation \X NodeId, RemoveEdge(key)
      PROVE  GraphIntegrity'
  BY <1>4 DEF RemoveEdge, GraphTypeOK, EdgeKey
<1>5. ASSUME NEW n \in NodeId, NEW keys \in SUBSET Key, UpdateNode(n, keys)
      PROVE  GraphIntegrity'
  <2>1. nodes[n] \in Node
    BY <1>5, ExistingIsNode DEF UpdateNode
  <2>2. nodes'[n] \in Node
    BY <1>5, <2>1 DEF UpdateNode, GraphTypeOK, Node
  <2>3. \A m \in NodeId : Exists(m) => Exists(m)'
    BY <1>5, <2>2, NoNodeAssumption DEF UpdateNode, GraphTypeOK
  <2> QED BY <1>5, <2>3 DEF UpdateNode, GraphTypeOK, Edge, EdgeKey
<1> QED BY <1>1, <1>2, <1>3, <1>4, <1>5 DEF GraphNext

\* In every reachable graph edges join existing nodes and have distinct ids.
THEOREM GraphIsIntact == GraphSpec => []GraphIntegrity
<1> DEFINE Inv == GraphTypeOK /\ GraphIntegrity
<1>1. GraphInit => Inv
  BY DEF GraphInit, GraphTypeOK, GraphIntegrity, NoDanglingEdge, EdgeKeysUnique
<1>2. Inv /\ [GraphNext]_graphVars => Inv'
  <2>1. CASE GraphNext
    BY <2>1, OperationsTyped, IntegrityStep
  <2>2. CASE UNCHANGED graphVars
    BY <2>2 DEF graphVars, GraphTypeOK, GraphIntegrity, NoDanglingEdge,
                EdgeKeysUnique, Exists
  <2> QED BY <2>1, <2>2
<1> QED BY <1>1, <1>2, PTL DEF GraphSpec

-----------------------------------------------------------------------------
\* No call changes the type or creator of a node that stays in the graph, or
\* drops a key of its data (graph.py:330-359).
THEOREM NodesKeepIdentity == GraphSpec => NodeIdentityStable
<1> DEFINE Stable(n) ==
      Exists(n) /\ Exists(n)' =>
        /\ nodes'[n].type = nodes[n].type
        /\ nodes'[n].created_by = nodes[n].created_by
        /\ nodes[n].data \subseteq nodes'[n].data
<1>1. ASSUME GraphTypeOK, GraphNext, NEW m \in NodeId
      PROVE  Stable(m)
  <2> USE <1>1 DEF GraphTypeOK, Exists
  <2>1. ASSUME NEW n \in NodeId, NEW node \in Node, AddNode(n, node)
        PROVE  Stable(m)
    BY <2>1 DEF AddNode
  <2>2. ASSUME NEW n \in NodeId, RemoveNode(n)
        PROVE  Stable(m)
    BY <2>2 DEF RemoveNode
  <2>3. ASSUME UNCHANGED nodes
        PROVE  Stable(m)
    BY <2>3
  <2>4. ASSUME NEW n \in NodeId, NEW keys \in SUBSET Key, UpdateNode(n, keys)
        PROVE  Stable(m)
    <3>1. nodes[n] \in Node
      BY <2>4, ExistingIsNode DEF UpdateNode
    <3> QED BY <2>4, <3>1 DEF UpdateNode, Node
  <2> HIDE DEF Stable
  <2> QED BY <2>1, <2>2, <2>3, <2>4 DEF GraphNext, AddEdge, RemoveEdge
<1>2. GraphTypeOK /\ [GraphNext]_graphVars
        => [\A n \in NodeId : Stable(n)]_graphVars
  <2> HIDE DEF Stable
  <2> QED BY <1>1
<1> QED BY <1>2, GraphTyped, PTL DEF GraphSpec, NodeIdentityStable

-----------------------------------------------------------------------------
(* Scoped agents over the shared graph.                                    *)

\* Every write by an agent or a holder is one of the graph's own operations:
\* the Agent proxy adds checks and a stamp, never another effect
\* (agent.py:34-42, 68-84).
LEMMA WritesAreOperations == AgentsNext => GraphNext
<1> USE AllowedAssumption
<1>1. ASSUME NEW c \in Creator, NEW n \in NodeId, NEW type \in NodeType,
             NEW data \in SUBSET Key, AddNode(n, NewNode(type, data, c))
      PROVE  GraphNext
  <2>1. NewNode(type, data, c) \in Node
    BY DEF NewNode, Node
  <2> QED BY <1>1, <2>1 DEF GraphNext
<1>2. ASSUME NEW c \in Creator, NEW s \in NodeId, NEW r \in Relation,
             NEW t \in NodeId, AddEdge(NewEdge(s, r, t, c))
      PROVE  GraphNext
  <2>1. NewEdge(s, r, t, c) \in Edge
    BY DEF NewEdge, Edge
  <2> QED BY <1>2, <2>1 DEF GraphNext
<1>3. AgentWrites => GraphNext
  BY <1>1, <1>2 DEF AgentWrites, AgentAddNode, AgentAddEdge
<1>4. HolderWrites => GraphNext
  BY <1>1, <1>2 DEF HolderWrites, Holder, GraphNext
<1> QED BY <1>3, <1>4 DEF AgentsNext

\* Agents on a shared graph implement the graph specification, so everything
\* proved of the graph holds while any number of agents write to it.
THEOREM AgentsImplementGraph == AgentsSpec => GraphSpec
<1>1. [AgentsNext]_graphVars => [GraphNext]_graphVars
  BY WritesAreOperations
<1> QED BY <1>1, PTL DEF AgentsSpec, GraphSpec

-----------------------------------------------------------------------------
\* A write that keeps every existing node's type and every node's stamp, and
\* adds no edge, keeps the scope; used for the calls that only take away.
LEMMA ScopeShrinks ==
  ASSUME GraphTypeOK, GraphTypeOK', NoDanglingEdge', AgentScope,
         edges' \subseteq edges,
         \A n \in NodeId : Exists(n)' =>
           /\ Exists(n)
           /\ nodes'[n].type = nodes[n].type
           /\ nodes'[n].created_by = nodes[n].created_by
  PROVE  AgentScope'
<1>1. ScopedNodes'
  BY DEF AgentScope, ScopedNodes
<1>2. ScopedEdges'
  <2> SUFFICES ASSUME NEW e \in edges', e.created_by \in AgentId,
                      NEW n \in {e.source_id, e.target_id}
               PROVE  n \in VisibleNodes(e.created_by)'
    BY DEF ScopedEdges
  <2>1. e \in edges /\ n \in NodeId /\ Exists(n)'
    BY DEF NoDanglingEdge, GraphTypeOK, Edge
  <2>2. n \in VisibleNodes(e.created_by)
    BY <2>1 DEF AgentScope, ScopedEdges
  <2> QED BY <2>1, <2>2 DEF VisibleNodes
<1> QED BY <1>1, <1>2 DEF AgentScope

\* Adding a node under a free id, by an agent within its types or by a holder.
LEMMA ScopeAddNode ==
  ASSUME GraphTypeOK, AgentScope, NEW n \in NodeId, NEW node \in Node,
         AddNode(n, node),
         node.created_by \in AgentId => node.type \in Allowed[node.created_by]
  PROVE  AgentScope'
<1>1. /\ nodes'[n] = node
      /\ \A m \in NodeId \ {n} : nodes'[m] = nodes[m]
      /\ ~Exists(n)
      /\ edges' = edges
  BY DEF AddNode, GraphTypeOK
<1>2. ScopedNodes'
  BY <1>1 DEF AgentScope, ScopedNodes, Exists
<1>3. \A a \in AgentId : VisibleNodes(a) \subseteq VisibleNodes(a)'
  BY <1>1 DEF VisibleNodes, Exists
<1>4. ScopedEdges'
  BY <1>1, <1>3 DEF AgentScope, ScopedEdges
<1> QED BY <1>2, <1>4 DEF AgentScope

\* Adding an edge whose author, if an agent, sees both endpoints.
LEMMA ScopeAddEdge ==
  ASSUME AgentScope, NEW e \in Edge, AddEdge(e),
         e.created_by \in AgentId =>
           {e.source_id, e.target_id} \subseteq VisibleNodes(e.created_by)
  PROVE  AgentScope'
<1>1. nodes' = nodes /\ edges' = edges \cup {e}
  BY DEF AddEdge
<1>2. \A a : VisibleNodes(a)' = VisibleNodes(a)
  BY <1>1 DEF VisibleNodes, Exists
<1>3. ScopedNodes'
  BY <1>1 DEF AgentScope, ScopedNodes, Exists
<1>4. ScopedEdges'
  BY <1>1, <1>2 DEF AgentScope, ScopedEdges
<1> QED BY <1>3, <1>4 DEF AgentScope

LEMMA ScopeStep ==
  ASSUME GraphTypeOK, GraphIntegrity, AgentScope, AgentsNext
  PROVE  AgentScope'
<1> USE AllowedAssumption
<1>0. GraphTypeOK' /\ NoDanglingEdge'
  BY WritesAreOperations, OperationsTyped, IntegrityStep DEF GraphIntegrity
<1>1. ASSUME NEW a \in AgentId, NEW n \in NodeId, NEW type \in NodeType,
             NEW data \in SUBSET Key, AgentAddNode(a, n, type, data)
      PROVE  AgentScope'
  <2> DEFINE node == NewNode(type, data, a)
  <2>1. node \in Node /\ node.created_by = a /\ node.type = type
    BY DEF NewNode, Node
  <2>2. AddNode(n, node) /\ type \in Allowed[a]
    BY <1>1 DEF AgentAddNode
  <2> HIDE DEF node
  <2> QED BY <2>1, <2>2, ScopeAddNode
<1>2. ASSUME NEW a \in AgentId, NEW s \in NodeId, NEW r \in Relation,
             NEW t \in NodeId, AgentAddEdge(a, s, r, t)
      PROVE  AgentScope'
  <2> DEFINE e == NewEdge(s, r, t, a)
  <2>1. e \in Edge /\ e.created_by = a /\ e.source_id = s /\ e.target_id = t
    BY DEF NewEdge, Edge
  <2>2. AddEdge(e) /\ {s, t} \subseteq VisibleNodes(a)
    BY <1>2 DEF AgentAddEdge
  <2> HIDE DEF e
  <2> QED BY <2>1, <2>2, ScopeAddEdge
<1>3. ASSUME NEW h \in Holder, NEW n \in NodeId, NEW type \in NodeType,
             NEW data \in SUBSET Key, AddNode(n, NewNode(type, data, h))
      PROVE  AgentScope'
  <2> DEFINE node == NewNode(type, data, h)
  <2>1. node \in Node /\ node.created_by \notin AgentId
    BY DEF NewNode, Node, Holder
  <2>2. AddNode(n, node)
    BY <1>3
  <2> HIDE DEF node
  <2> QED BY <2>1, <2>2, ScopeAddNode
<1>4. ASSUME NEW h \in Holder, NEW s \in NodeId, NEW r \in Relation,
             NEW t \in NodeId, AddEdge(NewEdge(s, r, t, h))
      PROVE  AgentScope'
  <2> DEFINE e == NewEdge(s, r, t, h)
  <2>1. e \in Edge /\ e.created_by \notin AgentId
    BY DEF NewEdge, Edge, Holder
  <2>2. AddEdge(e)
    BY <1>4
  <2> HIDE DEF e
  <2> QED BY <2>1, <2>2, ScopeAddEdge
<1>5. ASSUME NEW n \in NodeId, RemoveNode(n)
      PROVE  AgentScope'
  <2>1. edges' \subseteq edges /\ \A m \in NodeId : Exists(m)' => nodes'[m] = nodes[m]
    BY <1>5 DEF RemoveNode, GraphTypeOK, Exists
  <2> QED BY <1>0, <2>1, ScopeShrinks DEF Exists
<1>6. ASSUME NEW key \in NodeId \X Relation \X NodeId, RemoveEdge(key)
      PROVE  AgentScope'
  <2>1. edges' \subseteq edges /\ nodes' = nodes
    BY <1>6 DEF RemoveEdge
  <2> QED BY <1>0, <2>1, ScopeShrinks DEF Exists
<1>7. ASSUME NEW n \in NodeId, NEW keys \in SUBSET Key, UpdateNode(n, keys)
      PROVE  AgentScope'
  <2>1. Exists(n) /\ nodes[n] \in Node
    BY <1>7, ExistingIsNode DEF UpdateNode
  <2>2. /\ nodes'[n].type = nodes[n].type
        /\ nodes'[n].created_by = nodes[n].created_by
    BY <1>7, <2>1 DEF UpdateNode, GraphTypeOK, Node
  <2>3. edges' = edges /\ \A m \in NodeId \ {n} : nodes'[m] = nodes[m]
    BY <1>7 DEF UpdateNode, GraphTypeOK
  <2> QED BY <1>0, <2>1, <2>2, <2>3, ScopeShrinks DEF Exists
<1> QED BY <1>1, <1>2, <1>3, <1>4, <1>5, <1>6, <1>7
        DEF AgentsNext, AgentWrites, HolderWrites

\* Whatever an agent has stamped stays within the types it is allowed, in every
\* interleaving of agents' writes with removals, updates and re-additions.
THEOREM AgentsStayInScope == AgentsSpec => []AgentScope
<1>1. GraphInit => AgentScope
  BY DEF GraphInit, AgentScope, ScopedNodes, ScopedEdges, Exists
<1>2. GraphTypeOK /\ GraphIntegrity /\ AgentScope /\ [AgentsNext]_graphVars
        => AgentScope'
  <2>1. ASSUME UNCHANGED graphVars, AgentScope
        PROVE  AgentScope'
    BY <2>1 DEF graphVars, AgentScope, ScopedNodes, ScopedEdges,
                VisibleNodes, Exists
  <2> QED BY <2>1, ScopeStep
<1> QED BY <1>1, <1>2, AgentsImplementGraph, GraphTyped, GraphIsIntact, PTL
        DEF AgentsSpec

\* An agent never loses sight of an edge it wrote.
THEOREM AgentsReadOwnEdges == AgentsSpec => []OwnEdgesReadable
<1>1. GraphTypeOK /\ AgentScope => OwnEdgesReadable
  BY DEF GraphTypeOK, AgentScope, ScopedEdges, OwnEdgesReadable, VisibleEdges,
         Incident, Edge
<1> QED BY <1>1, AgentsStayInScope, AgentsImplementGraph, GraphTyped, PTL

-----------------------------------------------------------------------------
(* The audited graph.                                                      *)

\* Every mutation of the ProvenanceGraph is a mutation of the wrapped graph.
LEMMA LoggedIsWrite == ProvenanceNext => AgentsNext
<1>1. AgentLogs => AgentWrites
  BY DEF AgentLogs, AgentWrites
<1>2. HolderLogs => HolderWrites
  BY DEF HolderLogs, HolderWrites, LoggedAddNode, LoggedAddEdge, EdgeId,
         LoggedRemoveNode, LoggedRemoveEdge, LoggedUpdateNode
<1> QED BY <1>1, <1>2 DEF ProvenanceNext, AgentsNext

\* What an agent's write is to the wrapper: a logged call with the agent's stamp.
LEMMA AgentCalls ==
  ASSUME AgentLogs
  PROVE  \E a \in AgentId :
           \/ \E n \in NodeId, type \in NodeType, data \in SUBSET Key :
                LoggedAddNode(n, NewNode(type, data, a))
           \/ \E source \in NodeId, relation \in Relation, target \in NodeId :
                LoggedAddEdge(NewEdge(source, relation, target, a))
<1>1. PICK a \in AgentId :
        \/ \E n \in NodeId, type \in NodeType, data \in SUBSET Key :
             AgentAddNode(a, n, type, data) /\ Log("add_node", a, n)
        \/ \E source \in NodeId, relation \in Relation, target \in NodeId :
             /\ AgentAddEdge(a, source, relation, target)
             /\ Log("add_edge", a, <<source, relation, target>>)
  BY DEF AgentLogs
<1>2. ASSUME NEW n \in NodeId, NEW type \in NodeType, NEW data \in SUBSET Key,
             AgentAddNode(a, n, type, data) /\ Log("add_node", a, n)
      PROVE  LoggedAddNode(n, NewNode(type, data, a))
  BY <1>2 DEF AgentAddNode, LoggedAddNode, NewNode
<1>3. ASSUME NEW source \in NodeId, NEW relation \in Relation, NEW target \in NodeId,
             AgentAddEdge(a, source, relation, target),
             Log("add_edge", a, <<source, relation, target>>)
      PROVE  LoggedAddEdge(NewEdge(source, relation, target, a))
  BY <1>3 DEF AgentAddEdge, LoggedAddEdge, NewEdge, EdgeKey
<1> QED BY <1>1, <1>2, <1>3

\* The calls of the ProvenanceGraph are calls of the graph it wraps, so what holds
\* of the shared graph holds of the audited one.
LEMMA ProvenanceImplementsAgents == ProvenanceSpec => AgentsSpec
<1>1. ProvenanceInit => GraphInit
  BY DEF ProvenanceInit
<1>2. [ProvenanceNext]_provenanceVars => [AgentsNext]_graphVars
  BY LoggedIsWrite DEF provenanceVars, graphVars
<1> QED BY <1>1, <1>2, PTL DEF ProvenanceSpec, AgentsSpec

\* Types and integrity of the graph, and the agents' scope, hold under audit.
THEOREM AuditedGraph ==
  ProvenanceSpec => [](GraphTypeOK /\ GraphIntegrity /\ AgentScope)
BY ProvenanceImplementsAgents, AgentsImplementGraph, GraphTyped, GraphIsIntact,
   AgentsStayInScope, PTL

-----------------------------------------------------------------------------
(* One step of the log.                                                    *)

\* Every call logs one of the five operations with a known agent and target.
LEMMA StepLogs ==
  ASSUME GraphTypeOK, ProvenanceNext
  PROVE  \E operation \in Operation, agent \in Creator,
            target \in NodeId \cup EdgeId : Log(operation, agent, target)
<1> USE DEF Operation
<1>1. ASSUME NEW n \in NodeId, NEW c \in Creator, NEW type, NEW data,
             LoggedAddNode(n, NewNode(type, data, c))
      PROVE  Log("add_node", c, n)
  BY <1>1 DEF LoggedAddNode, NewNode
<1>2. ASSUME NEW s \in NodeId, NEW r \in Relation, NEW t \in NodeId,
             NEW c \in Creator, LoggedAddEdge(NewEdge(s, r, t, c))
      PROVE  Log("add_edge", c, <<s, r, t>>) /\ <<s, r, t>> \in EdgeId
  BY <1>2 DEF LoggedAddEdge, NewEdge, EdgeKey, EdgeId
<1>3. CASE AgentLogs
  <2>1. PICK a \in AgentId :
          \/ \E n \in NodeId, type \in NodeType, data \in SUBSET Key :
               LoggedAddNode(n, NewNode(type, data, a))
          \/ \E source \in NodeId, relation \in Relation, target \in NodeId :
               LoggedAddEdge(NewEdge(source, relation, target, a))
    BY <1>3, AgentCalls
  <2>2. a \in Creator
    BY AllowedAssumption
  <2>3. CASE \E n \in NodeId, type \in NodeType, data \in SUBSET Key :
               LoggedAddNode(n, NewNode(type, data, a))
    BY <1>1, <2>2, <2>3
  <2>4. CASE \E source \in NodeId, relation \in Relation, target \in NodeId :
               LoggedAddEdge(NewEdge(source, relation, target, a))
    BY <1>2, <2>2, <2>4
  <2> QED BY <2>1, <2>3, <2>4
<1>4. CASE HolderLogs
  <2>1. CASE \E h \in Holder, n \in NodeId, type \in NodeType, data \in SUBSET Key :
               LoggedAddNode(n, NewNode(type, data, h))
    BY <1>1, <2>1 DEF Holder
  <2>2. CASE \E h \in Holder, s \in NodeId, r \in Relation, t \in NodeId :
               LoggedAddEdge(NewEdge(s, r, t, h))
    BY <1>2, <2>2 DEF Holder
  <2>3. CASE \E n \in NodeId, c \in Creator : LoggedRemoveNode(n, c)
    BY <2>3 DEF LoggedRemoveNode
  <2>4. CASE \E key \in EdgeId, c \in Creator : LoggedRemoveEdge(key, c)
    BY <2>4 DEF LoggedRemoveEdge
  <2>5. CASE \E n \in NodeId, keys \in SUBSET Key, c \in Creator :
               LoggedUpdateNode(n, keys, c)
    BY <2>5 DEF LoggedUpdateNode
  <2> QED BY <1>4, <2>1, <2>2, <2>3, <2>4, <2>5 DEF HolderLogs
<1> QED BY <1>3, <1>4 DEF ProvenanceNext

ChainInv == LedgerTypeOK /\ ChainIntact

\* What Log does to the ledger, entry by entry.
LEMMA LogAppends ==
  ASSUME ChainInv, NEW operation \in Operation, NEW agent \in Creator,
         NEW target \in NodeId \cup EdgeId, Log(operation, agent, target)
  PROVE  /\ ledger' \in Seq(Entry)
         /\ Len(ledger) \in Nat
         /\ Len(ledger') = Len(ledger) + 1
         /\ sequence' = Len(ledger')
         /\ \A i \in 1..Len(ledger) : ledger'[i] = ledger[i]
         /\ ledger'[Len(ledger')] = NewEntry(operation, agent, target)
<1> DEFINE content == [sequence |-> sequence, operation |-> operation,
                       agent_id |-> agent, target_id |-> target]
           entry == NewEntry(operation, agent, target)
<1>1. /\ ledger \in Seq(Entry) /\ sequence = Len(ledger)
      /\ Len(ledger) < MaxEntries /\ MaxEntries \in Nat
      /\ ledger' = Append(ledger, entry)
      /\ sequence' = sequence + 1
  BY MaxEntriesAssumption DEF ChainInv, LedgerTypeOK, ChainIntact, Log
<1>2. LastHash \in Digest \cup {NoDigest}
  <2>1. ASSUME ledger # <<>>
        PROVE  ledger[Len(ledger)] \in Entry
    BY <1>1, <2>1
  <2>2. \A x \in Entry : x.hash \in Digest
    BY DEF Entry
  <2> QED BY <2>1, <2>2 DEF LastHash
<1>3. content \in [sequence : 0..MaxEntries, operation : Operation,
                   agent_id : Creator, target_id : NodeId \cup EdgeId]
  BY <1>1
<1>4. Hash(content, LastHash) \in Digest
  BY <1>2, <1>3, HashAssumption
<1>5. content \in Content
  BY <1>3 DEF Content
<1>6. entry \in Entry
  BY <1>2, <1>4, <1>5 DEF NewEntry, Entry
<1> HIDE DEF entry
<1>7. /\ Append(ledger, entry) \in Seq(Entry)
      /\ Len(Append(ledger, entry)) = Len(ledger) + 1
      /\ \A i \in 1..Len(ledger) : Append(ledger, entry)[i] = ledger[i]
      /\ Append(ledger, entry)[Len(ledger) + 1] = entry
  BY <1>1, <1>6
<1> QED BY <1>1, <1>7 DEF entry

\* The chain stays intact when an entry is appended.
LEMMA ChainStep ==
  ASSUME ChainInv, NEW operation \in Operation, NEW agent \in Creator,
         NEW target \in NodeId \cup EdgeId, Log(operation, agent, target)
  PROVE  ChainInv'
<1> DEFINE N == Len(ledger)
<1>1. /\ ledger' \in Seq(Entry) /\ N \in Nat /\ Len(ledger') = N + 1
      /\ sequence' = Len(ledger') /\ sequence = N
      /\ \A i \in 1..N : ledger'[i] = ledger[i]
      /\ ledger'[N + 1] = NewEntry(operation, agent, target)
  BY LogAppends DEF ChainInv, ChainIntact
<1>2. LastHash = IF N = 0 THEN NoDigest ELSE ledger[N].hash
  BY <1>1 DEF LastHash, ChainInv, LedgerTypeOK
<1>3. /\ ledger'[N + 1].content.sequence = N
      /\ ledger'[N + 1].previous_hash = LastHash
      /\ ledger'[N + 1].hash = Hash(ledger'[N + 1].content, LastHash)
  BY <1>1 DEF NewEntry
<1> HIDE DEF N
<1>4. ASSUME NEW i \in 1..(N + 1)
      PROVE  /\ ledger'[i].hash =
                  Hash(ledger'[i].content,
                       IF i = 1 THEN NoDigest ELSE ledger'[i - 1].hash)
             /\ ledger'[i].content.sequence = i - 1
             /\ i > 1 => ledger'[i].previous_hash = ledger'[i - 1].hash
  <2>1. CASE i = N + 1
    BY <1>1, <1>2, <1>3, <2>1
  <2>2. CASE i \in 1..N
    <3>1. /\ ledger'[i] = ledger[i]
          /\ i # 1 => ledger'[i - 1] = ledger[i - 1]
      BY <1>1, <2>2
    <3> QED BY <2>2, <3>1 DEF ChainInv, ChainIntact, Verify, N
  <2> QED BY <1>1, <2>1, <2>2
<1>5. LedgerTypeOK'
  BY <1>1 DEF LedgerTypeOK
<1>6. ChainIntact'
  BY <1>1, <1>4 DEF ChainIntact, Verify
<1> QED BY <1>5, <1>6 DEF ChainInv

\* verify() is true, the numbering has no gap and every previous_hash is the
\* digest before it, after every history of calls and for every hash function.
THEOREM ChainVerifies == ProvenanceSpec => [](LedgerTypeOK /\ ChainIntact)
<1>1. ProvenanceInit => ChainInv
  BY DEF ProvenanceInit, ChainInv, LedgerTypeOK, ChainIntact, Verify
<1>2. GraphTypeOK /\ ChainInv /\ [ProvenanceNext]_provenanceVars => ChainInv'
  <2>1. ASSUME UNCHANGED provenanceVars, ChainInv
        PROVE  ChainInv'
    BY <2>1 DEF provenanceVars, ChainInv, LedgerTypeOK, ChainIntact, Verify
  <2> QED BY <2>1, StepLogs, ChainStep
<1> QED BY <1>1, <1>2, AuditedGraph, PTL DEF ProvenanceSpec, ChainInv

-----------------------------------------------------------------------------
(* The ledger explains the graph.                                          *)

\* How appending one entry changes which entries are a thing's last addition.
LEMMA HistoryStep ==
  ASSUME ChainInv, NEW operation \in Operation, NEW agent \in Creator,
         NEW target \in NodeId \cup EdgeId, Log(operation, agent, target),
         NEW N \in Nat, N = Len(ledger)
  PROVE  LET new == N + 1
         IN  /\ Len(ledger') = new
             /\ \A i \in 1..N : ledger'[i] = ledger[i]
             /\ ledger'[new].content.agent_id = agent
             /\ \A n : \A i \in 1..N :
                  LastAdded(i, n)' <=>
                    LastAdded(i, n) /\ ~(operation = "remove_node" /\ target = n)
             /\ \A n : LastAdded(new, n)' <=>
                         operation = "add_node" /\ target = n
             /\ \A key : \A i \in 1..N :
                  LastLinked(i, key)' <=>
                    /\ LastLinked(i, key)
                    /\ ~(operation = "remove_edge" /\ target = key)
                    /\ ~(operation = "remove_node" /\ target \in {key[1], key[3]})
             /\ \A key : LastLinked(new, key)' <=>
                           operation = "add_edge" /\ target = key
<1>1. /\ Len(ledger') = N + 1
      /\ \A i \in 1..N : ledger'[i] = ledger[i]
      /\ ledger'[N + 1] = NewEntry(operation, agent, target)
  BY LogAppends
<1>2. /\ ledger'[N + 1].content.operation = operation
      /\ ledger'[N + 1].content.target_id = target
      /\ ledger'[N + 1].content.agent_id = agent
  BY <1>1 DEF NewEntry
<1>3. /\ \A i \in 1..N : \A o, t : Logged(i, o, t)' <=> Logged(i, o, t)
      /\ \A o, t : Logged(N + 1, o, t)' <=> operation = o /\ target = t
  BY <1>1, <1>2 DEF Logged
<1>4. \A i \in 1..N : (i + 1)..(N + 1) = ((i + 1)..N) \cup {N + 1}
                     /\ (i + 1)..N \subseteq 1..N
  BY <1>1
<1>5. (N + 1 + 1)..(N + 1) = {}
  BY <1>1
<1>6. ASSUME NEW n
      PROVE  /\ \A i \in 1..N : LastAdded(i, n)' <=>
                  LastAdded(i, n) /\ ~(operation = "remove_node" /\ target = n)
             /\ LastAdded(N + 1, n)' <=> operation = "add_node" /\ target = n
  <2>1. LastAdded(N + 1, n)' <=> operation = "add_node" /\ target = n
    BY <1>1, <1>3, <1>5 DEF LastAdded
  <2>2. ASSUME NEW i \in 1..N
        PROVE  LastAdded(i, n)' <=>
                 LastAdded(i, n) /\ ~(operation = "remove_node" /\ target = n)
    <3>1. Logged(i, "add_node", n)' <=> Logged(i, "add_node", n)
      BY <1>3
    <3>2. /\ \A j \in (i + 1)..N : Logged(j, "remove_node", n)' <=> Logged(j, "remove_node", n)
          /\ Logged(N + 1, "remove_node", n)' <=> operation = "remove_node" /\ target = n
      BY <1>3, <1>4
    <3>3. LastAdded(i, n)' <=> /\ Logged(i, "add_node", n)'
                               /\ \A j \in (i + 1)..(N + 1) : ~Logged(j, "remove_node", n)'
      BY <1>1 DEF LastAdded
    <3>4. (\A j \in (i + 1)..(N + 1) : ~Logged(j, "remove_node", n)') <=>
            /\ \A j \in (i + 1)..N : ~Logged(j, "remove_node", n)'
            /\ ~Logged(N + 1, "remove_node", n)'
      BY <1>4
    <3> QED BY <3>1, <3>2, <3>3, <3>4 DEF LastAdded
  <2> QED BY <2>1, <2>2
<1>7. ASSUME NEW key
      PROVE  /\ \A i \in 1..N : LastLinked(i, key)' <=>
                  /\ LastLinked(i, key)
                  /\ ~(operation = "remove_edge" /\ target = key)
                  /\ ~(operation = "remove_node" /\ target \in {key[1], key[3]})
             /\ LastLinked(N + 1, key)' <=> operation = "add_edge" /\ target = key
  BY <1>1, <1>3, <1>4, <1>5 DEF LastLinked
<1> QED BY <1>1, <1>2, <1>6, <1>7

AuditInv == GraphTypeOK /\ GraphIntegrity /\ ChainInv /\ LedgerExplainsGraph

\* Adding a node: its entry is the new last addition, nothing else changes.
LEMMA ExplainAddNode ==
  ASSUME AuditInv, NEW n \in NodeId, NEW node \in Node, LoggedAddNode(n, node)
  PROVE  LedgerExplainsGraph'
<1>0. PICK N \in Nat : N = Len(ledger)
  BY DEF AuditInv, ChainInv, LedgerTypeOK
<1>1. /\ Len(ledger') = N + 1
      /\ \A i \in 1..N : ledger'[i] = ledger[i]
      /\ ledger'[N + 1].content.agent_id = node.created_by
      /\ \A m : \A i \in 1..N : LastAdded(i, m)' <=> LastAdded(i, m)
      /\ \A m : LastAdded(N + 1, m)' <=> m = n
      /\ \A key : \A i \in 1..N : LastLinked(i, key)' <=> LastLinked(i, key)
      /\ \A key : ~LastLinked(N + 1, key)'
  <2>1. PICK c \in Creator : c = node.created_by
    BY DEF Node
  <2>2. ChainInv /\ Log("add_node", c, n) /\ "add_node" \in Operation
    BY <2>1 DEF LoggedAddNode, AuditInv, Operation
  <2>3. /\ Len(ledger') = N + 1
        /\ \A i \in 1..N : ledger'[i] = ledger[i]
        /\ ledger'[N + 1].content.agent_id = c
    BY <1>0, <2>2, HistoryStep
  <2>4. /\ \A m : \A i \in 1..N : LastAdded(i, m)' <=> LastAdded(i, m)
        /\ \A m : LastAdded(N + 1, m)' <=> m = n
    BY <1>0, <2>2, HistoryStep
  <2>5. /\ \A key : \A i \in 1..N : LastLinked(i, key)' <=> LastLinked(i, key)
        /\ \A key : ~LastLinked(N + 1, key)'
    BY <1>0, <2>2, HistoryStep
  <2> QED BY <2>1, <2>3, <2>4, <2>5
<1>2. /\ nodes'[n] = node /\ node # NoNode
      /\ \A m \in NodeId \ {n} : nodes'[m] = nodes[m]
      /\ edges' = edges
  BY NoNodeAssumption DEF LoggedAddNode, AddNode, AuditInv, GraphTypeOK
<1>3. NodesExplained /\ EdgesExplained
  BY DEF AuditInv, LedgerExplainsGraph
<1>4. NodesExplained'
  BY <1>0, <1>1, <1>2, <1>3 DEF NodesExplained, Exists
<1>5. EdgesExplained'
  BY <1>0, <1>1, <1>2, <1>3 DEF EdgesExplained
<1> QED BY <1>4, <1>5 DEF LedgerExplainsGraph

\* Removing a node: its edges go unlogged, and their last additions are
\* voided by the remove_node entry of their end.
LEMMA ExplainRemoveNode ==
  ASSUME AuditInv, NEW n \in NodeId, NEW agent \in Creator,
         LoggedRemoveNode(n, agent)
  PROVE  LedgerExplainsGraph'
<1>0. PICK N \in Nat : N = Len(ledger)
  BY DEF AuditInv, ChainInv, LedgerTypeOK
<1>1. /\ Len(ledger') = N + 1
      /\ \A i \in 1..N : ledger'[i] = ledger[i]
      /\ \A m : \A i \in 1..N : LastAdded(i, m)' <=> LastAdded(i, m) /\ m # n
      /\ \A m : ~LastAdded(N + 1, m)'
      /\ \A key : \A i \in 1..N :
           LastLinked(i, key)' <=> LastLinked(i, key) /\ key[1] # n /\ key[3] # n
      /\ \A key : ~LastLinked(N + 1, key)'
  <2>1. "remove_node" \in Operation
    BY DEF Operation
  <2>2. ChainInv /\ Log("remove_node", agent, n)
    BY DEF LoggedRemoveNode, AuditInv
  <2> QED BY <1>0, <2>1, <2>2, HistoryStep
<1>2. /\ nodes'[n] = NoNode
      /\ \A m \in NodeId \ {n} : nodes'[m] = nodes[m]
      /\ edges' = {e \in edges : ~Incident(e, n)}
  BY DEF LoggedRemoveNode, RemoveNode, AuditInv, GraphTypeOK
<1>3. NodesExplained /\ EdgesExplained
  BY DEF AuditInv, LedgerExplainsGraph
<1>4. \A e \in edges : EdgeKey(e)[1] = e.source_id /\ EdgeKey(e)[3] = e.target_id
  BY DEF EdgeKey
<1>5. NodesExplained'
  BY <1>0, <1>1, <1>2, <1>3 DEF NodesExplained, Exists
<1>6. EdgesExplained'
  BY <1>0, <1>1, <1>2, <1>3, <1>4 DEF EdgesExplained, Incident
<1> QED BY <1>5, <1>6 DEF LedgerExplainsGraph

LEMMA ExplainAddEdge ==
  ASSUME AuditInv, NEW e \in Edge, LoggedAddEdge(e)
  PROVE  LedgerExplainsGraph'
<1>0. PICK N \in Nat : N = Len(ledger)
  BY DEF AuditInv, ChainInv, LedgerTypeOK
<1>1. /\ Len(ledger') = N + 1
      /\ \A i \in 1..N : ledger'[i] = ledger[i]
      /\ ledger'[N + 1].content.agent_id = e.created_by
      /\ \A m : \A i \in 1..N : LastAdded(i, m)' <=> LastAdded(i, m)
      /\ \A m : ~LastAdded(N + 1, m)'
      /\ \A key : \A i \in 1..N : LastLinked(i, key)' <=> LastLinked(i, key)
      /\ \A key : LastLinked(N + 1, key)' <=> key = EdgeKey(e)
  <2>1. PICK c \in Creator, k \in EdgeId : c = e.created_by /\ k = EdgeKey(e)
    BY DEF Edge, EdgeKey, EdgeId
  <2>2. ChainInv /\ Log("add_edge", c, k) /\ "add_edge" \in Operation
    BY <2>1 DEF LoggedAddEdge, AuditInv, Operation
  <2>3. /\ Len(ledger') = N + 1
        /\ \A i \in 1..N : ledger'[i] = ledger[i]
        /\ ledger'[N + 1].content.agent_id = c
    BY <1>0, <2>2, HistoryStep
  <2>4. /\ \A m : \A i \in 1..N : LastAdded(i, m)' <=> LastAdded(i, m)
        /\ \A m : ~LastAdded(N + 1, m)'
    BY <1>0, <2>2, HistoryStep
  <2>5. /\ \A key : \A i \in 1..N : LastLinked(i, key)' <=> LastLinked(i, key)
        /\ \A key : LastLinked(N + 1, key)' <=> key = k
    BY <1>0, <2>2, HistoryStep
  <2> QED BY <2>1, <2>3, <2>4, <2>5
<1>2. nodes' = nodes /\ edges' = edges \cup {e}
  BY DEF LoggedAddEdge, AddEdge
<1>3. NodesExplained /\ EdgesExplained
  BY DEF AuditInv, LedgerExplainsGraph
<1>4. NodesExplained'
  BY <1>0, <1>1, <1>2, <1>3 DEF NodesExplained, Exists
<1>5. EdgesExplained'
  BY <1>0, <1>1, <1>2, <1>3 DEF EdgesExplained
<1> QED BY <1>4, <1>5 DEF LedgerExplainsGraph

\* Removing an edge: only one edge has the key, so none is left behind.
LEMMA ExplainRemoveEdge ==
  ASSUME AuditInv, NEW key \in EdgeId, NEW agent \in Creator,
         LoggedRemoveEdge(key, agent)
  PROVE  LedgerExplainsGraph'
<1>0. PICK N \in Nat : N = Len(ledger)
  BY DEF AuditInv, ChainInv, LedgerTypeOK
<1>1. /\ Len(ledger') = N + 1
      /\ \A i \in 1..N : ledger'[i] = ledger[i]
      /\ \A m : \A i \in 1..N : LastAdded(i, m)' <=> LastAdded(i, m)
      /\ \A m : ~LastAdded(N + 1, m)'
      /\ \A k : \A i \in 1..N :
           LastLinked(i, k)' <=> LastLinked(i, k) /\ k # key
      /\ \A k : ~LastLinked(N + 1, k)'
  <2>1. "remove_edge" \in Operation
    BY DEF Operation
  <2>2. ChainInv /\ Log("remove_edge", agent, key)
    BY DEF LoggedRemoveEdge, AuditInv
  <2> QED BY <1>0, <2>1, <2>2, HistoryStep
<1>2. nodes' = nodes /\ edges' = {f \in edges : EdgeKey(f) # key}
  BY DEF LoggedRemoveEdge, RemoveEdge, AuditInv, GraphIntegrity, EdgeKeysUnique
<1>3. NodesExplained /\ EdgesExplained
  BY DEF AuditInv, LedgerExplainsGraph
<1>4. NodesExplained'
  BY <1>0, <1>1, <1>2, <1>3 DEF NodesExplained, Exists
<1>5. EdgesExplained'
  BY <1>0, <1>1, <1>2, <1>3 DEF EdgesExplained
<1> QED BY <1>4, <1>5 DEF LedgerExplainsGraph

LEMMA ExplainUpdateNode ==
  ASSUME AuditInv, NEW n \in NodeId, NEW keys \in SUBSET Key,
         NEW agent \in Creator, LoggedUpdateNode(n, keys, agent)
  PROVE  LedgerExplainsGraph'
<1>0. PICK N \in Nat : N = Len(ledger)
  BY DEF AuditInv, ChainInv, LedgerTypeOK
<1>1. /\ Len(ledger') = N + 1
      /\ \A i \in 1..N : ledger'[i] = ledger[i]
      /\ \A m : \A i \in 1..N : LastAdded(i, m)' <=> LastAdded(i, m)
      /\ \A m : ~LastAdded(N + 1, m)'
      /\ \A k : \A i \in 1..N : LastLinked(i, k)' <=> LastLinked(i, k)
      /\ \A k : ~LastLinked(N + 1, k)'
  <2>1. "update_node" \in Operation
    BY DEF Operation
  <2>2. ChainInv /\ Log("update_node", agent, n)
    BY DEF LoggedUpdateNode, AuditInv
  <2> QED BY <1>0, <2>1, <2>2, HistoryStep
<1>2. /\ edges' = edges
      /\ \A m \in NodeId \ {n} : nodes'[m] = nodes[m]
      /\ Exists(n) /\ Exists(n)'
      /\ nodes'[n].created_by = nodes[n].created_by
  <2>1. GraphTypeOK /\ UpdateNode(n, keys)
    BY DEF LoggedUpdateNode, AuditInv
  <2>2. Exists(n) /\ nodes[n] \in Node
    BY <2>1, ExistingIsNode DEF UpdateNode
  <2>3. nodes'[n] \in Node /\ nodes'[n].created_by = nodes[n].created_by
    BY <2>1, <2>2 DEF UpdateNode, GraphTypeOK, Node
  <2> QED BY <2>1, <2>2, <2>3, NoNodeAssumption DEF UpdateNode, GraphTypeOK, Exists
<1>3. NodesExplained /\ EdgesExplained
  BY DEF AuditInv, LedgerExplainsGraph
<1>4. NodesExplained'
  <2> SUFFICES ASSUME NEW m \in NodeId
               PROVE  /\ Exists(m)' <=> Exists(m)
                      /\ Exists(m) => nodes'[m].created_by = nodes[m].created_by
    BY <1>0, <1>1, <1>3 DEF NodesExplained
  <2> QED BY <1>2 DEF Exists
<1>5. EdgesExplained'
  BY <1>0, <1>1, <1>2, <1>3 DEF EdgesExplained
<1> QED BY <1>4, <1>5 DEF LedgerExplainsGraph

LEMMA ExplainStep ==
  ASSUME AuditInv, ProvenanceNext
  PROVE  LedgerExplainsGraph'
<1>1. ASSUME NEW c \in Creator, NEW n \in NodeId, NEW type \in NodeType,
             NEW data \in SUBSET Key, LoggedAddNode(n, NewNode(type, data, c))
      PROVE  LedgerExplainsGraph'
  <2>1. NewNode(type, data, c) \in Node
    BY DEF NewNode, Node
  <2> QED BY <1>1, <2>1, ExplainAddNode
<1>2. ASSUME NEW c \in Creator, NEW s \in NodeId, NEW r \in Relation,
             NEW t \in NodeId, LoggedAddEdge(NewEdge(s, r, t, c))
      PROVE  LedgerExplainsGraph'
  <2>1. NewEdge(s, r, t, c) \in Edge
    BY DEF NewEdge, Edge
  <2> QED BY <1>2, <2>1, ExplainAddEdge
<1>3. CASE AgentLogs
  <2>1. PICK a \in AgentId :
          \/ \E n \in NodeId, type \in NodeType, data \in SUBSET Key :
               LoggedAddNode(n, NewNode(type, data, a))
          \/ \E source \in NodeId, relation \in Relation, target \in NodeId :
               LoggedAddEdge(NewEdge(source, relation, target, a))
    BY <1>3, AgentCalls
  <2>2. a \in Creator
    BY AllowedAssumption
  <2> QED BY <1>1, <1>2, <2>1, <2>2
<1>4. CASE HolderLogs
  BY <1>1, <1>2, <1>4, ExplainRemoveNode, ExplainRemoveEdge, ExplainUpdateNode
     DEF HolderLogs, Holder
<1> QED BY <1>3, <1>4 DEF ProvenanceNext

\* From the ledger alone one can tell which nodes and edges exist and who added
\* each of them, although edges removed with a node leave no entry: the entry
\* of the node stands for them.
THEOREM LedgerDeterminesGraph == ProvenanceSpec => []LedgerExplainsGraph
<1>1. ProvenanceInit => LedgerExplainsGraph
  BY DEF ProvenanceInit, GraphInit, LedgerExplainsGraph, NodesExplained,
         EdgesExplained, Exists
<1>2. AuditInv /\ [ProvenanceNext]_provenanceVars => LedgerExplainsGraph'
  <2>1. ASSUME UNCHANGED provenanceVars, LedgerExplainsGraph
        PROVE  LedgerExplainsGraph'
    BY <2>1 DEF provenanceVars, LedgerExplainsGraph, NodesExplained,
       EdgesExplained, LastAdded, LastLinked, Logged, Exists
  <2> QED BY <2>1, ExplainStep DEF AuditInv
<1> QED BY <1>1, <1>2, AuditedGraph, ChainVerifies, PTL
        DEF ProvenanceSpec, AuditInv, ChainInv

-----------------------------------------------------------------------------
(* Every change has its entry.                                             *)

\* What changes is the target, or an edge that goes along with it.
Accounts(target) ==
  /\ \A n \in NodeId : nodes'[n] # nodes[n] => target = n
  /\ \A e \in edges' \ edges : target = EdgeKey(e)
  /\ \A e \in edges \ edges' : target \in {EdgeKey(e), e.source_id, e.target_id}

LEMMA StepAccounts ==
  ASSUME GraphTypeOK, ProvenanceNext
  PROVE  \E operation \in Operation, agent \in Creator, target \in NodeId \cup EdgeId :
           Log(operation, agent, target) /\ Accounts(target)
<1> USE DEF Operation
<1>1. ASSUME NEW n \in NodeId, NEW node, AddNode(n, node)
      PROVE  Accounts(n)
  BY <1>1 DEF AddNode, Accounts, GraphTypeOK
<1>2. ASSUME NEW e, AddEdge(e)
      PROVE  Accounts(EdgeKey(e))
  BY <1>2 DEF AddEdge, Accounts
<1>3. ASSUME NEW n \in NodeId, NEW type, NEW data, NEW c \in Creator,
             LoggedAddNode(n, NewNode(type, data, c))
      PROVE  Log("add_node", c, n) /\ Accounts(n)
  BY <1>1, <1>3 DEF LoggedAddNode, NewNode
<1>4. ASSUME NEW s \in NodeId, NEW r \in Relation, NEW t \in NodeId, NEW c \in Creator,
             LoggedAddEdge(NewEdge(s, r, t, c))
      PROVE  Log("add_edge", c, <<s, r, t>>) /\ Accounts(<<s, r, t>>) /\ <<s, r, t>> \in EdgeId
  <2>1. EdgeKey(NewEdge(s, r, t, c)) = <<s, r, t>> /\ NewEdge(s, r, t, c).created_by = c
    BY DEF EdgeKey, NewEdge
  <2> QED BY <1>2, <1>4, <2>1 DEF LoggedAddEdge, EdgeId
<1>5. CASE AgentLogs
  <2>1. PICK a \in AgentId :
          \/ \E n \in NodeId, type \in NodeType, data \in SUBSET Key :
               LoggedAddNode(n, NewNode(type, data, a))
          \/ \E source \in NodeId, relation \in Relation, target \in NodeId :
               LoggedAddEdge(NewEdge(source, relation, target, a))
    BY <1>5, AgentCalls
  <2>2. a \in Creator
    BY AllowedAssumption
  <2>3. CASE \E n \in NodeId, type \in NodeType, data \in SUBSET Key :
               LoggedAddNode(n, NewNode(type, data, a))
    BY <1>3, <2>2, <2>3
  <2>4. CASE \E source \in NodeId, relation \in Relation, target \in NodeId :
               LoggedAddEdge(NewEdge(source, relation, target, a))
    BY <1>4, <2>2, <2>4
  <2> QED BY <2>1, <2>3, <2>4
<1>6. CASE HolderLogs
  <2>1. CASE \E h \in Holder, n \in NodeId, type \in NodeType, data \in SUBSET Key :
               LoggedAddNode(n, NewNode(type, data, h))
    BY <1>3, <2>1 DEF Holder
  <2>2. CASE \E h \in Holder, s \in NodeId, r \in Relation, t \in NodeId :
               LoggedAddEdge(NewEdge(s, r, t, h))
    BY <1>4, <2>2 DEF Holder
  <2>3. ASSUME NEW n \in NodeId, NEW c \in Creator, LoggedRemoveNode(n, c)
        PROVE  Log("remove_node", c, n) /\ Accounts(n)
    BY <2>3 DEF LoggedRemoveNode, RemoveNode, Accounts, Incident, GraphTypeOK
  <2>4. ASSUME NEW key \in EdgeId, NEW c \in Creator, LoggedRemoveEdge(key, c)
        PROVE  Log("remove_edge", c, key) /\ Accounts(key)
    BY <2>4 DEF LoggedRemoveEdge, RemoveEdge, Accounts
  <2>5. ASSUME NEW n \in NodeId, NEW keys \in SUBSET Key, NEW c \in Creator,
               LoggedUpdateNode(n, keys, c)
        PROVE  Log("update_node", c, n) /\ Accounts(n)
    BY <2>5 DEF LoggedUpdateNode, UpdateNode, Accounts, GraphTypeOK
  <2> QED BY <1>6, <2>1, <2>2, <2>3, <2>4, <2>5 DEF HolderLogs
<1> QED BY <1>5, <1>6 DEF ProvenanceNext

\* Every change of the graph is accounted for by the one entry that its call
\* appends, and no earlier entry ever changes (provenance.py:92-154).
THEOREM ChangesHaveEntries == ProvenanceSpec => OneEntryPerChange
<1> DEFINE OneEntry ==
      LET entry == ledger'[Len(ledger')].content
      IN  /\ Len(ledger') = Len(ledger) + 1
          /\ SubSeq(ledger', 1, Len(ledger)) = ledger
          /\ \A n \in NodeId : nodes'[n] # nodes[n] => entry.target_id = n
          /\ \A e \in edges' \ edges : entry.target_id = EdgeKey(e)
          /\ \A e \in edges \ edges' :
               entry.target_id \in {EdgeKey(e), e.source_id, e.target_id}
<1>1. ASSUME GraphTypeOK, ChainInv, ProvenanceNext
      PROVE  OneEntry
  <2>1. PICK operation \in Operation, agent \in Creator, target \in NodeId \cup EdgeId :
          Log(operation, agent, target) /\ Accounts(target)
    BY <1>1, StepAccounts
  <2>2. /\ ledger' \in Seq(Entry) /\ Len(ledger) \in Nat /\ Len(ledger') = Len(ledger) + 1
        /\ \A i \in 1..Len(ledger) : ledger'[i] = ledger[i]
        /\ ledger'[Len(ledger')] = NewEntry(operation, agent, target)
    BY <1>1, <2>1, LogAppends
  <2>3. ledger'[Len(ledger')].content.target_id = target
    BY <2>2 DEF NewEntry
  <2>4. SubSeq(ledger', 1, Len(ledger)) = ledger
    BY <1>1, <2>2 DEF ChainInv, LedgerTypeOK
  <2> QED BY <2>1, <2>2, <2>3, <2>4 DEF Accounts
<1>2. GraphTypeOK /\ ChainInv /\ [ProvenanceNext]_provenanceVars => [OneEntry]_provenanceVars
  <2> HIDE DEF OneEntry
  <2> QED BY <1>1
<1> QED BY <1>2, AuditedGraph, ChainVerifies, PTL
        DEF ProvenanceSpec, OneEntryPerChange, ChainInv

-----------------------------------------------------------------------------
(* Kahn's algorithm.                                                       *)

Repetitionless(s) == \A i, j \in 1..Len(s) : s[i] = s[j] => i = j

\* The edges into m from nodes that the loop has not taken yet.
Unvisited(m) == {e \in Into(m) : e.source_id \notin Elements(order)}

\* A set of nodes each of which depends on one of the set.
Knot(S) == S \subseteq ExecNodes /\ \A m \in S : \E n \in S : Between(n, m) # {}

GraphFinite == edges \subseteq Edge /\ IsFiniteSet(edges)

\* What holds between two turns of the loop: in_degree counts the edges from
\* unvisited nodes; what is listed or waiting has all that it depends on in front
\* of it; what has nothing left to wait for is listed or waiting; no knot is.
Lists ==
  /\ order \in Seq(ExecNodes) /\ queue \in Seq(ExecNodes)
  /\ Repetitionless(order) /\ Repetitionless(queue)
  /\ Elements(order) \cap Elements(queue) = {}
  /\ Cardinality(Elements(order)) = Len(order) /\ IsFiniteSet(Elements(order))

Counts == in_degree = [m \in NodeId |-> Cardinality(Unvisited(m))]

Listed ==
  \A e \in Dependencies : \A i \in 1..Len(order) :
    order[i] = e.target_id => \E j \in 1..(i - 1) : order[j] = e.source_id

Waiting ==
  \A e \in Dependencies : e.target_id \in Elements(queue) => e.source_id \in Elements(order)

Ready ==
  \A m \in ExecNodes : in_degree[m] = 0 => m \in Elements(order) \cup Elements(queue)

KnotsOut ==
  \A S \in SUBSET ExecNodes :
    Knot(S) => S \cap (Elements(order) \cup Elements(queue)) = {}

SortInv == Lists /\ Counts /\ Listed /\ Waiting /\ Ready /\ KnotsOut

-----------------------------------------------------------------------------
(* Lists.                                                                  *)

LEMMA AppendElements ==
  ASSUME NEW S, NEW s \in Seq(S), NEW x \in S
  PROVE  /\ Elements(Append(s, x)) = Elements(s) \cup {x}
         /\ Repetitionless(s) /\ x \notin Elements(s) => Repetitionless(Append(s, x))
<1>1. /\ Len(Append(s, x)) = Len(s) + 1 /\ Len(s) \in Nat
      /\ \A i \in 1..Len(s) : Append(s, x)[i] = s[i]
      /\ Append(s, x)[Len(s) + 1] = x
  OBVIOUS
<1>2. Elements(Append(s, x)) = Elements(s) \cup {x}
  <2>1. ASSUME NEW y \in Elements(Append(s, x)) PROVE y \in Elements(s) \cup {x}
    <3>1. PICK i \in 1..(Len(s) + 1) : y = Append(s, x)[i]
      BY <1>1 DEF Elements
    <3> QED BY <3>1, <1>1 DEF Elements
  <2>2. ASSUME NEW y \in Elements(s) PROVE y \in Elements(Append(s, x))
    <3>1. PICK i \in 1..Len(s) : y = s[i]
      BY DEF Elements
    <3>2. i \in 1..Len(Append(s, x)) /\ y = Append(s, x)[i]
      BY <3>1, <1>1
    <3> QED BY <3>2 DEF Elements
  <2>3. x \in Elements(Append(s, x))
    <3>1. Len(s) + 1 \in 1..Len(Append(s, x))
      BY <1>1
    <3> QED BY <3>1, <1>1 DEF Elements
  <2> QED BY <2>1, <2>2, <2>3
<1>3. ASSUME Repetitionless(s), x \notin Elements(s)
      PROVE  Repetitionless(Append(s, x))
  <2>1. ASSUME NEW i \in 1..(Len(s) + 1), NEW j \in 1..(Len(s) + 1),
               Append(s, x)[i] = Append(s, x)[j]
        PROVE  i = j
    <3>1. \A k \in 1..Len(s) : s[k] # x
      BY <1>3 DEF Elements
    <3> QED BY <2>1, <3>1, <1>1, <1>3 DEF Repetitionless
  <2> QED BY <2>1, <1>1 DEF Repetitionless
<1> QED BY <1>2, <1>3

LEMMA HeadElements ==
  ASSUME NEW S, NEW s \in Seq(S), s # <<>>
  PROVE  /\ Head(s) \in Elements(s)
         /\ Tail(s) \in Seq(S)
         /\ Elements(Tail(s)) \subseteq Elements(s)
         /\ Elements(s) = Elements(Tail(s)) \cup {Head(s)}
         /\ Repetitionless(s) =>
              Repetitionless(Tail(s)) /\ Head(s) \notin Elements(Tail(s))
<1>1. /\ Len(s) \in Nat \ {0} /\ Tail(s) \in Seq(S) /\ Len(Tail(s)) = Len(s) - 1
      /\ \A i \in 1..(Len(s) - 1) : Tail(s)[i] = s[i + 1]
      /\ Head(s) = s[1]
  BY EmptySeq
<1>2. Head(s) \in Elements(s)
  BY <1>1 DEF Elements
<1>3. Elements(Tail(s)) \subseteq Elements(s)
  <2>1. ASSUME NEW y \in Elements(Tail(s)) PROVE y \in Elements(s)
    <3>1. PICK i \in 1..(Len(s) - 1) : y = s[i + 1]
      BY <1>1 DEF Elements
    <3>2. i + 1 \in 1..Len(s)
      BY <1>1
    <3> QED BY <3>1, <3>2 DEF Elements
  <2> QED BY <2>1
<1>4. Elements(s) \subseteq Elements(Tail(s)) \cup {Head(s)}
  <2>1. ASSUME NEW y \in Elements(s), y # Head(s) PROVE y \in Elements(Tail(s))
    <3>1. PICK i \in 1..Len(s) : y = s[i]
      BY DEF Elements
    <3>2. i - 1 \in 1..Len(Tail(s)) /\ y = Tail(s)[i - 1]
      BY <3>1, <2>1, <1>1
    <3> QED BY <3>2 DEF Elements
  <2> QED BY <2>1
<1>5. ASSUME Repetitionless(s)
      PROVE  Repetitionless(Tail(s)) /\ Head(s) \notin Elements(Tail(s))
  <2>1. ASSUME NEW i \in 1..(Len(s) - 1), NEW j \in 1..(Len(s) - 1), s[i + 1] = s[j + 1]
        PROVE  i = j
    BY <2>1, <1>1, <1>5 DEF Repetitionless
  <2>2. ASSUME NEW i \in 1..(Len(s) - 1) PROVE s[i + 1] # s[1]
    BY <1>1, <1>5 DEF Repetitionless
  <2> QED BY <2>1, <2>2, <1>1 DEF Repetitionless, Elements
<1> QED BY <1>1, <1>2, <1>3, <1>4, <1>5

LEMMA ConcatElements ==
  ASSUME NEW S, NEW s \in Seq(S), NEW t \in Seq(S)
  PROVE  /\ s \o t \in Seq(S)
         /\ Elements(s \o t) = Elements(s) \cup Elements(t)
         /\ Repetitionless(s) /\ Repetitionless(t) /\ Elements(s) \cap Elements(t) = {}
              => Repetitionless(s \o t)
<1>1. /\ s \o t \in Seq(S) /\ Len(s \o t) = Len(s) + Len(t)
      /\ Len(s) \in Nat /\ Len(t) \in Nat
      /\ \A i \in 1..Len(s) : (s \o t)[i] = s[i]
      /\ \A i \in 1..Len(t) : (s \o t)[Len(s) + i] = t[i]
  BY ConcatProperties
<1>2. \A i \in 1..(Len(s) + Len(t)) :
        \/ i \in 1..Len(s)
        \/ i - Len(s) \in 1..Len(t) /\ (s \o t)[i] = t[i - Len(s)]
  <2> TAKE i \in 1..(Len(s) + Len(t))
  <2>1. CASE i > Len(s)
    <3>1. i - Len(s) \in 1..Len(t) /\ Len(s) + (i - Len(s)) = i
      BY <1>1, <2>1
    <3> QED BY <3>1, <1>1
  <2> QED BY <2>1, <1>1
<1>3. Elements(s \o t) = Elements(s) \cup Elements(t)
  <2>1. ASSUME NEW y \in Elements(s \o t) PROVE y \in Elements(s) \cup Elements(t)
    <3>1. PICK i \in 1..(Len(s) + Len(t)) : y = (s \o t)[i]
      BY <1>1 DEF Elements
    <3> QED BY <3>1, <1>1, <1>2 DEF Elements
  <2>2. ASSUME NEW i \in 1..Len(s) PROVE s[i] \in Elements(s \o t)
    <3>1. i \in 1..Len(s \o t)
      BY <1>1
    <3> QED BY <3>1, <1>1 DEF Elements
  <2>3. ASSUME NEW i \in 1..Len(t) PROVE t[i] \in Elements(s \o t)
    <3>1. Len(s) + i \in 1..Len(s \o t)
      BY <1>1
    <3> QED BY <3>1, <1>1 DEF Elements
  <2> QED BY <2>1, <2>2, <2>3 DEF Elements
<1>4. ASSUME Repetitionless(s), Repetitionless(t), Elements(s) \cap Elements(t) = {}
      PROVE  Repetitionless(s \o t)
  <2>1. \A i \in 1..Len(s), j \in 1..Len(t) : s[i] # t[j]
    BY <1>4 DEF Elements
  <2>2. ASSUME NEW i \in 1..(Len(s) + Len(t)), NEW j \in 1..(Len(s) + Len(t)),
               (s \o t)[i] = (s \o t)[j]
        PROVE  i = j
    <3>1. CASE i \in 1..Len(s) /\ j \in 1..Len(s)
      BY <3>1, <2>2, <1>1, <1>4 DEF Repetitionless
    <3>2. CASE i \in 1..Len(s) /\ j \notin 1..Len(s)
      BY <3>2, <2>2, <1>1, <1>2, <2>1
    <3>3. CASE i \notin 1..Len(s) /\ j \in 1..Len(s)
      BY <3>3, <2>2, <1>1, <1>2, <2>1
    <3>4. CASE i \notin 1..Len(s) /\ j \notin 1..Len(s)
      <4>1. i - Len(s) = j - Len(s)
        BY <3>4, <2>2, <1>2, <1>4 DEF Repetitionless
      <4> QED BY <4>1, <1>1
    <3> QED BY <3>1, <3>2, <3>3, <3>4
  <2> QED BY <2>2, <1>1 DEF Repetitionless
<1> QED BY <1>1, <1>3, <1>4

LEMMA OrderingElements ==
  ASSUME NEW T, NEW S \in SUBSET T, IsFiniteSet(S), NEW s \in Orderings(S)
  PROVE  s \in Seq(T) /\ Elements(s) = S /\ Repetitionless(s)
<1>1. Cardinality(S) \in Nat
  BY FS_CardinalityType
<1>2. s \in [1..Cardinality(S) -> S]
  BY DEF Orderings
<1>3. s \in Seq(T) /\ Len(s) = Cardinality(S)
  BY <1>1, <1>2
<1>4. {s[i] : i \in 1..Cardinality(S)} = S
  BY DEF Orderings
<1>5. \A i, j \in 1..Cardinality(S) : s[i] = s[j] => i = j
  BY DEF Orderings
<1> QED BY <1>3, <1>4, <1>5 DEF Elements, Repetitionless

-----------------------------------------------------------------------------
(* The set-up.                                                             *)

LEMMA DependencySets ==
  ASSUME GraphFinite
  PROVE  /\ IsFiniteSet(ExecNodes) /\ ExecNodes \subseteq NodeId
         /\ \A e \in Dependencies : e.source_id \in ExecNodes /\ e.target_id \in ExecNodes
         /\ \A m : IsFiniteSet(Into(m)) /\ IsFiniteSet(Unvisited(m))
<1>1. ExecNodes \subseteq NodeId
  BY DEF ExecNodes
<1>2. IsFiniteSet(ExecNodes)
  BY <1>1, InitialGraphsAssumption, FS_Subset
<1>3. \A m : Into(m) \in SUBSET edges /\ Unvisited(m) \in SUBSET edges
  BY DEF Into, Unvisited, Dependencies
<1>4. \A m : IsFiniteSet(Into(m)) /\ IsFiniteSet(Unvisited(m))
  BY <1>3, FS_Subset DEF GraphFinite
<1> QED BY <1>1, <1>2, <1>4 DEF Dependencies

LEMMA BeginEstablishes ==
  ASSUME GraphFinite, BeginSort
  PROVE  SortInv'
<1> DEFINE free == {n \in ExecNodes : Into(n) = {}}
<1>1. ExecNodes' = ExecNodes /\ Dependencies' = Dependencies
      /\ \A m, n : Into(m)' = Into(m) /\ Between(n, m)' = Between(n, m)
  BY DEF BeginSort, graphVars, ExecNodes, Exists, Dependencies, Into, Between
<1>2. free \in SUBSET ExecNodes /\ IsFiniteSet(free)
  BY DependencySets, FS_Subset
<1>3. queue' \in Orderings(free)
  BY DEF BeginSort
<1>4. queue' \in Seq(ExecNodes) /\ Elements(queue') = free /\ Repetitionless(queue')
  BY <1>2, <1>3, OrderingElements
<1>5. order' = <<>> /\ Len(order') = 0 /\ Elements(order') = {}
  BY DEF BeginSort, Elements
<1>6. Lists'
  <2>1. order' \in Seq(ExecNodes) /\ Repetitionless(order')
    BY <1>5, EmptySeq DEF Repetitionless
  <2>2. IsFiniteSet(Elements(order')) /\ Cardinality(Elements(order')) = Len(order')
    BY <1>5, FS_EmptySet
  <2>3. Elements(order') \cap Elements(queue') = {}
    BY <1>5
  <2> QED BY <2>1, <2>2, <2>3, <1>1, <1>4 DEF Lists, Repetitionless, Elements
<1>7. Counts'
  <2>1. \A m : Unvisited(m)' = Into(m)
    BY <1>1, <1>5 DEF Unvisited
  <2>2. in_degree' = [m \in NodeId |-> Cardinality(Into(m))]
    BY DEF BeginSort
  <2> QED BY <2>1, <2>2 DEF Counts
<1>8. Listed'
  BY <1>5 DEF Listed
<1>9. Waiting'
  BY <1>1, <1>4 DEF Waiting, Into, Elements
<1>10. Ready'
  <2>1. ASSUME NEW m \in ExecNodes, in_degree'[m] = 0
        PROVE  m \in free
    BY <2>1, DependencySets, FS_EmptySet DEF BeginSort
  <2> QED BY <2>1, <1>1, <1>4 DEF Ready, Elements
<1>11. KnotsOut'
  <2>1. ASSUME NEW S \in SUBSET ExecNodes, \A m \in S : \E n \in S : Between(n, m) # {}
        PROVE  S \cap free = {}
    BY <2>1 DEF Between
  <2> QED BY <2>1, <1>1, <1>4, <1>5 DEF KnotsOut, Knot, Elements
<1> QED BY <1>6, <1>7, <1>8, <1>9, <1>10, <1>11 DEF SortInv

-----------------------------------------------------------------------------
(* A turn of the loop.                                                     *)

LEMMA VisitPreserves ==
  ASSUME GraphFinite, SortInv, Visit
  PROVE  SortInv'
<1> DEFINE n == Head(queue)
           dependents == {m \in ExecNodes : Between(n, m) # {}}
           ready == {m \in dependents : in_degree'[m] = 0}
<1>0. PICK s \in Orderings(ready) : queue' = Tail(queue) \o s
  BY DEF Visit
<1>1. /\ queue # <<>>
      /\ order' = Append(order, n)
      /\ in_degree' = [m \in NodeId |-> in_degree[m] - Cardinality(Between(n, m))]
  BY DEF Visit
<1>2. /\ ExecNodes' = ExecNodes /\ Dependencies' = Dependencies
      /\ \A m, k : Into(m)' = Into(m) /\ Between(k, m)' = Between(k, m)
  BY DEF Visit, ExecNodes, Exists, Dependencies, Into, Between
<1>3. /\ n \in Elements(queue) /\ Tail(queue) \in Seq(ExecNodes)
      /\ Elements(queue) = Elements(Tail(queue)) \cup {n}
      /\ Repetitionless(Tail(queue)) /\ n \notin Elements(Tail(queue))
  BY <1>1, HeadElements DEF SortInv, Lists
<1>4. n \in ExecNodes /\ n \notin Elements(order)
  <2>1. PICK i \in 1..Len(queue) : queue[i] = n
    BY <1>3 DEF Elements
  <2>2. queue \in Seq(ExecNodes) /\ Elements(order) \cap Elements(queue) = {}
    BY DEF SortInv, Lists
  <2> QED BY <2>1, <2>2, <1>3
<1>5. /\ order' \in Seq(ExecNodes) /\ Elements(order') = Elements(order) \cup {n}
      /\ Repetitionless(order') /\ Len(order') = Len(order) + 1
      /\ \A i \in 1..Len(order) : order'[i] = order[i]
      /\ order'[Len(order) + 1] = n /\ Len(order) \in Nat
  BY <1>1, <1>4, AppendElements DEF SortInv, Lists
<1>6. ready \in SUBSET ExecNodes /\ IsFiniteSet(ready)
  BY DependencySets, FS_Subset
<1>7. s \in Seq(ExecNodes) /\ Elements(s) = ready /\ Repetitionless(s)
  BY <1>0, <1>6, OrderingElements
\* The edges from n are those that are not counted any more.
<1>8. ASSUME NEW m
      PROVE  /\ Unvisited(m)' = Unvisited(m) \ Between(n, m)
             /\ Between(n, m) \subseteq Unvisited(m)
  BY <1>2, <1>4, <1>5 DEF Unvisited, Between, Elements
<1>9. Counts'
  <2>1. ASSUME NEW m \in NodeId
        PROVE  Cardinality(Unvisited(m))' = in_degree[m] - Cardinality(Between(n, m))
    <3>1. IsFiniteSet(Unvisited(m))
      BY DependencySets
    <3>2. Unvisited(m) \cap Between(n, m) = Between(n, m)
      BY <1>8
    <3>3. Cardinality(Unvisited(m) \ Between(n, m)) =
            Cardinality(Unvisited(m)) - Cardinality(Between(n, m))
      BY <3>1, <3>2, FS_Difference
    <3> QED BY <3>3, <1>8 DEF SortInv, Counts
  <2> QED BY <2>1, <1>1 DEF Counts
\* What becomes ready was neither listed nor waiting: its edge from n was open.
<1>10. ASSUME NEW m \in dependents
       PROVE  m \notin Elements(order) \cup Elements(queue)
  <2>1. PICK e \in Dependencies : e.source_id = n /\ e.target_id = m
    BY DEF Between, Into
  <2>2. m \notin Elements(queue)
    BY <2>1, <1>4 DEF SortInv, Waiting
  <2>3. m \notin Elements(order)
    <3>1. SUFFICES ASSUME NEW i \in 1..Len(order), order[i] = m PROVE FALSE
      BY DEF Elements
    <3>2. PICK j \in 1..(i - 1) : order[j] = n
      BY <3>1, <2>1 DEF SortInv, Listed
    <3>3. j \in 1..Len(order)
      BY <1>5
    <3> QED BY <3>2, <3>3, <1>4 DEF Elements
  <2> QED BY <2>2, <2>3
\* And all that it depends on is listed now.
<1>11. ASSUME NEW m \in ready, NEW e \in Dependencies, e.target_id = m
       PROVE  e.source_id \in Elements(order')
  <2>1. m \in NodeId /\ Cardinality(Unvisited(m)') = 0
    BY <1>9, DependencySets DEF Counts
  <2>2. Unvisited(m)' = {}
    <3>1. IsFiniteSet(Unvisited(m)')
      BY <1>8, DependencySets, FS_Difference
    <3> QED BY <2>1, <3>1, FS_EmptySet
  <2> QED BY <2>2, <1>2, <1>11 DEF Unvisited, Into
<1>12. /\ queue' \in Seq(ExecNodes) /\ Repetitionless(queue')
       /\ Elements(queue') = Elements(Tail(queue)) \cup ready
  <2>1. Elements(Tail(queue)) \cap Elements(s) = {}
    BY <1>3, <1>7, <1>10
  <2>2. /\ Tail(queue) \o s \in Seq(ExecNodes) /\ Repetitionless(Tail(queue) \o s)
        /\ Elements(Tail(queue) \o s) = Elements(Tail(queue)) \cup Elements(s)
    <3>1. /\ Tail(queue) \in Seq(ExecNodes) /\ s \in Seq(ExecNodes)
          /\ Repetitionless(Tail(queue)) /\ Repetitionless(s)
      BY <1>3, <1>7
    <3> DEFINE t == Tail(queue)
    <3>2. /\ t \in Seq(ExecNodes) /\ Repetitionless(t)
          /\ Elements(t) \cap Elements(s) = {}
      BY <2>1, <3>1
    <3> HIDE DEF n, dependents, ready, t
    <3>3. t \o s \in Seq(ExecNodes) /\ Elements(t \o s) = Elements(t) \cup Elements(s)
      BY <3>1, <3>2, ConcatElements
    <3>4. Repetitionless(t \o s)
      BY <3>1, <3>2, ConcatElements
    <3> QED BY <3>3, <3>4 DEF t
  <2> QED BY <2>2, <1>0, <1>7
<1>13. Lists'
  <2>1. Elements(order') \cap Elements(queue') = {}
    <3>1. n \notin ready
      BY <1>3, <1>10
    <3> QED BY <3>1, <1>3, <1>5, <1>10, <1>12 DEF SortInv, Lists
  <2>2. IsFiniteSet(Elements(order')) /\ Cardinality(Elements(order')) = Len(order')
    <3>1. IsFiniteSet(Elements(order)) /\ Cardinality(Elements(order)) = Len(order)
      BY DEF SortInv, Lists
    <3>2. /\ IsFiniteSet(Elements(order) \cup {n})
          /\ Cardinality(Elements(order) \cup {n}) = Cardinality(Elements(order)) + 1
      BY <3>1, <1>4, FS_AddElement
    <3> QED BY <3>1, <3>2, <1>5
  <2> QED BY <2>1, <2>2, <1>2, <1>5, <1>12 DEF Lists, Repetitionless, Elements
<1>14. Listed'
  <2>1. SUFFICES ASSUME NEW e \in Dependencies, NEW i \in 1..(Len(order) + 1),
                        order'[i] = e.target_id
                 PROVE  \E j \in 1..(i - 1) : order'[j] = e.source_id
    BY <1>2, <1>5 DEF Listed
  <2>2. CASE i \in 1..Len(order)
    <3>1. PICK j \in 1..(i - 1) : order[j] = e.source_id
      BY <2>1, <2>2, <1>5 DEF SortInv, Listed
    <3> QED BY <3>1, <2>2, <1>5
  <2>3. CASE i = Len(order) + 1
    <3>1. e.source_id \in Elements(order)
      BY <2>1, <2>3, <1>3, <1>5 DEF SortInv, Waiting
    <3>2. PICK j \in 1..Len(order) : order[j] = e.source_id
      BY <3>1 DEF Elements
    <3> QED BY <3>2, <2>3, <1>5
  <2> QED BY <2>2, <2>3, <1>5
<1>15. Waiting'
  <2>1. ASSUME NEW e \in Dependencies, e.target_id \in Elements(Tail(queue)) \cup ready
        PROVE  e.source_id \in Elements(order')
    BY <2>1, <1>3, <1>5, <1>11 DEF SortInv, Waiting
  <2> QED BY <2>1, <1>2, <1>12 DEF Waiting, Elements
<1>16. Ready'
  <2>1. ASSUME NEW m \in ExecNodes, in_degree'[m] = 0
        PROVE  m \in Elements(order') \cup Elements(queue')
    <3>1. CASE m \in dependents
      BY <3>1, <2>1, <1>12
    <3>2. CASE Between(n, m) = {}
      <4>1. in_degree[m] = 0
        <5>1. m \in NodeId /\ Unvisited(m)' = Unvisited(m)
          BY <3>2, <1>8, DependencySets
        <5> QED BY <5>1, <2>1, <1>9 DEF SortInv, Counts
      <4> QED BY <4>1, <1>3, <1>5, <1>12 DEF SortInv, Ready
    <3> QED BY <3>1, <3>2
  <2> QED BY <2>1, <1>2 DEF Ready, Elements
<1>17. KnotsOut'
  <2>1. SUFFICES ASSUME NEW S \in SUBSET ExecNodes, Knot(S), NEW m \in S \cap ready
                 PROVE  FALSE
    <3>1. ASSUME NEW S \in SUBSET ExecNodes, Knot(S), S \cap ready = {}
          PROVE  S \cap (Elements(order') \cup Elements(queue')) = {}
      BY <3>1, <1>3, <1>5, <1>12 DEF SortInv, KnotsOut
    <3> QED BY <3>1, <1>2 DEF KnotsOut, Knot, Elements
  <2>2. PICK k \in S : Between(k, m) # {}
    BY <2>1 DEF Knot
  <2>3. PICK e \in Dependencies : e.source_id = k /\ e.target_id = m
    BY <2>2 DEF Between, Into
  <2>4. k \in Elements(order')
    BY <2>3, <1>11
  <2>5. k \notin Elements(order) \cup Elements(queue)
    BY <2>1 DEF SortInv, KnotsOut
  <2> QED BY <2>4, <2>5, <1>3, <1>5
<1> QED BY <1>9, <1>13, <1>14, <1>15, <1>16, <1>17 DEF SortInv

-----------------------------------------------------------------------------
(* The end of the loop.                                                    *)

LEMMA KnotsAreCycles ==
  HasCycle <=> \E S \in SUBSET ExecNodes : S # {} /\ Knot(S)
BY DEF HasCycle, Knot

\* When nothing waits, what is not listed is a knot, and a knot is not listed.
LEMMA EndDetects ==
  ASSUME GraphFinite, SortInv, EndSort
  PROVE  IF HasCycle THEN phase' = "cycle"
         ELSE phase' = "sorted" /\ Elements(order') = ExecNodes
<1> DEFINE rest == ExecNodes \ Elements(order)
<1>1. /\ queue = <<>> /\ order' = order
      /\ phase' = IF Len(order) = Cardinality(ExecNodes) THEN "sorted" ELSE "cycle"
  BY DEF EndSort
<1>2. Elements(order) \in SUBSET ExecNodes
  <2>1. order \in Seq(ExecNodes)
    BY DEF SortInv, Lists
  <2>2. \A i \in 1..Len(order) : order[i] \in ExecNodes
    BY <2>1
  <2> QED BY <2>2 DEF Elements
<1>3. Len(order) = Cardinality(ExecNodes) <=> Elements(order) = ExecNodes
  BY <1>2, DependencySets, FS_Subset DEF SortInv, Lists
<1>4. Elements(queue) = {}
  BY <1>1 DEF Elements
<1>5. Knot(rest)
  <2>1. SUFFICES ASSUME NEW m \in rest
                 PROVE  \E k \in rest : Between(k, m) # {}
    BY DEF Knot
  <2>2. m \in NodeId /\ Cardinality(Unvisited(m)) # 0
    BY <1>4, DependencySets DEF SortInv, Ready, Counts
  <2>3. PICK e \in Unvisited(m) : TRUE
    BY <2>2, DependencySets, FS_EmptySet
  <2>4. e.source_id \in rest /\ e \in Between(e.source_id, m)
    BY <2>3, DependencySets DEF Unvisited, Between, Into
  <2> QED BY <2>4
<1>6. ASSUME NEW S \in SUBSET ExecNodes, Knot(S)
      PROVE  S \subseteq rest
  BY <1>6 DEF SortInv, KnotsOut
<1>7. HasCycle <=> rest # {}
  BY <1>5, <1>6, KnotsAreCycles
<1> QED BY <1>1, <1>2, <1>3, <1>7 DEF Elements

-----------------------------------------------------------------------------
(* The sort by itself.                                                     *)

SortSafe == GraphFinite /\ IF phase = "sorting" THEN SortInv ELSE SortTypeOK

LEMMA SortInvTyped ==
  ASSUME GraphFinite, SortInv
  PROVE  in_degree \in [NodeId -> Nat] /\ queue \in Seq(ExecNodes) /\ order \in Seq(ExecNodes)
<1>1. \A m \in NodeId : Cardinality(Unvisited(m)) \in Nat
  BY DependencySets, FS_CardinalityType
<1> QED BY <1>1 DEF SortInv, Counts, Lists

LEMMA SortSafeInductive ==
  /\ SortInit => SortSafe
  /\ SortSafe /\ [SortStep]_sortVars => SortSafe'
<1>1. ASSUME SortInit PROVE SortSafe
  <2>1. GraphFinite /\ phase = "idle"
    BY <1>1, InitialGraphsAssumption DEF SortInit, GraphFinite
  <2>2. SortTypeOK
    BY <1>1, EmptySeq DEF SortInit, SortTypeOK
  <2> QED BY <2>1, <2>2 DEF SortSafe
<1>2. ASSUME SortSafe, BeginSort \/ Visit PROVE SortSafe'
  <2>1. SortInv'
    BY <1>2, BeginEstablishes, VisitPreserves DEF SortSafe, Visit
  <2>2. GraphFinite' /\ phase' = "sorting"
    BY <1>2 DEF SortSafe, GraphFinite, BeginSort, Visit, graphVars
  <2> QED BY <2>1, <2>2 DEF SortSafe
<1>3. ASSUME SortSafe, EndSort PROVE SortSafe'
  <2>1. in_degree \in [NodeId -> Nat] /\ queue \in Seq(ExecNodes) /\ order \in Seq(ExecNodes)
    BY <1>3, SortInvTyped DEF SortSafe, EndSort
  <2> QED BY <2>1, <1>3 DEF SortSafe, SortTypeOK, GraphFinite, EndSort, ExecNodes, Exists
<1>4. ASSUME SortSafe, UNCHANGED sortVars PROVE SortSafe'
  <2>1. SortInv' = SortInv
    BY <1>4 DEF sortVars, SortInv, Lists, Counts, Listed, Waiting, Ready, KnotsOut, Knot,
       Repetitionless, Unvisited, Elements, ExecNodes, Exists, Dependencies, Into, Between
  <2> QED BY <2>1, <1>4 DEF sortVars, SortSafe, SortTypeOK, GraphFinite, ExecNodes, Exists
<1> QED BY <1>1, <1>2, <1>3, <1>4 DEF SortStep

\* The counts never become negative and only executable nodes are listed or wait,
\* with parallel edges as well (executor.py:71-100).
THEOREM SortTyped == SortSpec => []SortTypeOK
<1>1. SortSafe => SortTypeOK
  BY SortInvTyped DEF SortSafe, SortTypeOK
<1> QED BY <1>1, SortSafeInductive, PTL DEF SortSpec

\* At every turn of the loop, for any finite graph, nothing is listed before what
\* it depends on, listed twice, or both listed and waiting (executor.py:94-100).
THEOREM SortRespectsDependencies == SortSpec => []OrderRespectsDependencies
<1>1. SortSafe => OrderRespectsDependencies
  BY DEF SortSafe, SortInv, Lists, Listed, Repetitionless, OrderRespectsDependencies
<1> QED BY <1>1, SortSafeInductive, PTL DEF SortSpec

\* The comparison of two lengths at the end of the loop (executor.py:102) gives
\* up exactly on the graphs with a dependency cycle.
THEOREM SortDetectsCycles == SortSpec => CycleDetectedExactly
<1> DEFINE Detects ==
      phase = "sorting" /\ phase' # "sorting" =>
        IF HasCycle THEN phase' = "cycle"
        ELSE phase' = "sorted" /\ Elements(order') = ExecNodes
<1>1. ASSUME SortSafe, [SortStep]_sortVars PROVE [Detects]_sortVars
  <2>1. CASE BeginSort
    BY <2>1 DEF BeginSort
  <2>2. CASE Visit
    BY <2>2 DEF Visit
  <2>3. CASE EndSort
    BY <2>3, <1>1, EndDetects DEF SortSafe, EndSort
  <2> QED BY <1>1, <2>1, <2>2, <2>3 DEF SortStep
<1> QED BY <1>1, SortSafeInductive, PTL DEF SortSpec, CycleDetectedExactly

-----------------------------------------------------------------------------
(* A run over a growing graph.                                             *)

GraphSound == GraphTypeOK /\ GraphIntegrity /\ IsFiniteSet(edges)

Step == [order : Int, node_id : NodeId, inputs : SUBSET NodeId]

RunTyped ==
  /\ outputs \in [NodeId -> SUBSET NodeId]
  /\ steps \in Seq(Step)
  /\ pending.nodes \subseteq NodeId \X NodeType /\ pending.edges \subseteq Edge
  /\ pending.inputs \subseteq NodeId

\* The nodes that have run.
Before(k) == {order[j] : j \in 1..(k - 1)}

TracePrefix ==
  \A i \in 1..Len(steps) :
    /\ steps[i].node_id = order[i]
    /\ steps[i].order = i - 1
    /\ FeedsInPlan(order[i]) \subseteq steps[i].inputs
    /\ steps[i].inputs \subseteq Before(i)

\* The order goes through the nodes there were, and has what was planned in front.
Plan ==
  /\ order \in Seq(NodeId) /\ Repetitionless(order)
  /\ \A i \in 1..Len(order) : Exists(order[i])
  /\ planned \subseteq edges
  /\ \A e \in planned : e.target_id \in Elements(order)
  /\ \A e \in planned : \A i \in 1..Len(order) :
       order[i] = e.target_id => e.source_id \in Before(i)

\* Exactly the nodes that have run have an output, computed from planned inputs.
Progress ==
  /\ step_num \in 1..(Len(order) + 1)
  /\ Len(steps) = step_num - 1
  /\ \A m \in NodeId : outputs[m] # {} <=> m \in Before(step_num)
  /\ \A i \in 1..(step_num - 1) : ValuesArrive(order[i])
  /\ \A i \in 1..(step_num - 1) :
       nodes[order[i]].type = "RESULT" => \E j \in i..(step_num - 1) : result = order[j]

Gathered ==
  /\ step_num <= Len(order)
  /\ FeedsInPlan(Current) \subseteq pending.inputs
  /\ pending.inputs \subseteq Before(step_num)

Running == phase \in {"sorted", "transforming", "done"}

ExecInv ==
  /\ GraphSound
  /\ RunTyped
  /\ TracePrefix
  /\ phase = "sorting" =>
       /\ SortInv /\ planned = Dependencies
       /\ step_num = 1 /\ steps = <<>> /\ outputs = [n \in NodeId |-> {}]
  /\ Running => Plan /\ Progress
  /\ phase = "transforming" => Gathered
  /\ phase = "done" => step_num > Len(order)

-----------------------------------------------------------------------------
(* The graph grows by sound additions only.                                *)

LEMMA GrowsByNode ==
  ASSUME GraphSound, NEW n \in NodeId, NEW node \in Node, AddNode(n, node)
  PROVE  /\ GraphSound' /\ edges' = edges
         /\ \A m \in NodeId : Exists(m) => nodes'[m] = nodes[m]
<1>1. GraphTypeOK'
  BY DEF GraphSound, GraphTypeOK, AddNode
<1>2. \A m \in NodeId : Exists(m) => nodes'[m] = nodes[m]
  BY DEF GraphSound, GraphTypeOK, AddNode
<1>3. edges' = edges
  BY DEF AddNode
<1>4. NoDanglingEdge'
  BY <1>2, <1>3 DEF GraphSound, GraphTypeOK, GraphIntegrity, NoDanglingEdge, Exists, Edge
<1> QED BY <1>1, <1>2, <1>3, <1>4 DEF GraphSound, GraphIntegrity, EdgeKeysUnique

LEMMA GrowsByEdge ==
  ASSUME GraphSound, NEW e \in Edge, AddEdge(e)
  PROVE  GraphSound' /\ edges \subseteq edges' /\ nodes' = nodes
<1>1. edges' = edges \cup {e} /\ nodes' = nodes
  BY DEF AddEdge
<1>2. IsFiniteSet(edges')
  BY <1>1, FS_AddElement DEF GraphSound
<1>3. GraphTypeOK'
  BY <1>1 DEF GraphSound, GraphTypeOK
<1>4. NoDanglingEdge'
  BY <1>1 DEF GraphSound, GraphIntegrity, NoDanglingEdge, Exists, AddEdge, EdgeAccepted
<1>5. EdgeKeysUnique'
  BY <1>1 DEF GraphSound, GraphIntegrity, EdgeKeysUnique, EdgeKey, AddEdge, EdgeAccepted
<1> QED BY <1>1, <1>2, <1>3, <1>4, <1>5 DEF GraphSound, GraphIntegrity

\* What is planned and what has run is not affected by what the graph gains.
LEMMA GrowthKeepsRun ==
  ASSUME RunTyped, Plan, Progress, edges \subseteq edges',
         \A m \in NodeId : Exists(m) => nodes'[m] = nodes[m],
         UNCHANGED <<order, planned, step_num, outputs, steps, result>>
  PROVE  Plan' /\ Progress'
<1>1. \A i \in 1..Len(order) : order[i] \in NodeId /\ nodes'[order[i]] = nodes[order[i]]
  BY DEF Plan
<1>2. Plan'
  BY <1>1 DEF Plan, Repetitionless, Elements, Exists, Before
<1>3. step_num \in 1..(Len(order) + 1) /\ Len(order) \in Nat
  BY DEF Progress, Plan
<1>4. \A i \in 1..(step_num - 1) : nodes'[order[i]] = nodes[order[i]]
  BY <1>1, <1>3
<1>5. ASSUME NEW i \in 1..(step_num - 1) PROVE ValuesArrive(order[i])'
  <2>1. ValuesArrive(order[i])
    BY DEF Progress
  <2>2. FeedsInPlan(order[i])' = FeedsInPlan(order[i])
    BY DEF FeedsInPlan
  <2> QED BY <2>1, <2>2, <1>4 DEF ValuesArrive
<1>6. Progress'
  BY <1>4, <1>5 DEF Progress, Before
<1> QED BY <1>2, <1>6

-----------------------------------------------------------------------------
(* A node of the order runs.                                               *)

\* The planned inputs of the current node have run, and the live graph still has
\* the edges they come along.
LEMMA PlannedInputsRan ==
  ASSUME GraphSound, RunTyped, Plan, Progress, step_num <= Len(order)
  PROVE  /\ Current \in NodeId /\ Exists(Current)
         /\ FeedsInPlan(Current) \subseteq Before(step_num)
         /\ FeedsInPlan(Current) \subseteq Inputs(Current)
         /\ Inputs(Current) \subseteq Before(step_num)
         /\ Inputs(Current) \subseteq NodeId
<1>1. step_num \in 1..Len(order) /\ Len(order) \in Nat
  BY DEF Progress, Plan
<1>2. Current \in NodeId /\ Exists(Current)
  BY <1>1 DEF Plan, Current
<1>3. FeedsInPlan(Current) \subseteq Before(step_num)
  BY <1>1 DEF Plan, FeedsInPlan, Current
<1>4. Inputs(Current) \subseteq Before(step_num) /\ Inputs(Current) \subseteq NodeId
  BY DEF Inputs, Progress
<1>5. ASSUME NEW m \in FeedsInPlan(Current) PROVE m \in Inputs(Current)
  <2>1. PICK e \in planned : e.relation = "FEEDS" /\ e.target_id = Current /\ e.source_id = m
    BY DEF FeedsInPlan
  <2>2. e \in edges /\ m \in NodeId
    BY <2>1 DEF Plan, GraphSound, GraphTypeOK, Edge
  <2>3. outputs[m] # {}
    BY <1>3, <2>2 DEF Progress
  <2> QED BY <2>1, <2>2, <2>3 DEF Inputs
<1> QED BY <1>2, <1>3, <1>4, <1>5

\* Whatever order the inputs are in, the planned ones come first among those taken.
LEMMA PlannedAreTaken ==
  ASSUME NEW n \in NodeId, NEW inputs, FeedsInPlan(n) \subseteq inputs,
         NEW taken \in Taken(n, inputs)
  PROVE  /\ taken \subseteq inputs
         /\ Uses(nodes[n]) = "all" => taken = inputs
         /\ Uses(nodes[n]) = "first" /\ FeedsInPlan(n) # {} => \E m \in FeedsInPlan(n) : taken = {m}
         /\ Uses(nodes[n]) \in {"two", "both"} /\ Several(FeedsInPlan(n)) =>
              \E m, k \in FeedsInPlan(n) : m # k /\ taken = {m, k}
<1> DEFINE fed == FeedsInPlan(n)
<1>1. ASSUME NEW S, NEW one \in FirstOf(n, S)
      PROVE  one \subseteq S /\ (fed \cap S # {} => \E m \in fed \cap S : one = {m})
  BY <1>1 DEF FirstOf, Heads
<1>2. ASSUME NEW two \in FirstTwo(n, inputs)
      PROVE  two \subseteq inputs
             /\ (Several(fed) => \E m, k \in fed : m # k /\ two = {m, k})
  <2>1. CASE inputs = {}
    BY <1>2, <2>1 DEF FirstTwo, Several
  <2>2. CASE inputs # {}
    <3>1. PICK m \in Heads(n, inputs) :
            \E others \in FirstOf(n, inputs \ {m}) : two = {m} \cup others
      BY <1>2, <2>2 DEF FirstTwo
    <3>2. PICK others \in FirstOf(n, inputs \ {m}) : two = {m} \cup others
      BY <3>1
    <3>3. m \in inputs /\ (Several(fed) => m \in fed)
      BY <3>1 DEF Heads, Several
    <3>4. two \subseteq inputs
      BY <3>2, <3>3, <1>1
    <3>5. ASSUME Several(fed) PROVE \E k \in fed : m # k /\ two = {m, k}
      <4>1. fed \cap (inputs \ {m}) # {}
        BY <3>5 DEF Several
      <4>2. PICK k \in fed \cap (inputs \ {m}) : others = {k}
        BY <4>1, <1>1
      <4> QED BY <4>2, <3>2
    <3> QED BY <3>3, <3>4, <3>5
  <2> QED BY <2>1, <2>2
<1>3. CASE Uses(nodes[n]) = "all"
  BY <1>3 DEF Taken
<1>4. CASE Uses(nodes[n]) = "first"
  <2>1. taken \in FirstOf(n, inputs)
    BY <1>4 DEF Taken
  <2> QED BY <1>1, <1>4, <2>1
<1>5. CASE Uses(nodes[n]) = "two" \/ (Uses(nodes[n]) = "both" /\ Several(inputs))
  <2>1. taken \in FirstTwo(n, inputs)
    BY <1>5 DEF Taken
  <2> QED BY <1>2, <1>5, <2>1
<1>6. CASE /\ Uses(nodes[n]) \notin {"all", "first", "two"}
           /\ ~(Uses(nodes[n]) = "both" /\ Several(inputs))
  <2>1. taken = {}
    BY <1>6 DEF Taken
  <2>2. Several(fed) => Several(inputs)
    BY DEF Several
  <2> QED BY <1>6, <2>1, <2>2
<1> QED BY <1>3, <1>4, <1>5, <1>6

\* The end of a step, for the inputs gathered at its start.
LEMMA StepFinished ==
  ASSUME RunTyped, TracePrefix, Plan, Progress, step_num <= Len(order),
         NEW inputs \in SUBSET NodeId,
         FeedsInPlan(Current) \subseteq inputs, inputs \subseteq Before(step_num),
         FinishStep(inputs), UNCHANGED <<nodes, edges, order, planned>>
  PROVE  /\ TracePrefix' /\ Plan' /\ Progress'
         /\ outputs' \in [NodeId -> SUBSET NodeId] /\ steps' \in Seq(Step)
<1> DEFINE k == step_num
           step == [order |-> k - 1, node_id |-> Current, inputs |-> inputs]
<1>1. k \in 1..Len(order) /\ Len(order) \in Nat /\ Len(steps) = k - 1
  BY DEF Progress, Plan
<1>2. Current \in NodeId /\ Current = order[k]
  BY <1>1 DEF Plan, Current
<1>3. Current \notin Before(k)
  BY <1>1 DEF Before, Plan, Repetitionless, Current
<1>4. steps' = Append(steps, step) /\ step_num' = k + 1
  BY DEF FinishStep
<1>17. PICK taken \in Taken(Current, inputs) :
         outputs' = [outputs EXCEPT ![Current] = {Current} \cup UNION {outputs[m] : m \in taken}]
  BY DEF FinishStep
<1> DEFINE value == {Current} \cup UNION {outputs[m] : m \in taken}
           fed == FeedsInPlan(Current)
<1>18. /\ taken \subseteq inputs
       /\ Uses(nodes[Current]) = "all" => taken = inputs
       /\ Uses(nodes[Current]) = "first" /\ fed # {} => \E m \in fed : taken = {m}
       /\ Uses(nodes[Current]) \in {"two", "both"} /\ Several(fed) =>
            \E m, j \in fed : m # j /\ taken = {m, j}
  BY <1>2, PlannedAreTaken
<1>5. value \in SUBSET NodeId /\ Current \in value
  BY <1>2, <1>18 DEF RunTyped
<1>6. /\ outputs' \in [NodeId -> SUBSET NodeId]
      /\ outputs'[Current] = value
      /\ \A m \in NodeId : m # Current => outputs'[m] = outputs[m]
  BY <1>2, <1>17, <1>5 DEF RunTyped
<1>7. step \in Step /\ k - 1 \in Int
  BY <1>1, <1>2 DEF Step
<1>8. /\ steps' \in Seq(Step) /\ Len(steps') = k
      /\ \A i \in 1..(k - 1) : steps'[i] = steps[i]
      /\ steps'[k] = step
  BY <1>1, <1>4, <1>7, AppendProperties DEF RunTyped
<1>9. Before(k + 1) = Before(k) \cup {Current}
  <2>1. \A j \in 1..k : j \in 1..(k - 1) \/ j = k
    BY <1>1
  <2>2. 1..(k - 1) \subseteq 1..k /\ k \in 1..k /\ (k + 1) - 1 = k
    BY <1>1
  <2> QED BY <2>1, <2>2, <1>2 DEF Before
<1>10. Plan'
  BY DEF Plan, Repetitionless, Elements, Exists, Before
<1>11. \A i \in 1..k : FeedsInPlan(order[i])' = FeedsInPlan(order[i]) /\ Before(i)' = Before(i)
  BY DEF FeedsInPlan, Before
<1>12. TracePrefix'
  <2>1. ASSUME NEW i \in 1..(k - 1)
        PROVE  /\ steps'[i].node_id = order[i] /\ steps'[i].order = i - 1
               /\ FeedsInPlan(order[i]) \subseteq steps'[i].inputs
               /\ steps'[i].inputs \subseteq Before(i)
    BY <1>1, <1>8 DEF TracePrefix
  <2>2. /\ steps'[k].node_id = order[k] /\ steps'[k].order = k - 1
        /\ FeedsInPlan(order[k]) \subseteq steps'[k].inputs
        /\ steps'[k].inputs \subseteq Before(k)
    BY <1>2, <1>8
  <2>3. \A i \in 1..k : i \in 1..(k - 1) \/ i = k
    BY <1>1
  <2> QED BY <2>1, <2>2, <2>3, <1>8 DEF TracePrefix, FeedsInPlan, Before
<1>13. \A m \in NodeId : outputs'[m] # {} <=> m \in Before(k + 1)
  BY <1>5, <1>6, <1>9 DEF Progress
<1>14. ASSUME NEW i \in 1..k PROVE ValuesArrive(order[i])'
  <2>1. CASE i = k
    <3>1. \A m \in fed : m \in NodeId /\ outputs'[m] = outputs[m]
      BY <1>3, <1>6
    <3>2. Uses(nodes[Current]) = "all" => \A m \in fed : outputs'[m] \subseteq outputs'[Current]
      BY <3>1, <1>6, <1>18
    <3>3. Uses(nodes[Current]) = "first" /\ fed # {} =>
            \E m \in fed : outputs'[Current] = {Current} \cup outputs'[m]
      BY <3>1, <1>6, <1>18
    <3>4. ASSUME Uses(nodes[Current]) \in {"two", "both"}, Several(fed)
          PROVE  \E m, j \in fed :
                   m # j /\ outputs'[Current] = {Current} \cup outputs'[m] \cup outputs'[j]
      <4>1. PICK m \in fed, j \in fed : m # j /\ taken = {m, j}
        BY <3>4, <1>18
      <4>2. value = {Current} \cup outputs[m] \cup outputs[j]
        BY <4>1
      <4> QED BY <4>1, <4>2, <3>1, <1>6
    <3>5. order'[i] = Current /\ FeedsInPlan(order[i])' = fed
      BY <2>1, <1>2, <1>11
    <3>6. nodes'[order'[i]] = nodes[Current]
      BY <3>5
    <3> QED BY <3>2, <3>3, <3>4, <3>5, <3>6, <2>1, <1>2 DEF ValuesArrive
  <2>2. CASE i \in 1..(k - 1)
    <3>1. order[i] \in NodeId /\ order[i] # Current
      BY <2>2, <1>1, <1>3 DEF Plan, Before
    <3>2. ASSUME NEW m \in FeedsInPlan(order[i]) PROVE outputs'[m] = outputs[m]
      <4>1. m \in Before(i)
        BY <2>2, <1>1, <3>2 DEF TracePrefix
      <4>2. m \in Before(k) /\ m \in NodeId
        BY <4>1, <2>2, <1>1 DEF Before, Plan
      <4> QED BY <4>2, <1>3, <1>6
    <3>3. outputs'[order[i]] = outputs[order[i]] /\ order'[i] = order[i]
      BY <3>1, <1>6
    <3>4. nodes'[order'[i]] = nodes[order[i]] /\ FeedsInPlan(order[i])' = FeedsInPlan(order[i])
      BY <1>11, <3>3
    <3>5. ValuesArrive(order[i])
      BY <2>2 DEF Progress
    <3> QED BY <3>2, <3>3, <3>4, <3>5 DEF ValuesArrive
  <2> QED BY <2>1, <2>2, <1>1
<1>15. ASSUME NEW i \in 1..k, nodes[order[i]].type = "RESULT"
       PROVE  \E j \in i..k : result' = order[j]
  <2>1. CASE nodes[Current].type = "RESULT"
    BY <2>1, <1>1, <1>2 DEF FinishStep
  <2>2. CASE nodes[Current].type # "RESULT"
    <3>1. i \in 1..(k - 1) /\ result' = result
      BY <2>2, <1>1, <1>2, <1>15 DEF FinishStep
    <3>2. PICK j \in i..(k - 1) : result = order[j]
      BY <3>1, <1>15 DEF Progress
    <3> QED BY <3>1, <3>2, <1>1
  <2> QED BY <2>1, <2>2
<1>16. Progress'
  <2>1. step_num' \in 1..(Len(order') + 1) /\ Len(steps') = step_num' - 1
    BY <1>1, <1>4, <1>8
  <2>2. \A m \in NodeId : outputs'[m] # {} <=> m \in Before(step_num)'
    BY <1>4, <1>13 DEF Before
  <2>3. \A i \in 1..(step_num' - 1) : ValuesArrive(order[i])'
    BY <1>1, <1>4, <1>14
  <2>4. \A i \in 1..(step_num' - 1) :
          nodes'[order'[i]].type = "RESULT" => \E j \in i..(step_num' - 1) : result' = order'[j]
    BY <1>1, <1>4, <1>15
  <2> QED BY <2>1, <2>2, <2>3, <2>4 DEF Progress
<1> QED BY <1>6, <1>8, <1>10, <1>12, <1>16

-----------------------------------------------------------------------------
(* The steps of a run.                                                     *)

LEMMA SoundIsFinite ==
  ASSUME GraphSound
  PROVE  GraphFinite
BY DEF GraphSound, GraphTypeOK, GraphFinite

LEMMA NothingTyped ==
  /\ Nothing.nodes \subseteq NodeId \X NodeType /\ Nothing.edges \subseteq Edge
  /\ Nothing.inputs \subseteq NodeId
BY DEF Nothing

LEMMA ExecuteStep ==
  ASSUME ExecInv, Execute
  PROVE  ExecInv'
<1>1. SortInv'
  BY SoundIsFinite, BeginEstablishes DEF ExecInv, Execute
<1>2. nodes' = nodes /\ edges' = edges /\ phase' = "sorting"
  BY DEF Execute, BeginSort, graphVars
<1>3. GraphSound'
  BY <1>2 DEF ExecInv, GraphSound, GraphTypeOK, GraphIntegrity, NoDanglingEdge,
     EdgeKeysUnique, Exists
<1>4. Dependencies' = Dependencies
  BY <1>2 DEF Dependencies, ExecNodes, Exists
<1>5. /\ planned' = Dependencies' /\ step_num' = 1 /\ steps' = <<>>
      /\ outputs' = [n \in NodeId |-> {}] /\ pending' = Nothing
  BY <1>4 DEF Execute
<1>6. TracePrefix'
  BY <1>5 DEF TracePrefix
<1>7. RunTyped'
  BY <1>5, NothingTyped, EmptySeq DEF RunTyped
<1> QED BY <1>1, <1>2, <1>3, <1>5, <1>6, <1>7 DEF ExecInv, Running

\* A sort that ends well hands over an order of all nodes, dependencies first.
LEMMA SortEnds ==
  ASSUME ExecInv, EndSort, UNCHANGED <<runVars, planned, runs>>, phase' = "sorted"
  PROVE  Plan' /\ Progress'
<1>1. /\ SortInv /\ planned = Dependencies /\ step_num = 1 /\ steps = <<>>
      /\ outputs = [n \in NodeId |-> {}] /\ GraphFinite
  BY SoundIsFinite DEF ExecInv, EndSort
<1>2. order' = order /\ nodes' = nodes /\ edges' = edges
  BY DEF EndSort
<1>3. Elements(order) = ExecNodes
  BY <1>1, <1>2, EndDetects
<1>4. order \in Seq(ExecNodes) /\ Repetitionless(order)
  BY <1>1 DEF SortInv, Lists
<1>5. /\ \A i \in 1..Len(order) : order[i] \in ExecNodes
      /\ Len(order) \in Nat /\ order \in Seq(NodeId)
  BY <1>1, <1>4, DependencySets, SeqMonotonic
<1>6. Plan
  <2>1. \A i \in 1..Len(order) : Exists(order[i])
    BY <1>5 DEF ExecNodes
  <2>2. planned \subseteq edges /\ \A e \in planned : e.target_id \in Elements(order)
    BY <1>1, <1>3 DEF Dependencies
  <2>3. ASSUME NEW e \in planned, NEW i \in 1..Len(order), order[i] = e.target_id
        PROVE  e.source_id \in Before(i)
    BY <2>3, <1>1 DEF SortInv, Listed, Before
  <2> QED BY <1>4, <1>5, <2>1, <2>2, <2>3 DEF Plan
<1>7. Progress
  BY <1>1, <1>5 DEF Progress, Before
<1>8. Plan' = Plan /\ Progress' = Progress
  BY <1>2 DEF runVars, Plan, Progress, Repetitionless, Elements, Exists, Before, FeedsInPlan,
     ValuesArrive
<1> QED BY <1>6, <1>7, <1>8

LEMMA SortStepKeeps ==
  ASSUME ExecInv, Sort
  PROVE  ExecInv'
<1>1. phase = "sorting" /\ SortInv /\ GraphFinite
  BY SoundIsFinite DEF ExecInv, Sort, Visit, EndSort
<1>2. nodes' = nodes /\ edges' = edges /\ UNCHANGED <<runVars, planned, runs>>
  BY DEF Sort, Visit, EndSort
<1>3. GraphSound' /\ RunTyped'
  BY <1>2 DEF ExecInv, GraphSound, GraphTypeOK, GraphIntegrity, NoDanglingEdge,
     EdgeKeysUnique, Exists, RunTyped, runVars
<1>4. Dependencies' = Dependencies
  BY <1>2 DEF Dependencies, ExecNodes, Exists
<1>5. /\ planned' = Dependencies' /\ step_num' = 1 /\ steps' = <<>>
      /\ outputs' = [n \in NodeId |-> {}]
  BY <1>1, <1>2, <1>4 DEF ExecInv, runVars
<1>6. TracePrefix'
  BY <1>5 DEF TracePrefix
<1>7. CASE Visit
  <2>1. SortInv' /\ phase' = "sorting"
    BY <1>1, <1>7, VisitPreserves DEF Visit
  <2> QED BY <2>1, <1>3, <1>5, <1>6 DEF ExecInv, Running
<1>8. CASE EndSort
  <2>1. phase' \in {"sorted", "cycle"}
    BY <1>8 DEF EndSort
  <2>2. phase' = "sorted" => Plan' /\ Progress'
    BY <1>2, <1>8, SortEnds
  <2> QED BY <2>1, <2>2, <1>3, <1>6 DEF ExecInv, Running
<1> QED BY <1>7, <1>8 DEF Sort

LEMMA ExecuteNodeKeeps ==
  ASSUME ExecInv, ExecuteNode
  PROVE  ExecInv'
<1>1. phase = "sorted" /\ step_num <= Len(order) /\ FinishStep(Inputs(Current))
  BY DEF ExecuteNode
<1>2. UNCHANGED <<nodes, edges, order, planned, pending, phase>>
  BY DEF ExecuteNode, sortVars
<1>3. GraphSound /\ RunTyped /\ TracePrefix /\ Plan /\ Progress
  BY <1>1 DEF ExecInv, Running
<1>4. /\ FeedsInPlan(Current) \subseteq Inputs(Current)
      /\ Inputs(Current) \subseteq Before(step_num) /\ Inputs(Current) \in SUBSET NodeId
  BY <1>1, <1>3, PlannedInputsRan
<1>5. /\ TracePrefix' /\ Plan' /\ Progress'
      /\ outputs' \in [NodeId -> SUBSET NodeId] /\ steps' \in Seq(Step)
  BY <1>1, <1>2, <1>3, <1>4, StepFinished
<1>6. GraphSound'
  BY <1>2, <1>3 DEF GraphSound, GraphTypeOK, GraphIntegrity, NoDanglingEdge,
     EdgeKeysUnique, Exists
<1>7. RunTyped'
  BY <1>2, <1>3, <1>5 DEF RunTyped
<1> QED BY <1>1, <1>2, <1>5, <1>6, <1>7 DEF ExecInv, Running

\* What a transform returns is made of ids and types, whatever it was given.
LEMMA ResultsTyped ==
  ASSUME NEW name, NEW inputs \in SUBSET NodeId, NEW r \in TransformResults(name, inputs)
  PROVE  r.nodes \subseteq NodeId \X NodeType /\ r.edges \subseteq Edge
<1>1. CASE name = "duplicate"
  BY <1>1, ExecutorAssumption DEF TransformResults
<1>2. CASE name = "summarize"
  BY <1>2, ExecutorAssumption DEF TransformResults
<1>3. CASE name \notin {"duplicate", "summarize"}
  BY <1>3, ExecutorAssumption DEF TransformResults
<1> QED BY <1>1, <1>2, <1>3

LEMMA BeginTransformKeeps ==
  ASSUME ExecInv, BeginTransform
  PROVE  ExecInv'
<1>1. phase = "sorted" /\ step_num <= Len(order) /\ phase' = "transforming"
  BY DEF BeginTransform
<1>2. UNCHANGED <<nodes, edges, order, planned, step_num, outputs, steps, result>>
  BY DEF BeginTransform
<1>3. GraphSound /\ RunTyped /\ TracePrefix /\ Plan /\ Progress
  BY <1>1 DEF ExecInv, Running
<1>4. /\ FeedsInPlan(Current) \subseteq Inputs(Current)
      /\ Inputs(Current) \subseteq Before(step_num) /\ Inputs(Current) \in SUBSET NodeId
  BY <1>1, <1>3, PlannedInputsRan
<1>5. PICK name \in TransformFn(nodes[Current]) :
        \E r \in TransformResults(name, Inputs(Current)) :
          pending' = [nodes |-> r.nodes, edges |-> r.edges, inputs |-> Inputs(Current)]
  BY DEF BeginTransform
<1>6. PICK r \in TransformResults(name, Inputs(Current)) :
        pending' = [nodes |-> r.nodes, edges |-> r.edges, inputs |-> Inputs(Current)]
  BY <1>5
<1>7. RunTyped'
  BY <1>2, <1>3, <1>4, <1>6, ResultsTyped DEF RunTyped
<1>8. Gathered'
  BY <1>1, <1>2, <1>4, <1>6 DEF Gathered, FeedsInPlan, Before, Current
<1>9. GraphSound'
  BY <1>2, <1>3 DEF GraphSound, GraphTypeOK, GraphIntegrity, NoDanglingEdge,
     EdgeKeysUnique, Exists
<1>10. TracePrefix' = TracePrefix /\ Plan' = Plan /\ Progress' = Progress
  BY <1>2 DEF TracePrefix, Plan, Progress, Repetitionless, Elements, Exists, Before,
     FeedsInPlan, ValuesArrive
<1> QED BY <1>1, <1>3, <1>7, <1>8, <1>9, <1>10 DEF ExecInv, Running

\* The part of a transforming run that an addition does not touch.
LEMMA AdditionKeeps ==
  ASSUME ExecInv, phase = "transforming", phase' = phase, GraphSound', edges \subseteq edges',
         \A m \in NodeId : Exists(m) => nodes'[m] = nodes[m],
         pending'.nodes \subseteq pending.nodes, pending'.edges \subseteq pending.edges,
         pending'.inputs = pending.inputs,
         UNCHANGED <<order, step_num, outputs, steps, result, planned>>
  PROVE  ExecInv'
<1>1. RunTyped /\ TracePrefix /\ Plan /\ Progress /\ Gathered
  BY DEF ExecInv, Running
<1>2. Plan' /\ Progress'
  BY <1>1, GrowthKeepsRun
<1>3. RunTyped' /\ TracePrefix' /\ Gathered'
  BY <1>1 DEF RunTyped, TracePrefix, Gathered, FeedsInPlan, Before, Current
<1> QED BY <1>2, <1>3 DEF ExecInv, Running

LEMMA ApplyKeeps ==
  ASSUME ExecInv, ApplyNode \/ ApplyEdge
  PROVE  ExecInv'
<1>1. phase = "transforming" /\ phase' = phase
      /\ UNCHANGED <<order, step_num, outputs, steps, result, planned>>
  BY DEF ApplyNode, ApplyEdge
<1>2. GraphSound /\ RunTyped /\ Plan /\ Progress /\ Gathered
  BY <1>1 DEF ExecInv, Running
<1>3. Stamp \in Creator
  BY <1>2, ExecutorAssumption, PlannedInputsRan DEF Gathered, Stamp
<1>4. CASE ApplyNode
  <2>1. PICK pair \in pending.nodes :
          /\ AddNode(pair[1], Stamped(pair))
          /\ pending' = [pending EXCEPT !.nodes = @ \ {pair}]
    BY <1>4 DEF ApplyNode
  <2>2. pair[1] \in NodeId /\ Stamped(pair) \in Node
    BY <1>2, <1>3 DEF RunTyped, Stamped, Node
  <2>3. GraphSound' /\ edges' = edges /\ \A m \in NodeId : Exists(m) => nodes'[m] = nodes[m]
    BY <1>2, <2>1, <2>2, GrowsByNode
  <2>4. /\ pending'.nodes \subseteq pending.nodes /\ pending'.edges \subseteq pending.edges
        /\ pending'.inputs = pending.inputs
    BY <2>1
  <2> QED BY <1>1, <2>3, <2>4, AdditionKeeps
<1>5. CASE ApplyEdge
  <2>1. PICK e \in pending.edges :
          /\ AddEdge([e EXCEPT !.created_by = Stamp])
          /\ pending' = [pending EXCEPT !.edges = @ \ {e}]
    BY <1>5 DEF ApplyEdge
  <2>2. [e EXCEPT !.created_by = Stamp] \in Edge
    BY <1>2, <1>3 DEF RunTyped, Edge
  <2>3. GraphSound' /\ edges \subseteq edges' /\ nodes' = nodes
    BY <1>2, <2>1, <2>2, GrowsByEdge
  <2>4. /\ pending'.nodes \subseteq pending.nodes /\ pending'.edges \subseteq pending.edges
        /\ pending'.inputs = pending.inputs
    BY <2>1
  <2> QED BY <1>1, <2>3, <2>4, AdditionKeeps
<1> QED BY <1>4, <1>5

LEMMA EndTransformKeeps ==
  ASSUME ExecInv, EndTransform
  PROVE  ExecInv'
<1>1. /\ phase = "transforming" /\ phase' = "sorted" /\ pending' = Nothing
      /\ FinishStep(pending.inputs) /\ UNCHANGED <<nodes, edges, order, planned>>
  BY DEF EndTransform
<1>2. GraphSound /\ RunTyped /\ TracePrefix /\ Plan /\ Progress /\ Gathered
  BY <1>1 DEF ExecInv, Running
<1>3. /\ TracePrefix' /\ Plan' /\ Progress'
      /\ outputs' \in [NodeId -> SUBSET NodeId] /\ steps' \in Seq(Step)
  BY <1>1, <1>2, StepFinished DEF Gathered, RunTyped
<1>4. GraphSound' /\ RunTyped'
  BY <1>1, <1>2, <1>3, NothingTyped DEF GraphSound, GraphTypeOK, GraphIntegrity,
     NoDanglingEdge, EdgeKeysUnique, Exists, RunTyped
<1> QED BY <1>1, <1>3, <1>4 DEF ExecInv, Running

\* Steps that change nothing but where execute() is.
LEMMA PhaseKeeps ==
  ASSUME ExecInv,
         UNCHANGED <<nodes, edges, in_degree, queue, order, runVars, planned>>,
         \/ phase' = phase
         \/ phase' \in {"raised", "idle"}
         \/ phase = "sorted" /\ phase' = "done" /\ step_num > Len(order)
  PROVE  ExecInv'
<1>1. GraphSound' = GraphSound /\ RunTyped' = RunTyped /\ TracePrefix' = TracePrefix
      /\ Plan' = Plan /\ Progress' = Progress /\ Gathered' = Gathered
  BY DEF runVars, GraphSound, GraphTypeOK, GraphIntegrity, NoDanglingEdge, EdgeKeysUnique,
     Exists, RunTyped, TracePrefix, Plan, Progress, Gathered, Repetitionless, Elements,
     Before, FeedsInPlan, ValuesArrive, Current
<1>2. SortInv' = SortInv /\ Dependencies' = Dependencies
  BY DEF SortInv, Lists, Counts, Listed, Waiting, Ready, KnotsOut, Knot,
     Repetitionless, Unvisited, Elements, ExecNodes, Exists, Dependencies, Into, Between
<1> QED BY <1>1, <1>2 DEF ExecInv, Running, runVars

LEMMA ExecInvInductive ==
  /\ ExecInit => ExecInv
  /\ ExecInv /\ [ExecNext]_execVars => ExecInv'
<1>1. ASSUME ExecInit PROVE ExecInv
  <2>1. PICK g \in InitialGraphs : nodes = g.nodes /\ edges = g.edges
    BY <1>1 DEF ExecInit, SortInit
  <2>2. GraphSound
    BY <2>1, InitialGraphsAssumption DEF GraphSound, GraphTypeOK, GraphIntegrity,
       NoDanglingEdge, EdgeKeysUnique, Exists
  <2>3. steps = <<>> /\ phase = "idle" /\ pending = Nothing
        /\ outputs = [n \in NodeId |-> {}]
    BY <1>1 DEF ExecInit, SortInit
  <2>4. RunTyped /\ TracePrefix
    BY <2>3, NothingTyped, EmptySeq DEF RunTyped, TracePrefix
  <2> QED BY <2>2, <2>3, <2>4 DEF ExecInv, Running
<1>2. ASSUME ExecInv, ExecNext PROVE ExecInv'
  <2>1. CASE Execute
    BY <1>2, <2>1, ExecuteStep
  <2>2. CASE Again
    BY <1>2, <2>2, PhaseKeeps DEF Again
  <2>3. CASE Sort
    BY <1>2, <2>3, SortStepKeeps
  <2>4. CASE ExecuteNode
    BY <1>2, <2>4, ExecuteNodeKeeps
  <2>5. CASE BeginTransform
    BY <1>2, <2>5, BeginTransformKeeps
  <2>6. CASE ApplyNode \/ ApplyEdge
    BY <1>2, <2>6, ApplyKeeps
  <2>7. CASE ComputationRaises \/ TransformRaises
    BY <1>2, <2>7, PhaseKeeps DEF ComputationRaises, TransformRaises
  <2>8. CASE EndTransform
    BY <1>2, <2>8, EndTransformKeeps
  <2>9. CASE Return
    BY <1>2, <2>9, PhaseKeeps DEF Return
  <2> QED BY <1>2, <2>1, <2>2, <2>3, <2>4, <2>5, <2>6, <2>7, <2>8, <2>9 DEF ExecNext, RunStep
<1>3. ASSUME ExecInv, UNCHANGED execVars PROVE ExecInv'
  BY <1>3, PhaseKeeps DEF execVars, sortVars
<1> QED BY <1>1, <1>2, <1>3

LEMMA ExecTypeInductive ==
  /\ ExecInit => ExecTypeOK
  /\ ExecInv /\ ExecTypeOK /\ [ExecNext]_execVars => ExecTypeOK'
<1>1. ASSUME ExecInit PROVE ExecTypeOK
  <2>1. step_num = 1 /\ Len(order) = 0 /\ runs = 0
    BY <1>1 DEF ExecInit, SortInit
  <2> QED BY <1>1, <2>1, ExecutorAssumption, NothingTyped DEF ExecInit, SortInit, ExecTypeOK
<1>2. ASSUME ExecInv, ExecTypeOK, Execute PROVE ExecTypeOK'
  <2>1. /\ step_num' = 1 /\ Len(order') = 0 /\ phase' = "sorting" /\ result' = NoNode
        /\ outputs' = [n \in NodeId |-> {}] /\ pending' = Nothing
        /\ runs < MaxRuns /\ runs' = runs + 1
    BY <1>2 DEF Execute, BeginSort
  <2>2. planned' \subseteq Edge
    BY <1>2 DEF Execute, ExecInv, GraphSound, GraphTypeOK, Dependencies
  <2> QED BY <1>2, <2>1, <2>2, ExecutorAssumption, NothingTyped DEF ExecTypeOK
<1>3. ASSUME ExecInv, ExecTypeOK, Sort PROVE ExecTypeOK'
  <2>1. UNCHANGED <<runVars, planned, runs>> /\ step_num = 1
    BY <1>3 DEF Sort, Visit, EndSort, ExecInv
  <2>2. Len(order') \in Nat /\ phase' \in {"sorting", "sorted", "cycle"}
    <3>1. CASE Visit
      <4>1. SortInv'
        BY <1>3, <3>1, SoundIsFinite, VisitPreserves DEF ExecInv, Visit
      <4> QED BY <4>1, <3>1 DEF SortInv, Lists, Visit
    <3>2. CASE EndSort
      BY <1>3, <3>2 DEF ExecInv, SortInv, Lists, EndSort
    <3> QED BY <1>3, <3>1, <3>2 DEF Sort
  <2> QED BY <1>3, <2>1, <2>2 DEF ExecTypeOK, runVars
<1>4. ASSUME ExecInv, ExecTypeOK, ExecuteNode \/ EndTransform PROVE ExecTypeOK'
  <2>1. PICK inputs : FinishStep(inputs)
    BY <1>4 DEF ExecuteNode, EndTransform
  <2>2. step_num <= Len(order) /\ Len(order) \in Nat /\ Current \in NodeId
    <3>1. step_num <= Len(order)
      BY <1>4 DEF ExecuteNode, EndTransform, ExecInv, Gathered
    <3>2. GraphSound /\ RunTyped /\ Plan /\ Progress
      BY <1>4 DEF ExecuteNode, EndTransform, ExecInv, Running
    <3> QED BY <3>1, <3>2, PlannedInputsRan DEF Plan
  <2>3. step_num' \in 1..(Len(order') + 1) /\ result' \in NodeId \cup {NoNode}
    BY <1>4, <2>1, <2>2 DEF FinishStep, ExecTypeOK, ExecuteNode, EndTransform, sortVars
  <2>4. /\ phase' = "sorted" /\ UNCHANGED <<planned, runs>>
        /\ outputs' \in [NodeId -> SUBSET NodeId] /\ pending'.edges \subseteq Edge
    <3>1. ExecInv'
      BY <1>4, ExecuteNodeKeeps, EndTransformKeeps
    <3> QED BY <1>4, <3>1 DEF ExecuteNode, EndTransform, sortVars, ExecInv, RunTyped
  <2> QED BY <1>4, <2>3, <2>4 DEF ExecTypeOK
<1>5. ASSUME ExecInv, ExecTypeOK, BeginTransform \/ ApplyNode \/ ApplyEdge PROVE ExecTypeOK'
  <2>1. ExecInv'
    BY <1>5, BeginTransformKeeps, ApplyKeeps
  <2>2. /\ phase' = "transforming"
        /\ UNCHANGED <<order, step_num, outputs, result, planned, runs>>
    BY <1>5 DEF BeginTransform, ApplyNode, ApplyEdge
  <2> QED BY <1>5, <2>1, <2>2 DEF ExecTypeOK, ExecInv, RunTyped
<1>6. ASSUME ExecTypeOK,
             Again \/ ComputationRaises \/ TransformRaises \/ Return \/ UNCHANGED execVars
      PROVE  ExecTypeOK'
  BY <1>6 DEF ExecTypeOK, Again, ComputationRaises, TransformRaises, Return, execVars,
     sortVars, runVars
<1> QED BY <1>1, <1>2, <1>3, <1>4, <1>5, <1>6 DEF ExecNext, RunStep

-----------------------------------------------------------------------------
\* The position stays within the order, outputs are lineages and the number of
\* calls is bounded, in every phase (executor.py:228-290).
THEOREM ExecutorTyped == ExecSpec => []ExecTypeOK
<1>1. ExecInit => ExecInv /\ ExecTypeOK
  BY ExecInvInductive, ExecTypeInductive
<1>2. (ExecInv /\ ExecTypeOK) /\ [ExecNext]_execVars => (ExecInv /\ ExecTypeOK)'
  BY ExecInvInductive, ExecTypeInductive
<1> QED BY <1>1, <1>2, PTL DEF ExecSpec

\* Whatever a transform has added to the graph since the last call, the order of
\* the next one puts dependencies first, without repetition (executor.py:94-100).
THEOREM RunsRespectDependencies == ExecSpec => []OrderRespectsDependencies
<1>1. ExecInv => OrderRespectsDependencies
  BY DEF ExecInv, SortInv, Lists, Listed, Repetitionless, OrderRespectsDependencies
<1> QED BY <1>1, ExecInvInductive, PTL DEF ExecSpec

\* Every call gives up exactly if the graph has a dependency cycle by then
\* (executor.py:102).
THEOREM RunsDetectCycles == ExecSpec => CycleDetectedExactly
<1> DEFINE Detects ==
      phase = "sorting" /\ phase' # "sorting" =>
        IF HasCycle THEN phase' = "cycle"
        ELSE phase' = "sorted" /\ Elements(order') = ExecNodes
<1>1. ASSUME ExecInv, [ExecNext]_execVars PROVE [Detects]_sortVars
  <2>1. CASE EndSort
    BY <2>1, <1>1, SoundIsFinite, EndDetects DEF ExecInv, EndSort
  <2>2. CASE Visit
    BY <2>2 DEF Visit
  <2>3. CASE UNCHANGED execVars
    BY <2>3 DEF execVars
  <2>4. CASE Execute \/ Again \/ ExecuteNode \/ BeginTransform \/ ApplyNode \/ ApplyEdge
             \/ ComputationRaises \/ TransformRaises \/ EndTransform \/ Return
    BY <2>4 DEF Execute, BeginSort, Again, ExecuteNode, BeginTransform, ApplyNode, ApplyEdge,
       ComputationRaises, TransformRaises, EndTransform, Return
  <2> QED BY <1>1, <2>1, <2>2, <2>3, <2>4 DEF ExecNext, RunStep, Sort
<1> QED BY <1>1, ExecInvInductive, PTL DEF ExecSpec, CycleDetectedExactly

\* Every node of the order runs once, in order, with the planned inputs and only
\* outputs of earlier nodes, although the graph grows (executor.py:245-250).
THEOREM TraceIsThePlan == ExecSpec => []TraceFollowsPlan
<1>1. ASSUME ExecInv PROVE TraceFollowsPlan
  <2>1. phase = "done" => Len(steps) = Len(order)
    <3>1. SUFFICES ASSUME phase = "done" PROVE Len(steps) = Len(order)
      OBVIOUS
    <3>2. Plan /\ Progress /\ step_num > Len(order)
      BY <1>1, <3>1 DEF ExecInv, Running
    <3>3. Len(order) \in Nat /\ step_num = Len(order) + 1
      BY <3>2 DEF Plan, Progress
    <3> QED BY <3>2, <3>3 DEF Progress
  <2> QED BY <2>1, <1>1 DEF ExecInv, TracePrefix, Before, TraceFollowsPlan
<1> QED BY <1>1, ExecInvInductive, PTL DEF ExecSpec

\* At the end of a run every node that combines its inputs has the values of all
\* its planned ones, one that takes the first or the first two has planned ones
\* whatever edges transforms added, and the result is that of the last RESULT node
\* (executor.py:112-207, 279-280).
THEOREM EveryValueArrives == ExecSpec => []ResultsComplete
<1>1. ASSUME ExecInv, phase = "done" PROVE ResultsComplete
  <2>1. Plan /\ Progress /\ step_num > Len(order)
    BY <1>1 DEF ExecInv, Running
  <2>2. Len(order) \in Nat /\ step_num - 1 = Len(order)
    BY <2>1 DEF Plan, Progress
  <2> QED BY <2>1, <2>2 DEF Progress, ResultsComplete
<1>2. ExecInv => ResultsComplete
  BY <1>1 DEF ResultsComplete
<1> QED BY <1>2, ExecInvInductive, PTL DEF ExecSpec

\* Whatever transforms return and wherever a run fails, the graph it leaves has
\* no dangling edge and no edge twice (graph.py:133-145).
THEOREM RunsLeaveSoundGraphs == ExecSpec => []RunsKeepIntegrity
<1>1. ExecInv => RunsKeepIntegrity
  BY DEF ExecInv, GraphSound, RunsKeepIntegrity
<1> QED BY <1>1, ExecInvInductive, PTL DEF ExecSpec
=============================================================================
