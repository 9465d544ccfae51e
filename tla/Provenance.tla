----------------------------- MODULE Provenance -----------------------------
(***************************************************************************)
(* The audited graph: ProvenanceGraph of src/sgs/provenance.py wraps an    *)
(* SGS, passes every mutation on to it and appends an entry to a hash      *)
(* chain when the mutation succeeded.  Agents and other holders write      *)
(* through it (examples/full_pipeline.py, tests/test_provenance.py).       *)
(* ProvenanceGraph starts with an empty ledger over an empty graph.        *)
(***************************************************************************)
EXTENDS Agents, Sequences

CONSTANTS
  Digest,          \* SHA-256 digests
  NoDigest,        \* "" in front of the first entry
  Hash(_, _),      \* _compute_hash: the entry's fields, the previous digest
  MaxEntries       \* bound on the ledger's length

Operation == {"add_node", "remove_node", "add_edge", "remove_edge", "update_node"}

EdgeId == NodeId \X Relation \X NodeId

\* What _compute_hash is given besides the previous hash.  The timestamp and
\* the detail dictionary are determined by, or do not influence, the rest.
Content == [sequence : Nat, operation : Operation, agent_id : Creator,
            target_id : NodeId \cup EdgeId]

\* The only thing assumed of the hash: it returns a digest.
ASSUME HashAssumption ==
  \A c \in [sequence : 0..MaxEntries, operation : Operation,
            agent_id : Creator, target_id : NodeId \cup EdgeId],
     d \in Digest \cup {NoDigest} : Hash(c, d) \in Digest

ASSUME MaxEntriesAssumption == MaxEntries \in Nat

VARIABLES
  ledger,     \* _ledger
  sequence    \* _sequence

provenanceVars == <<nodes, edges, ledger, sequence>>

Entry == [content : Content, previous_hash : Digest \cup {NoDigest}, hash : Digest]

LastHash == IF ledger = <<>> THEN NoDigest ELSE ledger[Len(ledger)].hash

\* The entry _log builds; both hash fields come from the entry before it.
NewEntry(operation, agent, target) ==
  LET content == [sequence |-> sequence, operation |-> operation,
                  agent_id |-> agent, target_id |-> target]
  IN  [content |-> content, previous_hash |-> LastHash,
       hash |-> Hash(content, LastHash)]

Mut_LogUnchained(operation, agent, target) ==
  /\ Len(ledger) < MaxEntries
  /\ LET entry == NewEntry(operation, agent, target)
     IN  ledger' = Append(ledger, [entry EXCEPT !.hash = Hash(entry.content, NoDigest)])
  /\ sequence' = sequence + 1

Log(operation, agent, target) ==
  /\ Len(ledger) < MaxEntries
  /\ ledger' = Append(ledger, NewEntry(operation, agent, target))
  /\ sequence' = sequence + 1

-----------------------------------------------------------------------------
(* Mutations: the wrapped call, then the entry.  add_node and add_edge log  *)
(* the creator stamped on what was added; the others log an agent_id that   *)
(* the caller passes.                                                       *)

LoggedAddNode(n, node) == AddNode(n, node) /\ Log("add_node", node.created_by, n)

Mut_RemoveNodeKeepsEdges(n, agent) ==
  /\ Exists(n)
  /\ nodes' = [nodes EXCEPT ![n] = NoNode]
  /\ edges' = {e \in edges : e.source_id # n}
  /\ Log("remove_node", agent, n)

LoggedRemoveNode(n, agent) == RemoveNode(n) /\ Log("remove_node", agent, n)

LoggedAddEdge(e) == AddEdge(e) /\ Log("add_edge", e.created_by, EdgeKey(e))

LoggedRemoveEdge(key, agent) == RemoveEdge(key) /\ Log("remove_edge", agent, key)

Mut_UpdateNodeUnlogged(n, keys, agent) ==
  /\ UpdateNode(n, keys)
  /\ agent \in Creator
  /\ UNCHANGED <<ledger, sequence>>

LoggedUpdateNode(n, keys, agent) ==
  UpdateNode(n, keys) /\ Log("update_node", agent, n)

ProvenanceInit == GraphInit /\ ledger = <<>> /\ sequence = 0

\* An Agent is handed the ProvenanceGraph in place of the SGS: it checks types
\* as before and its writes go through the wrapper.
AgentLogs ==
  \E a \in AgentId :
    \/ \E n \in NodeId, type \in NodeType, data \in SUBSET Key :
         AgentAddNode(a, n, type, data) /\ Log("add_node", a, n)
    \/ \E source \in NodeId, relation \in Relation, target \in NodeId :
         /\ AgentAddEdge(a, source, relation, target)
         /\ Log("add_edge", a, <<source, relation, target>>)

HolderLogs ==
  \/ \E h \in Holder, n \in NodeId, type \in NodeType, data \in SUBSET Key :
       LoggedAddNode(n, NewNode(type, data, h))
  \/ \E h \in Holder, s \in NodeId, r \in Relation, t \in NodeId :
       LoggedAddEdge(NewEdge(s, r, t, h))
  \/ \E n \in NodeId, c \in Creator : LoggedRemoveNode(n, c)
  \/ \E key \in EdgeId, c \in Creator : LoggedRemoveEdge(key, c)
  \/ \E n \in NodeId, keys \in SUBSET Key, c \in Creator :
       LoggedUpdateNode(n, keys, c)

ProvenanceNext == AgentLogs \/ HolderLogs

ProvenanceSpec == ProvenanceInit /\ [][ProvenanceNext]_provenanceVars

-----------------------------------------------------------------------------
(* Queries.                                                                *)

\* verify(): the digest of every entry recomputed from its fields and from the
\* digest of the entry before it.
Verify ==
  \A i \in 1..Len(ledger) :
    ledger[i].hash =
      Hash(ledger[i].content, IF i = 1 THEN NoDigest ELSE ledger[i - 1].hash)

\* Entry i is the given operation on the given target.
Logged(i, operation, target) ==
  /\ ledger[i].content.operation = operation
  /\ ledger[i].content.target_id = target

LastAdded(i, n) ==
  /\ Logged(i, "add_node", n)
  /\ \A j \in (i + 1)..Len(ledger) : ~Logged(j, "remove_node", n)

\* Entry i added edge key and nothing logged later took it away: neither a
\* remove_edge of the key nor a remove_node of one of its ends.
LastLinked(i, key) ==
  /\ Logged(i, "add_edge", key)
  /\ \A j \in (i + 1)..Len(ledger) :
       /\ ~Logged(j, "remove_edge", key)
       /\ ~Logged(j, "remove_node", key[1])
       /\ ~Logged(j, "remove_node", key[3])

-----------------------------------------------------------------------------
(* Properties.                                                             *)

\* Type invariant of the ledger and its counter.
LedgerTypeOK == ledger \in Seq(Entry) /\ sequence \in Nat

\* verify() is true after every history of calls, the entries are numbered
\* 0, 1, 2, ... without gaps, and the stored previous_hash fields link each
\* entry to the one before it: verify() itself checks neither the numbers nor
\* the links (provenance.py:202-217; tests/test_provenance.py:153, 265).
ChainIntact ==
  /\ Verify
  /\ sequence = Len(ledger)
  /\ \A i \in 1..Len(ledger) :
       /\ ledger[i].content.sequence = i - 1
       /\ i > 1 => ledger[i].previous_hash = ledger[i - 1].hash

NodesExplained ==
  \A n \in NodeId :
    /\ Exists(n) => \E i \in 1..Len(ledger) :
                      /\ LastAdded(i, n)
                      /\ ledger[i].content.agent_id = nodes[n].created_by
    /\ (\E i \in 1..Len(ledger) : LastAdded(i, n)) => Exists(n)

EdgesExplained ==
  /\ \A e \in edges : \E i \in 1..Len(ledger) :
       /\ LastLinked(i, EdgeKey(e))
       /\ ledger[i].content.agent_id = e.created_by
  /\ \A i \in 1..Len(ledger), key \in EdgeId :
       LastLinked(i, key) => \E e \in edges : EdgeKey(e) = key

\* The ledger alone determines the graph: a node exists exactly when its last
\* add_node was not followed by a remove_node, an edge exactly when its last
\* add_edge was not followed by a remove_edge or by a remove_node of an end,
\* and the agents logged there are the creators stamped in the graph.  An
\* auditor needs the last clause because the edges a remove_node takes with it
\* are not logged one by one (graph.py:102-108, provenance.py:102-112).
LedgerExplainsGraph == NodesExplained /\ EdgesExplained

\* Every change is accounted for by the one entry its call appends, and what was
\* logged before never changes: a node that appears, disappears or gets new
\* data is the entry's target, and so is an edge that appears; an edge that
\* disappears is the target or touches it (provenance.py:92-154).
OneEntryPerChange ==
  [][LET entry == ledger'[Len(ledger')].content
     IN  /\ Len(ledger') = Len(ledger) + 1
         /\ SubSeq(ledger', 1, Len(ledger)) = ledger
         /\ \A n \in NodeId : nodes'[n] # nodes[n] => entry.target_id = n
         /\ \A e \in edges' \ edges : entry.target_id = EdgeKey(e)
         /\ \A e \in edges \ edges' :
              entry.target_id \in {EdgeKey(e), e.source_id, e.target_id}
    ]_provenanceVars

\* "Every mutation (add/remove/update node or edge) is recorded as a
\* ProvenanceEntry" (provenance.py:3-4), read for edges that disappear: an edge
\* that leaves the graph has a remove_edge entry.
EveryEdgeRemovalRecorded ==
  [][\A e \in edges \ edges' :
       \E i \in 1..Len(ledger') :
         /\ i > Len(ledger)
         /\ ledger'[i].content.operation = "remove_edge"
         /\ ledger'[i].content.target_id = EdgeKey(e)]_provenanceVars
=============================================================================
