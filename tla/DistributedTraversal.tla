------------------------ MODULE DistributedTraversal ------------------------
(***************************************************************************)
(* Conditions B and C of STUDY-209: the same agent over store services in  *)
(* processes of their own (networked_store.py), the graph split among them *)
(* (distributed_store.py); with one shard this is condition B.  Every use  *)
(* of the store is a request to the shard that owns the node and a reply,  *)
(* one at a time; the services may die, and the client stops waiting after *)
(* a timeout while the request is still on its way.                        *)
(***************************************************************************)
EXTENDS Traversal, FiniteSetsExt

CONSTANTS
  Shard,       \* numbers of the shards
  ShardOf,     \* _shard_of: node id -> shard, a hash
  NoCall, NoAnswer,
  MaxFaults    \* bound on deaths and timeouts

ASSUME ShardAssumption == Shard \subseteq Nat /\ ShardOf \in [NodeId -> Shard]

VARIABLES
  shardNodes, shardEdges,  \* what each service holds
  up,                      \* the services that are alive
  call,                    \* the request under way and its answer
  toWrite,                 \* shards whose part is still to be written
  phase, current, acc, token, sequence,
  faults

serviceVars == <<shardNodes, shardEdges, up>>
walk == <<phase, current, acc, token, sequence>>
distVars == <<serviceVars, call, toWrite, walk, faults>>

AllNodes == UNION {shardNodes[k] : k \in Shard}
AllEdges == UNION {shardEdges[k] : k \in Shard}

\* What belongs on shard k: nodes by their id, edges by their source.
NodesOn(k, ns) == {node \in ns : ShardOf[node.id] = k}

Mut_EdgesOnByTarget(k, es) == {e \in es : ShardOf[e.target] = k}

EdgesOn(k, es) == {e \in es : ShardOf[e.source] = k}

\* The shards that get a part of the modification.
Parts == {k \in Shard : NodesOn(k, AddNodes) # {} \/ EdgesOn(k, AddEdges) # {}}

DistInit ==
  /\ \E g \in Graphs :
       /\ shardNodes = [k \in Shard |-> NodesOn(k, g.nodes)]
       /\ shardEdges = [k \in Shard |-> EdgesOn(k, g.edges)]
  /\ up = Shard
  /\ call = NoCall
  /\ toWrite = {}
  /\ phase = "read"
  /\ current = "start"
  /\ acc = 0
  /\ token = "next"
  /\ sequence = <<>>
  /\ faults = 0

-----------------------------------------------------------------------------
(* The agent's requests: NetworkedStore._call up to the sendall.           *)

Send(k, cmd, id) ==
  /\ call = NoCall
  /\ call' = [shard |-> k, cmd |-> cmd, id |-> id, answer |-> NoAnswer]
  /\ UNCHANGED <<serviceVars, toWrite, walk, faults>>

CallReadNode == phase = "read" /\ Send(ShardOf[current], "read_node", current)

CallHasNode == phase = "modify" /\ Send(ShardOf["audit"], "has_node", "audit")

Mut_CallWriteAnyOrder ==
  phase = "write" /\ \E k \in toWrite : Send(k, "write_modification", "audit")

CallWrite == phase = "write" /\ Send(Min(toWrite), "write_modification", "audit")

CallOutgoing ==
  phase = "select" /\ Send(ShardOf[current], "get_outgoing_edges", current)

-----------------------------------------------------------------------------
(* A service: _StoreHandler.handle for one request.                        *)

Waiting == call # NoCall /\ call.answer = NoAnswer

Answer(result) == call' = [call EXCEPT !.answer = <<result>>]

Serve(k) ==
  /\ Waiting /\ call.shard = k /\ k \in up
  /\ \/ /\ call.cmd = "read_node"
        /\ Answer({node \in shardNodes[k] : node.id = call.id})
        /\ UNCHANGED <<shardNodes, shardEdges>>
     \/ /\ call.cmd = "has_node"
        /\ Answer(call.id \in Ids(shardNodes[k]))
        /\ UNCHANGED <<shardNodes, shardEdges>>
     \/ /\ call.cmd = "get_outgoing_edges"
        /\ Answer(Outgoing(shardEdges[k], call.id))
        /\ UNCHANGED <<shardNodes, shardEdges>>
     \/ /\ call.cmd = "write_modification"
        /\ shardNodes' = [shardNodes EXCEPT ![k] = @ \cup NodesOn(k, AddNodes)]
        /\ shardEdges' = [shardEdges EXCEPT ![k] = @ \cup EdgesOn(k, AddEdges)]
        /\ Answer("written")
  /\ UNCHANGED <<up, toWrite, walk, faults>>

-----------------------------------------------------------------------------
(* The agent takes the reply: the rest of _call, and Agent.traverse.       *)

Take(cmd) ==
  /\ phase # "raised"
  /\ call # NoCall /\ call.cmd = cmd /\ call.answer # NoAnswer
  /\ call' = NoCall
  /\ UNCHANGED <<serviceVars, faults>>

\* An unknown id is an error reply, which raises.
TakeNode ==
  /\ Take("read_node")
  /\ \/ /\ call.answer[1] = {}
        /\ phase' = "raised"
        /\ UNCHANGED <<acc, token, sequence>>
     \/ \E node \in call.answer[1] :
          /\ sequence' = Append(sequence, current)
          /\ token' = TokenOf(node.op, acc)
          /\ acc' = NewAcc(node.op, acc)
          /\ phase' = IF node.op.kind = "self_modify" THEN "modify" ELSE "select"
  /\ UNCHANGED <<current, toWrite>>

TakeHasNode ==
  /\ Take("has_node")
  /\ IF call.answer[1]
       THEN phase' = "select" /\ UNCHANGED toWrite
       ELSE phase' = "write" /\ toWrite' = Parts
  /\ UNCHANGED <<current, acc, token, sequence>>

Mut_TakeFirstWrite ==
  /\ Take("write_modification")
  /\ toWrite' = {}
  /\ phase' = "select"
  /\ UNCHANGED <<current, acc, token, sequence>>

TakeWritten ==
  /\ Take("write_modification")
  /\ toWrite' = toWrite \ {call.shard}
  /\ phase' = IF toWrite' = {} THEN "select" ELSE phase
  /\ UNCHANGED <<current, acc, token, sequence>>

TakeOutgoing ==
  /\ Take("get_outgoing_edges")
  /\ LET options == Selected(call.answer[1], token)
     IN  IF options = {}
           THEN phase' = "returned" /\ UNCHANGED current
           ELSE phase' = "read" /\ \E e \in options : current' = e.target
  /\ UNCHANGED <<toWrite, acc, token, sequence>>

-----------------------------------------------------------------------------
(* Failures.                                                               *)

Walking == phase \notin {"returned", "raised"}

\* A service process dies, with all it held in memory.
Die(k) ==
  /\ faults < MaxFaults /\ k \in up
  /\ up' = up \ {k}
  /\ shardNodes' = [shardNodes EXCEPT ![k] = {}]
  /\ shardEdges' = [shardEdges EXCEPT ![k] = {}]
  /\ faults' = faults + 1
  /\ UNCHANGED <<call, toWrite, walk>>

Mut_ConnectionLostIgnored ==
  /\ Walking /\ Waiting /\ call.shard \notin up
  /\ UNCHANGED distVars

\* The service's side of the socket is closed: ConnectionError.
ConnectionLost ==
  /\ Walking /\ Waiting /\ call.shard \notin up
  /\ phase' = "raised"
  /\ UNCHANGED <<serviceVars, call, toWrite, current, acc, token, sequence, faults>>

\* The socket's timeout passes first; the service may still serve the request.
TimesOut ==
  /\ faults < MaxFaults
  /\ Walking /\ Waiting
  /\ phase' = "raised"
  /\ faults' = faults + 1
  /\ UNCHANGED <<serviceVars, call, toWrite, current, acc, token, sequence>>

-----------------------------------------------------------------------------
AgentStep ==
  \/ CallReadNode \/ CallHasNode \/ CallWrite \/ CallOutgoing
  \/ TakeNode \/ TakeHasNode \/ TakeWritten \/ TakeOutgoing
  \/ ConnectionLost

DistNext ==
  \/ AgentStep
  \/ \E k \in Shard : Serve(k) \/ Die(k)
  \/ TimesOut

\* The agent's process runs on, and a service that lives answers.
DistSpec ==
  /\ DistInit /\ [][DistNext]_distVars
  /\ WF_distVars(AgentStep) /\ \A k \in Shard : WF_distVars(Serve(k))

-----------------------------------------------------------------------------
(* Properties.                                                             *)

\* While the parts of the modification arrive one by one, the local store does
\* not have it yet.
Unwritten == IF phase = "write" THEN AddEdges ELSE {}
UnwrittenNodes == IF phase = "write" THEN AddNodes ELSE {}

Local == INSTANCE LocalTraversal
  WITH nodes <- AllNodes \ UnwrittenNodes, edges <- AllEdges \ Unwritten,
       phase <- IF phase = "write" THEN "modify" ELSE phase,
       failed <- faults > 0

\* As long as nothing fails, the agent walks, routes and modifies over the
\* services exactly as over a store in its own memory: "changes only WHERE the
\* substrate is persisted, never the mechanism" (baseline_local.py:17-18).  The
\* modification takes effect for the agent as a whole, before it looks for the
\* next edge.
ImplementsLocal == Local!LocalSpec

\* Whatever fails, a walk that returns has not been cut short: it passed through
\* the node that the agent added and stopped at the end.  A lost write or a lost
\* reply must raise, because select_edge takes "no edge" for the end of the walk
\* (baseline_local.py:137-139).
ReturnsComplete ==
  phase = "returned" =>
    /\ sequence[Len(sequence)] = "end"
    /\ \E i \in DOMAIN sequence : sequence[i] = "audit"

\* The services hold the modification up to some shard and nothing beyond it,
\* also when the agent has given up and a late request is still served: what a
\* failed write leaves is a prefix in shard order (distributed_store.py:93-95).
WrittenInShardOrder ==
  \A j, k \in Parts \cap up :
    /\ j < k
    /\ NodesOn(k, AddNodes) \subseteq shardNodes[k]
    /\ EdgesOn(k, AddEdges) \subseteq shardEdges[k]
    => /\ NodesOn(j, AddNodes) \subseteq shardNodes[j]
       /\ EdgesOn(j, AddEdges) \subseteq shardEdges[j]

\* Every walk ends, also one whose services die or do not answer.
TraversalEnds == <>(~Walking)
=============================================================================
