--------------------- MODULE DistributedTraversal_proofs ---------------------
(* Proofs about a walk over store services, for every split of the graph   *)
(* among any number of shards: without faults it is the local walk, and    *)
(* whatever fails a walk that returns is complete and the modification is  *)
(* written in the order of the shards.                                     *)
EXTENDS DistributedTraversal, TLAPS

-----------------------------------------------------------------------------
(* What the services hold, given the graph g that they were loaded with.   *)

Initial(k, g) ==
  shardNodes[k] = NodesOn(k, g.nodes) /\ shardEdges[k] = EdgesOn(k, g.edges)

Written(k, g) ==
  /\ shardNodes[k] = NodesOn(k, g.nodes \cup AddNodes)
  /\ shardEdges[k] = EdgesOn(k, g.edges \cup AddEdges)

Fresh(g) == \A k \in up : Initial(k, g)
Done(g) == \A k \in up : Written(k, g)

\* An edge that the agent can follow, now or after the modification.
Route(g, id) == Outgoing(g.edges \cup AddEdges, id)

-----------------------------------------------------------------------------
(* The invariant.                                                          *)

Phase == {"read", "modify", "write", "select", "returned", "raised"}

Typed ==
  /\ shardNodes \in [Shard -> SUBSET Node]
  /\ shardEdges \in [Shard -> SUBSET Edge]
  /\ up \subseteq Shard
  /\ phase \in Phase
  /\ current \in NodeId
  /\ acc \in Nat
  /\ sequence \in Seq(NodeId)
  /\ faults \in Nat

\* Every service that lives holds its part with or without the modification, in
\* the order of the shards; outside the writing it is all or none.
Stored(g) ==
  /\ \A k \in up : Initial(k, g) \/ Written(k, g)
  /\ \A j, k \in Parts \cap up : j < k /\ Written(k, g) => Written(j, g)
  /\ phase \notin {"write", "raised"} => Fresh(g) \/ Done(g)

\* Between the first and the last request to write, what is no longer to be
\* written is written; a request outlives the agent's patience.
WriteUnderWay == phase = "write" \/ (call # NoCall /\ call.cmd = "write_modification")
Writing(g) ==
  WriteUnderWay =>
    /\ toWrite \subseteq Parts /\ toWrite # {}
    /\ \A k \in up \ toWrite : Written(k, g)
    /\ "audit" \notin Ids(g.nodes)

\* A request belongs to the phase, unless the agent has given up on it.
Called ==
  call # NoCall =>
    /\ call = [shard |-> call.shard, cmd |-> call.cmd, id |-> call.id,
               answer |-> call.answer]
    /\ call.shard \in Shard
    /\ \/ /\ call.cmd = "read_node" /\ phase \in {"read", "raised"}
          /\ call.id = current /\ call.shard = ShardOf[current]
       \/ /\ call.cmd = "has_node" /\ phase \in {"modify", "raised"}
          /\ call.id = "audit" /\ call.shard = ShardOf["audit"]
       \/ /\ call.cmd = "write_modification" /\ phase \in {"write", "raised"}
          /\ call.shard = Min(toWrite)
       \/ /\ call.cmd = "get_outgoing_edges" /\ phase \in {"select", "raised"}
          /\ call.id = current /\ call.shard = ShardOf[current]

Replied == phase # "raised" /\ call # NoCall /\ call.answer # NoAnswer

\* A reply stays true after the service that gave it has died.
Answered(g) ==
  Replied =>
    /\ call.cmd = "read_node" =>
         /\ call.answer[1] # {}
         /\ \A node \in call.answer[1] : node.id = current /\ node \in g.nodes \cup AddNodes
         /\ call.shard \in up => call.answer[1] \subseteq shardNodes[call.shard]
    /\ call.cmd = "has_node" =>
         IF call.answer[1] THEN Done(g) ELSE Fresh(g) /\ "audit" \notin Ids(g.nodes)
    /\ call.cmd = "write_modification" =>
         (call.shard \in up => Written(call.shard, g))
    /\ call.cmd = "get_outgoing_edges" =>
         call.answer[1] = Route(g, current)

\* Where the agent is, and what it has executed there.
Executed(g) ==
  /\ sequence # <<>> /\ sequence[Len(sequence)] = current
  /\ \E node \in g.nodes \cup AddNodes, a \in {0, 1} :
       node.id = current /\ token = TokenOf(node.op, a)

Walked(g) ==
  phase # "raised" =>
    /\ current \in Ids(g.nodes) \cup {"audit"}
    /\ current = "audit" => Done(g)
    /\ phase = "select" /\ token = "modified" => Done(g)
    /\ phase \in {"modify", "write"} => token = "modified"
    /\ phase \in {"modify", "write", "select"} => Executed(g)
    /\ current = "end" => \E i \in DOMAIN sequence : sequence[i] = "audit"
    /\ phase = "returned" =>
         sequence # <<>> /\ sequence[Len(sequence)] = current /\ current = "end"

Faultless == faults = 0 => up = Shard /\ phase # "raised"

InvFor(g) ==
  /\ Typed /\ Stored(g) /\ Writing(g) /\ Called /\ Answered(g) /\ Walked(g) /\ Faultless

DistInv == \E g \in Graphs : InvFor(g)

-----------------------------------------------------------------------------
(* Parts of a graph.                                                       *)

LEMMA GraphFields ==
  ASSUME NEW g \in Graphs
  PROVE  /\ g.nodes \subseteq Node /\ g.edges \subseteq Edge
         /\ AddNodes \subseteq Node /\ AddEdges \subseteq Edge
         /\ {"start", "mutate", "audit", "end"} \subseteq NodeId
<1>1. AddNodes \subseteq Node
  BY NamesAssumption DEF AddNodes, Node, Op
<1>2. AddEdges \subseteq Edge
  BY NamesAssumption DEF AddEdges, Edge, Token
<1> QED BY <1>1, <1>2, GraphsAssumption, NamesAssumption

\* A graph that knows the added node has the whole modification, another has
\* none of it.
LEMMA WholeOrNone ==
  ASSUME NEW g \in Graphs
  PROVE  /\ "audit" \in Ids(g.nodes) =>
              g.nodes \cup AddNodes = g.nodes /\ g.edges \cup AddEdges = g.edges
         /\ "audit" \notin Ids(g.nodes) =>
              g.nodes \cap AddNodes = {} /\ g.edges \cap AddEdges = {}
<1>1. ASSUME "audit" \notin Ids(g.nodes)
      PROVE  g.nodes \cap AddNodes = {}
  BY <1>1 DEF Ids, AddNodes
<1>2. ASSUME "audit" \notin Ids(g.nodes)
      PROVE  g.edges \cap AddEdges = {}
  <2>1. \A e \in g.edges : e.source # "audit" /\ e.target # "audit"
    BY <1>2, StartAssumption
  <2> QED BY <2>1 DEF AddEdges
<1> QED BY <1>1, <1>2, StartAssumption

LEMMA InitialIsWritten ==
  ASSUME NEW g \in Graphs, "audit" \in Ids(g.nodes), NEW k, Initial(k, g)
  PROVE  Written(k, g)
BY WholeOrNone DEF Initial, Written

LEMMA FreshIsDone ==
  ASSUME NEW g \in Graphs, "audit" \in Ids(g.nodes), Fresh(g)
  PROVE  Done(g)
BY InitialIsWritten DEF Fresh, Done

\* The added edges leave from two nodes, so at most two shards get a part.
LEMMA FewParts == Parts \subseteq {ShardOf["audit"], ShardOf["mutate"]}
BY DEF Parts, NodesOn, EdgesOn, AddNodes, AddEdges

LEMMA PartsNonempty == Parts # {} /\ ShardOf["audit"] \in Parts
<1>1. ShardOf["audit"] \in Shard
  BY ShardAssumption, NamesAssumption
<1>2. NodesOn(ShardOf["audit"], AddNodes) # {}
  <2> DEFINE node == [id |-> "audit", op |-> [kind |-> "add", n |-> 5]]
  <2>1. node \in AddNodes /\ node.id = "audit"
    BY DEF AddNodes
  <2> QED BY <2>1 DEF NodesOn
<1> QED BY <1>1, <1>2 DEF Parts

LEMMA FirstPart ==
  ASSUME NEW S \in SUBSET Parts, S # {}
  PROVE  Min(S) \in S /\ Min(S) \in Shard /\ \A k \in S : Min(S) <= k
<1> DEFINE a == ShardOf["audit"]
           m == ShardOf["mutate"]
<1>1. S \subseteq {a, m} /\ S \subseteq Shard /\ Shard \subseteq Nat
  BY FewParts, ShardAssumption DEF Parts
<1>2. \E j \in S : \A k \in S : j <= k
  <2> HIDE DEF a, m
  <2>1. CASE a \notin S
    <3>1. S = {m} /\ m \in Nat
      BY <1>1, <2>1
    <3> QED BY <3>1
  <2>2. CASE m \notin S
    <3>1. S = {a} /\ a \in Nat
      BY <1>1, <2>2
    <3> QED BY <3>1
  <2>3. CASE a \in S /\ m \in S /\ a <= m
    BY <1>1, <2>3
  <2>4. CASE a \in S /\ m \in S /\ m <= a
    BY <1>1, <2>4
  <2>5. a \in S /\ m \in S => a <= m \/ m <= a
    BY <1>1
  <2> QED BY <2>1, <2>2, <2>3, <2>4, <2>5
<1>3. Min(S) \in S /\ \A k \in S : Min(S) <= k
  BY <1>2 DEF Min
<1> QED BY <1>1, <1>3

\* A service answers for all edges of the nodes it owns.
LEMMA OwnedEdges ==
  ASSUME NEW es, NEW id
  PROVE  Outgoing(EdgesOn(ShardOf[id], es), id) = Outgoing(es, id)
BY DEF Outgoing, EdgesOn

\* The modification changes the edges of two nodes only.
LEMMA OtherEdgesKept ==
  ASSUME NEW g \in Graphs, NEW id, id # "audit", id # "mutate"
  PROVE  Outgoing(g.edges, id) = Route(g, id)
BY DEF Outgoing, Route, AddEdges

\* The token depends on the accumulator's parity only.
LEMMA TokenByParity ==
  ASSUME NEW op, NEW n \in Nat
  PROVE  \E a \in {0, 1} : TokenOf(op, n) = TokenOf(op, a)
<1>1. n % 2 \in {0, 1} /\ (n % 2) % 2 = n % 2
  OBVIOUS
<1>2. TokenOf(op, n) = TokenOf(op, n % 2)
  BY <1>1 DEF TokenOf
<1> QED BY <1>1, <1>2

LEMMA SelfModifyToken ==
  ASSUME NEW op, NEW n
  PROVE  op.kind = "self_modify" => TokenOf(op, n) = "modified"
BY DEF TokenOf

LEMMA ModifiedToken ==
  ASSUME NEW node \in Node, NEW n
  PROVE  TokenOf(node.op, n) = "modified" => node.op.kind = "self_modify"
<1>1. node.op.kind \in {"set", "add", "parity", "self_modify", "finalize"}
  BY DEF Node, Op
<1> QED BY <1>1 DEF TokenOf

-----------------------------------------------------------------------------
(* The invariant holds at the start.                                       *)

LEMMA InitInv == DistInit => DistInv
<1> SUFFICES ASSUME DistInit PROVE DistInv
  OBVIOUS
<1>1. PICK g \in Graphs :
        /\ shardNodes = [k \in Shard |-> NodesOn(k, g.nodes)]
        /\ shardEdges = [k \in Shard |-> EdgesOn(k, g.edges)]
  BY DEF DistInit
<1>2. Typed
  BY <1>1, GraphFields DEF DistInit, Typed, Phase, NodesOn, EdgesOn
<1>3. Fresh(g)
  BY <1>1 DEF DistInit, Fresh, Initial
<1>4. Stored(g)
  <2>1. ASSUME NEW j \in Parts \cap up, NEW k \in Parts \cap up, Written(k, g)
        PROVE  Written(j, g)
    <3>1. "audit" \in Ids(g.nodes)
      <4>1. SUFFICES ASSUME "audit" \notin Ids(g.nodes) PROVE FALSE
        OBVIOUS
      <4>2. Initial(k, g)
        BY <1>3 DEF Fresh
      <4>3. NodesOn(k, AddNodes) \subseteq g.nodes /\ EdgesOn(k, AddEdges) \subseteq g.edges
        BY <2>1, <4>2 DEF Initial, Written, NodesOn, EdgesOn
      <4>4. NodesOn(k, AddNodes) = {} /\ EdgesOn(k, AddEdges) = {}
        BY <4>1, <4>3, WholeOrNone DEF NodesOn, EdgesOn
      <4> QED BY <4>4 DEF Parts
    <3> QED BY <1>3, <3>1, FreshIsDone DEF Done
  <2> QED BY <1>3, <2>1 DEF Stored, Fresh
<1>5. Writing(g) /\ Called /\ Answered(g) /\ Faultless
  BY DEF DistInit, Writing, WriteUnderWay, Called, Answered, Replied, Faultless
<1>6. Walked(g)
  BY StartAssumption DEF DistInit, Walked
<1> QED BY <1>2, <1>4, <1>5, <1>6 DEF InvFor, DistInv

-----------------------------------------------------------------------------
(* The agent's requests.                                                   *)

LEMMA StoresKept ==
  ASSUME serviceVars' = serviceVars, NEW g
  PROVE  /\ \A k : (Initial(k, g)' <=> Initial(k, g)) /\ (Written(k, g)' <=> Written(k, g))
         /\ (Fresh(g)' <=> Fresh(g)) /\ (Done(g)' <=> Done(g))
BY DEF serviceVars, Initial, Written, Fresh, Done

Sending == CallReadNode \/ CallHasNode \/ CallWrite \/ CallOutgoing

LEMMA SendStep ==
  ASSUME NEW g \in Graphs, InvFor(g), Sending
  PROVE  InvFor(g)'
<1> USE DEF InvFor
<1>1. /\ call = NoCall
      /\ UNCHANGED <<serviceVars, toWrite, walk, faults>>
  BY DEF Sending, CallReadNode, CallHasNode, CallWrite, CallOutgoing, Send
<1>2. Typed' /\ Faultless'
  BY <1>1 DEF serviceVars, walk, Typed, Faultless
<1>3. Stored(g)'
  BY <1>1, StoresKept DEF serviceVars, walk, Stored
<1>4. Walked(g)'
  BY <1>1, StoresKept DEF walk, Walked, Executed
<1>5. PICK k, cmd, id : call' = [shard |-> k, cmd |-> cmd, id |-> id, answer |-> NoAnswer]
  BY DEF Sending, CallReadNode, CallHasNode, CallWrite, CallOutgoing, Send
<1>6. Answered(g)'
  BY <1>5 DEF Answered, Replied
<1>7. ShardOf[current] \in Shard /\ ShardOf["audit"] \in Shard
  BY ShardAssumption, NamesAssumption DEF Typed
<1>8. CASE CallWrite
  <2>1. /\ phase = "write" /\ phase' = "write" /\ toWrite' = toWrite
        /\ call' = [shard |-> Min(toWrite), cmd |-> "write_modification",
                    id |-> "audit", answer |-> NoAnswer]
    BY <1>8 DEF CallWrite, Send, walk
  <2>2. Writing(g)'
    BY <1>1, <2>1, StoresKept DEF Writing, WriteUnderWay, serviceVars
  <2>3. Min(toWrite) \in Shard
    BY <2>1, FirstPart DEF Writing, WriteUnderWay
  <2>4. Called'
    BY <2>1, <2>3 DEF Called
  <2> QED BY <1>2, <1>3, <1>4, <1>6, <2>2, <2>4
<1>9. CASE CallReadNode \/ CallHasNode \/ CallOutgoing
  <2>1. Called' /\ phase' = phase /\ phase # "write" /\ call'.cmd # "write_modification"
    BY <1>7, <1>9 DEF Called, CallReadNode, CallHasNode, CallOutgoing, Send, walk
  <2>2. Writing(g)'
    BY <2>1 DEF Writing, WriteUnderWay
  <2> QED BY <1>2, <1>3, <1>4, <1>6, <2>1, <2>2
<1> QED BY <1>8, <1>9 DEF Sending

-----------------------------------------------------------------------------
(* The services' replies.                                                  *)

LEMMA ReplyFields ==
  ASSUME Called, Waiting, NEW result, Answer(result)
  PROVE  /\ call' = [shard |-> call.shard, cmd |-> call.cmd, id |-> call.id,
                     answer |-> <<result>>]
         /\ call'.shard = call.shard /\ call'.cmd = call.cmd /\ call'.id = call.id
         /\ call'.answer = <<result>> /\ call'.answer[1] = result
<1>1. call = [shard |-> call.shard, cmd |-> call.cmd, id |-> call.id,
              answer |-> call.answer]
  BY DEF Called, Waiting
<1>2. call' = [call EXCEPT !.answer = <<result>>]
  BY DEF Answer
<1>3. call' = [shard |-> call.shard, cmd |-> call.cmd, id |-> call.id,
               answer |-> <<result>>]
  BY <1>1, <1>2
<1> QED BY <1>3

\* A reply that only reads leaves all but the answer as it is.
LEMMA ReadReply ==
  ASSUME NEW g \in Graphs, InvFor(g), Waiting, NEW result, Answer(result),
         UNCHANGED <<serviceVars, toWrite, walk, faults>>
  PROVE  /\ Typed' /\ Stored(g)' /\ Writing(g)' /\ Called' /\ Walked(g)' /\ Faultless'
         /\ phase' = phase /\ current' = current
<1> USE DEF InvFor
<1>1. /\ call' = [shard |-> call.shard, cmd |-> call.cmd, id |-> call.id,
                  answer |-> <<result>>]
      /\ call'.shard = call.shard /\ call'.cmd = call.cmd /\ call'.id = call.id
  BY ReplyFields
<1>2. Typed' /\ Faultless'
  BY DEF serviceVars, walk, Typed, Faultless
<1>3. Stored(g)'
  BY StoresKept DEF serviceVars, walk, Stored
<1>4. Walked(g)'
  BY StoresKept DEF walk, Walked, Executed
<1>5. Writing(g)'
  BY <1>1, StoresKept DEF Waiting, Writing, WriteUnderWay, serviceVars, walk
<1>6. Called'
  BY <1>1 DEF Called, Waiting, walk
<1> QED BY <1>2, <1>3, <1>4, <1>5, <1>6 DEF walk

\* In the phases that read, the service of a node knows the edges that leave it,
\* also those that the modification adds.
LEMMA RoutesKnown ==
  ASSUME NEW g \in Graphs, InvFor(g), phase = "select", ShardOf[current] \in up
  PROVE  Outgoing(shardEdges[ShardOf[current]], current) = Route(g, current)
<1> USE DEF InvFor
<1>1. Fresh(g) \/ Done(g)
  BY DEF Stored
<1>2. CASE Done(g)
  BY <1>2, OwnedEdges DEF Done, Written, Route
<1>3. CASE Fresh(g) /\ ~Done(g)
  <2>1. Outgoing(shardEdges[ShardOf[current]], current) = Outgoing(g.edges, current)
    BY <1>3, OwnedEdges DEF Fresh, Initial
  <2>2. current # "audit"
    BY <1>3 DEF Walked
  <2>3. current # "mutate"
    <3>1. PICK node \in g.nodes \cup AddNodes, a \in {0, 1} :
            node.id = current /\ token = TokenOf(node.op, a)
      BY DEF Walked, Executed
    <3> QED BY <1>3, <3>1, RoutesAssumption, SelfModifyToken DEF Walked
  <2> QED BY <2>1, <2>2, <2>3, OtherEdgesKept
<1> QED BY <1>1, <1>2, <1>3

LEMMA ServeReadStep ==
  ASSUME NEW g \in Graphs, InvFor(g), NEW k \in Shard, Serve(k),
         call.cmd # "write_modification"
  PROVE  InvFor(g)'
<1> USE DEF InvFor
<1>1. /\ Waiting /\ call.shard = k /\ k \in up
      /\ UNCHANGED <<serviceVars, toWrite, walk, faults>>
  BY DEF Serve, serviceVars
<1>2. CASE call.cmd = "read_node" /\ Answer({node \in shardNodes[k] : node.id = call.id})
  <2> DEFINE result == {node \in shardNodes[k] : node.id = call.id}
  <2>1. /\ call'.shard = k /\ call'.cmd = "read_node" /\ call'.answer[1] = result
        /\ phase' = phase /\ current' = current
        /\ Typed' /\ Stored(g)' /\ Writing(g)' /\ Called' /\ Walked(g)' /\ Faultless'
    BY <1>1, <1>2, ReplyFields, ReadReply
  <2>2. Answered(g)'
    <3>1. SUFFICES ASSUME phase # "raised"
                   PROVE  /\ result # {}
                          /\ \A node \in result :
                               node.id = current /\ node \in g.nodes \cup AddNodes
                          /\ result \subseteq shardNodes'[k]
      BY <2>1 DEF Answered, Replied
    <3>2. call.id = current /\ k = ShardOf[current] /\ phase = "read"
      BY <1>1, <1>2, <3>1 DEF Called, Waiting
    <3>3. CASE Done(g)
      <4>1. shardNodes[k] = NodesOn(ShardOf[current], g.nodes \cup AddNodes)
        BY <1>1, <3>2, <3>3 DEF Done, Written
      <4>2. \A node : node \in result <=> node \in g.nodes \cup AddNodes /\ node.id = current
        BY <3>2, <4>1 DEF NodesOn
      <4>3. \E node \in g.nodes \cup AddNodes : node.id = current
        <5>1. current \in Ids(g.nodes) \/ current = "audit"
          BY <3>1 DEF Walked
        <5>2. \E node \in AddNodes : node.id = "audit"
          BY DEF AddNodes
        <5>3. current \in Ids(g.nodes) => \E node \in g.nodes : node.id = current
          BY DEF Ids
        <5> QED BY <5>1, <5>2, <5>3
      <4> QED BY <1>1, <4>2, <4>3 DEF serviceVars
    <3>4. CASE Fresh(g) /\ ~Done(g)
      <4>1. shardNodes[k] = NodesOn(ShardOf[current], g.nodes)
        BY <1>1, <3>2, <3>4 DEF Fresh, Initial
      <4>2. \A node : node \in result <=> node \in g.nodes /\ node.id = current
        BY <3>2, <4>1 DEF NodesOn
      <4>3. \E node \in g.nodes : node.id = current
        BY <3>1, <3>4 DEF Walked, Ids
      <4> QED BY <1>1, <4>2, <4>3 DEF serviceVars
    <3> QED BY <3>2, <3>3, <3>4 DEF Stored
  <2> QED BY <2>1, <2>2
<1>3. CASE call.cmd = "has_node" /\ Answer(call.id \in Ids(shardNodes[k]))
  <2> DEFINE result == call.id \in Ids(shardNodes[k])
  <2>1. /\ call'.shard = k /\ call'.cmd = "has_node" /\ call'.answer[1] = result
        /\ phase' = phase /\ current' = current
        /\ Typed' /\ Stored(g)' /\ Writing(g)' /\ Called' /\ Walked(g)' /\ Faultless'
    BY <1>1, <1>3, ReplyFields, ReadReply
  <2>2. Answered(g)'
    <3>1. SUFFICES ASSUME phase # "raised"
                   PROVE  IF result THEN Done(g) ELSE Fresh(g) /\ "audit" \notin Ids(g.nodes)
      BY <1>1, <2>1, StoresKept DEF Answered, Replied
    <3>2. call.id = "audit" /\ k = ShardOf["audit"] /\ phase = "modify"
      BY <1>1, <1>3, <3>1 DEF Called, Waiting
    <3>3. CASE Done(g)
      <4>1. PICK node \in AddNodes : node.id = "audit"
        BY DEF AddNodes
      <4>2. node \in shardNodes[k]
        BY <1>1, <3>2, <3>3, <4>1 DEF Done, Written, NodesOn
      <4> QED BY <3>2, <3>3, <4>1, <4>2 DEF Ids
    <3>4. CASE Fresh(g) /\ ~Done(g)
      <4>1. "audit" \notin Ids(g.nodes)
        BY <3>4, FreshIsDone
      <4>2. shardNodes[k] \subseteq g.nodes
        BY <1>1, <3>4 DEF Fresh, Initial, NodesOn
      <4> QED BY <3>2, <3>4, <4>1, <4>2 DEF Ids
    <3> QED BY <3>2, <3>3, <3>4 DEF Stored
  <2> QED BY <2>1, <2>2
<1>4. CASE call.cmd = "get_outgoing_edges" /\ Answer(Outgoing(shardEdges[k], call.id))
  <2> DEFINE result == Outgoing(shardEdges[k], call.id)
  <2>1. /\ call'.shard = k /\ call'.cmd = "get_outgoing_edges" /\ call'.answer[1] = result
        /\ phase' = phase /\ current' = current
        /\ Typed' /\ Stored(g)' /\ Writing(g)' /\ Called' /\ Walked(g)' /\ Faultless'
    BY <1>1, <1>4, ReplyFields, ReadReply
  <2>2. Answered(g)'
    <3>1. SUFFICES ASSUME phase # "raised" PROVE result = Route(g, current)
      BY <2>1 DEF Answered, Replied, Route
    <3>2. call.id = current /\ k = ShardOf[current] /\ phase = "select"
      BY <1>1, <1>4, <3>1 DEF Called, Waiting
    <3> QED BY <1>1, <3>2, RoutesKnown
  <2> QED BY <2>1, <2>2
<1> QED BY <1>2, <1>3, <1>4 DEF Serve

LEMMA WrittenByUnion ==
  ASSUME NEW g \in Graphs, NEW k, Initial(k, g) \/ Written(k, g)
  PROVE  /\ shardNodes[k] \cup NodesOn(k, AddNodes) = NodesOn(k, g.nodes \cup AddNodes)
         /\ shardEdges[k] \cup EdgesOn(k, AddEdges) = EdgesOn(k, g.edges \cup AddEdges)
BY DEF Initial, Written, NodesOn, EdgesOn

\* The first of the outstanding shards writes its part.
LEMMA ServeWriteStep ==
  ASSUME NEW g \in Graphs, InvFor(g), NEW k \in Shard, Serve(k),
         call.cmd = "write_modification"
  PROVE  InvFor(g)'
<1> USE DEF InvFor
<1>1. /\ Waiting /\ call.shard = k /\ k \in up
      /\ UNCHANGED <<up, toWrite, walk, faults>>
      /\ shardNodes' = [shardNodes EXCEPT ![k] = @ \cup NodesOn(k, AddNodes)]
      /\ shardEdges' = [shardEdges EXCEPT ![k] = @ \cup EdgesOn(k, AddEdges)]
      /\ Answer("written")
  BY DEF Serve
<1>2. /\ phase \in {"write", "raised"} /\ call.shard = Min(toWrite)
      /\ toWrite \subseteq Parts /\ toWrite # {}
      /\ \A j \in up \ toWrite : Written(j, g)
      /\ "audit" \notin Ids(g.nodes)
  BY <1>1 DEF Called, Writing, WriteUnderWay, Waiting
<1>3. k \in toWrite /\ \A j \in toWrite : k <= j
  BY <1>1, <1>2, FirstPart
<1>4. shardNodes \in [Shard -> SUBSET Node] /\ shardEdges \in [Shard -> SUBSET Edge]
  BY DEF Typed
<1>5. Written(k, g)'
  <2>1. Initial(k, g) \/ Written(k, g)
    BY <1>1 DEF Stored
  <2>2. /\ shardNodes'[k] = shardNodes[k] \cup NodesOn(k, AddNodes)
        /\ shardEdges'[k] = shardEdges[k] \cup EdgesOn(k, AddEdges)
    BY <1>1, <1>4
  <2> QED BY <2>1, <2>2, WrittenByUnion DEF Written
<1>6. \A j \in Shard \ {k} :
        /\ Initial(j, g)' <=> Initial(j, g)
        /\ Written(j, g)' <=> Written(j, g)
  BY <1>1, <1>4 DEF Initial, Written
<1>7. up \subseteq Shard /\ up' = up /\ Shard \subseteq Nat
  BY <1>1, ShardAssumption DEF Typed
<1>8. Typed'
  <2>1. /\ NodesOn(k, AddNodes) \subseteq Node /\ EdgesOn(k, AddEdges) \subseteq Edge
    BY GraphFields DEF NodesOn, EdgesOn
  <2> QED BY <1>1, <1>4, <2>1 DEF Typed, walk
<1>9. Done(g) => Done(g)'
  BY <1>5, <1>6, <1>7 DEF Done
<1>10. Stored(g)'
  <2>1. \A j \in up : Initial(j, g)' \/ Written(j, g)'
    BY <1>5, <1>6, <1>7 DEF Stored
  <2>2. ASSUME NEW i \in Parts \cap up, NEW j \in Parts \cap up, i < j, Written(j, g)'
        PROVE  Written(i, g)'
    <3>1. CASE i = k
      BY <3>1, <1>5
    <3>2. CASE i # k /\ j = k
      <4>1. i \notin toWrite
        BY <1>3, <1>7, <2>2, <3>2
      <4> QED BY <1>2, <1>6, <1>7, <3>2, <4>1
    <3>3. CASE i # k /\ j # k
      BY <1>6, <1>7, <2>2, <3>3 DEF Stored
    <3> QED BY <3>1, <3>2, <3>3
  <2> QED BY <1>1, <1>2, <2>1, <2>2 DEF Stored, walk, Parts
<1>11. /\ call'.shard = k /\ call'.cmd = "write_modification" /\ call'.id = call.id
       /\ call' = [shard |-> call.shard, cmd |-> call.cmd, id |-> call.id,
                   answer |-> <<"written">>]
  BY <1>1, ReplyFields
<1>12. Called' /\ Answered(g)'
  BY <1>1, <1>2, <1>5, <1>11 DEF Called, Answered, Waiting, walk
<1>13. Writing(g)'
  BY <1>1, <1>2, <1>5, <1>6, <1>7 DEF Writing
<1>14. Walked(g)' /\ Faultless'
  BY <1>1, <1>9 DEF Walked, Executed, Faultless, walk
<1> QED BY <1>8, <1>10, <1>12, <1>13, <1>14

-----------------------------------------------------------------------------
(* The agent takes the replies.                                            *)

LEMMA TakeNodeStep ==
  ASSUME NEW g \in Graphs, InvFor(g), TakeNode
  PROVE  /\ InvFor(g)'
         /\ phase = "read" /\ call.answer[1] # {}
<1> USE DEF InvFor
<1>1. /\ Replied /\ call.cmd = "read_node" /\ call' = NoCall
      /\ UNCHANGED <<serviceVars, faults, current, toWrite>>
  BY DEF TakeNode, Take, Replied
<1>2. phase = "read" /\ call.answer[1] # {}
  BY <1>1 DEF Called, Answered, Replied
<1>3. PICK node \in call.answer[1] :
        /\ sequence' = Append(sequence, current)
        /\ token' = TokenOf(node.op, acc)
        /\ acc' = NewAcc(node.op, acc)
        /\ phase' = IF node.op.kind = "self_modify" THEN "modify" ELSE "select"
  BY <1>2 DEF TakeNode
<1>4. node.id = current /\ node \in g.nodes \cup AddNodes /\ node \in Node
  BY <1>1, GraphFields DEF Answered
<1>5. Typed' /\ Faultless'
  <2>1. node.op.n \in Nat /\ acc \in Nat
    BY <1>4 DEF Node, Op, Typed
  <2>2. NewAcc(node.op, acc) \in Nat
    BY <2>1 DEF NewAcc
  <2> QED BY <1>1, <1>3, <2>2 DEF serviceVars, Typed, Phase, Faultless
<1>6. phase' \in {"modify", "select"}
  BY <1>3
<1>7. Stored(g)' /\ Writing(g)' /\ Called' /\ Answered(g)'
  BY <1>1, <1>2, <1>6, StoresKept
  DEF serviceVars, Stored, Writing, WriteUnderWay, Called, Answered, Replied
<1>8. Walked(g)'
  <2>1. phase' = "modify" => token' = "modified"
    BY <1>3, SelfModifyToken
  <2>2. phase' = "select" => token' # "modified"
    BY <1>3, <1>4, ModifiedToken
  <2>3. Executed(g)'
    <3>1. acc \in Nat /\ sequence \in Seq(NodeId) /\ current \in NodeId
      BY DEF Typed
    <3>2. sequence' # <<>> /\ sequence'[Len(sequence')] = current'
      BY <1>1, <1>3, <3>1
    <3>3. \E a \in {0, 1} : TokenOf(node.op, acc) = TokenOf(node.op, a)
      BY <3>1, TokenByParity
    <3> QED BY <1>1, <1>3, <1>4, <3>2, <3>3 DEF Executed
  <2>4. current = "end" => \E i \in DOMAIN sequence' : sequence'[i] = "audit"
    <3>1. sequence \in Seq(NodeId) /\ current \in NodeId
      BY DEF Typed
    <3> QED BY <1>2, <1>3, <3>1 DEF Walked
  <2> QED BY <1>1, <1>2, <1>6, <2>1, <2>2, <2>3, <2>4, StoresKept DEF Walked
<1> QED BY <1>2, <1>5, <1>7, <1>8

LEMMA NoPart ==
  ASSUME NEW g, NEW k \in Shard \ Parts, Initial(k, g)
  PROVE  Written(k, g)
<1>1. NodesOn(k, AddNodes) = {} /\ EdgesOn(k, AddEdges) = {}
  BY DEF Parts
<1> QED BY <1>1 DEF Initial, Written, NodesOn, EdgesOn

LEMMA TakeHasNodeStep ==
  ASSUME NEW g \in Graphs, InvFor(g), TakeHasNode
  PROVE  /\ InvFor(g)'
         /\ phase = "modify"
         /\ IF call.answer[1] THEN Done(g) ELSE Fresh(g) /\ "audit" \notin Ids(g.nodes)
<1> USE DEF InvFor
<1>1. /\ Replied /\ call.cmd = "has_node" /\ call' = NoCall
      /\ UNCHANGED <<serviceVars, faults, current, acc, token, sequence>>
  BY DEF TakeHasNode, Take, Replied
<1>2. /\ phase = "modify"
      /\ IF call.answer[1] THEN Done(g) ELSE Fresh(g) /\ "audit" \notin Ids(g.nodes)
  BY <1>1 DEF Called, Answered, Replied
<1>3. Called' /\ Answered(g)'
  BY <1>1 DEF Called, Answered, Replied
<1>4. CASE call.answer[1]
  <2>1. phase' = "select" /\ toWrite' = toWrite /\ Done(g)
    BY <1>2, <1>4 DEF TakeHasNode
  <2>2. Typed' /\ Faultless'
    BY <1>1, <2>1 DEF serviceVars, Typed, Phase, Faultless
  <2>3. Stored(g)' /\ Writing(g)'
    BY <1>1, <2>1, StoresKept DEF serviceVars, Stored, Writing, WriteUnderWay
  <2>4. Walked(g)'
    BY <1>1, <1>2, <2>1, StoresKept DEF Walked, Executed
  <2> QED BY <1>2, <1>3, <2>2, <2>3, <2>4
<1>5. CASE ~call.answer[1]
  <2>1. phase' = "write" /\ toWrite' = Parts /\ Fresh(g) /\ "audit" \notin Ids(g.nodes)
    BY <1>2, <1>5 DEF TakeHasNode
  <2>2. Typed' /\ Faultless'
    BY <1>1, <2>1 DEF serviceVars, Typed, Phase, Faultless
  <2>3. Stored(g)'
    BY <1>1, <2>1, StoresKept DEF serviceVars, Stored
  <2>4. Writing(g)'
    <3>1. \A k \in up \ Parts : Written(k, g)
      BY <2>1, NoPart DEF Fresh, Typed
    <3> QED BY <1>1, <2>1, <3>1, StoresKept, PartsNonempty DEF Writing, serviceVars
  <2>5. Walked(g)'
    BY <1>1, <1>2, <2>1, StoresKept DEF Walked, Executed
  <2> QED BY <1>2, <1>3, <2>2, <2>3, <2>4, <2>5
<1> QED BY <1>4, <1>5

LEMMA TakeWrittenStep ==
  ASSUME NEW g \in Graphs, InvFor(g), TakeWritten
  PROVE  /\ InvFor(g)'
         /\ phase = "write" /\ "audit" \notin Ids(g.nodes)
         /\ toWrite' = {} => Done(g)
<1> USE DEF InvFor
<1>1. /\ Replied /\ call.cmd = "write_modification" /\ call' = NoCall
      /\ UNCHANGED <<serviceVars, faults, current, acc, token, sequence>>
      /\ toWrite' = toWrite \ {call.shard}
      /\ phase' = IF toWrite' = {} THEN "select" ELSE phase
  BY DEF TakeWritten, Take, Replied
<1>2. /\ phase = "write"
      /\ call.shard \in up => Written(call.shard, g)
      /\ toWrite \subseteq Parts
      /\ \A k \in up \ toWrite : Written(k, g)
      /\ "audit" \notin Ids(g.nodes)
  BY <1>1 DEF Called, Answered, Replied, Writing, WriteUnderWay
<1>3. \A k \in up \ toWrite' : Written(k, g)
  BY <1>1, <1>2
<1>4. toWrite' = {} => Done(g)
  BY <1>3 DEF Done
<1>5. Typed' /\ Faultless'
  BY <1>1, <1>2 DEF serviceVars, Typed, Phase, Faultless
<1>6. Stored(g)'
  BY <1>1, <1>2, <1>4, StoresKept DEF serviceVars, Stored
<1>7. Writing(g)'
  BY <1>1, <1>2, <1>3, StoresKept DEF serviceVars, Writing, WriteUnderWay
<1>8. Called' /\ Answered(g)'
  BY <1>1 DEF Called, Answered, Replied
<1>9. Walked(g)'
  BY <1>1, <1>2, <1>4, StoresKept DEF Walked, Executed
<1> QED BY <1>2, <1>4, <1>5, <1>6, <1>7, <1>8, <1>9

\* Where the agent stops, and where it goes.
LEMMA TakeOutgoingStep ==
  ASSUME NEW g \in Graphs, InvFor(g), TakeOutgoing
  PROVE  /\ InvFor(g)'
         /\ phase = "select" /\ call.answer[1] = Route(g, current)
<1> USE DEF InvFor
<1> DEFINE options == Selected(Route(g, current), token)
<1>1. /\ Replied /\ call.cmd = "get_outgoing_edges" /\ call' = NoCall
      /\ UNCHANGED <<serviceVars, faults, toWrite, acc, token, sequence>>
  BY DEF TakeOutgoing, Take, Replied
<1>2. phase = "select" /\ call.answer[1] = Route(g, current)
  BY <1>1 DEF Called, Answered, Replied
<1>3. /\ options = {} => phase' = "returned" /\ current' = current
      /\ options # {} => phase' = "read" /\ \E e \in options : current' = e.target
  BY <1>2 DEF TakeOutgoing
<1>4. Executed(g) /\ (Fresh(g) \/ Done(g))
  BY <1>2 DEF Walked, Stored
<1>5. Called' /\ Answered(g)'
  BY <1>1 DEF Called, Answered, Replied
<1>6. CASE options = {}
  <2>1. phase' = "returned" /\ current' = current
    BY <1>3, <1>6
  <2>2. current = "end"
    <3>1. PICK node \in g.nodes \cup AddNodes, a \in {0, 1} :
            node.id = current /\ token = TokenOf(node.op, a)
      BY <1>4 DEF Executed
    <3> QED BY <1>6, <3>1, RoutesAssumption DEF Route
  <2>3. Typed' /\ Faultless'
    BY <1>1, <2>1 DEF serviceVars, Typed, Phase, Faultless
  <2>4. Stored(g)' /\ Writing(g)'
    BY <1>1, <1>4, <2>1, StoresKept DEF serviceVars, Stored, Writing, WriteUnderWay
  <2>5. Walked(g)'
    BY <1>1, <1>2, <1>4, <2>1, <2>2, StoresKept DEF Walked, Executed
  <2> QED BY <1>2, <1>5, <2>3, <2>4, <2>5
<1>7. CASE options # {}
  <2>1. PICK e \in options : phase' = "read" /\ current' = e.target
    BY <1>3, <1>7
  <2>2. e \in g.edges \cup AddEdges /\ e.source = current /\ e \in Edge
    BY GraphFields DEF Selected, Route, Outgoing
  <2>3. e.target \in Ids(g.nodes) \cup {"audit"} /\ e.target \in NodeId
    BY <2>2, StartAssumption DEF AddEdges, Edge
  <2>4. e.target = "audit" => Done(g)
    <3>1. CASE e \in g.edges
      BY <1>4, <3>1, StartAssumption, FreshIsDone
    <3>2. CASE e \in AddEdges /\ e.target = "audit"
      <4>1. current = "mutate"
        BY <2>2, <3>2 DEF AddEdges
      <4>2. token = "modified"
        BY <1>4, <4>1, RoutesAssumption, SelfModifyToken DEF Executed
      <4> QED BY <1>2, <4>2 DEF Walked
    <3> QED BY <2>2, <3>1, <3>2
  <2>5. e.target = "end" => \E i \in DOMAIN sequence : sequence[i] = "audit"
    <3>1. e.target = "end" => e.source = "audit"
      <4>1. CASE e \in g.edges
        BY <4>1, RoutesAssumption
      <4>2. CASE e \in AddEdges
        BY <4>2 DEF AddEdges
      <4> QED BY <2>2, <4>1, <4>2
    <3>2. Len(sequence) \in DOMAIN sequence /\ sequence[Len(sequence)] = current
      BY <1>4 DEF Executed, Typed
    <3> QED BY <2>2, <3>1, <3>2
  <2>6. Typed' /\ Faultless'
    BY <1>1, <2>1, <2>3 DEF serviceVars, Typed, Phase, Faultless
  <2>7. Stored(g)' /\ Writing(g)'
    BY <1>1, <1>4, <2>1, StoresKept DEF serviceVars, Stored, Writing, WriteUnderWay
  <2>8. Walked(g)'
    BY <1>1, <2>1, <2>3, <2>4, <2>5, StoresKept DEF Walked
  <2> QED BY <1>2, <1>5, <2>6, <2>7, <2>8
<1> QED BY <1>6, <1>7

-----------------------------------------------------------------------------
(* Failures.                                                               *)

LEMMA GiveUpStep ==
  ASSUME NEW g \in Graphs, InvFor(g), ConnectionLost \/ TimesOut
  PROVE  InvFor(g)' /\ faults' # 0
<1> USE DEF InvFor
<1>1. /\ phase' = "raised" /\ Waiting
      /\ UNCHANGED <<serviceVars, call, toWrite, current, acc, token, sequence>>
  BY DEF ConnectionLost, TimesOut
<1>2. faults' \in Nat /\ faults' # 0
  <2>1. CASE ConnectionLost
    <3>1. faults' = faults /\ call.shard \in Shard /\ call.shard \notin up
      BY <2>1 DEF ConnectionLost, Called, Waiting
    <3> QED BY <3>1 DEF Faultless, Typed
  <2>2. CASE TimesOut
    BY <2>2 DEF TimesOut, Typed
  <2> QED BY <2>1, <2>2
<1>3. Typed' /\ Faultless'
  BY <1>1, <1>2 DEF serviceVars, Typed, Phase, Faultless
<1>4. Stored(g)'
  BY <1>1, StoresKept DEF serviceVars, Stored
<1>5. Writing(g)'
  BY <1>1, StoresKept DEF serviceVars, Writing, WriteUnderWay
<1>6. Called'
  BY <1>1 DEF Called
<1>7. Answered(g)' /\ Walked(g)'
  BY <1>1 DEF Answered, Replied, Walked
<1> QED BY <1>2, <1>3, <1>4, <1>5, <1>6, <1>7

LEMMA DieStep ==
  ASSUME NEW g \in Graphs, InvFor(g), NEW k \in Shard, Die(k)
  PROVE  InvFor(g)' /\ faults' # 0
<1> USE DEF InvFor
<1>1. /\ up' = up \ {k} /\ up \subseteq Shard
      /\ shardNodes' = [shardNodes EXCEPT ![k] = {}]
      /\ shardEdges' = [shardEdges EXCEPT ![k] = {}]
      /\ faults' = faults + 1
      /\ UNCHANGED <<call, toWrite, walk>>
  BY DEF Die, Typed
<1>2. \A j \in up' :
        /\ shardNodes'[j] = shardNodes[j]
        /\ Initial(j, g)' <=> Initial(j, g)
        /\ Written(j, g)' <=> Written(j, g)
  BY <1>1 DEF Typed, Initial, Written
<1>3. (Fresh(g) => Fresh(g)') /\ (Done(g) => Done(g)')
  BY <1>1, <1>2 DEF Fresh, Done
<1>4. Typed' /\ faults' # 0 /\ Faultless'
  BY <1>1 DEF Typed, Faultless, walk
<1>5. Stored(g)'
  BY <1>1, <1>2, <1>3 DEF Stored, walk
<1>6. Writing(g)'
  BY <1>1, <1>2 DEF Writing, WriteUnderWay, walk
<1>7. Called'
  BY <1>1 DEF Called, walk
<1>8. Answered(g)'
  BY <1>1, <1>2, <1>3 DEF Answered, Replied, walk, Route
<1>9. Walked(g)'
  BY <1>1, <1>3 DEF Walked, Executed, walk
<1> QED BY <1>4, <1>5, <1>6, <1>7, <1>8, <1>9

-----------------------------------------------------------------------------
(* The invariant, and what follows from it.                                *)

LEMMA Unmoved ==
  ASSUME NEW g \in Graphs, InvFor(g), UNCHANGED distVars
  PROVE  InvFor(g)'
<1> USE DEF InvFor
<1>1. UNCHANGED <<serviceVars, up, call, toWrite, phase, current, acc, token, sequence, faults>>
  BY DEF distVars, serviceVars, walk
<1>2. Typed' /\ Faultless' /\ Called'
  BY <1>1 DEF serviceVars, Typed, Faultless, Called
<1>3. Stored(g)' /\ Writing(g)'
  BY <1>1, StoresKept DEF Stored, Writing, WriteUnderWay
<1>4. Answered(g)' /\ Walked(g)'
  BY <1>1, StoresKept DEF serviceVars, Answered, Replied, Walked, Executed, Route
<1> QED BY <1>2, <1>3, <1>4

LEMMA InvStep ==
  ASSUME NEW g \in Graphs, InvFor(g), [DistNext]_distVars
  PROVE  InvFor(g)'
<1>1. CASE AgentStep
  BY <1>1, SendStep, TakeNodeStep, TakeHasNodeStep, TakeWrittenStep, TakeOutgoingStep,
     GiveUpStep DEF AgentStep, Sending
<1>2. ASSUME NEW k \in Shard, Serve(k)
      PROVE  InvFor(g)'
  BY <1>2, ServeReadStep, ServeWriteStep
<1>3. ASSUME NEW k \in Shard, Die(k)
      PROVE  InvFor(g)'
  BY <1>3, DieStep
<1>4. CASE TimesOut
  BY <1>4, GiveUpStep
<1>5. CASE UNCHANGED distVars
  BY <1>5, Unmoved
<1> QED BY <1>1, <1>2, <1>3, <1>4, <1>5 DEF DistNext

THEOREM DistInvariant == DistSpec => []DistInv
<1>1. DistInv /\ [DistNext]_distVars => DistInv'
  BY InvStep DEF DistInv
<1> QED BY <1>1, InitInv, PTL DEF DistSpec

\* Whatever fails, a walk that returns has passed through the node it added and
\* stopped at the end: a lost write or a lost reply raises (select_edge,
\* baseline_local.py:85-98).
THEOREM WalksReturnComplete == DistSpec => []ReturnsComplete
<1>1. DistInv => ReturnsComplete
  BY DEF DistInv, InvFor, Walked, ReturnsComplete
<1> QED BY <1>1, DistInvariant, PTL

\* However many services hold a part, what a failed write leaves behind, and what
\* a late request adds to it, is a prefix in the order of the shards.
THEOREM PartsInShardOrder == DistSpec => []WrittenInShardOrder
<1>1. ASSUME NEW g \in Graphs, InvFor(g),
             NEW j \in Parts \cap up, NEW k \in Parts \cap up, j < k,
             NodesOn(k, AddNodes) \subseteq shardNodes[k],
             EdgesOn(k, AddEdges) \subseteq shardEdges[k]
      PROVE  /\ NodesOn(j, AddNodes) \subseteq shardNodes[j]
             /\ EdgesOn(j, AddEdges) \subseteq shardEdges[j]
  <2>1. CASE "audit" \in Ids(g.nodes)
    <3>1. Written(j, g)
      BY <2>1, <1>1, InitialIsWritten DEF InvFor, Stored
    <3> QED BY <3>1 DEF Written, NodesOn, EdgesOn
  <2>2. CASE "audit" \notin Ids(g.nodes)
    <3>1. Written(k, g)
      <4>1. SUFFICES ASSUME Initial(k, g) PROVE FALSE
        BY <1>1 DEF InvFor, Stored
      <4>2. NodesOn(k, AddNodes) \subseteq g.nodes /\ EdgesOn(k, AddEdges) \subseteq g.edges
        BY <1>1, <4>1 DEF Initial, NodesOn, EdgesOn
      <4>3. NodesOn(k, AddNodes) = {} /\ EdgesOn(k, AddEdges) = {}
        BY <2>2, <4>2, WholeOrNone DEF NodesOn, EdgesOn
      <4> QED BY <4>3 DEF Parts
    <3>2. Written(j, g)
      BY <1>1, <3>1 DEF InvFor, Stored
    <3> QED BY <3>2 DEF Written, NodesOn, EdgesOn
  <2> QED BY <2>1, <2>2
<1>2. DistInv => WrittenInShardOrder
  BY <1>1 DEF DistInv, WrittenInShardOrder
<1> QED BY <1>2, DistInvariant, PTL

-----------------------------------------------------------------------------
(* Without faults it is the local walk.                                    *)

LocalNodes == AllNodes \ UnwrittenNodes
LocalEdges == AllEdges \ Unwritten

\* All parts together are the graph.
LEMMA PartsMakeWhole ==
  ASSUME NEW ns \in SUBSET Node, NEW es \in SUBSET Edge
  PROVE  /\ UNION {NodesOn(k, ns) : k \in Shard} = ns
         /\ UNION {EdgesOn(k, es) : k \in Shard} = es
<1>1. ASSUME NEW node \in ns
      PROVE  \E k \in Shard : node \in NodesOn(k, ns)
  <2>1. ShardOf[node.id] \in Shard
    BY ShardAssumption DEF Node
  <2> QED BY <2>1 DEF NodesOn
<1>2. ASSUME NEW e \in es
      PROVE  \E k \in Shard : e \in EdgesOn(k, es)
  <2>1. ShardOf[e.source] \in Shard
    BY ShardAssumption DEF Edge
  <2> QED BY <2>1 DEF EdgesOn
<1>3. UNION {NodesOn(k, ns) : k \in Shard} \subseteq ns
  BY DEF NodesOn
<1>4. UNION {EdgesOn(k, es) : k \in Shard} \subseteq es
  BY DEF EdgesOn
<1> QED BY <1>1, <1>2, <1>3, <1>4

LEMMA AllServices ==
  ASSUME NEW g \in Graphs, InvFor(g), up = Shard
  PROVE  /\ Fresh(g) => AllNodes = g.nodes /\ AllEdges = g.edges
         /\ Done(g) => AllNodes = g.nodes \cup AddNodes /\ AllEdges = g.edges \cup AddEdges
         /\ g.nodes \subseteq AllNodes /\ AllNodes \subseteq g.nodes \cup AddNodes
         /\ g.edges \subseteq AllEdges /\ AllEdges \subseteq g.edges \cup AddEdges
<1>1. /\ g.nodes \in SUBSET Node /\ g.nodes \cup AddNodes \in SUBSET Node
      /\ g.edges \in SUBSET Edge /\ g.edges \cup AddEdges \in SUBSET Edge
  BY GraphFields
<1>2. ASSUME Fresh(g)
      PROVE  AllNodes = g.nodes /\ AllEdges = g.edges
  <2>1. \A k \in Shard : shardNodes[k] = NodesOn(k, g.nodes) /\ shardEdges[k] = EdgesOn(k, g.edges)
    BY <1>2 DEF Fresh, Initial
  <2> QED BY <1>1, <2>1, PartsMakeWhole DEF AllNodes, AllEdges
<1>3. ASSUME Done(g)
      PROVE  AllNodes = g.nodes \cup AddNodes /\ AllEdges = g.edges \cup AddEdges
  <2>1. \A k \in Shard : /\ shardNodes[k] = NodesOn(k, g.nodes \cup AddNodes)
                         /\ shardEdges[k] = EdgesOn(k, g.edges \cup AddEdges)
    BY <1>3 DEF Done, Written
  <2> QED BY <1>1, <2>1, PartsMakeWhole DEF AllNodes, AllEdges
<1>4. \A k \in Shard :
        /\ NodesOn(k, g.nodes) \subseteq shardNodes[k]
        /\ shardNodes[k] \subseteq g.nodes \cup AddNodes
        /\ EdgesOn(k, g.edges) \subseteq shardEdges[k]
        /\ shardEdges[k] \subseteq g.edges \cup AddEdges
  BY DEF InvFor, Stored, Initial, Written, NodesOn, EdgesOn
<1>5. g.nodes \subseteq AllNodes
  <2> SUFFICES ASSUME NEW node \in g.nodes PROVE node \in AllNodes
    OBVIOUS
  <2>1. PICK k \in Shard : node \in NodesOn(k, g.nodes)
    BY <1>1, PartsMakeWhole
  <2> QED BY <1>4, <2>1 DEF AllNodes
<1>6. g.edges \subseteq AllEdges
  <2> SUFFICES ASSUME NEW e \in g.edges PROVE e \in AllEdges
    OBVIOUS
  <2>1. PICK k \in Shard : e \in EdgesOn(k, g.edges)
    BY <1>1, PartsMakeWhole
  <2> QED BY <1>4, <2>1 DEF AllEdges
<1>7. AllNodes \subseteq g.nodes \cup AddNodes /\ AllEdges \subseteq g.edges \cup AddEdges
  BY <1>4 DEF AllNodes, AllEdges
<1> QED BY <1>2, <1>3, <1>5, <1>6, <1>7

\* The store as the local walk sees it: before or after the modification.
LEMMA LocalStore ==
  ASSUME NEW g \in Graphs, InvFor(g), faults = 0
  PROVE  /\ phase = "write" => LocalNodes = g.nodes /\ LocalEdges = g.edges
         /\ phase # "write" => LocalNodes = AllNodes /\ LocalEdges = AllEdges
<1>1. up = Shard
  BY DEF InvFor, Faultless
<1>2. CASE phase = "write"
  <2>1. g.nodes \cap AddNodes = {} /\ g.edges \cap AddEdges = {}
    BY <1>2, WholeOrNone DEF InvFor, Writing, WriteUnderWay
  <2> QED BY <1>1, <1>2, <2>1, AllServices DEF LocalNodes, LocalEdges, Unwritten, UnwrittenNodes
<1>3. CASE phase # "write"
  BY <1>3 DEF LocalNodes, LocalEdges, Unwritten, UnwrittenNodes
<1> QED BY <1>2, <1>3

LEMMA LocalStart == DistInit => Local!LocalInit
<1> SUFFICES ASSUME DistInit PROVE Local!LocalInit
  OBVIOUS
<1>1. PICK g \in Graphs :
        /\ shardNodes = [k \in Shard |-> NodesOn(k, g.nodes)]
        /\ shardEdges = [k \in Shard |-> EdgesOn(k, g.edges)]
  BY DEF DistInit
<1>2. g.nodes \in SUBSET Node /\ g.edges \in SUBSET Edge
  BY GraphFields
<1>3. AllNodes = g.nodes /\ AllEdges = g.edges
  BY <1>1, <1>2, PartsMakeWhole DEF AllNodes, AllEdges
<1>4. LocalNodes = g.nodes /\ LocalEdges = g.edges
  BY <1>3 DEF DistInit, LocalNodes, LocalEdges, Unwritten, UnwrittenNodes
<1> QED BY <1>4 DEF DistInit, Local!LocalInit, Local!WalkInit, LocalNodes, LocalEdges

\* Requests and replies on the way are no steps of the local walk.
LEMMA TrafficIsStutter ==
  ASSUME UNCHANGED <<serviceVars, walk, faults>>
  PROVE  UNCHANGED Local!localVars
BY DEF serviceVars, walk, Local!localVars, AllNodes, AllEdges, Unwritten, UnwrittenNodes

LEMMA NodeIsLocalStep ==
  ASSUME NEW g \in Graphs, InvFor(g), faults = 0, faults' = 0, TakeNode
  PROVE  Local!LocalNext
<1>1. /\ phase = "read" /\ call.answer[1] # {} /\ Replied /\ call.cmd = "read_node"
      /\ UNCHANGED <<serviceVars, current>>
  BY TakeNodeStep DEF TakeNode, Take, Replied
<1>2. PICK node \in call.answer[1] :
        /\ sequence' = Append(sequence, current)
        /\ token' = TokenOf(node.op, acc)
        /\ acc' = NewAcc(node.op, acc)
        /\ phase' = IF node.op.kind = "self_modify" THEN "modify" ELSE "select"
  BY <1>1 DEF TakeNode
<1>3. node.id = current /\ node \in AllNodes
  <2>1. /\ call.shard \in Shard /\ up = Shard /\ node.id = current
        /\ call.answer[1] \subseteq shardNodes[call.shard]
    BY <1>1 DEF InvFor, Called, Answered, Replied, Faultless
  <2> QED BY <2>1 DEF AllNodes
<1>4. phase' # "write"
  BY <1>2
<1>5. /\ LocalNodes = AllNodes /\ LocalNodes' = LocalNodes /\ LocalEdges' = LocalEdges
  BY <1>1, <1>4 DEF serviceVars, LocalNodes, LocalEdges, Unwritten, UnwrittenNodes,
                    AllNodes, AllEdges
<1>6. Local!ReadAndExecute
  BY <1>1, <1>2, <1>3, <1>4, <1>5 DEF Local!ReadAndExecute, LocalNodes, LocalEdges,
                                       Local!TokenOf, Local!NewAcc, TokenOf, NewAcc
<1> QED BY <1>6 DEF Local!LocalNext

LEMMA HasNodeIsLocalStep ==
  ASSUME NEW g \in Graphs, InvFor(g), faults = 0, faults' = 0, TakeHasNode
  PROVE  Local!LocalNext \/ UNCHANGED Local!localVars
<1>1. /\ phase = "modify"
      /\ IF call.answer[1] THEN Done(g) ELSE Fresh(g) /\ "audit" \notin Ids(g.nodes)
      /\ UNCHANGED <<serviceVars, current, acc, token, sequence>>
      /\ up = Shard
  BY TakeHasNodeStep DEF TakeHasNode, Take, InvFor, Faultless
<1>2. LocalNodes = AllNodes /\ LocalEdges = AllEdges
  BY <1>1, LocalStore
<1>3. AllNodes' = AllNodes /\ AllEdges' = AllEdges
  BY <1>1 DEF serviceVars, AllNodes, AllEdges
<1>4. CASE call.answer[1]
  <2>1. phase' = "select"
    BY <1>4 DEF TakeHasNode
  <2>2. LocalNodes' = LocalNodes /\ LocalEdges' = LocalEdges
    BY <1>2, <1>3, <2>1 DEF LocalNodes, LocalEdges, Unwritten, UnwrittenNodes
  <2>3. "audit" \in Ids(LocalNodes)
    <3>1. \E node \in AddNodes : node.id = "audit"
      BY DEF AddNodes
    <3>2. AddNodes \subseteq LocalNodes
      BY <1>1, <1>2, <1>4, AllServices
    <3> QED BY <3>1, <3>2 DEF Ids
  <2>4. Local!Modify
    BY <1>1, <2>1, <2>2, <2>3 DEF Local!Modify, LocalNodes, LocalEdges, Local!Ids, Ids,
                              Local!AddNodes, Local!AddEdges, AddNodes, AddEdges
  <2> QED BY <2>4 DEF Local!LocalNext
<1>5. CASE ~call.answer[1]
  <2>1. phase' = "write"
    BY <1>5 DEF TakeHasNode
  <2>2. AllNodes = g.nodes /\ AllEdges = g.edges
    BY <1>1, <1>5, AllServices
  <2>3. LocalNodes' = LocalNodes /\ LocalEdges' = LocalEdges
    BY <1>1, <1>2, <1>3, <1>5, <2>1, <2>2, WholeOrNone
    DEF LocalNodes, LocalEdges, Unwritten, UnwrittenNodes
  <2> QED BY <1>1, <2>1, <2>3 DEF Local!localVars, LocalNodes, LocalEdges
<1> QED BY <1>4, <1>5

\* The last part to be written is the modification of the local store.
LEMMA WrittenIsLocalStep ==
  ASSUME NEW g \in Graphs, InvFor(g), faults = 0, faults' = 0, TakeWritten
  PROVE  Local!LocalNext \/ UNCHANGED Local!localVars
<1>1. /\ phase = "write" /\ "audit" \notin Ids(g.nodes)
      /\ toWrite' = {} => Done(g)
      /\ phase' = IF toWrite' = {} THEN "select" ELSE "write"
      /\ UNCHANGED <<serviceVars, current, acc, token, sequence>>
      /\ up = Shard
  BY TakeWrittenStep DEF TakeWritten, Take, InvFor, Faultless
<1>2. AllNodes' = AllNodes /\ AllEdges' = AllEdges
  BY <1>1 DEF serviceVars, AllNodes, AllEdges
<1>3. CASE toWrite' # {}
  <2>1. phase' = "write"
    BY <1>1, <1>3
  <2>2. LocalNodes' = LocalNodes /\ LocalEdges' = LocalEdges
    BY <1>1, <1>2, <2>1 DEF LocalNodes, LocalEdges, Unwritten, UnwrittenNodes
  <2> QED BY <1>1, <2>1, <2>2 DEF Local!localVars, LocalNodes, LocalEdges
<1>4. CASE toWrite' = {}
  <2>1. phase' = "select"
    BY <1>1, <1>4
  <2>2. LocalNodes = g.nodes /\ LocalEdges = g.edges
    BY <1>1, LocalStore
  <2>3. LocalNodes' = g.nodes \cup AddNodes /\ LocalEdges' = g.edges \cup AddEdges
    BY <1>1, <1>2, <1>4, <2>1, AllServices
    DEF LocalNodes, LocalEdges, Unwritten, UnwrittenNodes
  <2>4. Local!Modify
    BY <1>1, <2>1, <2>2, <2>3 DEF Local!Modify, LocalNodes, LocalEdges, Local!Ids, Ids,
                              Local!AddNodes, Local!AddEdges, AddNodes, AddEdges
  <2> QED BY <2>4 DEF Local!LocalNext
<1> QED BY <1>3, <1>4

LEMMA OutgoingIsLocalStep ==
  ASSUME NEW g \in Graphs, InvFor(g), faults = 0, faults' = 0, TakeOutgoing
  PROVE  Local!LocalNext
<1>1. /\ phase = "select" /\ call.answer[1] = Route(g, current)
      /\ UNCHANGED <<serviceVars, acc, token, sequence>>
      /\ up = Shard /\ current \in NodeId
  BY TakeOutgoingStep DEF TakeOutgoing, Take, InvFor, Faultless, Typed
<1>2. phase' \in {"returned", "read"}
  BY DEF TakeOutgoing
<1>3. LocalNodes' = LocalNodes /\ LocalEdges' = LocalEdges /\ LocalEdges = AllEdges
  BY <1>1, <1>2 DEF serviceVars, LocalNodes, LocalEdges, Unwritten, UnwrittenNodes,
                    AllNodes, AllEdges
<1>4. Outgoing(LocalEdges, current) = Route(g, current)
  <2>1. ShardOf[current] \in up
    BY <1>1, ShardAssumption
  <2>2. Route(g, current) \subseteq AllEdges
    BY <1>1, <2>1, RoutesKnown DEF AllEdges, Outgoing
  <2>3. AllEdges \subseteq g.edges \cup AddEdges
    BY <1>1, AllServices
  <2> QED BY <1>3, <2>2, <2>3 DEF Route, Outgoing
<1>5. LET options == Selected(Outgoing(LocalEdges, current), token)
      IN  IF options = {}
            THEN phase' = "returned" /\ UNCHANGED current
            ELSE phase' = "read" /\ \E e \in options : current' = e.target
  BY <1>1, <1>4 DEF TakeOutgoing
<1>6. Local!Select
  BY <1>1, <1>2, <1>3, <1>5 DEF Local!Select, LocalNodes, LocalEdges,
                               Local!Selected, Local!Outgoing, Selected, Outgoing
<1> QED BY <1>6 DEF Local!LocalNext

LEMMA LocalStoreNext ==
  ASSUME NEW g \in Graphs
  PROVE  (InvFor(g) /\ faults = 0 /\ phase = "write"
            => LocalNodes = g.nodes /\ LocalEdges = g.edges)'
<1>1. InvFor(g) /\ faults = 0 /\ phase = "write"
        => LocalNodes = g.nodes /\ LocalEdges = g.edges
  BY LocalStore
<1> QED BY <1>1, PTL

\* What a service writes is not yet in the local store.
LEMMA ServeIsStutter ==
  ASSUME NEW g \in Graphs, InvFor(g), InvFor(g)', faults = 0, faults' = 0,
         NEW k \in Shard, Serve(k)
  PROVE  UNCHANGED Local!localVars
<1>1. CASE call.cmd # "write_modification"
  BY <1>1, TrafficIsStutter DEF Serve, serviceVars
<1>2. CASE call.cmd = "write_modification"
  <2>1. phase = "write" /\ phase' = "write" /\ UNCHANGED walk
    BY <1>2 DEF Serve, Waiting, InvFor, Called, Faultless, walk
  <2>2. LocalNodes = g.nodes /\ LocalEdges = g.edges
    BY <2>1, LocalStore
  <2>3. LocalNodes' = g.nodes /\ LocalEdges' = g.edges
    BY <2>1, LocalStoreNext
  <2> QED BY <2>1, <2>2, <2>3 DEF Local!localVars, LocalNodes, LocalEdges, walk
<1> QED BY <1>1, <1>2

LEMMA LocalStep ==
  ASSUME NEW g \in Graphs, InvFor(g), InvFor(g)', DistNext
  PROVE  Local!LocalNext \/ UNCHANGED Local!localVars
<1>1. CASE faults' # 0
  <2>1. (faults > 0)'
    BY <1>1 DEF InvFor, Typed
  <2> QED BY <2>1 DEF Local!LocalNext
<1>2. CASE faults' = 0
  <2>1. ASSUME faults' = faults
        PROVE  Local!LocalNext \/ UNCHANGED Local!localVars
    <3>1. faults = 0
      BY <1>2, <2>1
    <3>2. CASE Sending
      BY <3>2, TrafficIsStutter
      DEF Sending, CallReadNode, CallHasNode, CallWrite, CallOutgoing, Send
    <3>3. CASE TakeNode \/ TakeHasNode \/ TakeWritten \/ TakeOutgoing
      BY <1>2, <3>1, <3>3, NodeIsLocalStep, HasNodeIsLocalStep, WrittenIsLocalStep,
         OutgoingIsLocalStep
    <3>4. ASSUME NEW k \in Shard, Serve(k)
          PROVE  UNCHANGED Local!localVars
      BY <1>2, <3>1, <3>4, ServeIsStutter
    <3>5. ~ConnectionLost /\ ~TimesOut /\ \A k \in Shard : ~Die(k)
      BY <1>2, GiveUpStep, DieStep
    <3> QED BY <3>2, <3>3, <3>4, <3>5 DEF DistNext, AgentStep, Sending
  <2>2. faults' = faults
    <3>1. ~TimesOut /\ ~ConnectionLost /\ \A k \in Shard : ~Die(k)
      BY <1>2, GiveUpStep, DieStep
    <3> QED BY <3>1
        DEF DistNext, AgentStep, CallReadNode, CallHasNode, CallWrite, CallOutgoing, Send,
            TakeNode, TakeHasNode, TakeWritten, TakeOutgoing, Take, Serve
  <2> QED BY <2>1, <2>2
<1> QED BY <1>1, <1>2

\* However the graph is split, the agent walks, routes and modifies over the
\* services as over a store of its own, until something fails.
THEOREM DistributionIsLocal == DistSpec => ImplementsLocal
<1>1. DistInv /\ [DistNext]_distVars => [Local!LocalNext]_(Local!localVars)
  <2>1. ASSUME NEW g \in Graphs, InvFor(g), DistNext
        PROVE  [Local!LocalNext]_(Local!localVars)
    BY <2>1, InvStep, LocalStep
  <2>2. ASSUME UNCHANGED distVars
        PROVE  UNCHANGED Local!localVars
    BY <2>2, TrafficIsStutter DEF distVars
  <2> QED BY <2>1, <2>2 DEF DistInv
<1> QED BY <1>1, LocalStart, DistInvariant, PTL
    DEF DistSpec, ImplementsLocal, Local!LocalSpec

=============================================================================
