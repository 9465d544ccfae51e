-------------------------- MODULE Supersede_proofs --------------------------
(* Proofs about the supersede operation: roles have one holder, the log     *)
(* tells the lineage, failures leave no trace, and the version a writer     *)
(* passes back stands for the graph it read.                                *)
EXTENDS Supersede, TLAPS

-----------------------------------------------------------------------------
(* Lineage of a graph, as a property of its nodes and edges alone.         *)

LineageOf(es) == {e \in es : IsLineage(e)}

Unbranched(ns, es) ==
  /\ \A id \in NodeId : ns[id] # NoNode =>
       (ns[id].status = "stale" <=> \E e \in LineageOf(es) : e.from_id = id)
  /\ \A d, e \in LineageOf(es) : d.from_id = e.from_id \/ d.to_id = e.to_id => d = e

EndsExist(ns, es) == \A e \in es : ns[e.from_id] # NoNode /\ ns[e.to_id] # NoNode

Sound(ns, es) == Unbranched(ns, es) /\ EndsExist(ns, es)

LEMMA LineageEdgeFields ==
  ASSUME NEW from \in NodeId, NEW to \in NodeId
  PROVE  /\ LineageEdge(from, to) \in Edge
         /\ IsLineage(LineageEdge(from, to))
         /\ LineageEdge(from, to).from_id = from
         /\ LineageEdge(from, to).to_id = to
BY LineageAssumption DEF LineageEdge, IsLineage, Edge

\* Redirecting touches no lineage edge.
LEMMA RedirectKeepsLineage ==
  ASSUME edges \subseteq Edge, NEW from \in NodeId, NEW to \in NodeId
  PROVE  /\ Redirected(from, to) \subseteq Edge
         /\ LineageOf(Redirected(from, to)) = LineageOf(edges)
         /\ \A e \in Redirected(from, to) : \E d \in edges :
              e.from_id = d.from_id /\ (e.to_id = d.to_id \/ e.to_id = to)
<1>1. ASSUME NEW d \in edges, d.to_id = from, ~IsLineage(d)
      PROVE  /\ [d EXCEPT !.to_id = to] \in Edge
             /\ ~IsLineage([d EXCEPT !.to_id = to])
             /\ [d EXCEPT !.to_id = to].from_id = d.from_id
             /\ [d EXCEPT !.to_id = to].to_id = to
  BY <1>1 DEF Edge, IsLineage
<1>2. Redirected(from, to) \subseteq Edge
  BY <1>1 DEF Redirected
<1>3. LineageOf(Redirected(from, to)) \subseteq LineageOf(edges)
  BY <1>1 DEF Redirected, LineageOf
<1>4. LineageOf(edges) \subseteq LineageOf(Redirected(from, to))
  <2> SUFFICES ASSUME NEW e \in edges, IsLineage(e)
               PROVE  e \in Redirected(from, to)
    BY DEF LineageOf
  <2>1. e = IF e.to_id = from /\ ~IsLineage(e) THEN [e EXCEPT !.to_id = to] ELSE e
    OBVIOUS
  <2> QED BY <2>1 DEF Redirected
<1>5. ASSUME NEW e \in Redirected(from, to)
      PROVE  \E d \in edges : e.from_id = d.from_id /\ (e.to_id = d.to_id \/ e.to_id = to)
  <2>1. PICK d \in edges :
          e = IF d.to_id = from /\ ~IsLineage(d) THEN [d EXCEPT !.to_id = to] ELSE d
    BY DEF Redirected
  <2> QED BY <2>1, <1>1
<1> QED BY <1>2, <1>3, <1>4, <1>5

\* A supersede with an active original and a new id keeps lineages sound.
LEMMA ApplyKeepsSound ==
  ASSUME TypeOK, Sound(nodes, edges),
         NEW w \in Writer, NEW original \in NodeId, NEW id \in NodeId,
         NEW replacement \in Proposal, Apply(w, original, id, replacement)
  PROVE  /\ Sound(nodes', edges')
         /\ edges' \subseteq Edge
         /\ nodes' \in [NodeId -> Node \cup {NoNode}]
         /\ LineageOf(edges') = LineageOf(edges) \cup {LineageEdge(original, id)}
<1> DEFINE new == LineageEdge(original, id)
<1> USE NoNodeAssumption
<1>1. /\ original # id
      /\ nodes[original] \in Node /\ nodes[original].status = "active"
      /\ nodes[id] = NoNode
      /\ replacement \in Node /\ replacement.status = "active"
  BY DEF TypeOK, Apply, Has, Proposal, Node
<1>2. /\ nodes' \in [NodeId -> Node \cup {NoNode}]
      /\ nodes'[id] = replacement
      /\ nodes'[original] # NoNode /\ nodes'[original].status = "stale"
      /\ \A n \in NodeId \ {id, original} : nodes'[n] = nodes[n]
  <2>1. [nodes[original] EXCEPT !.status = "stale"] \in Node
    BY <1>1 DEF Node
  <2>2. nodes' = [[nodes EXCEPT ![id] = replacement] EXCEPT ![original] =
                    [nodes[original] EXCEPT !.status = "stale"]]
    BY <1>1 DEF Apply, TypeOK
  <2>3. nodes'[original] = [nodes[original] EXCEPT !.status = "stale"]
    BY <2>2 DEF TypeOK
  <2>4. [nodes[original] EXCEPT !.status = "stale"].status = "stale"
    BY <1>1 DEF Node
  <2> QED BY <1>1, <2>1, <2>2, <2>3, <2>4 DEF TypeOK
<1>3. /\ edges' = Redirected(original, id) \cup {new}
      /\ edges \subseteq Edge
  BY DEF Apply, TypeOK
<1>4. /\ new \in Edge /\ IsLineage(new) /\ new.from_id = original /\ new.to_id = id
  BY LineageEdgeFields
<1>5. /\ edges' \subseteq Edge
      /\ LineageOf(edges') = LineageOf(edges) \cup {new}
  BY <1>3, <1>4, RedirectKeepsLineage DEF LineageOf
<1>6. EndsExist(nodes', edges')
  <2> SUFFICES ASSUME NEW e \in edges'
               PROVE  nodes'[e.from_id] # NoNode /\ nodes'[e.to_id] # NoNode
    BY DEF EndsExist
  <2>1. \A n \in NodeId : nodes[n] # NoNode => nodes'[n] # NoNode
    BY <1>1, <1>2
  <2>2. CASE e = new
    BY <2>2, <1>1, <1>2, <1>4
  <2>3. CASE e \in Redirected(original, id)
    <3>1. PICK d \in edges : e.from_id = d.from_id /\ (e.to_id = d.to_id \/ e.to_id = id)
      BY <2>3, <1>3, RedirectKeepsLineage
    <3>2. d.from_id \in NodeId /\ d.to_id \in NodeId
      BY <1>3 DEF Edge
    <3>3. nodes[d.from_id] # NoNode /\ nodes[d.to_id] # NoNode
      BY DEF Sound, EndsExist
    <3> QED BY <3>1, <3>2, <3>3, <2>1, <1>1, <1>2
  <2> QED BY <2>2, <2>3, <1>3
<1>7. \A e \in LineageOf(edges) :
        /\ e.from_id \in NodeId /\ e.to_id \in NodeId
        /\ e.from_id # id /\ e.to_id # id /\ e.from_id # original
  <2> SUFFICES ASSUME NEW e \in LineageOf(edges)
               PROVE  /\ e.from_id \in NodeId /\ e.to_id \in NodeId
                      /\ e.from_id # id /\ e.to_id # id /\ e.from_id # original
    OBVIOUS
  <2>1. e \in edges /\ e.from_id \in NodeId /\ e.to_id \in NodeId
    BY <1>3 DEF LineageOf, Edge
  <2>2. nodes[e.from_id] # NoNode /\ nodes[e.to_id] # NoNode
    BY <2>1 DEF Sound, EndsExist
  <2>3. e.from_id # original
    BY <1>1, NoNodeAssumption DEF Sound, Unbranched
  <2> QED BY <1>1, <2>1, <2>2, <2>3
<1>8. Unbranched(nodes', edges')
  <2>1. ASSUME NEW n \in NodeId, nodes'[n] # NoNode
        PROVE  nodes'[n].status = "stale" <=> \E e \in LineageOf(edges') : e.from_id = n
    <3>1. CASE n = id
      BY <3>1, <1>1, <1>2, <1>4, <1>5, <1>7
    <3>2. CASE n = original
      BY <3>2, <1>2, <1>4, <1>5
    <3>3. CASE n # id /\ n # original
      <4>1. nodes'[n] = nodes[n]
        BY <3>3, <1>2
      <4>2. nodes[n].status = "stale" <=> \E e \in LineageOf(edges) : e.from_id = n
        BY <2>1, <4>1 DEF Sound, Unbranched
      <4> QED BY <3>3, <4>1, <4>2, <1>4, <1>5
    <3> QED BY <3>1, <3>2, <3>3
  <2>2. \A d, e \in LineageOf(edges) : d.from_id = e.from_id \/ d.to_id = e.to_id => d = e
    BY DEF Sound, Unbranched
  <2>3. \A d, e \in LineageOf(edges') : d.from_id = e.from_id \/ d.to_id = e.to_id => d = e
    BY <2>2, <1>4, <1>5, <1>7
  <2> QED BY <2>1, <2>3 DEF Unbranched
<1> QED BY <1>2, <1>5, <1>6, <1>8 DEF Sound

-----------------------------------------------------------------------------
(* The invariant.                                                          *)

\* Between apply and validation: what is kept for the restoration, and how the
\* changed graph's lineage differs from it.
PendingSound ==
  ~Quiet =>
    /\ pending.snapshot.version = version /\ version < MaxVersion
    /\ pending.snapshot.provenance = provenance
    /\ Sound(pending.snapshot.nodes, pending.snapshot.edges)
    /\ pending.original # pending.replacement
    /\ pending.snapshot.nodes[pending.replacement] = NoNode
    /\ LineageOf(edges) = LineageOf(pending.snapshot.edges)
                            \cup {LineageEdge(pending.original, pending.replacement)}

RecordsDated == \A i \in DOMAIN provenance : provenance[i].graph_version <= version

\* A writer's version is never ahead of the graph's, and while it is the graph's
\* the writer has seen the graph.
ReadsDated ==
  \A w \in Writer : reads[w] # NotRead =>
    /\ reads[w].version <= version
    /\ reads[w].version = version =>
         reads[w].nodes = Settled.nodes /\ reads[w].edges = Settled.edges

PendingUnmoved ==
  ~Quiet => (reads[pending.writer] # NotRead => reads[pending.writer].version = version)

GraphInv == TypeOK /\ Sound(nodes, edges) /\ PendingSound
LogInv == LineageFollowsLog /\ RecordsDated
ReadInv == ReadsDated /\ PendingUnmoved

LEMMA InitInv == Init => GraphInv /\ LogInv /\ ReadInv
<1> SUFFICES ASSUME Init PROVE GraphInv /\ LogInv /\ ReadInv
  OBVIOUS
<1> USE DEF Init
<1>1. TypeOK
  BY MaxVersionAssumption DEF TypeOK
<1>2. Sound(nodes, edges)
  BY DEF Sound, Unbranched, EndsExist, LineageOf
<1>3. PendingSound /\ PendingUnmoved
  BY DEF PendingSound, PendingUnmoved, Quiet
<1>4. LogInv
  <2>1. {e \in edges : IsLineage(e)} =
          {LineageEdge(provenance[i].original_id, provenance[i].replacement_id) :
             i \in DOMAIN provenance}
    OBVIOUS
  <2> QED BY <2>1 DEF LogInv, LineageFollowsLog, RecordsDated, Quiet
<1>5. ReadsDated
  BY DEF ReadsDated
<1> QED BY <1>1, <1>2, <1>3, <1>4, <1>5 DEF GraphInv, LogInv, ReadInv

\* Types and soundness of the graph, action by action.
LEMMA GraphStep == GraphInv /\ [Next]_vars => GraphInv'
<1> SUFFICES ASSUME GraphInv, [Next]_vars PROVE GraphInv'
  OBVIOUS
<1> USE DEF GraphInv
<1>1. ASSUME NEW id \in NodeId, NEW node \in Proposal, AddNode(id, node)
      PROVE  GraphInv'
  <2>1. node \in Node /\ node.status = "active" /\ Quiet /\ nodes[id] = NoNode
    BY <1>1 DEF AddNode, Proposal, Node, Has
  <2>2. TypeOK'
    BY <1>1, <2>1, MaxVersionAssumption DEF AddNode, TypeOK
  <2>3. EndsExist(nodes', edges')
    BY <1>1, <2>1, NoNodeAssumption DEF AddNode, EndsExist, Sound, TypeOK, Edge
  <2>4. Unbranched(nodes', edges')
    <3>1. \A e \in LineageOf(edges) : e.from_id # id
      BY <2>1 DEF Sound, EndsExist, LineageOf
    <3>2. \A n \in NodeId : nodes'[n] = IF n = id THEN node ELSE nodes[n]
      BY <1>1 DEF AddNode, TypeOK
    <3>3. edges' = edges
      BY <1>1 DEF AddNode
    <3> QED BY <2>1, <3>1, <3>2, <3>3 DEF Sound, Unbranched
  <2>5. PendingSound'
    BY <1>1 DEF AddNode, PendingSound, Quiet
  <2> QED BY <2>2, <2>3, <2>4, <2>5 DEF Sound
<1>2. ASSUME NEW edge \in OrdinaryEdge, AddEdge(edge)
      PROVE  GraphInv'
  <2>1. edge \in Edge /\ ~IsLineage(edge)
    BY DEF OrdinaryEdge
  <2>2. TypeOK'
    BY <1>2, <2>1, MaxVersionAssumption DEF AddEdge, TypeOK
  <2>3. EndsExist(nodes', edges')
    BY <1>2 DEF AddEdge, EndsExist, Sound, Has
  <2>4. Unbranched(nodes', edges')
    <3>1. LineageOf(edges') = LineageOf(edges) /\ nodes' = nodes
      BY <1>2, <2>1 DEF AddEdge, LineageOf
    <3> QED BY <3>1 DEF Sound, Unbranched
  <2>5. PendingSound'
    BY <1>2 DEF AddEdge, PendingSound, Quiet
  <2> QED BY <2>2, <2>3, <2>4, <2>5 DEF Sound
<1>3. ASSUME NEW w \in Writer, Read(w)
      PROVE  GraphInv'
  <2>1. TypeOK'
    BY <1>3 DEF Read, TypeOK, graphVars
  <2>2. Sound(nodes, edges)' /\ PendingSound'
    BY <1>3 DEF Read, graphVars, PendingSound, Quiet, Sound, Unbranched, EndsExist
  <2> QED BY <2>1, <2>2
<1>4. ASSUME NEW w \in Writer, NEW original \in NodeId, NEW id \in NodeId,
             NEW replacement \in Proposal, Apply(w, original, id, replacement)
      PROVE  GraphInv'
  <2>1. /\ Sound(nodes', edges')
        /\ edges' \subseteq Edge
        /\ nodes' \in [NodeId -> Node \cup {NoNode}]
        /\ LineageOf(edges') = LineageOf(edges) \cup {LineageEdge(original, id)}
    BY <1>4, ApplyKeepsSound
  <2>2. /\ pending' = [snapshot |-> Snapshot, writer |-> w,
                       original |-> original, replacement |-> id]
        /\ Quiet /\ version < MaxVersion /\ nodes[id] = NoNode /\ original # id
    BY <1>4 DEF Apply, Has
  <2>3. Snapshot \in State
    BY DEF Snapshot, State, TypeOK
  <2>4. pending' \in Operation
    BY <2>2, <2>3 DEF Operation
  <2>5. TypeOK'
    BY <1>4, <2>1, <2>4 DEF Apply, TypeOK
  <2>6. PendingSound'
    BY <1>4, <2>1, <2>2 DEF Apply, PendingSound, Snapshot
  <2> QED BY <2>1, <2>5, <2>6
<1>5. ASSUME Commit
      PROVE  GraphInv'
  <2>1. pending \in Operation /\ version \in 0..MaxVersion /\ version < MaxVersion
    BY <1>5 DEF Commit, TypeOK, PendingSound, Quiet
  <2>2. [original_id |-> pending.original, replacement_id |-> pending.replacement,
         graph_version |-> version + 1] \in Record
    BY <2>1, MaxVersionAssumption DEF Operation, Record
  <2>3. provenance' \in Seq(Record)
    BY <1>5, <2>2 DEF Commit, TypeOK
  <2>4. TypeOK'
    BY <1>5, <2>1, <2>3, MaxVersionAssumption DEF Commit, TypeOK
  <2>5. Sound(nodes, edges)' /\ PendingSound'
    BY <1>5 DEF Commit, PendingSound, Quiet, Sound, Unbranched, EndsExist
  <2> QED BY <2>4, <2>5
<1>6. ASSUME Restore
      PROVE  GraphInv'
  <2>1. pending \in Operation
    BY <1>6 DEF Restore, TypeOK, Quiet
  <2>2. pending.snapshot \in State
    BY <2>1 DEF Operation
  <2>3. TypeOK'
    BY <1>6, <2>2 DEF Restore, TypeOK, State
  <2>4. Sound(nodes, edges)' /\ PendingSound'
    BY <1>6 DEF Restore, PendingSound, Quiet
  <2> QED BY <2>3, <2>4
<1>7. CASE UNCHANGED vars
  BY <1>7 DEF vars, TypeOK, Sound, Unbranched, EndsExist, PendingSound, Quiet
<1> QED BY <1>1, <1>2, <1>3, <1>4, <1>5, <1>6, <1>7 DEF Next
-----------------------------------------------------------------------------
(* The log.                                                                *)

LogLineage(log) ==
  {LineageEdge(log[i].original_id, log[i].replacement_id) : i \in DOMAIN log}

LEMMA AppendAddsLineage ==
  ASSUME NEW log \in Seq(Record), NEW record \in Record
  PROVE  /\ DOMAIN Append(log, record) = DOMAIN log \cup {Len(log) + 1}
         /\ \A i \in DOMAIN log : Append(log, record)[i] = log[i] /\ i < Len(log) + 1
         /\ Append(log, record)[Len(log) + 1] = record
         /\ LogLineage(Append(log, record)) =
              LogLineage(log) \cup {LineageEdge(record.original_id, record.replacement_id)}
<1>1. DOMAIN Append(log, record) = DOMAIN log \cup {Len(log) + 1}
  OBVIOUS
<1>2. \A i \in DOMAIN log : Append(log, record)[i] = log[i] /\ i < Len(log) + 1
  OBVIOUS
<1>3. Append(log, record)[Len(log) + 1] = record
  OBVIOUS
<1> QED BY <1>1, <1>2, <1>3 DEF LogLineage

\* A record's ends are nodes of the settled graph.
LEMMA RecordsKnown ==
  ASSUME GraphInv, LogInv, NEW i \in DOMAIN provenance
  PROVE  /\ provenance[i] \in Record
         /\ Settled.nodes[provenance[i].original_id] # NoNode
         /\ Settled.nodes[provenance[i].replacement_id] # NoNode
<1> DEFINE from == provenance[i].original_id
           to == provenance[i].replacement_id
<1>1. provenance[i] \in Record
  BY DEF GraphInv, TypeOK
<1>2. from \in NodeId /\ to \in NodeId
  BY <1>1 DEF Record
<1>3. LineageEdge(from, to) \in IF Quiet THEN edges ELSE pending.snapshot.edges
  BY DEF LogInv, LineageFollowsLog
<1>4. LineageEdge(from, to) \in Settled.edges
  BY <1>3 DEF Settled, Snapshot
<1>5. EndsExist(Settled.nodes, Settled.edges)
  BY DEF GraphInv, PendingSound, Sound, Settled, Snapshot
<1> QED BY <1>1, <1>2, <1>4, <1>5, LineageEdgeFields DEF EndsExist

LEMMA RecordsEarlier ==
  ASSUME GraphInv, LogInv
  PROVE  /\ version \in Nat
         /\ \A i \in DOMAIN provenance :
              provenance[i].graph_version \in Nat /\ provenance[i].graph_version < version + 1
<1>1. version \in Nat /\ provenance \in Seq(Record)
  BY MaxVersionAssumption DEF GraphInv, TypeOK
<1>2. ASSUME NEW i \in DOMAIN provenance
      PROVE  provenance[i].graph_version \in Nat /\ provenance[i].graph_version < version + 1
  <2>1. provenance[i] \in Record
    BY <1>1
  <2>2. provenance[i].graph_version \in Nat
    BY <2>1, MaxVersionAssumption DEF Record
  <2>3. provenance[i].graph_version <= version
    BY DEF LogInv, RecordsDated
  <2> QED BY <1>1, <2>2, <2>3
<1> QED BY <1>1, <1>2

LEMMA LogStep == GraphInv /\ LogInv /\ [Next]_vars => LogInv'
<1> SUFFICES ASSUME GraphInv, LogInv, [Next]_vars PROVE LogInv'
  OBVIOUS
<1>1. ASSUME NEW id \in NodeId, NEW node \in Proposal, AddNode(id, node)
      PROVE  LogInv'
  <2>1. /\ Quiet /\ Quiet' /\ edges' = edges
        /\ provenance' = provenance /\ version' = version + 1
    BY <1>1 DEF AddNode, Quiet
  <2>2. LineageFollowsLog'
    BY <2>1 DEF LogInv, LineageFollowsLog
  <2>3. RecordsDated'
    BY <2>1, RecordsEarlier DEF RecordsDated
  <2> QED BY <2>2, <2>3 DEF LogInv
<1>2. ASSUME NEW edge \in OrdinaryEdge, AddEdge(edge)
      PROVE  LogInv'
  <2>1. {e \in edges' : IsLineage(e)} = {e \in edges : IsLineage(e)}
    BY <1>2 DEF AddEdge, OrdinaryEdge
  <2>2. Quiet /\ Quiet' /\ provenance' = provenance /\ version' = version + 1
    BY <1>2 DEF AddEdge, Quiet
  <2>3. LineageFollowsLog'
    BY <2>1, <2>2 DEF LogInv, LineageFollowsLog
  <2>4. RecordsDated'
    BY <2>2, RecordsEarlier DEF RecordsDated
  <2> QED BY <2>3, <2>4 DEF LogInv
<1>3. ASSUME NEW w \in Writer, Read(w)
      PROVE  LogInv'
  BY <1>3 DEF Read, graphVars, Quiet, LogInv, LineageFollowsLog, RecordsDated
<1>4. ASSUME NEW w \in Writer, NEW original \in NodeId, NEW id \in NodeId,
             NEW replacement \in Proposal, Apply(w, original, id, replacement)
      PROVE  LogInv'
  <2>1. /\ Quiet /\ pending'.snapshot.edges = edges
        /\ provenance' = provenance /\ version' = version
    BY <1>4 DEF Apply, Snapshot
  <2>2. ~Quiet'
    <3>1. Snapshot \in State
      BY DEF Snapshot, State, TypeOK, GraphInv
    <3>2. pending' \in Operation
      BY <1>4, <3>1 DEF Apply, Operation
    <3> QED BY <3>2, NoOperationAssumption DEF Quiet
  <2>3. LineageFollowsLog'
    BY <2>1, <2>2 DEF LogInv, LineageFollowsLog
  <2> QED BY <2>1, <2>3 DEF LogInv, RecordsDated
<1>5. ASSUME Commit
      PROVE  LogInv'
  <2> DEFINE record == [original_id |-> pending.original,
                        replacement_id |-> pending.replacement,
                        graph_version |-> version + 1]
             last == Len(provenance) + 1
  <2>1. /\ pending \in Operation /\ version \in Nat /\ version < MaxVersion
        /\ provenance \in Seq(Record) /\ ~Quiet /\ Quiet'
        /\ version' = version + 1 /\ edges' = edges
        /\ provenance' = Append(provenance, record)
    BY <1>5 DEF Commit, GraphInv, TypeOK, PendingSound, Quiet
  <2>2. record \in Record
    BY <2>1, MaxVersionAssumption DEF Operation, Record
  <2>3. /\ DOMAIN provenance' = DOMAIN provenance \cup {last}
        /\ \A i \in DOMAIN provenance : provenance'[i] = provenance[i] /\ i < last
        /\ provenance'[last] = record
        /\ LogLineage(provenance') =
             LogLineage(provenance) \cup {LineageEdge(pending.original, pending.replacement)}
    BY <2>1, <2>2, AppendAddsLineage
  <2>4. {e \in edges' : IsLineage(e)} = LogLineage(provenance')
    <3>1. LineageOf(pending.snapshot.edges) = LogLineage(provenance)
      BY <2>1 DEF LogInv, LineageFollowsLog, LogLineage, LineageOf
    <3>2. LineageOf(edges) = LineageOf(pending.snapshot.edges)
                              \cup {LineageEdge(pending.original, pending.replacement)}
      BY <2>1 DEF GraphInv, PendingSound
    <3> QED BY <2>1, <2>3, <3>1, <3>2 DEF LineageOf
  <2>5. /\ pending.original # pending.replacement
        /\ \A j \in DOMAIN provenance : pending.replacement # provenance[j].original_id
    <3>1. pending.original # pending.replacement /\ Settled.nodes[pending.replacement] = NoNode
      BY <2>1 DEF GraphInv, PendingSound, Settled
    <3> QED BY <3>1, RecordsKnown
  <2>6. \A i, j \in DOMAIN provenance' :
          provenance'[i].replacement_id = provenance'[j].original_id => i < j
    <3>1. \A i, j \in DOMAIN provenance :
            provenance[i].replacement_id = provenance[j].original_id => i < j
      BY DEF LogInv, LineageFollowsLog
    <3> QED BY <2>3, <2>5, <3>1
  <2>7. \A i \in DOMAIN provenance :
          provenance[i].graph_version \in Nat /\ provenance[i].graph_version < version + 1
    BY RecordsEarlier
  <2>8. \A i, j \in DOMAIN provenance' :
          i < j => provenance'[i].graph_version < provenance'[j].graph_version
    <3>1. \A i, j \in DOMAIN provenance :
            i < j => provenance[i].graph_version < provenance[j].graph_version
      BY DEF LogInv, LineageFollowsLog
    <3>2. DOMAIN provenance \subseteq Nat /\ last \in Nat
      BY <2>1
    <3> QED BY <2>3, <2>7, <3>1, <3>2
  <2>9. RecordsDated'
    BY <2>1, <2>3, <2>7 DEF RecordsDated
  <2>10. LineageFollowsLog'
    BY <2>1, <2>4, <2>6, <2>8 DEF LineageFollowsLog, LogLineage
  <2> QED BY <2>9, <2>10 DEF LogInv
<1>6. ASSUME Restore
      PROVE  LogInv'
  <2>1. /\ ~Quiet /\ Quiet' /\ edges' = pending.snapshot.edges
        /\ provenance' = provenance /\ version' = version
    BY <1>6 DEF Restore, Quiet, GraphInv, PendingSound
  <2> QED BY <2>1 DEF LogInv, LineageFollowsLog, RecordsDated
<1>7. CASE UNCHANGED vars
  BY <1>7 DEF vars, Quiet, LogInv, LineageFollowsLog, RecordsDated
<1> QED BY <1>1, <1>2, <1>3, <1>4, <1>5, <1>6, <1>7 DEF Next

-----------------------------------------------------------------------------
(* Whole operations, and what writers have read.                           *)

LEMMA SettledStep ==
  ASSUME GraphInv, [Next]_vars
  PROVE  Settled' = Settled \/ Settled'.version = Settled.version + 1
<1>1. ASSUME NEW id \in NodeId, NEW node \in Proposal, AddNode(id, node)
      PROVE  Settled'.version = Settled.version + 1
  BY <1>1 DEF AddNode, Quiet, Settled, Snapshot
<1>2. ASSUME NEW edge \in OrdinaryEdge, AddEdge(edge)
      PROVE  Settled'.version = Settled.version + 1
  BY <1>2 DEF AddEdge, Quiet, Settled, Snapshot
<1>3. ASSUME NEW w \in Writer, Read(w)
      PROVE  Settled' = Settled
  BY <1>3 DEF Read, graphVars, Quiet, Settled, Snapshot
<1>4. ASSUME NEW w \in Writer, NEW original \in NodeId, NEW id \in NodeId,
             NEW replacement \in Proposal, Apply(w, original, id, replacement)
      PROVE  Settled' = Settled
  <2>1. Snapshot \in State
    BY DEF Snapshot, State, TypeOK, GraphInv
  <2>2. pending' \in Operation /\ pending'.snapshot = Snapshot /\ Quiet
    BY <1>4, <2>1 DEF Apply, Operation
  <2>3. ~Quiet'
    BY <2>2, NoOperationAssumption DEF Quiet
  <2> QED BY <2>2, <2>3 DEF Settled
<1>5. ASSUME Commit
      PROVE  Settled'.version = Settled.version + 1
  BY <1>5 DEF Commit, Quiet, Settled, Snapshot, GraphInv, PendingSound
<1>6. ASSUME Restore
      PROVE  Settled' = Settled
  <2>1. pending \in Operation
    BY <1>6 DEF Restore, GraphInv, TypeOK, Quiet
  <2>2. pending.snapshot \in State
    BY <2>1 DEF Operation
  <2>3. pending.snapshot = Snapshot'
    BY <1>6, <2>2 DEF Restore, State, Snapshot
  <2> QED BY <1>6, <2>3 DEF Restore, Quiet, Settled
<1>7. ASSUME UNCHANGED vars
      PROVE  Settled' = Settled
  BY <1>7 DEF vars, Quiet, Settled, Snapshot
<1> QED BY <1>1, <1>2, <1>3, <1>4, <1>5, <1>6, <1>7 DEF Next

LEMMA SettledVersion ==
  ASSUME GraphInv
  PROVE  Settled.version = version /\ version \in Nat
BY DEF GraphInv, TypeOK, PendingSound, Settled, Snapshot

LEMMA ReadStep == GraphInv /\ ReadInv /\ [Next]_vars => ReadInv'
<1> SUFFICES ASSUME GraphInv, ReadInv, [Next]_vars PROVE ReadInv'
  OBVIOUS
<1>1. GraphInv'
  BY GraphStep
<1>2. /\ Settled.version = version /\ version \in Nat
      /\ Settled'.version = version' /\ version' \in Nat
  <2>1. Settled.version = version /\ version \in Nat
    BY SettledVersion
  <2>2. Settled'.version = version' /\ version' \in Nat
    BY <1>1 DEF GraphInv, TypeOK, PendingSound, Settled, Snapshot
  <2> QED BY <2>1, <2>2
<1>3. \/ Settled' = Settled /\ version' = version
      \/ version' = version + 1
  BY <1>2, SettledStep
<1>4. ASSUME NEW w \in Writer, reads[w] # NotRead
      PROVE  /\ reads[w].version \in Nat
             /\ reads[w].version <= version
             /\ reads[w].version = version =>
                  reads[w].nodes = Settled.nodes /\ reads[w].edges = Settled.edges
  BY <1>4 DEF GraphInv, TypeOK, ReadInv, ReadsDated
<1>5. ASSUME reads' = reads
      PROVE  ReadsDated'
  BY <1>2, <1>3, <1>4, <1>5 DEF ReadsDated
<1>6. ASSUME reads' = reads, Quiet'
      PROVE  ReadInv'
  BY <1>5, <1>6 DEF ReadInv, PendingUnmoved
<1>7. ASSUME NEW w \in Writer, Read(w)
      PROVE  ReadInv'
  <2>1. /\ Quiet /\ Quiet' /\ Settled' = Settled /\ Settled = Snapshot /\ version' = version
        /\ reads' = [reads EXCEPT ![w] = [version |-> version, nodes |-> nodes, edges |-> edges]]
    BY <1>7 DEF Read, graphVars, Quiet, Settled, Snapshot
  <2>2. ASSUME NEW v \in Writer, reads'[v] # NotRead
        PROVE  /\ reads'[v].version <= version'
               /\ reads'[v].version = version' =>
                    reads'[v].nodes = Settled'.nodes /\ reads'[v].edges = Settled'.edges
    <3>1. CASE v = w
      <4>1. reads'[v] = [version |-> version, nodes |-> nodes, edges |-> edges]
        BY <3>1, <2>1 DEF GraphInv, TypeOK
      <4> QED BY <4>1, <2>1, <1>2 DEF Snapshot
    <3>2. CASE v # w
      <4>1. reads'[v] = reads[v]
        BY <3>2, <2>1 DEF GraphInv, TypeOK
      <4> QED BY <4>1, <2>1, <2>2, <1>4
    <3> QED BY <3>1, <3>2
  <2> QED BY <2>1, <2>2 DEF ReadInv, ReadsDated, PendingUnmoved
<1>8. ASSUME NEW w \in Writer, NEW original \in NodeId, NEW id \in NodeId,
             NEW replacement \in Proposal, Apply(w, original, id, replacement)
      PROVE  ReadInv'
  <2>1. /\ reads' = reads /\ version' = version /\ pending'.writer = w
        /\ reads[w] # NotRead => reads[w].version = version
    BY <1>8 DEF Apply, Unmoved
  <2> QED BY <1>5, <2>1 DEF ReadInv, PendingUnmoved
<1>9. CASE UNCHANGED vars
  BY <1>9, <1>5 DEF vars, Quiet, ReadInv, PendingUnmoved
<1> QED BY <1>6, <1>7, <1>8, <1>9 DEF Next, AddNode, AddEdge, Commit, Restore, Quiet

-----------------------------------------------------------------------------
(* Replacements have what their types require.                             *)

Complete(ns, es) == \A e \in LineageOf(es) : Missing(ns[e.to_id]) = {}

\* Between apply and validation only the replacement may lack something: the
\* lineage that was there before is complete on both sides.
CompleteInv == Complete(Settled.nodes, Settled.edges) /\ Complete(nodes, Settled.edges)

\* A node keeps its type and its properties whatever happens to its status.
LEMMA ApplyKeepsContent ==
  ASSUME TypeOK, NEW w \in Writer, NEW original \in NodeId, NEW id \in NodeId,
         NEW replacement \in Proposal, Apply(w, original, id, replacement),
         NEW n \in NodeId, nodes[n] # NoNode
  PROVE  Missing(nodes'[n]) = Missing(nodes[n])
<1>1. /\ n # id /\ nodes[n] \in Node
      /\ nodes' = [nodes EXCEPT ![id] = replacement, ![original].status = "stale"]
  BY DEF TypeOK, Apply, Has
<1>2. original # id
  BY DEF Apply, Has
<1>3. CASE n # original
  BY <1>1, <1>3 DEF TypeOK
<1>4. CASE n = original
  <2>1. nodes'[n] = [nodes[n] EXCEPT !.status = "stale"]
    BY <1>1, <1>2, <1>4 DEF TypeOK
  <2>2. nodes'[n].type = nodes[n].type /\ nodes'[n].properties = nodes[n].properties
    BY <1>1, <2>1 DEF Node
  <2> QED BY <2>2 DEF Missing
<1> QED BY <1>3, <1>4

LEMMA CompleteStep == GraphInv /\ CompleteInv /\ [Next]_vars => CompleteInv'
<1> SUFFICES ASSUME GraphInv, CompleteInv, [Next]_vars PROVE CompleteInv'
  OBVIOUS
<1>0. \A e \in LineageOf(Settled.edges) :
        /\ e.from_id \in NodeId /\ e.to_id \in NodeId
        /\ Settled.nodes[e.to_id] # NoNode
  <2> SUFFICES ASSUME NEW e \in LineageOf(Settled.edges)
               PROVE  /\ e.from_id \in NodeId /\ e.to_id \in NodeId
                      /\ Settled.nodes[e.to_id] # NoNode
    OBVIOUS
  <2>1. Settled \in State /\ Sound(Settled.nodes, Settled.edges)
    BY DEF GraphInv, TypeOK, PendingSound, Settled, Snapshot, State, Operation, Quiet
  <2>2. e \in Settled.edges /\ e \in Edge
    BY <2>1 DEF LineageOf, State
  <2> QED BY <2>1, <2>2 DEF Sound, EndsExist, Edge
<1>1. ASSUME NEW id \in NodeId, NEW node \in Proposal, AddNode(id, node)
      PROVE  CompleteInv'
  <2>1. /\ Settled.nodes = nodes /\ Settled.edges = edges
        /\ Settled'.nodes = nodes' /\ Settled'.edges = edges /\ edges' = edges
        /\ nodes[id] = NoNode
        /\ nodes' = [nodes EXCEPT ![id] = node]
    BY <1>1 DEF AddNode, Settled, Snapshot, Quiet, Has
  <2>2. \A n \in NodeId : nodes[n] # NoNode => nodes'[n] = nodes[n]
    BY <2>1 DEF GraphInv, TypeOK
  <2>3. Complete(nodes', edges)
    BY <1>0, <2>1, <2>2 DEF CompleteInv, Complete
  <2> QED BY <2>1, <2>3 DEF CompleteInv
<1>2. ASSUME NEW edge \in OrdinaryEdge, AddEdge(edge)
      PROVE  CompleteInv'
  <2>1. /\ Settled.nodes = nodes /\ Settled.edges = edges
        /\ Settled'.nodes = nodes /\ Settled'.edges = edges' /\ nodes' = nodes
        /\ LineageOf(edges') = LineageOf(edges)
    BY <1>2 DEF AddEdge, OrdinaryEdge, LineageOf, Settled, Snapshot, Quiet
  <2> QED BY <2>1 DEF CompleteInv, Complete
<1>3. ASSUME NEW w \in Writer, Read(w)
      PROVE  CompleteInv'
  <2>1. Settled' = Settled /\ nodes' = nodes
    BY <1>3 DEF Read, graphVars, Settled, Snapshot, Quiet
  <2> QED BY <2>1 DEF CompleteInv, Complete
<1>4. ASSUME NEW w \in Writer, NEW original \in NodeId, NEW id \in NodeId,
             NEW replacement \in Proposal, Apply(w, original, id, replacement)
      PROVE  CompleteInv'
  <2>1. /\ Settled.nodes = nodes /\ Settled.edges = edges
        /\ pending'.snapshot = Snapshot
    BY <1>4 DEF Apply, Settled, Snapshot, Quiet
  <2>2. GraphInv'
    BY GraphStep
  <2>3. Settled' = Settled
    <3>1. pending' \in Operation
      <4>1. Snapshot \in State
        BY DEF Snapshot, State, TypeOK, GraphInv
      <4> QED BY <1>4, <4>1 DEF Apply, Operation
    <3>2. ~Quiet'
      BY <3>1, NoOperationAssumption DEF Quiet
    <3> QED BY <1>4, <2>1, <3>2 DEF Settled, Apply, Quiet
  <2>4. ASSUME NEW e \in LineageOf(edges)
        PROVE  Missing(nodes'[e.to_id]) = {}
    <3>1. Missing(nodes'[e.to_id]) = Missing(nodes[e.to_id])
      BY <1>0, <1>4, <2>1, ApplyKeepsContent DEF GraphInv
    <3> QED BY <3>1, <2>1 DEF CompleteInv, Complete
  <2> QED BY <2>1, <2>3, <2>4 DEF CompleteInv, Complete
<1>5. ASSUME Commit
      PROVE  CompleteInv'
  <2>1. /\ Settled'.nodes = nodes /\ Settled'.edges = edges /\ nodes' = nodes
        /\ Settled.edges = pending.snapshot.edges
        /\ Missing(nodes[pending.replacement]) = {}
    BY <1>5 DEF Commit, Settled, Snapshot, Quiet
  <2>2. /\ pending \in Operation
        /\ LineageOf(edges) = LineageOf(Settled.edges)
                                \cup {LineageEdge(pending.original, pending.replacement)}
    BY <1>5, <2>1 DEF Commit, GraphInv, TypeOK, PendingSound, Quiet
  <2>3. LineageEdge(pending.original, pending.replacement).to_id = pending.replacement
    BY <2>2, LineageEdgeFields DEF Operation
  <2>4. Complete(nodes, edges)
    BY <2>1, <2>2, <2>3 DEF CompleteInv, Complete
  <2> QED BY <2>1, <2>4 DEF CompleteInv
<1>6. ASSUME Restore
      PROVE  CompleteInv'
  <2>1. /\ Settled.nodes = nodes' /\ Settled.edges = edges'
        /\ Settled'.nodes = nodes' /\ Settled'.edges = edges'
    BY <1>6 DEF Restore, Settled, Snapshot, Quiet
  <2> QED BY <2>1 DEF CompleteInv
<1>7. CASE UNCHANGED vars
  <2>1. Settled' = Settled /\ nodes' = nodes
    BY <1>7 DEF vars, Settled, Snapshot, Quiet
  <2> QED BY <2>1 DEF CompleteInv, Complete
<1> QED BY <1>1, <1>2, <1>3, <1>4, <1>5, <1>6, <1>7 DEF Next

-----------------------------------------------------------------------------
(* Theorems.                                                               *)

THEOREM SupersedeInvariant == Spec => [](GraphInv /\ LogInv /\ ReadInv)
<1>1. GraphInv /\ LogInv /\ ReadInv /\ [Next]_vars => (GraphInv /\ LogInv /\ ReadInv)'
  BY GraphStep, LogStep, ReadStep
<1> QED BY <1>1, InitInv, PTL DEF Spec

\* Every node of the graph has a type the schema allows, and the other
\* collections keep their types.
THEOREM SupersedeTyped == Spec => []TypeOK
<1>1. GraphInv => TypeOK
  BY DEF GraphInv
<1> QED BY <1>1, SupersedeInvariant, PTL

\* However often replacements are replaced, a superseded node has one successor
\* and an active one none: current() finds one holder of every role.
THEOREM OneHolderPerRole == Spec => []LineageUnbranched
<1>1. GraphInv => LineageUnbranched
  BY DEF GraphInv, Sound, Unbranched, LineageOf, LineageUnbranched, Lineage, Has
<1> QED BY <1>1, SupersedeInvariant, PTL

\* The provenance log tells the lineage and orders it, so that no chain closes.
THEOREM LogTellsLineage == Spec => []LineageFollowsLog
<1>1. LogInv => LineageFollowsLog
  BY DEF LogInv
<1> QED BY <1>1, SupersedeInvariant, PTL

\* A supersede that passed the conflict check acts on what its writer read.
THEOREM VersionStandsForGraph == Spec => []ActsOnWhatWasRead
<1>1. GraphInv /\ ReadInv => ActsOnWhatWasRead
  <2> SUFFICES ASSUME GraphInv, ReadInv, ~Quiet, reads[pending.writer] # NotRead
               PROVE  /\ reads[pending.writer].nodes = pending.snapshot.nodes
                      /\ reads[pending.writer].edges = pending.snapshot.edges
    BY DEF ActsOnWhatWasRead
  <2>1. pending.writer \in Writer
    BY DEF GraphInv, TypeOK, Operation, Quiet
  <2> QED BY <2>1 DEF ReadInv, ReadsDated, PendingUnmoved, Settled
<1> QED BY <1>1, SupersedeInvariant, PTL

\* Every node that took over a role has what its type requires, however often
\* supersedes fail their validation and are undone in between.
THEOREM ReplacementsAreComplete == Spec => []ReplacementsComplete
<1>1. Init => CompleteInv
  BY DEF Init, CompleteInv, Complete, LineageOf, Settled, Snapshot, Quiet
<1>2. GraphInv /\ LogInv /\ ReadInv => GraphInv
  OBVIOUS
<1>3. GraphInv /\ CompleteInv => ReplacementsComplete
  BY DEF CompleteInv, Complete, ReplacementsComplete, Lineage, LineageOf, Settled, Snapshot
<1> QED BY <1>1, <1>2, <1>3, CompleteStep, SupersedeInvariant, PTL DEF Spec

\* Between operations the graph moves by whole operations; a failed supersede
\* leaves no trace.
THEOREM FailuresLeaveNoTrace == Spec => WholeOperations
<1>1. GraphInv /\ [Next]_vars =>
        [Settled' # Settled => Settled'.version = Settled.version + 1]_vars
  BY SettledStep
<1>2. GraphInv /\ LogInv /\ ReadInv => GraphInv
  OBVIOUS
<1> QED BY <1>1, <1>2, SupersedeInvariant, PTL DEF Spec, WholeOperations
=============================================================================
