---------------------------- MODULE Walk_proofs ----------------------------
(* Proofs about the walks over a self-modifying graph: whatever processes  *)
(* take part and whichever of them dies, the walk is the one that the      *)
(* graph prescribes, it is reported as it went, and the file is whole.     *)
EXTENDS DecomposedWalk, StorageWalk, RenderWalk, MediatedWalk, BackendWalk, Lists_proofs

-----------------------------------------------------------------------------
(* Walks and documents.                                                    *)

Results == {"high", "low", "even", "odd", "done", "audit", "v2", "ok"}
WalkState ==
  [at : NodeId, acc : Int, result : Results, executed : Seq(NodeId),
   stage : {"execute", "route", "done", "failed"}]

LEMMA WalkMoves ==
  ASSUME NEW w \in WalkState
  PROVE  /\ /\ Executed(w) \in WalkState /\ Executed(w).at = w.at
            /\ Executed(w).stage = "route"
            /\ Executed(w).executed = Append(w.executed, w.at)
         /\ \A n \in NodeId :
              /\ MovedTo(w, n) \in WalkState /\ MovedTo(w, n).at = n
              /\ MovedTo(w, n).stage = "execute"
              /\ MovedTo(w, n).executed = w.executed
         /\ \A outcome \in {"done", "failed"} :
              /\ Over(w, outcome) \in WalkState /\ Over(w, outcome).stage = outcome
              /\ Over(w, outcome).at = w.at
              /\ Over(w, outcome).executed = w.executed
<1>1. Accumulate(w.at, w.acc) \in Int
  BY AmountAssumption DEF WalkState, Accumulate
<1>2. ASSUME NEW acc PROVE Result(w.at, acc) \in Results
  BY DEF Result, Results
<1>3. Append(w.executed, w.at) \in Seq(NodeId)
  BY DEF WalkState
<1>4. /\ Executed(w) \in WalkState /\ Executed(w).at = w.at
      /\ Executed(w).stage = "route"
      /\ Executed(w).executed = Append(w.executed, w.at)
  BY <1>1, <1>2, <1>3 DEF WalkState, Executed
<1>5. \A n \in NodeId :
        /\ MovedTo(w, n) \in WalkState /\ MovedTo(w, n).at = n
        /\ MovedTo(w, n).stage = "execute"
        /\ MovedTo(w, n).executed = w.executed
  BY DEF WalkState, MovedTo
<1>6. \A outcome \in {"done", "failed"} :
        /\ Over(w, outcome) \in WalkState /\ Over(w, outcome).stage = outcome
        /\ Over(w, outcome).at = w.at
        /\ Over(w, outcome).executed = w.executed
  BY DEF WalkState, Over
<1> QED BY <1>4, <1>5, <1>6

LEMMA MissingType ==
  ASSUME NEW d \in Document, NEW n \in NodeId, Grows(n)
  PROVE  /\ Growth[n] \in Document /\ Missing(d, n) \in Document
         /\ ToSet(Missing(d, n).nodes) = ToSet(Growth[n].nodes) \ ToSet(d.nodes)
         /\ ToSet(Missing(d, n).edges) = ToSet(Growth[n].edges) \ ToSet(d.edges)
<1>1. Growth[n] \in Document
  BY GrowthAssumption DEF Grows
<1>2. Growth[n].nodes \in Seq(NodeId) /\ Growth[n].edges \in Seq(Edges)
  BY <1>1 DEF Document
<1>3. /\ Missing(d, n).nodes \in Seq(NodeId)
      /\ ToSet(Missing(d, n).nodes) = ToSet(Growth[n].nodes) \ ToSet(d.nodes)
  BY <1>2, KeptElements DEF Missing
<1>4. /\ Missing(d, n).edges \in Seq(Edges)
      /\ ToSet(Missing(d, n).edges) = ToSet(Growth[n].edges) \ ToSet(d.edges)
  BY <1>2, KeptElements DEF Missing
<1>5. Missing(d, n) = [nodes |-> Missing(d, n).nodes, edges |-> Missing(d, n).edges]
  BY DEF Missing
<1> QED BY <1>1, <1>3, <1>4, <1>5 DEF Document

\* A document is whole when it has everything that a node adds.
LEMMA WholeHasAll ==
  ASSUME NEW d \in Document, NEW n \in NodeId, Grows(n)
  PROVE  Whole(d, n) <=> /\ ToSet(Growth[n].nodes) \subseteq ToSet(d.nodes)
                         /\ ToSet(Growth[n].edges) \subseteq ToSet(d.edges)
<1>1. Missing(d, n).nodes \in Seq(NodeId) /\ Missing(d, n).edges \in Seq(Edges)
  BY MissingType DEF Document
<1>2. Whole(d, n) <=> Missing(d, n).nodes = <<>> /\ Missing(d, n).edges = <<>>
  BY DEF Whole, Empty, Missing
<1>3. /\ ToSet(Missing(d, n).nodes) = ToSet(Growth[n].nodes) \ ToSet(d.nodes)
      /\ ToSet(Missing(d, n).edges) = ToSet(Growth[n].edges) \ ToSet(d.edges)
  BY MissingType
<1>4. /\ (Missing(d, n).nodes = <<>>) <=> (ToSet(Missing(d, n).nodes) = {})
      /\ (Missing(d, n).edges = <<>>) <=> (ToSet(Missing(d, n).edges) = {})
  BY <1>1, ElementsOf
<1> QED BY <1>2, <1>3, <1>4

LEMMA MergedIsWhole ==
  ASSUME NEW d \in Document, NEW n \in NodeId, Grows(n)
  PROVE  LET e == Merge(d, Missing(d, n))
         IN  /\ e \in Document /\ Whole(e, n)
             /\ ToSet(e.nodes) = ToSet(d.nodes) \cup ToSet(Growth[n].nodes)
             /\ ToSet(e.edges) = ToSet(d.edges) \cup ToSet(Growth[n].edges)
<1> DEFINE e == Merge(d, Missing(d, n))
<1>1. d.nodes \in Seq(NodeId) /\ d.edges \in Seq(Edges)
  BY DEF Document
<1>2. Missing(d, n).nodes \in Seq(NodeId) /\ Missing(d, n).edges \in Seq(Edges)
  BY MissingType DEF Document
<1>3. /\ e.nodes = d.nodes \o Missing(d, n).nodes
      /\ e.edges = d.edges \o Missing(d, n).edges
      /\ e = [nodes |-> e.nodes, edges |-> e.edges]
  BY DEF Merge
<1> HIDE DEF e
<1> DEFINE m == Missing(d, n)
<1>0. /\ ToSet(m.nodes) = ToSet(Growth[n].nodes) \ ToSet(d.nodes)
      /\ ToSet(m.edges) = ToSet(Growth[n].edges) \ ToSet(d.edges)
  BY MissingType
<1> HIDE DEF m
<1>4. /\ e.nodes \in Seq(NodeId)
      /\ ToSet(e.nodes) = ToSet(d.nodes) \cup ToSet(Growth[n].nodes)
  <2>1. e.nodes \in Seq(NodeId) /\ ToSet(e.nodes) = ToSet(d.nodes) \cup ToSet(m.nodes)
    BY <1>1, <1>2, <1>3, ElementsOfConcat DEF m
  <2> QED BY <2>1, <1>0
<1>5. /\ e.edges \in Seq(Edges)
      /\ ToSet(e.edges) = ToSet(d.edges) \cup ToSet(Growth[n].edges)
  <2>1. e.edges \in Seq(Edges) /\ ToSet(e.edges) = ToSet(d.edges) \cup ToSet(m.edges)
    BY <1>1, <1>2, <1>3, ElementsOfConcat DEF m
  <2> QED BY <2>1, <1>0
<1>6. e \in Document
  BY <1>3, <1>4, <1>5 DEF Document
<1>7. Whole(e, n)
  BY <1>4, <1>5, <1>6, WholeHasAll
<1> QED BY <1>4, <1>5, <1>6, <1>7 DEF e

LEMMA MergedFlows ==
  ASSUME NEW d \in Document, NEW n \in NodeId, Grows(n), Has(d, n), ControlFlow(d)
  PROVE  ControlFlow(Merge(d, Missing(d, n)))
<1> DEFINE e == Merge(d, Missing(d, n))
<1>1. /\ ToSet(e.nodes) = ToSet(d.nodes) \cup ToSet(Growth[n].nodes)
      /\ ToSet(e.edges) = ToSet(d.edges) \cup ToSet(Growth[n].edges)
  BY MergedIsWhole
<1> HIDE DEF e
<1>2. Flows(Growth[n]) /\ \A m \in ToSet(Growth[n].nodes) : ~Grows(m)
  BY DEF ControlFlow, Has
<1>3. Flows(e)
  BY <1>1, <1>2 DEF ControlFlow, Flows
<1> QED BY <1>1, <1>2, <1>3 DEF ControlFlow, e

\* The edges that can be taken on a result.
LEMMA EligibleEdges ==
  ASSUME NEW d \in Document, NEW n, NEW result
  PROVE  ToSet(Eligible(Outgoing(d, n), result)) =
           {e \in ToSet(d.edges) : e.source_id = n /\ e.condition \in {"none", result}}
<1>1. d.edges \in Seq(Edges)
  BY DEF Document
<1>2. /\ Outgoing(d, n) \in Seq(Edges)
      /\ ToSet(Outgoing(d, n)) = {e \in ToSet(d.edges) : e.source_id = n}
  BY <1>1, KeptElements DEF Outgoing
<1>3. ToSet(Eligible(Outgoing(d, n), result)) =
        ToSet(Outgoing(d, n)) \cap {e \in ToSet(Outgoing(d, n)) : e.condition \in {"none", result}}
  BY <1>2, KeptElements DEF Eligible
<1> QED BY <1>2, <1>3

-----------------------------------------------------------------------------
(* The steps of the reference walk.                                        *)

LEMMA SameGraph ==
  /\ \A s : Reference!ToSet(s) = ToSet(s)
  /\ \A s, S : Reference!Kept(s, S) = Kept(s, S)
  /\ \A d, n : Reference!Has(d, n) <=> Has(d, n)
  /\ \A d, n : Reference!Missing(d, n) = Missing(d, n)
  /\ \A d, n : Reference!Whole(d, n) <=> Whole(d, n)
  /\ \A d, n : Reference!Outgoing(d, n) = Outgoing(d, n)
  /\ \A edges, result : Reference!Eligible(edges, result) = Eligible(edges, result)
<1>0. \A s : Reference!ToSet(s) = ToSet(s)
  BY DEF Reference!ToSet, ToSet
<1>1. \A s, S : Reference!Kept(s, S) = Kept(s, S)
  BY DEF Reference!Kept, Kept
<1>2. \A d, n : Reference!Has(d, n) <=> Has(d, n)
  BY <1>0 DEF Reference!Has, Has
<1>3. \A d, n : Reference!Missing(d, n) = Missing(d, n)
  BY <1>0, <1>1 DEF Reference!Missing, Missing
<1>4. \A d, n : Reference!Whole(d, n) <=> Whole(d, n)
  BY <1>3 DEF Reference!Whole, Whole, Reference!Empty, Empty
<1>5. \A d, n : Reference!Outgoing(d, n) = Outgoing(d, n)
  BY <1>0, <1>1 DEF Reference!Outgoing, Outgoing
<1>6. \A edges, result : Reference!Eligible(edges, result) = Eligible(edges, result)
  BY <1>0, <1>1 DEF Reference!Eligible, Eligible
<1> QED BY <1>0, <1>1, <1>2, <1>3, <1>4, <1>5, <1>6

LEMMA SameWalk ==
  /\ \A n : Reference!Grows(n) <=> Grows(n)
  /\ \A n : Reference!Terminal(n) <=> Terminal(n)
  /\ \A w : Reference!Executed(w) = Executed(w)
  /\ \A w, n : Reference!MovedTo(w, n) = MovedTo(w, n)
  /\ \A w, outcome : Reference!Over(w, outcome) = Over(w, outcome)
  /\ \A w : Reference!LimitReached(w) <=> LimitReached(w)
BY DEF Reference!Grows, Grows, Reference!Growing, Growing, Reference!Terminal, Terminal,
       Reference!Executed, Executed, Reference!Accumulate, Accumulate,
       Reference!Result, Result, Reference!MovedTo, MovedTo, Reference!Over, Over,
       Reference!LimitReached, LimitReached

LEMMA ExecuteStep ==
  ASSUME walk.stage = "execute", ~LimitReached(walk), Has(doc, walk.at),
         walk' = Executed(walk), UNCHANGED doc
  PROVE  Reference!ReferenceNext
<1>1. Reference!Execute
  BY SameGraph, SameWalk DEF Reference!Execute
<1> QED BY <1>1 DEF Reference!ReferenceNext

LEMMA StopStep ==
  ASSUME walk.stage = "execute", LimitReached(walk) \/ ~Has(doc, walk.at),
         walk' = Over(walk, "done"), UNCHANGED doc
  PROVE  Reference!ReferenceNext
<1>1. Reference!Stop
  BY SameGraph, SameWalk DEF Reference!Stop
<1> QED BY <1>1 DEF Reference!ReferenceNext

LEMMA FailStep ==
  ASSUME walk.stage \in {"execute", "route"}, walk' = Over(walk, "failed"), UNCHANGED doc
  PROVE  Reference!ReferenceNext
<1>1. Reference!Fail
  BY SameWalk DEF Reference!Fail
<1> QED BY <1>1 DEF Reference!ReferenceNext

\* The whole modification at once.
LEMMA ModifyStep ==
  ASSUME doc \in Document, walk.at \in NodeId, walk.stage = "route", Grows(walk.at),
         doc' = Merge(doc, Missing(doc, walk.at)), UNCHANGED walk
  PROVE  Reference!ReferenceNext
<1> DEFINE missing == Missing(doc, walk.at)
<1>1. missing.nodes \in Seq(NodeId) /\ missing.edges \in Seq(Edges)
  BY MissingType DEF Document
<1>2. /\ doc'.nodes = doc.nodes \o missing.nodes
      /\ doc'.edges = doc.edges \o missing.edges
  BY DEF Merge
<1> HIDE DEF missing
<1>3. /\ Len(missing.nodes) \in 0..Len(missing.nodes)
      /\ Len(missing.edges) \in 0..Len(missing.edges)
      /\ SubSeq(missing.nodes, 1, Len(missing.nodes)) = missing.nodes
      /\ SubSeq(missing.edges, 1, Len(missing.edges)) = missing.edges
  BY <1>1, SubSeqFull, LenProperties
<1>4. \A s : Reference!Same(s, s)
  BY DEF Reference!Same
<1>5. \E i \in 0..Len(missing.nodes), j \in 0..Len(missing.edges) :
        /\ j > 0 => i = Len(missing.nodes)
        /\ Reference!Same(doc'.nodes, doc.nodes \o SubSeq(missing.nodes, 1, i))
        /\ Reference!Same(doc'.edges, doc.edges \o SubSeq(missing.edges, 1, j))
  BY <1>2, <1>3, <1>4
<1>6. Reference!Modify
  BY <1>5, SameGraph, SameWalk DEF Reference!Modify, missing
<1> QED BY <1>6 DEF Reference!ReferenceNext

\* Of a set of edges, the one that sorts first.
LEMMA FirstInOrder ==
  ASSUME NEW S \in SUBSET Edges, S # {}
  PROVE  (CHOOSE e \in S : \A f \in S : IdOrder[e.target_id] <= IdOrder[f.target_id]) \in S
<1> DEFINE ranks == {IdOrder[e.target_id] : e \in S}
<1>1. \A e \in S : IdOrder[e.target_id] \in Nat
  BY IdOrderAssumption DEF Edges
<1>2. PICK m \in ranks : \A k \in ranks : m <= k
  <2>1. ranks \in SUBSET Nat /\ ranks # {}
    BY <1>1
  <2> HIDE DEF ranks
  <2> QED BY <2>1, LeastElement
<1>3. \E e \in S : \A f \in S : IdOrder[e.target_id] <= IdOrder[f.target_id]
  BY <1>2
<1> QED BY <1>3

LEMMA RouteStep ==
  ASSUME doc \in Document, walk \in WalkState, walk.stage = "route",
         Grows(walk.at) => Whole(doc, walk.at), Flows(doc),
         walk' = SelectByTarget(doc, walk), UNCHANGED doc
  PROVE  /\ Reference!ReferenceNext
         /\ \/ walk' = Over(walk, "done")
            \/ \E n \in NodeId : walk' = MovedTo(walk, n)
<1> DEFINE eligible == ToSet(Eligible(Outgoing(doc, walk.at), walk.result))
           chosen == CHOOSE e \in eligible :
                       \A f \in eligible : IdOrder[e.target_id] <= IdOrder[f.target_id]
<1>1. eligible \subseteq ToSet(doc.edges)
  BY EligibleEdges
<1>2. ToSet(doc.edges) \subseteq Edges
  BY ElementsOf DEF Document
<1>3. eligible # {} => chosen \in eligible
  BY <1>1, <1>2, FirstInOrder
<1>4. walk' = IF Terminal(walk.at) \/ eligible = {} THEN Over(walk, "done")
              ELSE MovedTo(walk, chosen.target_id)
  BY DEF SelectByTarget
<1>5. Reference!Ways = eligible
  BY <1>1, SameGraph DEF Reference!Ways, Flows
<1> HIDE DEF eligible, chosen
<1>6. Reference!Route
  BY <1>3, <1>4, <1>5, SameGraph, SameWalk DEF Reference!Route
<1>7. eligible # {} => chosen.target_id \in NodeId
  BY <1>1, <1>2, <1>3 DEF Edges
<1> QED BY <1>4, <1>6, <1>7 DEF Reference!ReferenceNext

-----------------------------------------------------------------------------
(* STUDY-203.  In each phase of a turn: what the queues hold, how far the  *)
(* walk is, and whether the visit has been recorded.                       *)

Message == NodeId \cup {"STOP", "MODIFIED", "terminal"}

Reported == visited = walk.executed
Unreported == walk.executed = Append(visited, walk.at)
Mended == Grows(walk.at) => Whole(doc, walk.at)
Silent(queues) == \A q \in queues : mail[q] = <<>>

\* What a worker's queue may hold, and whether a request is at its head.
Requests(q) == mail[q] \in {<<>>, <<walk.at>>, <<"STOP">>, <<walk.at, "STOP">>}
Unstopped(q) == mail[q] \in {<<>>, <<walk.at>>}
Asked(q) == mail[q] \in {<<walk.at>>, <<walk.at, "STOP">>}

DocPart == doc \in Document /\ ControlFlow(doc) /\ files = <<doc>>
WalkPart == walk \in WalkState /\ (walk.stage = "route" => Has(doc, walk.at))
MailPart == mail \in [Queue -> Seq(Message)]
StateInv ==
  DocPart /\ WalkPart /\ MailPart /\ visited \in Seq(NodeId) /\ current \in NodeId

SingleInv ==
  /\ workers = {} /\ Silent(Queue)
  /\ \/ pc = "visit" /\ walk.stage = "execute" /\ Reported
     \/ pc = "modify" /\ walk.stage = "route" /\ Grows(walk.at) /\ Reported
     \/ pc = "route" /\ walk.stage = "route" /\ Mended /\ Reported
     \/ pc = "ended" /\ walk.stage = "done" /\ Reported
     \/ pc = "raised" /\ walk.stage = "failed"

\* The coordinator waits for one answer at a time; a worker that it has given up
\* still executes or modifies what it was asked to, once.
AwaitsResult ==
  /\ pc = "wait_result" /\ Silent({"mod", "ack"})
  /\ \/ /\ walk.stage = "execute" /\ Reported
        /\ mail["exec"] \in {<<>>, <<walk.at>>} /\ mail["result"] = <<>>
        /\ mail["exec"] # <<>> => ~LimitReached(walk)
     \/ /\ walk.stage = "route" /\ Unreported
        /\ mail["exec"] = <<>> /\ mail["result"] \in {<<>>, <<walk.at>>}

AwaitsAck ==
  /\ pc = "wait_ack" /\ Silent({"exec", "result"})
  /\ walk.stage = "route" /\ Grows(walk.at) /\ Reported
  /\ \/ mail["mod"] = <<walk.at>> /\ mail["ack"] = <<>>
     \/ mail["mod"] = <<>> /\ Whole(doc, walk.at) /\ mail["ack"] \in {<<>>, <<"MODIFIED">>}

GivenUp ==
  /\ pc \in {"abandon", "join_abandoned"} /\ walk.stage \in {"execute", "route"}
  /\ Requests("exec") /\ Requests("mod")
  /\ pc = "abandon" => Unstopped("exec") /\ Unstopped("mod")
  /\ Asked("exec") => walk.stage = "execute" /\ ~LimitReached(walk)
  /\ Asked("mod") => walk.stage = "route" /\ Grows(walk.at)

ThreeInv ==
  /\ workers \subseteq {"execution", "modifier"}
  /\ \/ /\ pc = "visit" /\ walk.stage = "execute" /\ Reported
        /\ Silent({"exec", "result", "mod", "ack"})
     \/ AwaitsResult
     \/ AwaitsAck
     \/ /\ pc = "route" /\ walk.stage = "route" /\ Mended /\ Reported
        /\ Silent({"exec", "result", "mod", "ack"})
     \/ pc = "stop" /\ walk.stage = "done" /\ Reported /\ Silent({"exec", "mod"})
     \/ /\ pc = "join" /\ walk.stage = "done" /\ Reported
        /\ mail["exec"] \in {<<>>, <<"STOP">>} /\ mail["mod"] \in {<<>>, <<"STOP">>}
     \/ GivenUp
     \/ pc = "ended" /\ workers = {} /\ walk.stage = "done" /\ Reported
     \/ pc = "raised" /\ workers = {}

\* The dispatcher's node is the agent's until the agent has answered.
AwaitsDone ==
  /\ pc = "wait_done"
  /\ \/ /\ walk.stage = "execute" /\ Reported /\ ~LimitReached(walk)
        /\ mail["act"] = <<walk.at>> /\ mail["done"] = <<>> /\ current = walk.at
     \/ /\ walk.stage = "route" /\ Unreported
        /\ mail["act"] = <<walk.at>> /\ mail["done"] = <<>> /\ current = walk.at
     \/ /\ walk.stage = "done" /\ walk.executed = Append(visited, current)
        /\ mail["act"] = <<>> /\ mail["done"] \in {<<>>, <<"terminal">>}
     \/ /\ walk.stage = "execute" /\ walk.executed = Append(visited, current)
        /\ mail["act"] = <<>> /\ mail["done"] \in {<<>>, <<walk.at>>}
     \/ walk.stage = "execute" /\ mail["act"] = <<>> /\ mail["done"] = <<>>

AgentGivenUp ==
  /\ pc \in {"abandon", "join_abandoned"}
  /\ walk.stage \in {"execute", "route", "done"} /\ Requests("act")
  /\ pc = "abandon" => Unstopped("act")
  /\ Asked("act") /\ walk.stage = "execute" => ~LimitReached(walk)
  /\ walk.stage = "route" => Asked("act")

DispatchInv ==
  /\ workers \subseteq {"agent"}
  /\ \/ /\ pc = "visit" /\ walk.stage = "execute" /\ Reported
        /\ Silent({"act", "done"}) /\ current = walk.at
     \/ AwaitsDone
     \/ pc \in {"stop", "join"} /\ walk.stage = "done" /\ Reported
     \/ AgentGivenUp
     \/ pc = "ended" /\ workers = {} /\ walk.stage = "done" /\ Reported
     \/ pc = "raised" /\ workers = {}

DecomposedInv ==
  /\ StateInv
  /\ embodiment \in DecomposedEmbodiment
  /\ embodiment = "single_process" => SingleInv
  /\ embodiment = "three_processes" => ThreeInv
  /\ embodiment = "external_dispatch" => DispatchInv

-----------------------------------------------------------------------------
(* Messages.                                                               *)

LEMMA Sending ==
  ASSUME MailPart, NEW q \in Queue, NEW m \in Message, Send(q, m)
  PROVE  MailPart' /\ mail'[q] = Append(mail[q], m)
         /\ \A r \in Queue \ {q} : mail'[r] = mail[r]
BY DEF MailPart, Send

LEMMA Taking ==
  ASSUME MailPart, NEW q \in Queue, mail[q] # <<>>, Take(q)
  PROVE  MailPart' /\ mail'[q] = Tail(mail[q])
         /\ \A r \in Queue \ {q} : mail'[r] = mail[r]
<1>1. Tail(mail[q]) \in Seq(Message)
  BY HeadTailProperties DEF MailPart
<1> QED BY <1>1 DEF MailPart, Take

LEMMA Answering ==
  ASSUME MailPart, NEW q \in Queue, NEW r \in Queue \ {q}, NEW m \in Message,
         mail[q] # <<>>, Answer(q, r, m)
  PROVE  MailPart' /\ mail'[q] = Tail(mail[q]) /\ mail'[r] = Append(mail[r], m)
         /\ \A o \in Queue \ {q, r} : mail'[o] = mail[o]
<1>1. Tail(mail[q]) \in Seq(Message) /\ Append(mail[r], m) \in Seq(Message)
  BY HeadTailProperties DEF MailPart
<1> QED BY <1>1 DEF MailPart, Answer

-----------------------------------------------------------------------------
(* What a step does to the document and the walk.                          *)

Moves ==
  /\ DocPart' /\ WalkPart'
  /\ Reference!ReferenceNext \/ UNCHANGED <<doc, walk>>
  /\ doc' = doc \/ Whole(doc', walk.at)

LEMMA Executing ==
  ASSUME DocPart, WalkPart, walk.stage = "execute", ~LimitReached(walk), Has(doc, walk.at),
         walk' = Executed(walk), UNCHANGED <<doc, files>>
  PROVE  /\ Moves
         /\ walk'.at = walk.at /\ walk'.stage = "route"
         /\ walk'.executed = Append(walk.executed, walk.at)
<1>1. /\ walk' \in WalkState /\ walk'.at = walk.at /\ walk'.stage = "route"
      /\ walk'.executed = Append(walk.executed, walk.at)
  BY WalkMoves DEF WalkPart
<1>2. DocPart' /\ WalkPart'
  BY <1>1 DEF DocPart, WalkPart, Has
<1>3. Reference!ReferenceNext
  BY ExecuteStep
<1> QED BY <1>1, <1>2, <1>3 DEF Moves

LEMMA Modifying ==
  ASSUME DocPart, WalkPart, walk.stage = "route", Grows(walk.at),
         Modify(walk.at), UNCHANGED walk
  PROVE  Moves /\ Whole(doc', walk.at) /\ UNCHANGED pending
<1>1. /\ doc \in Document /\ walk.at \in NodeId
      /\ doc' = Merge(doc, Missing(doc, walk.at)) /\ files' = <<doc'>>
  BY DEF DocPart, WalkPart, WalkState, Modify
<1>2. /\ doc' \in Document /\ Whole(doc', walk.at)
      /\ ToSet(doc'.nodes) = ToSet(doc.nodes) \cup ToSet(Growth[walk.at].nodes)
  BY <1>1, MergedIsWhole
<1>3. ControlFlow(doc')
  BY <1>1, MergedFlows DEF DocPart, WalkPart
<1>4. DocPart' /\ WalkPart'
  BY <1>1, <1>2, <1>3 DEF DocPart, WalkPart, Has
<1>5. Reference!ReferenceNext
  BY <1>1, ModifyStep
<1> QED BY <1>2, <1>4, <1>5 DEF Moves, Modify

LEMMA Routing ==
  ASSUME DocPart, WalkPart, walk.stage = "route", Mended,
         walk' = SelectByTarget(doc, walk), UNCHANGED <<doc, files>>
  PROVE  /\ Moves /\ walk'.executed = walk.executed /\ walk'.stage \in {"execute", "done"}
         /\ walk'.at \in NodeId
<1>1. /\ Reference!ReferenceNext
      /\ \/ walk' = Over(walk, "done")
         \/ \E n \in NodeId : walk' = MovedTo(walk, n)
  BY RouteStep DEF DocPart, WalkPart, ControlFlow, Mended
<1>2. /\ walk' \in WalkState /\ walk'.executed = walk.executed
      /\ walk'.stage \in {"execute", "done"} /\ walk'.at \in NodeId
  <2>1. CASE walk' = Over(walk, "done")
    <3>1. walk \in WalkState
      BY DEF WalkPart
    <3>2. /\ Over(walk, "done") \in WalkState
          /\ Over(walk, "done") = [walk EXCEPT !.stage = "done"]
      BY <3>1, WalkMoves DEF Over
    <3> QED BY <2>1, <3>1, <3>2 DEF WalkState
  <2>2. CASE \E n \in NodeId : walk' = MovedTo(walk, n)
    <3>1. PICK n \in NodeId : walk' = MovedTo(walk, n)
      BY <2>2
    <3> QED BY <3>1 DEF WalkPart, WalkState, MovedTo
  <2> QED BY <1>1, <2>1, <2>2
<1>3. DocPart' /\ WalkPart'
  BY <1>2 DEF DocPart, WalkPart
<1> QED BY <1>1, <1>2, <1>3 DEF Moves

LEMMA Ending ==
  ASSUME DocPart, WalkPart, NEW outcome \in {"done", "failed"},
         \/ outcome = "failed" /\ walk.stage \in {"execute", "route"}
         \/ walk.stage = "execute" /\ LimitReached(walk),
         walk' = Over(walk, outcome), UNCHANGED <<doc, files>>
  PROVE  /\ Moves /\ walk'.executed = walk.executed /\ walk'.stage = outcome
         /\ walk'.at = walk.at
<1>1. /\ walk' \in WalkState /\ walk'.executed = walk.executed /\ walk'.stage = outcome
      /\ walk'.at = walk.at
  BY WalkMoves DEF WalkPart
<1>2. DocPart' /\ WalkPart'
  BY <1>1 DEF DocPart, WalkPart
<1>3. Reference!ReferenceNext
  BY FailStep, StopStep
<1> QED BY <1>1, <1>2, <1>3 DEF Moves

LEMMA Resting ==
  ASSUME DocPart, WalkPart, UNCHANGED <<doc, files, walk>>
  PROVE  Moves
BY DEF Moves, DocPart, WalkPart, Has

-----------------------------------------------------------------------------
(* The invariant: its beginning, and the single process.                   *)

LEMMA BeginsWell == DecomposedInit => DecomposedInv
<1> SUFFICES ASSUME DecomposedInit PROVE DecomposedInv
  OBVIOUS
<1>1. /\ embodiment \in DecomposedEmbodiment /\ doc \in Documents[embodiment]
      /\ files = <<doc>> /\ walk = Start(Entry[doc]) /\ visited = <<>> /\ pc = "visit"
      /\ mail = [q \in Queue |-> <<>>] /\ current = walk.at
  BY DEF DecomposedInit, WalkInit
<1>2. /\ embodiment = "single_process" => workers = {}
      /\ embodiment = "three_processes" => workers = {"execution", "modifier"}
      /\ embodiment = "external_dispatch" => workers = {"agent"}
  BY DEF DecomposedInit
<1>3. doc \in Document /\ Entry[doc] \in NodeId /\ ControlFlow(doc)
  BY <1>1, DecomposedDocumentsAssumption
<1>4. /\ walk \in WalkState /\ walk.at = Entry[doc] /\ walk.stage = "execute"
      /\ walk.executed = <<>>
  BY <1>1, <1>3 DEF Start, WalkState, Results
<1>5. StateInv
  BY <1>1, <1>3, <1>4 DEF StateInv, DocPart, WalkPart, MailPart
<1>6. Silent(Queue) /\ Reported
  BY <1>1, <1>4 DEF Silent, Reported
<1>7. embodiment = "single_process" => SingleInv
  BY <1>1, <1>2, <1>4, <1>6 DEF SingleInv
<1>8. embodiment = "three_processes" => ThreeInv
  BY <1>1, <1>2, <1>4, <1>6 DEF ThreeInv, Silent, Queue
<1>9. embodiment = "external_dispatch" => DispatchInv
  BY <1>1, <1>2, <1>4, <1>6 DEF DispatchInv, Silent, Queue
<1> QED BY <1>1, <1>5, <1>7, <1>8, <1>9 DEF DecomposedInv

LEMMA SingleStep ==
  ASSUME DecomposedInv, embodiment = "single_process", DecomposedNext
  PROVE  DecomposedInv' /\ Moves
<1>1. /\ DocPart /\ WalkPart /\ MailPart /\ visited \in Seq(NodeId) /\ current \in NodeId
      /\ SingleInv
  BY DEF DecomposedInv, StateInv
<1>2. /\ workers = {} /\ Silent(Queue)
      /\ pc \in {"visit", "modify", "route", "ended", "raised"}
  BY <1>1 DEF SingleInv
<1>3. \/ SingleVisit \/ SingleRaises \/ SingleModify \/ SingleRoute \/ SingleFails
      \/ StopAtLimit
  BY <1>2 DEF DecomposedNext, DecomposedStep, AskExecution, ExecutionWorker, TakeResult,
    ModifierWorker, TakeAck, CoordinatorRoutes, Dispatch, AgentExecutes, AgentModifies,
    AgentRoutes, AgentExits, TakeDone, TimesOut, SendStop, Join, WorkerDies
<1>4. UNCHANGED <<embodiment, mail, workers, current>>
  BY <1>3 DEF SingleVisit, SingleRaises, SingleModify, SingleRoute, SingleFails, StopAtLimit
<1>5. MailPart' /\ current' \in NodeId /\ workers' = {} /\ Silent(Queue)'
      /\ embodiment' = "single_process"
  BY <1>1, <1>2, <1>4 DEF MailPart, Silent
<1>6. Moves /\ visited' \in Seq(NodeId) /\ SingleInv'
  <2>1. CASE SingleVisit
    <3>1. /\ pc = "visit" /\ walk.stage = "execute" /\ Reported /\ walk.at \in NodeId
      BY <1>1, <2>1 DEF SingleInv, SingleVisit, WalkPart, WalkState
    <3>2. /\ Moves /\ walk'.at = walk.at /\ walk'.stage = "route"
          /\ walk'.executed = Append(walk.executed, walk.at)
      BY <1>1, <2>1, <3>1, Executing DEF SingleVisit, document
    <3>3. visited' = Append(visited, walk.at)
      BY <2>1 DEF SingleVisit
    <3>4. visited' \in Seq(NodeId) /\ Reported'
      BY <1>1, <3>1, <3>2, <3>3 DEF Reported
    <3>5. pc' = IF Grows(walk.at) THEN "modify" ELSE "route"
      BY <2>1 DEF SingleVisit
    <3>6. SingleInv'
      <4>1. CASE Grows(walk.at)
        BY <1>5, <3>2, <3>4, <3>5, <4>1 DEF SingleInv
      <4>2. CASE ~Grows(walk.at)
        BY <1>5, <3>2, <3>4, <3>5, <4>2 DEF SingleInv, Mended
      <4> QED BY <4>1, <4>2
    <3> QED BY <3>2, <3>4, <3>6
  <2>2. CASE SingleRaises \/ SingleFails
    <3>1. /\ walk' = Over(walk, "failed") /\ pc' = "raised" /\ UNCHANGED <<doc, files, visited>>
          /\ walk.stage \in {"execute", "route"}
      BY <1>1, <2>2 DEF SingleRaises, SingleFails, SingleInv, document
    <3>2. Moves /\ walk'.stage = "failed"
      BY <1>1, <3>1, Ending
    <3> QED BY <1>1, <1>5, <3>1, <3>2 DEF SingleInv
  <2>3. CASE SingleModify
    <3>1. /\ walk.stage = "route" /\ Grows(walk.at) /\ Reported
          /\ Modify(walk.at) /\ UNCHANGED <<walk, visited>> /\ pc' = "route"
      BY <1>1, <2>3 DEF SingleModify, SingleInv
    <3>2. Moves /\ Whole(doc', walk.at)
      BY <1>1, <3>1, Modifying
    <3> QED BY <1>1, <1>5, <3>1, <3>2 DEF SingleInv, Reported, Mended
  <2>4. CASE SingleRoute
    <3>1. /\ walk.stage = "route" /\ Mended /\ Reported
          /\ walk' = SelectByTarget(doc, walk) /\ UNCHANGED <<doc, files, visited>>
          /\ pc' = IF walk'.stage = "done" THEN "ended" ELSE "visit"
      BY <1>1, <2>4 DEF SingleRoute, SingleInv, document
    <3>2. Moves /\ walk'.executed = walk.executed /\ walk'.stage \in {"execute", "done"}
      BY <1>1, <3>1, Routing
    <3> QED BY <1>1, <1>5, <3>1, <3>2 DEF SingleInv, Reported
  <2>5. CASE StopAtLimit
    <3>1. /\ walk.stage = "execute" /\ Reported /\ LimitReached(walk)
          /\ walk' = Over(walk, "done") /\ UNCHANGED <<doc, files, visited>>
          /\ pc' = "ended"
      BY <1>1, <1>2, <2>5 DEF StopAtLimit, SingleInv, document
    <3>2. Moves /\ walk'.executed = walk.executed /\ walk'.stage = "done"
      BY <1>1, <3>1, Ending
    <3> QED BY <1>1, <1>5, <3>1, <3>2 DEF SingleInv, Reported
  <2> QED BY <1>3, <2>1, <2>2, <2>3, <2>4, <2>5
<1>7. DocPart' /\ WalkPart'
  BY <1>6 DEF Moves
<1> QED BY <1>5, <1>6, <1>7 DEF DecomposedInv, StateInv, DecomposedEmbodiment

-----------------------------------------------------------------------------
(* The coordinator and its workers.                                        *)

LEMMA Requested ==
  ASSUME NEW n \in NodeId
  PROVE  /\ n # "STOP"
         /\ <<"STOP">> \notin {<<n>>, <<n, "STOP">>} /\ <<>> \notin {<<n>>, <<n, "STOP">>}
         /\ \A s \in {<<n>>, <<"STOP">>, <<n, "STOP">>} :
              /\ s # <<>> /\ Head(s) \in {n, "STOP"} /\ Tail(s) \in {<<>>, <<"STOP">>}
              /\ Head(s) = "STOP" => s = <<"STOP">>
              /\ Head(s) # "STOP" => s \in {<<n>>, <<n, "STOP">>}
              /\ s \in {<<n>>, <<"STOP">>} => Tail(s) = <<>>
<1>1. n # "STOP"
  BY SentinelsAssumption
<1>2. /\ Head(<<n>>) = n /\ Head(<<n, "STOP">>) = n /\ Head(<<"STOP">>) = "STOP"
      /\ Tail(<<n>>) = <<>> /\ Tail(<<n, "STOP">>) = <<"STOP">> /\ Tail(<<"STOP">>) = <<>>
      /\ <<n>> # <<>> /\ <<n, "STOP">> # <<>> /\ <<"STOP">> # <<>>
  BY ShortLists
<1>3. <<"STOP">> # <<n>> /\ <<"STOP">> # <<n, "STOP">>
  BY <1>1, <1>2
<1> QED BY <1>1, <1>2, <1>3

\* What every step of the three processes has to show.
Keeps(inv) == Moves /\ MailPart' /\ visited' \in Seq(NodeId) /\ inv

LEMMA CoordinatorAsks ==
  ASSUME StateInv, ThreeInv, AskExecution
  PROVE  Keeps(ThreeInv')
<1>1. /\ pc = "visit" /\ pc' = "wait_result" /\ ~LimitReached(walk)
      /\ walk.stage = "execute" /\ Reported /\ Silent({"exec", "result", "mod", "ack"})
      /\ Send("exec", walk.at) /\ UNCHANGED <<doc, files, walk, visited, workers>>
  BY DEF AskExecution, ThreeInv, AwaitsResult, AwaitsAck, GivenUp, document
<1>2. Moves /\ walk.at \in NodeId /\ visited' \in Seq(NodeId)
  BY <1>1, Resting DEF StateInv, WalkPart, WalkState
<1>3. /\ MailPart' /\ mail'["exec"] = Append(mail["exec"], walk.at)
      /\ \A r \in Queue \ {"exec"} : mail'[r] = mail[r]
  BY <1>1, <1>2, Sending DEF StateInv, Queue, Message
<1>4. /\ mail'["exec"] = <<walk.at>> /\ mail'["result"] = <<>>
      /\ mail'["mod"] = <<>> /\ mail'["ack"] = <<>>
  BY <1>1, <1>3, ShortLists DEF Silent, Queue
<1>5. AwaitsResult'
  BY <1>1, <1>4 DEF AwaitsResult, Silent, Reported, LimitReached
<1> QED BY <1>1, <1>2, <1>3, <1>5 DEF Keeps, ThreeInv

LEMMA WorkerExecutes ==
  ASSUME StateInv, ThreeInv, ExecutionWorker
  PROVE  Keeps(ThreeInv')
<1>1. /\ "execution" \in workers /\ mail["exec"] # <<>>
      /\ UNCHANGED <<doc, files, visited, pc>>
  BY DEF ExecutionWorker, document
<1>2. walk.at \in NodeId /\ DocPart /\ WalkPart /\ MailPart /\ visited' \in Seq(NodeId)
  BY <1>1 DEF StateInv, WalkPart, WalkState
<1>3. /\ mail["exec"] \in {<<walk.at>>, <<"STOP">>, <<walk.at, "STOP">>}
      /\ AwaitsResult \/ pc = "join" \/ GivenUp
      /\ workers \subseteq {"execution", "modifier"}
  BY <1>1 DEF ThreeInv, AwaitsResult, AwaitsAck, GivenUp, Requests, Silent
<1>4. /\ Head(mail["exec"]) \in {walk.at, "STOP"}
      /\ Tail(mail["exec"]) \in {<<>>, <<"STOP">>}
      /\ Head(mail["exec"]) = "STOP" => mail["exec"] = <<"STOP">>
      /\ Head(mail["exec"]) # "STOP" => Asked("exec")
      /\ mail["exec"] \in {<<walk.at>>, <<"STOP">>} => Tail(mail["exec"]) = <<>>
      /\ <<"STOP">> \notin {<<walk.at>>, <<walk.at, "STOP">>}
      /\ <<>> \notin {<<walk.at>>, <<walk.at, "STOP">>}
  BY <1>2, <1>3, Requested DEF Asked
<1>5. CASE Head(mail["exec"]) = "STOP" \/ ~Has(doc, Head(mail["exec"]))
  <2>1. workers' \subseteq {"execution", "modifier"} /\ Take("exec") /\ UNCHANGED walk
    BY <1>3, <1>5 DEF ExecutionWorker
  <2>2. Moves
    BY <1>1, <1>2, <2>1, Resting
  <2>3. /\ MailPart' /\ mail'["exec"] = Tail(mail["exec"])
        /\ \A r \in Queue \ {"exec"} : mail'[r] = mail[r]
    BY <1>1, <1>2, <2>1, Taking DEF Queue
  <2>4. /\ mail'["result"] = mail["result"] /\ mail'["mod"] = mail["mod"]
        /\ mail'["ack"] = mail["ack"]
    BY <2>3 DEF Queue
  <2>5. CASE AwaitsResult
    <3>1. AwaitsResult'
      BY <1>1, <1>3, <1>4, <2>1, <2>3, <2>4, <2>5 DEF AwaitsResult, Silent, Reported
    <3> QED BY <1>2, <2>1, <2>2, <2>3, <3>1 DEF Keeps, ThreeInv
  <2>6. CASE pc = "join"
    <3>1. /\ walk.stage = "done" /\ Reported /\ mail["exec"] \in {<<>>, <<"STOP">>}
          /\ mail["mod"] \in {<<>>, <<"STOP">>}
      BY <1>1, <2>6 DEF ThreeInv, AwaitsResult, AwaitsAck, GivenUp
    <3>2. mail'["exec"] \in {<<>>, <<"STOP">>}
      BY <1>4, <2>3
    <3> QED BY <1>1, <1>2, <2>1, <2>2, <2>3, <2>4, <2>6, <3>1, <3>2
            DEF Keeps, ThreeInv, Reported
  <2>7. CASE GivenUp
    <3>1. Requests("exec")' /\ Requests("mod")' /\ ~Asked("exec")'
      BY <1>4, <2>1, <2>3, <2>4, <2>7 DEF GivenUp, Requests, Asked
    <3>2. pc = "abandon" => Unstopped("exec")' /\ Unstopped("mod")'
      BY <1>1, <1>4, <2>1, <2>3, <2>4, <2>7 DEF GivenUp, Unstopped
    <3>3. Asked("mod")' => walk'.stage = "route" /\ Grows(walk'.at)
      BY <2>1, <2>4, <2>7 DEF GivenUp, Asked
    <3>4. GivenUp'
      BY <1>1, <2>1, <2>7, <3>1, <3>2, <3>3 DEF GivenUp
    <3> QED BY <1>2, <2>1, <2>2, <2>3, <3>4 DEF Keeps, ThreeInv
  <2> QED BY <1>3, <2>5, <2>6, <2>7
<1>6. CASE Head(mail["exec"]) # "STOP" /\ Has(doc, Head(mail["exec"]))
  <2>1. /\ walk' = Executed(walk) /\ Answer("exec", "result", walk.at) /\ UNCHANGED workers
    BY <1>6 DEF ExecutionWorker
  <2>2. /\ Asked("exec") /\ Has(doc, walk.at)
    BY <1>4, <1>6
  <2>3. /\ mail["exec"] # <<"STOP">> /\ pc # "join"
        /\ AwaitsResult \/ GivenUp
    <3>1. mail["exec"] # <<"STOP">>
      BY <1>4, <2>2 DEF Asked
    <3>2. pc # "join"
      BY <1>1, <3>1 DEF ThreeInv, AwaitsResult, AwaitsAck, GivenUp
    <3> QED BY <1>3, <3>1, <3>2
  <2>4. walk.stage = "execute" /\ ~LimitReached(walk)
    BY <1>1, <2>2, <2>3 DEF AwaitsResult, GivenUp
  <2>5. /\ Moves /\ walk'.at = walk.at /\ walk'.stage = "route"
        /\ walk'.executed = Append(walk.executed, walk.at)
    BY <1>1, <1>2, <2>1, <2>2, <2>4, Executing
  <2>6. /\ MailPart' /\ mail'["exec"] = Tail(mail["exec"])
        /\ mail'["result"] = Append(mail["result"], walk.at)
        /\ \A r \in Queue \ {"exec", "result"} : mail'[r] = mail[r]
    BY <1>1, <1>2, <2>1, Answering DEF Queue, Message
  <2>7. mail'["mod"] = mail["mod"] /\ mail'["ack"] = mail["ack"]
    BY <2>6 DEF Queue
  <2>8. CASE AwaitsResult
    <3>1. mail["exec"] = <<walk.at>> /\ mail["result"] = <<>> /\ Reported
      BY <1>1, <2>4, <2>8 DEF AwaitsResult
    <3>2. mail'["exec"] = <<>> /\ mail'["result"] = <<walk.at>>
      BY <1>4, <2>6, <3>1, ShortLists
    <3>3. Unreported'
      BY <1>1, <2>5, <3>1 DEF Reported, Unreported
    <3>4. AwaitsResult'
      BY <1>1, <2>5, <2>7, <2>8, <3>2, <3>3 DEF AwaitsResult, Silent
    <3> QED BY <1>2, <1>3, <2>1, <2>5, <2>6, <3>4 DEF Keeps, ThreeInv
  <2>9. CASE GivenUp
    <3>1. Requests("exec")' /\ Requests("mod")' /\ ~Asked("exec")'
      BY <1>4, <2>5, <2>6, <2>7, <2>9 DEF GivenUp, Requests, Asked
    <3>2. pc = "abandon" => Unstopped("exec")' /\ Unstopped("mod")'
      <4> SUFFICES ASSUME pc = "abandon" PROVE Unstopped("exec")' /\ Unstopped("mod")'
        OBVIOUS
      <4>1. mail["exec"] = <<walk.at>> /\ Unstopped("mod")
        BY <1>1, <2>9 DEF GivenUp, Unstopped
      <4> QED BY <1>4, <2>5, <2>6, <2>7, <4>1 DEF Unstopped
    <3>3. ~Asked("mod")'
      BY <2>4, <2>5, <2>7, <2>9 DEF GivenUp, Asked
    <3>4. GivenUp'
      BY <1>1, <2>5, <2>9, <3>1, <3>2, <3>3 DEF GivenUp
    <3> QED BY <1>2, <1>3, <2>1, <2>5, <2>6, <3>4 DEF Keeps, ThreeInv
  <2> QED BY <2>3, <2>8, <2>9
<1> QED BY <1>5, <1>6

LEMMA CoordinatorTakesResult ==
  ASSUME StateInv, ThreeInv, TakeResult
  PROVE  Keeps(ThreeInv')
<1>1. /\ pc = "wait_result" /\ mail["result"] # <<>>
      /\ visited' = Append(visited, Head(mail["result"]))
      /\ UNCHANGED <<doc, files, walk, workers>>
  BY DEF TakeResult, document
<1>2. walk.at \in NodeId /\ DocPart /\ WalkPart /\ MailPart /\ visited \in Seq(NodeId)
  BY DEF StateInv, WalkPart, WalkState
<1>3. /\ workers \subseteq {"execution", "modifier"} /\ Silent({"mod", "ack"})
      /\ walk.stage = "route" /\ Unreported
      /\ mail["exec"] = <<>> /\ mail["result"] = <<walk.at>>
  BY <1>1 DEF ThreeInv, AwaitsResult, AwaitsAck, GivenUp
<1>4. /\ Moves /\ visited' = Append(visited, walk.at) /\ visited' \in Seq(NodeId)
      /\ Tail(mail["result"]) = <<>> /\ Append(<<>>, walk.at) = <<walk.at>>
  BY <1>1, <1>2, <1>3, Resting, ShortLists
<1>5. Reported'
  BY <1>1, <1>3, <1>4 DEF Reported, Unreported
<1>6. CASE Grows(walk.at)
  <2>1. Answer("result", "mod", walk.at) /\ pc' = "wait_ack"
    BY <1>6 DEF TakeResult
  <2>2. /\ MailPart' /\ mail'["result"] = Tail(mail["result"])
        /\ mail'["mod"] = Append(mail["mod"], walk.at)
        /\ \A r \in Queue \ {"result", "mod"} : mail'[r] = mail[r]
    BY <1>1, <1>2, <2>1, Answering DEF Queue, Message
  <2>3. /\ mail'["result"] = <<>> /\ mail'["mod"] = <<walk.at>>
        /\ mail'["exec"] = <<>> /\ mail'["ack"] = <<>>
    BY <1>3, <1>4, <2>2 DEF Queue, Silent
  <2>4. AwaitsAck'
    BY <1>1, <1>3, <1>5, <1>6, <2>1, <2>3 DEF AwaitsAck, Silent
  <2> QED BY <1>1, <1>3, <1>4, <2>2, <2>4 DEF Keeps, ThreeInv
<1>7. CASE ~Grows(walk.at)
  <2>1. Take("result") /\ pc' = "route"
    BY <1>7 DEF TakeResult
  <2>2. /\ MailPart' /\ mail'["result"] = Tail(mail["result"])
        /\ \A r \in Queue \ {"result"} : mail'[r] = mail[r]
    BY <1>1, <1>2, <2>1, Taking DEF Queue
  <2>3. Silent({"exec", "result", "mod", "ack"})'
    BY <1>3, <1>4, <2>2 DEF Queue, Silent
  <2> QED BY <1>1, <1>3, <1>4, <1>5, <1>7, <2>1, <2>2, <2>3 DEF Keeps, ThreeInv, Mended
<1> QED BY <1>6, <1>7

LEMMA WorkerModifies ==
  ASSUME StateInv, ThreeInv, ModifierWorker
  PROVE  Keeps(ThreeInv')
<1>1. "modifier" \in workers /\ mail["mod"] # <<>> /\ UNCHANGED <<walk, visited, pc>>
  BY DEF ModifierWorker
<1>2. walk.at \in NodeId /\ DocPart /\ WalkPart /\ MailPart /\ visited' \in Seq(NodeId)
  BY <1>1 DEF StateInv, WalkPart, WalkState
<1>3. /\ mail["mod"] \in {<<walk.at>>, <<"STOP">>, <<walk.at, "STOP">>}
      /\ AwaitsAck \/ pc = "join" \/ GivenUp
      /\ workers \subseteq {"execution", "modifier"}
  BY <1>1 DEF ThreeInv, AwaitsResult, AwaitsAck, GivenUp, Requests, Silent
<1>4. /\ Head(mail["mod"]) \in {walk.at, "STOP"}
      /\ Tail(mail["mod"]) \in {<<>>, <<"STOP">>}
      /\ Head(mail["mod"]) = "STOP" => mail["mod"] = <<"STOP">>
      /\ Head(mail["mod"]) # "STOP" => Asked("mod")
      /\ mail["mod"] \in {<<walk.at>>, <<"STOP">>} => Tail(mail["mod"]) = <<>>
      /\ <<"STOP">> \notin {<<walk.at>>, <<walk.at, "STOP">>}
      /\ <<>> \notin {<<walk.at>>, <<walk.at, "STOP">>}
  BY <1>2, <1>3, Requested DEF Asked
<1>5. CASE Head(mail["mod"]) = "STOP"
  <2>1. /\ workers' \subseteq {"execution", "modifier"} /\ Take("mod")
        /\ UNCHANGED <<doc, files>>
    BY <1>3, <1>5 DEF ModifierWorker, document
  <2>2. Moves
    BY <1>1, <1>2, <2>1, Resting
  <2>3. /\ MailPart' /\ mail'["mod"] = Tail(mail["mod"])
        /\ \A r \in Queue \ {"mod"} : mail'[r] = mail[r]
    BY <1>1, <1>2, <2>1, Taking DEF Queue
  <2>4. mail["mod"] = <<"STOP">> /\ mail'["mod"] = <<>> /\ mail'["exec"] = mail["exec"]
    BY <1>4, <1>5, <2>3 DEF Queue
  <2>5. ~AwaitsAck
    BY <1>1, <1>4, <2>4 DEF AwaitsAck
  <2>6. CASE pc = "join"
    <3>1. walk.stage = "done" /\ Reported /\ mail["exec"] \in {<<>>, <<"STOP">>}
      BY <1>1, <2>6 DEF ThreeInv, AwaitsResult, AwaitsAck, GivenUp
    <3> QED BY <1>1, <1>2, <2>1, <2>2, <2>3, <2>4, <2>6, <3>1 DEF Keeps, ThreeInv, Reported
  <2>7. CASE GivenUp
    <3>1. GivenUp'
      BY <1>1, <1>4, <2>1, <2>4, <2>7 DEF GivenUp, Requests, Unstopped, Asked, LimitReached
    <3> QED BY <1>2, <2>1, <2>2, <2>3, <3>1 DEF Keeps, ThreeInv
  <2> QED BY <1>3, <2>5, <2>6, <2>7
<1>6. CASE Head(mail["mod"]) # "STOP"
  <2>1. /\ Asked("mod") /\ Modify(walk.at) /\ mail["mod"] # <<"STOP">>
        /\ workers' \subseteq {"execution", "modifier"}
        /\ Answer("mod", "ack", "MODIFIED") \/ Take("mod")
    BY <1>3, <1>4, <1>6 DEF ModifierWorker, Asked
  <2>2. AwaitsAck \/ GivenUp
    <3>1. pc # "join"
      BY <1>1, <2>1 DEF ThreeInv, AwaitsResult, AwaitsAck, GivenUp
    <3> QED BY <1>3, <3>1
  <2>3. walk.stage = "route" /\ Grows(walk.at)
    BY <1>1, <2>1, <2>2 DEF AwaitsAck, GivenUp
  <2>4. Moves /\ Whole(doc', walk.at)
    BY <1>1, <1>2, <2>1, <2>3, Modifying
  <2>5. /\ MailPart' /\ mail'["mod"] = Tail(mail["mod"])
        /\ mail'["ack"] \in {mail["ack"], Append(mail["ack"], "MODIFIED")}
        /\ mail'["exec"] = mail["exec"] /\ mail'["result"] = mail["result"]
    <3>1. CASE Answer("mod", "ack", "MODIFIED")
      <4>1. /\ MailPart' /\ mail'["mod"] = Tail(mail["mod"])
            /\ mail'["ack"] = Append(mail["ack"], "MODIFIED")
            /\ \A r \in Queue \ {"mod", "ack"} : mail'[r] = mail[r]
        BY <1>1, <1>2, <3>1, Answering DEF Queue, Message
      <4> QED BY <4>1 DEF Queue
    <3>2. CASE Take("mod")
      <4>1. /\ MailPart' /\ mail'["mod"] = Tail(mail["mod"])
            /\ \A r \in Queue \ {"mod"} : mail'[r] = mail[r]
        BY <1>1, <1>2, <3>2, Taking DEF Queue
      <4> QED BY <4>1 DEF Queue
    <3> QED BY <2>1, <3>1, <3>2
  <2>6. CASE AwaitsAck
    <3>1. mail["mod"] = <<walk.at>> /\ mail["ack"] = <<>> /\ Append(<<>>, "MODIFIED") = <<"MODIFIED">>
      BY <1>1, <2>6, ShortLists DEF AwaitsAck
    <3>2. AwaitsAck'
      BY <1>1, <1>4, <2>3, <2>4, <2>5, <2>6, <3>1 DEF AwaitsAck, Silent, Reported
    <3> QED BY <1>2, <2>1, <2>4, <2>5, <3>2 DEF Keeps, ThreeInv
  <2>7. CASE GivenUp
    <3>1. /\ Requests("exec")' /\ Requests("mod")' /\ ~Asked("mod")'
          /\ Asked("exec")' => Asked("exec")
      BY <1>1, <1>4, <2>5, <2>7 DEF GivenUp, Requests, Asked
    <3>2. pc = "abandon" => Unstopped("exec")' /\ Unstopped("mod")'
      <4> SUFFICES ASSUME pc = "abandon" PROVE Unstopped("exec")' /\ Unstopped("mod")'
        OBVIOUS
      <4>1. mail["mod"] = <<walk.at>> /\ Unstopped("exec")
        BY <1>1, <2>7 DEF GivenUp, Unstopped
      <4> QED BY <1>1, <1>4, <2>5, <4>1 DEF Unstopped
    <3>3. GivenUp'
      BY <1>1, <2>7, <3>1, <3>2 DEF GivenUp, LimitReached
    <3> QED BY <1>2, <2>1, <2>4, <2>5, <3>3 DEF Keeps, ThreeInv
  <2> QED BY <2>2, <2>6, <2>7
<1> QED BY <1>5, <1>6

LEMMA CoordinatorTakesAck ==
  ASSUME StateInv, ThreeInv, TakeAck
  PROVE  Keeps(ThreeInv')
<1>1. /\ pc = "wait_ack" /\ mail["ack"] # <<>> /\ Take("ack") /\ pc' = "route"
      /\ UNCHANGED <<doc, files, walk, visited, workers>>
  BY DEF TakeAck, document
<1>2. DocPart /\ WalkPart /\ MailPart /\ visited' \in Seq(NodeId)
  BY <1>1 DEF StateInv
<1>3. /\ workers \subseteq {"execution", "modifier"} /\ Silent({"exec", "result"})
      /\ walk.stage = "route" /\ Reported /\ Whole(doc, walk.at)
      /\ mail["mod"] = <<>> /\ mail["ack"] = <<"MODIFIED">>
  BY <1>1 DEF ThreeInv, AwaitsResult, AwaitsAck, GivenUp
<1>4. Moves /\ Tail(mail["ack"]) = <<>>
  BY <1>1, <1>2, <1>3, Resting, ShortLists
<1>5. /\ MailPart' /\ mail'["ack"] = Tail(mail["ack"])
      /\ \A r \in Queue \ {"ack"} : mail'[r] = mail[r]
  BY <1>1, <1>2, Taking DEF Queue
<1>6. Silent({"exec", "result", "mod", "ack"})'
  BY <1>3, <1>4, <1>5 DEF Silent, Queue
<1> QED BY <1>1, <1>2, <1>3, <1>4, <1>5, <1>6 DEF Keeps, ThreeInv, Mended, Reported

LEMMA CoordinatorSelects ==
  ASSUME StateInv, ThreeInv, CoordinatorRoutes
  PROVE  Keeps(ThreeInv')
<1>1. /\ pc = "route" /\ walk' = SelectByTarget(doc, walk)
      /\ pc' = IF walk'.stage = "done" THEN "stop" ELSE "visit"
      /\ UNCHANGED <<doc, files, visited, mail, workers>>
  BY DEF CoordinatorRoutes, document
<1>2. /\ walk.stage = "route" /\ Mended /\ Reported /\ Silent({"exec", "result", "mod", "ack"})
      /\ workers \subseteq {"execution", "modifier"}
  BY <1>1 DEF ThreeInv, AwaitsResult, AwaitsAck, GivenUp
<1>3. Moves /\ walk'.executed = walk.executed /\ walk'.stage \in {"execute", "done"}
  BY <1>1, <1>2, Routing DEF StateInv
<1>4. MailPart' /\ visited' \in Seq(NodeId)
  BY <1>1 DEF StateInv, MailPart
<1> QED BY <1>1, <1>2, <1>3, <1>4 DEF Keeps, ThreeInv, Reported, Silent

LEMMA CoordinatorStops ==
  ASSUME StateInv, ThreeInv, StopAtLimit
  PROVE  Keeps(ThreeInv')
<1>1. /\ pc = "visit" /\ LimitReached(walk) /\ walk' = Over(walk, "done")
      /\ pc' = IF workers = {} THEN "ended" ELSE "stop"
      /\ UNCHANGED <<doc, files, visited, mail, workers>>
  BY DEF StopAtLimit, document
<1>2. /\ walk.stage = "execute" /\ Reported /\ Silent({"exec", "mod"})
      /\ workers \subseteq {"execution", "modifier"}
  BY <1>1 DEF ThreeInv, AwaitsResult, AwaitsAck, GivenUp, Silent
<1>3. Moves /\ walk'.executed = walk.executed /\ walk'.stage = "done"
  BY <1>1, <1>2, Ending DEF StateInv
<1>4. MailPart' /\ visited' \in Seq(NodeId)
  BY <1>1 DEF StateInv, MailPart
<1> QED BY <1>1, <1>2, <1>3, <1>4 DEF Keeps, ThreeInv, Reported, Silent

LEMMA CoordinatorTimesOut ==
  ASSUME StateInv, ThreeInv, TimesOut
  PROVE  Keeps(ThreeInv')
<1>1. /\ pc' = "abandon" /\ pc \in {"wait_result", "wait_ack", "wait_done"}
      /\ UNCHANGED <<doc, files, walk, visited, mail, workers>>
  BY DEF TimesOut, document
<1>2. AwaitsResult \/ AwaitsAck
  BY <1>1 DEF ThreeInv, GivenUp
<1>3. walk.at \in NodeId /\ <<>> \notin {<<walk.at>>, <<walk.at, "STOP">>}
  BY Requested DEF StateInv, WalkPart, WalkState
<1>4. GivenUp'
  <2>1. CASE AwaitsResult
    BY <1>1, <1>3, <2>1
       DEF AwaitsResult, GivenUp, Requests, Unstopped, Asked, Silent, LimitReached
  <2>2. CASE AwaitsAck
    BY <1>1, <1>3, <2>2
       DEF AwaitsAck, GivenUp, Requests, Unstopped, Asked, Silent, LimitReached
  <2> QED BY <1>2, <2>1, <2>2
<1>5. Moves
  BY <1>1, Resting DEF StateInv
<1> QED BY <1>1, <1>4, <1>5 DEF Keeps, StateInv, MailPart, ThreeInv

LEMMA AfterStop ==
  ASSUME MailPart, SendStop
  PROVE  /\ MailPart'
         /\ \A q \in Inbox : mail'[q] = Append(mail[q], "STOP")
         /\ \A q \in Queue \ Inbox : mail'[q] = mail[q]
BY DEF SendStop, MailPart, Queue, Inbox, Message

LEMMA CoordinatorSendsStop ==
  ASSUME StateInv, ThreeInv, SendStop
  PROVE  Keeps(ThreeInv')
<1>1. /\ pc \in {"stop", "abandon"} /\ pc' = IF pc = "stop" THEN "join" ELSE "join_abandoned"
      /\ UNCHANGED <<doc, files, walk, visited, workers>>
  BY DEF SendStop, document
<1>2. /\ Moves /\ visited' \in Seq(NodeId) /\ walk.at \in NodeId
      /\ workers \subseteq {"execution", "modifier"}
  BY <1>1, Resting DEF StateInv, ThreeInv, WalkPart, WalkState
<1>3. /\ MailPart' /\ mail'["exec"] = Append(mail["exec"], "STOP")
      /\ mail'["mod"] = Append(mail["mod"], "STOP")
  BY AfterStop DEF StateInv, Inbox
<1>4. /\ Append(<<>>, "STOP") = <<"STOP">> /\ Append(<<walk.at>>, "STOP") = <<walk.at, "STOP">>
      /\ <<"STOP">> \notin {<<walk.at>>, <<walk.at, "STOP">>}
  <2>1. Append(<<>>, "STOP") = <<"STOP">> /\ Append(<<walk.at>>, "STOP") = <<walk.at, "STOP">>
    BY ShortLists
  <2>2. <<"STOP">> \notin {<<walk.at>>, <<walk.at, "STOP">>}
    BY <1>2, Requested
  <2> QED BY <2>1, <2>2
<1>5. CASE pc = "stop"
  <2>1. walk.stage = "done" /\ Reported /\ mail["exec"] = <<>> /\ mail["mod"] = <<>>
    BY <1>5 DEF ThreeInv, AwaitsResult, AwaitsAck, GivenUp, Silent
  <2> QED BY <1>1, <1>2, <1>3, <1>4, <1>5, <2>1 DEF Keeps, ThreeInv, Reported
<1>6. CASE pc = "abandon"
  <2>1. GivenUp /\ Unstopped("exec") /\ Unstopped("mod")
    BY <1>6 DEF ThreeInv, AwaitsResult, AwaitsAck, GivenUp
  <2>2. /\ Requests("exec")' /\ Requests("mod")'
        /\ Asked("exec")' => Asked("exec")
        /\ Asked("mod")' => Asked("mod")
    BY <1>1, <1>3, <1>4, <2>1 DEF Unstopped, Requests, Asked
  <2>3. GivenUp'
    BY <1>1, <1>6, <2>1, <2>2 DEF GivenUp, LimitReached
  <2> QED BY <1>1, <1>2, <1>3, <2>3 DEF Keeps, ThreeInv
<1> QED BY <1>1, <1>5, <1>6

LEMMA CoordinatorJoins ==
  ASSUME StateInv, ThreeInv, Join
  PROVE  Keeps(ThreeInv')
<1>1. /\ pc \in {"join", "join_abandoned"} /\ workers' = {}
      /\ pc' = IF pc = "join" THEN "ended" ELSE "raised"
      /\ walk' = IF walk.stage = "done" THEN walk ELSE Over(walk, "failed")
      /\ UNCHANGED <<doc, files, visited, mail>>
  BY DEF Join, document
<1>2. MailPart' /\ visited' \in Seq(NodeId)
  BY <1>1 DEF StateInv, MailPart
<1>3. CASE pc = "join"
  <2>1. walk.stage = "done" /\ Reported
    BY <1>3 DEF ThreeInv, AwaitsResult, AwaitsAck, GivenUp
  <2>2. Moves
    BY <1>1, <2>1, Resting DEF StateInv
  <2> QED BY <1>1, <1>2, <1>3, <2>1, <2>2 DEF Keeps, ThreeInv, Reported
<1>4. CASE pc = "join_abandoned"
  <2>1. walk.stage \in {"execute", "route"}
    BY <1>4 DEF ThreeInv, AwaitsResult, AwaitsAck, GivenUp
  <2>2. walk' = Over(walk, "failed")
    BY <1>1, <2>1
  <2>3. Moves
    BY <1>1, <2>1, <2>2, Ending DEF StateInv
  <2> QED BY <1>1, <1>2, <1>4, <2>3 DEF Keeps, ThreeInv
<1> QED BY <1>1, <1>3, <1>4

LEMMA AfterDeath ==
  ASSUME MailPart, WorkerDies
  PROVE  /\ MailPart' /\ workers # {} /\ workers' \subseteq workers
         /\ \A q \in Inbox : mail'[q] = mail[q]
         /\ \A q \in Queue \ Inbox : mail'[q] \in {<<>>, mail[q]}
<1>1. PICK lost \in SUBSET (Queue \ Inbox) :
        mail' = [q \in Queue |-> IF q \in lost THEN <<>> ELSE mail[q]]
  BY DEF WorkerDies
<1>2. workers # {} /\ workers' \subseteq workers
  BY DEF WorkerDies
<1>3. MailPart'
  BY <1>1 DEF MailPart
<1>4. /\ \A q \in Inbox : mail'[q] = mail[q]
      /\ \A q \in Queue \ Inbox : mail'[q] \in {<<>>, mail[q]}
  BY <1>1 DEF Inbox, Queue
<1> QED BY <1>2, <1>3, <1>4

LEMMA CoordinatorLosesWorker ==
  ASSUME StateInv, ThreeInv, WorkerDies
  PROVE  Keeps(ThreeInv')
<1>1. UNCHANGED <<doc, files, walk, visited, pc>>
  BY DEF WorkerDies, document
<1>2. /\ MailPart' /\ workers # {} /\ workers' \subseteq {"execution", "modifier"}
      /\ mail'["exec"] = mail["exec"] /\ mail'["mod"] = mail["mod"]
      /\ mail'["result"] \in {<<>>, mail["result"]} /\ mail'["ack"] \in {<<>>, mail["ack"]}
  BY AfterDeath DEF StateInv, ThreeInv, Inbox, Queue
<1>3. Moves /\ visited' \in Seq(NodeId)
  BY <1>1, Resting DEF StateInv
<1>4. pc \notin {"ended", "raised"}
  BY <1>2 DEF ThreeInv, AwaitsResult, AwaitsAck, GivenUp
<1>5. AwaitsResult => AwaitsResult'
  BY <1>1, <1>2 DEF AwaitsResult, Silent, Reported, Unreported, LimitReached
<1>6. AwaitsAck => AwaitsAck'
  BY <1>1, <1>2 DEF AwaitsAck, Silent, Reported
<1>7. GivenUp => GivenUp'
  BY <1>1, <1>2 DEF GivenUp, Requests, Unstopped, Asked, LimitReached
<1>8. ThreeInv'
  BY <1>1, <1>2, <1>4, <1>5, <1>6, <1>7 DEF ThreeInv, Silent, Reported, Mended
<1> QED BY <1>2, <1>3, <1>8 DEF Keeps

LEMMA ThreeStep ==
  ASSUME DecomposedInv, embodiment = "three_processes", DecomposedNext
  PROVE  DecomposedInv' /\ Moves
<1>1. StateInv /\ ThreeInv
  BY DEF DecomposedInv
<1>2. "agent" \notin workers /\ pc # "wait_done"
  BY <1>1 DEF ThreeInv, AwaitsResult, AwaitsAck, GivenUp
<1>3. \/ AskExecution \/ ExecutionWorker \/ TakeResult \/ ModifierWorker \/ TakeAck
      \/ CoordinatorRoutes \/ StopAtLimit \/ TimesOut \/ SendStop \/ Join \/ WorkerDies
  BY <1>2 DEF DecomposedNext, DecomposedStep, SingleVisit, SingleRaises, SingleModify,
    SingleRoute, SingleFails, Dispatch, AgentExecutes, AgentModifies, AgentRoutes,
    AgentExits, TakeDone
<1>4. UNCHANGED <<embodiment, current>>
  BY <1>3 DEF AskExecution, ExecutionWorker, TakeResult, ModifierWorker, TakeAck,
    CoordinatorRoutes, StopAtLimit, TimesOut, SendStop, Join, WorkerDies
<1>5. Keeps(ThreeInv')
  BY <1>1, <1>3, CoordinatorAsks, WorkerExecutes, CoordinatorTakesResult, WorkerModifies,
     CoordinatorTakesAck, CoordinatorSelects, CoordinatorStops, CoordinatorTimesOut,
     CoordinatorSendsStop, CoordinatorJoins, CoordinatorLosesWorker
<1>6. StateInv' /\ ThreeInv' /\ Moves
  BY <1>1, <1>4, <1>5 DEF Keeps, Moves, StateInv
<1> QED BY <1>4, <1>6 DEF DecomposedInv, DecomposedEmbodiment

-----------------------------------------------------------------------------
(* The dispatcher and its agent.                                           *)

LEMMA DispatcherAsks ==
  ASSUME StateInv, DispatchInv, Dispatch
  PROVE  Keeps(DispatchInv' /\ current' \in NodeId)
<1>1. /\ pc = "visit" /\ pc' = "wait_done" /\ Len(visited) < MaxSteps /\ Send("act", current)
      /\ UNCHANGED <<doc, files, walk, visited, workers, current>>
  BY DEF Dispatch, document
<1>2. /\ walk.stage = "execute" /\ Reported /\ mail["act"] = <<>> /\ mail["done"] = <<>>
      /\ current = walk.at /\ workers \subseteq {"agent"}
  BY <1>1 DEF DispatchInv, AwaitsDone, AgentGivenUp, Silent
<1>3. /\ Moves /\ current' \in NodeId /\ walk.at \in NodeId /\ visited' \in Seq(NodeId)
  BY <1>1, <1>2, Resting DEF StateInv
<1>4. /\ MailPart' /\ mail'["act"] = Append(mail["act"], walk.at)
      /\ \A r \in Queue \ {"act"} : mail'[r] = mail[r]
  BY <1>1, <1>2, <1>3, Sending DEF StateInv, Queue, Message
<1>5. mail'["act"] = <<walk.at>> /\ mail'["done"] = <<>>
  BY <1>2, <1>4, ShortLists DEF Queue
<1>6. ~LimitReached(walk)
  BY <1>1, <1>2, MaxStepsAssumption DEF LimitReached, Reported, StateInv
<1>7. AwaitsDone'
  BY <1>1, <1>2, <1>5, <1>6 DEF AwaitsDone, Reported, LimitReached
<1> QED BY <1>1, <1>2, <1>3, <1>4, <1>7 DEF Keeps, DispatchInv

LEMMA AgentTakesStep ==
  ASSUME StateInv, DispatchInv, AgentExecutes
  PROVE  Keeps(DispatchInv' /\ current' \in NodeId)
<1>1. /\ "agent" \in workers /\ mail["act"] # <<>> /\ walk.stage = "execute"
      /\ Has(doc, Head(mail["act"]))
      /\ walk' = Executed([walk EXCEPT !.at = Head(mail["act"])])
      /\ UNCHANGED <<doc, files, visited, pc, mail, workers, current>>
  BY DEF AgentExecutes, document
<1>2. walk.at \in NodeId /\ walk \in WalkState /\ DocPart /\ WalkPart
  BY DEF StateInv, WalkPart, WalkState
<1>3. /\ mail["act"] \in {<<walk.at>>, <<"STOP">>, <<walk.at, "STOP">>}
      /\ AwaitsDone \/ AgentGivenUp
  BY <1>1 DEF DispatchInv, AwaitsDone, AgentGivenUp, Requests, Silent
<1>4. Head(mail["act"]) = walk.at /\ Asked("act")
  <2>1. Head(mail["act"]) # "STOP"
    <3>1. ToSet(doc.nodes) \subseteq NodeId
      BY <1>2, ElementsOf DEF DocPart, Document
    <3> QED BY <1>1, <3>1, SentinelsAssumption DEF Has
  <2> QED BY <1>2, <1>3, <2>1, Requested DEF Asked
<1>5. walk' = Executed(walk)
  BY <1>1, <1>2, <1>4 DEF WalkState
<1>6. ~LimitReached(walk)
  BY <1>1, <1>3, <1>4 DEF AwaitsDone, AgentGivenUp
<1>7. /\ Moves /\ walk'.at = walk.at /\ walk'.stage = "route"
      /\ walk'.executed = Append(walk.executed, walk.at)
  BY <1>1, <1>2, <1>4, <1>5, <1>6, Executing
<1>8. AwaitsDone => AwaitsDone'
  BY <1>1, <1>7 DEF AwaitsDone, Reported, Unreported
<1>9. AgentGivenUp => AgentGivenUp'
  BY <1>1, <1>4, <1>7 DEF AgentGivenUp, Requests, Unstopped, Asked
<1>10. workers' \subseteq {"agent"}
  BY <1>1 DEF DispatchInv
<1> QED BY <1>1, <1>3, <1>7, <1>8, <1>9, <1>10 DEF Keeps, DispatchInv, StateInv, MailPart

LEMMA AgentWrites ==
  ASSUME StateInv, DispatchInv, AgentModifies
  PROVE  Keeps(DispatchInv' /\ current' \in NodeId)
<1>1. /\ "agent" \in workers /\ walk.stage = "route" /\ Grows(walk.at) /\ Modify(walk.at)
      /\ UNCHANGED <<walk, visited, pc, mail, workers, current>>
  BY DEF AgentModifies
<1>2. Moves
  BY <1>1, Modifying DEF StateInv
<1>3. AwaitsDone \/ AgentGivenUp
  BY <1>1 DEF DispatchInv
<1>4. AwaitsDone => AwaitsDone'
  BY <1>1 DEF AwaitsDone, Unreported
<1>5. AgentGivenUp => AgentGivenUp'
  BY <1>1 DEF AgentGivenUp, Requests, Unstopped, Asked, LimitReached
<1>6. workers' \subseteq {"agent"}
  BY <1>1 DEF DispatchInv
<1> QED BY <1>1, <1>2, <1>3, <1>4, <1>5, <1>6 DEF Keeps, DispatchInv, StateInv, MailPart

LEMMA AgentAnswers ==
  ASSUME StateInv, DispatchInv, AgentRoutes
  PROVE  Keeps(DispatchInv' /\ current' \in NodeId)
<1> DEFINE answer == IF walk'.stage = "done" THEN "terminal" ELSE walk'.at
<1>1. /\ "agent" \in workers /\ walk.stage = "route" /\ Mended
      /\ walk' = SelectByTarget(doc, walk) /\ Answer("act", "done", answer)
      /\ UNCHANGED <<doc, files, visited, pc, workers, current>>
  BY DEF AgentRoutes, Mended, document
<1>2. walk.at \in NodeId /\ DocPart /\ WalkPart /\ MailPart
  BY DEF StateInv, WalkPart, WalkState
<1>3. /\ Moves /\ walk'.executed = walk.executed /\ walk'.stage \in {"execute", "done"}
      /\ walk'.at \in NodeId
  BY <1>1, <1>2, Routing
<1>4. /\ mail["act"] \in {<<walk.at>>, <<walk.at, "STOP">>}
      /\ AwaitsDone \/ AgentGivenUp
  BY <1>1 DEF DispatchInv, AwaitsDone, AgentGivenUp, Asked
<1>5. /\ Tail(mail["act"]) \in {<<>>, <<"STOP">>} /\ mail["act"] # <<>>
      /\ mail["act"] = <<walk.at>> => Tail(mail["act"]) = <<>>
      /\ <<>> \notin {<<walk.at>>, <<walk.at, "STOP">>}
  BY <1>2, <1>4, Requested
<1>6. answer \in Message
  BY <1>3 DEF Message
<1> HIDE DEF answer
<1>7. /\ MailPart' /\ mail'["act"] = Tail(mail["act"])
      /\ mail'["done"] = Append(mail["done"], answer)
  BY <1>1, <1>2, <1>5, <1>6, Answering DEF Queue
<1>8. CASE AwaitsDone
  <2>1. Unreported /\ mail["act"] = <<walk.at>> /\ mail["done"] = <<>> /\ current = walk.at
    BY <1>1, <1>8 DEF AwaitsDone
  <2>2. mail'["act"] = <<>> /\ mail'["done"] = <<answer>>
    BY <1>5, <1>7, <2>1, ShortLists
  <2>3. walk'.executed = Append(visited', current')
    BY <1>1, <1>3, <2>1 DEF Unreported
  <2>4. AwaitsDone'
    BY <1>1, <1>3, <1>8, <2>2, <2>3 DEF AwaitsDone, answer
  <2> QED BY <1>1, <1>3, <1>7, <2>4 DEF Keeps, DispatchInv, StateInv
<1>9. CASE AgentGivenUp
  <2>1. /\ <<"STOP">> \notin {<<walk'.at>>, <<walk'.at, "STOP">>}
        /\ <<>> \notin {<<walk'.at>>, <<walk'.at, "STOP">>}
    BY <1>3, Requested
  <2>2. Requests("act")' /\ ~Asked("act")'
    BY <1>5, <1>7, <2>1 DEF Requests, Asked
  <2>3. pc = "abandon" => Unstopped("act")'
    <3> SUFFICES ASSUME pc = "abandon" PROVE Unstopped("act")'
      OBVIOUS
    <3>1. mail["act"] = <<walk.at>>
      BY <1>5, <1>9 DEF AgentGivenUp, Unstopped
    <3> QED BY <1>5, <1>7, <3>1 DEF Unstopped
  <2>4. AgentGivenUp'
    BY <1>1, <1>3, <1>9, <2>2, <2>3 DEF AgentGivenUp
  <2> QED BY <1>1, <1>3, <1>7, <2>4 DEF Keeps, DispatchInv, StateInv
<1> QED BY <1>4, <1>8, <1>9

LEMMA AgentLeaves ==
  ASSUME StateInv, DispatchInv, AgentExits
  PROVE  Keeps(DispatchInv' /\ current' \in NodeId)
<1>1. /\ "agent" \in workers /\ mail["act"] # <<>> /\ Take("act")
      /\ Head(mail["act"]) = "STOP" \/ ~Has(doc, Head(mail["act"]))
      /\ workers' = workers \ {"agent"}
      /\ UNCHANGED <<doc, files, walk, visited, pc, current>>
  BY DEF AgentExits, document
<1>2. /\ walk.at \in NodeId /\ DocPart /\ WalkPart /\ MailPart /\ workers \subseteq {"agent"}
      /\ visited' \in Seq(NodeId) /\ current' \in NodeId
  BY <1>1 DEF StateInv, WalkPart, WalkState, DispatchInv
<1>3. /\ MailPart' /\ mail'["act"] = Tail(mail["act"])
      /\ \A r \in Queue \ {"act"} : mail'[r] = mail[r]
  BY <1>1, <1>2, Taking DEF Queue
<1>4. mail'["done"] = mail["done"] /\ Moves
  BY <1>1, <1>2, <1>3, Resting DEF Queue
<1>5. \/ pc \in {"stop", "join"} /\ walk.stage = "done" /\ Reported
      \/ AwaitsDone \/ AgentGivenUp
  BY <1>1 DEF DispatchInv, Silent
<1>6. CASE pc \in {"stop", "join"} /\ walk.stage = "done" /\ Reported
  BY <1>1, <1>2, <1>3, <1>4, <1>6 DEF Keeps, DispatchInv, Reported
<1>7. CASE AwaitsDone \/ AgentGivenUp
  <2>1. mail["act"] \in {<<walk.at>>, <<"STOP">>, <<walk.at, "STOP">>}
    BY <1>1, <1>7 DEF AwaitsDone, AgentGivenUp, Requests
  <2>2. /\ Head(mail["act"]) \in {walk.at, "STOP"}
        /\ Tail(mail["act"]) \in {<<>>, <<"STOP">>}
        /\ Head(mail["act"]) = "STOP" => mail["act"] = <<"STOP">>
        /\ mail["act"] = <<walk.at>> => Tail(mail["act"]) = <<>>
        /\ <<"STOP">> \notin {<<walk.at>>, <<walk.at, "STOP">>}
        /\ <<>> \notin {<<walk.at>>, <<walk.at, "STOP">>}
    BY <1>2, <2>1, Requested
  <2>3. walk.stage # "route"
    <3> SUFFICES ASSUME walk.stage = "route" PROVE FALSE
      OBVIOUS
    <3>1. Has(doc, walk.at)
      BY <1>2 DEF WalkPart
    <3>2. Asked("act")
      BY <1>7 DEF AwaitsDone, AgentGivenUp, Asked
    <3> QED BY <1>1, <2>2, <3>1, <3>2 DEF Asked
  <2>4. CASE AwaitsDone
    <3>1. /\ walk.stage = "execute" /\ mail["act"] = <<walk.at>> /\ mail["done"] = <<>>
          /\ pc = "wait_done"
      BY <1>1, <2>3, <2>4 DEF AwaitsDone
    <3>2. mail'["act"] = <<>>
      BY <1>3, <2>2, <3>1
    <3>3. AwaitsDone'
      BY <1>1, <1>4, <3>1, <3>2 DEF AwaitsDone
    <3> QED BY <1>1, <1>2, <1>3, <1>4, <3>3 DEF Keeps, DispatchInv
  <2>5. CASE AgentGivenUp
    <3>1. Requests("act")' /\ ~Asked("act")'
      BY <1>1, <1>3, <2>2 DEF Requests, Asked
    <3>2. pc = "abandon" => Unstopped("act")'
      <4> SUFFICES ASSUME pc = "abandon" PROVE Unstopped("act")'
        OBVIOUS
      <4>1. mail["act"] = <<walk.at>>
        BY <1>1, <2>5 DEF AgentGivenUp, Unstopped
      <4> QED BY <1>3, <2>2, <4>1 DEF Unstopped
    <3>3. AgentGivenUp'
      BY <1>1, <2>3, <2>5, <3>1, <3>2 DEF AgentGivenUp
    <3> QED BY <1>1, <1>2, <1>3, <1>4, <3>3 DEF Keeps, DispatchInv
  <2> QED BY <1>7, <2>4, <2>5
<1> QED BY <1>5, <1>6, <1>7

LEMMA DispatcherTakesDone ==
  ASSUME StateInv, DispatchInv, TakeDone
  PROVE  Keeps(DispatchInv' /\ current' \in NodeId)
<1>1. /\ pc = "wait_done" /\ mail["done"] # <<>> /\ Take("done")
      /\ visited' = Append(visited, current)
      /\ IF Head(mail["done"]) = "terminal"
           THEN pc' = "stop" /\ UNCHANGED current
           ELSE pc' = "visit" /\ current' = Head(mail["done"])
      /\ UNCHANGED <<doc, files, walk, workers>>
  BY DEF TakeDone, document
<1>2. /\ walk.at \in NodeId /\ DocPart /\ WalkPart /\ MailPart /\ workers \subseteq {"agent"}
      /\ visited \in Seq(NodeId) /\ current \in NodeId
  BY DEF StateInv, WalkPart, WalkState, DispatchInv
<1>3. /\ MailPart' /\ mail'["done"] = Tail(mail["done"])
      /\ \A r \in Queue \ {"done"} : mail'[r] = mail[r]
  BY <1>1, <1>2, Taking DEF Queue
<1>4. /\ mail'["act"] = mail["act"] /\ Moves /\ visited' \in Seq(NodeId)
  BY <1>1, <1>2, <1>3, Resting DEF Queue
<1>5. /\ mail["act"] = <<>> /\ walk.executed = Append(visited, current)
      /\ \/ walk.stage = "done" /\ mail["done"] = <<"terminal">>
         \/ walk.stage = "execute" /\ mail["done"] = <<walk.at>>
  BY <1>1 DEF DispatchInv, AwaitsDone, AgentGivenUp
<1>6. Reported'
  BY <1>1, <1>5 DEF Reported
<1>7. CASE walk.stage = "done" /\ mail["done"] = <<"terminal">>
  <2>1. Head(mail["done"]) = "terminal"
    BY <1>7, ShortLists
  <2> QED BY <1>1, <1>2, <1>3, <1>4, <1>6, <1>7, <2>1 DEF Keeps, DispatchInv
<1>8. CASE walk.stage = "execute" /\ mail["done"] = <<walk.at>>
  <2>1. Head(mail["done"]) = walk.at /\ Tail(mail["done"]) = <<>>
    BY <1>8, ShortLists
  <2>2. pc' = "visit" /\ current' = walk.at
    BY <1>1, <1>2, <2>1, SentinelsAssumption
  <2>3. Silent({"act", "done"})'
    BY <1>3, <1>4, <1>5, <2>1 DEF Silent
  <2> QED BY <1>1, <1>2, <1>3, <1>4, <1>6, <1>8, <2>2, <2>3 DEF Keeps, DispatchInv
<1> QED BY <1>5, <1>7, <1>8

LEMMA DispatcherStops ==
  ASSUME StateInv, DispatchInv, StopAtLimit
  PROVE  Keeps(DispatchInv' /\ current' \in NodeId)
<1>1. /\ pc = "visit" /\ LimitReached(walk) /\ walk' = Over(walk, "done")
      /\ pc' = IF workers = {} THEN "ended" ELSE "stop"
      /\ UNCHANGED <<doc, files, visited, mail, workers, current>>
  BY DEF StopAtLimit, document
<1>2. walk.stage = "execute" /\ Reported /\ workers \subseteq {"agent"}
  BY <1>1 DEF DispatchInv, AwaitsDone, AgentGivenUp
<1>3. Moves /\ walk'.executed = walk.executed /\ walk'.stage = "done"
  BY <1>1, <1>2, Ending DEF StateInv
<1>4. MailPart' /\ visited' \in Seq(NodeId) /\ current' \in NodeId
  BY <1>1 DEF StateInv, MailPart
<1> QED BY <1>1, <1>2, <1>3, <1>4 DEF Keeps, DispatchInv, Reported

LEMMA DispatcherTimesOut ==
  ASSUME StateInv, DispatchInv, TimesOut
  PROVE  Keeps(DispatchInv' /\ current' \in NodeId)
<1>1. /\ pc' = "abandon" /\ pc \in {"wait_result", "wait_ack", "wait_done"}
      /\ UNCHANGED <<doc, files, walk, visited, mail, workers, current>>
  BY DEF TimesOut, document
<1>2. /\ pc = "wait_done" /\ mail["done"] = <<>> /\ AwaitsDone /\ workers \subseteq {"agent"}
  BY <1>1 DEF TimesOut, DispatchInv, AwaitsDone, AgentGivenUp
<1>3. walk.at \in NodeId /\ <<>> \notin {<<walk.at>>, <<walk.at, "STOP">>}
  BY Requested DEF StateInv, WalkPart, WalkState
<1>4. AgentGivenUp'
  BY <1>1, <1>2, <1>3
     DEF AwaitsDone, AgentGivenUp, Requests, Unstopped, Asked, LimitReached
<1>5. Moves
  BY <1>1, Resting DEF StateInv
<1> QED BY <1>1, <1>2, <1>4, <1>5 DEF Keeps, StateInv, MailPart, DispatchInv

LEMMA DispatcherSendsStop ==
  ASSUME StateInv, DispatchInv, SendStop
  PROVE  Keeps(DispatchInv' /\ current' \in NodeId)
<1>1. /\ pc \in {"stop", "abandon"} /\ pc' = IF pc = "stop" THEN "join" ELSE "join_abandoned"
      /\ UNCHANGED <<doc, files, walk, visited, workers, current>>
  BY DEF SendStop, document
<1>2. /\ Moves /\ visited' \in Seq(NodeId) /\ current' \in NodeId /\ walk.at \in NodeId
      /\ workers \subseteq {"agent"}
  BY <1>1, Resting DEF StateInv, DispatchInv, WalkPart, WalkState
<1>3. MailPart' /\ mail'["act"] = Append(mail["act"], "STOP")
  BY AfterStop DEF StateInv, Inbox
<1>4. CASE pc = "stop"
  <2>1. walk.stage = "done" /\ Reported
    BY <1>4 DEF DispatchInv, AwaitsDone, AgentGivenUp
  <2> QED BY <1>1, <1>2, <1>3, <1>4, <2>1 DEF Keeps, DispatchInv, Reported
<1>5. CASE pc = "abandon"
  <2>1. AgentGivenUp /\ Unstopped("act")
    BY <1>5 DEF DispatchInv, AwaitsDone, AgentGivenUp
  <2>2. Append(<<>>, "STOP") = <<"STOP">> /\ Append(<<walk.at>>, "STOP") = <<walk.at, "STOP">>
    BY ShortLists
  <2>3. <<"STOP">> \notin {<<walk.at>>, <<walk.at, "STOP">>}
    BY <1>2, Requested
  <2>4. Requests("act")' /\ (Asked("act")' <=> Asked("act"))
    BY <1>1, <1>3, <2>1, <2>2, <2>3, <1>2, Requested DEF Unstopped, Requests, Asked
  <2>5. AgentGivenUp'
    BY <1>1, <1>5, <2>1, <2>4 DEF AgentGivenUp, LimitReached
  <2> QED BY <1>1, <1>2, <1>3, <2>5 DEF Keeps, DispatchInv
<1> QED BY <1>1, <1>4, <1>5

LEMMA DispatcherJoins ==
  ASSUME StateInv, DispatchInv, Join
  PROVE  Keeps(DispatchInv' /\ current' \in NodeId)
<1>1. /\ pc \in {"join", "join_abandoned"} /\ workers' = {}
      /\ pc' = IF pc = "join" THEN "ended" ELSE "raised"
      /\ walk' = IF walk.stage = "done" THEN walk ELSE Over(walk, "failed")
      /\ UNCHANGED <<doc, files, visited, mail, current>>
  BY DEF Join, document
<1>2. MailPart' /\ visited' \in Seq(NodeId) /\ current' \in NodeId
  BY <1>1 DEF StateInv, MailPart
<1>3. CASE walk.stage = "done"
  <2>1. Moves /\ walk' = walk
    BY <1>1, <1>3, Resting DEF StateInv
  <2>2. pc = "join" => Reported
    BY DEF DispatchInv, AwaitsDone, AgentGivenUp
  <2> QED BY <1>1, <1>2, <1>3, <2>1, <2>2 DEF Keeps, DispatchInv, Reported
<1>4. CASE walk.stage # "done"
  <2>1. pc = "join_abandoned" /\ walk.stage \in {"execute", "route"}
    BY <1>1, <1>4 DEF DispatchInv, AwaitsDone, AgentGivenUp
  <2>2. walk' = Over(walk, "failed")
    BY <1>1, <1>4
  <2>3. Moves
    BY <1>1, <2>1, <2>2, Ending DEF StateInv
  <2> QED BY <1>1, <1>2, <2>1, <2>3 DEF Keeps, DispatchInv
<1> QED BY <1>3, <1>4

LEMMA DispatcherLosesAgent ==
  ASSUME StateInv, DispatchInv, WorkerDies
  PROVE  Keeps(DispatchInv' /\ current' \in NodeId)
<1>1. UNCHANGED <<doc, files, walk, visited, pc, current>>
  BY DEF WorkerDies, document
<1>2. /\ MailPart' /\ workers # {} /\ workers' \subseteq {"agent"}
      /\ mail'["act"] = mail["act"] /\ mail'["done"] \in {<<>>, mail["done"]}
  BY AfterDeath DEF StateInv, DispatchInv, Inbox, Queue
<1>3. Moves /\ visited' \in Seq(NodeId) /\ current' \in NodeId
  BY <1>1, Resting DEF StateInv
<1>4. pc \notin {"ended", "raised"}
  BY <1>2 DEF DispatchInv, AwaitsDone, AgentGivenUp
<1>5. AwaitsDone => AwaitsDone'
  BY <1>1, <1>2 DEF AwaitsDone, Reported, Unreported, LimitReached
<1>6. AgentGivenUp => AgentGivenUp'
  BY <1>1, <1>2 DEF AgentGivenUp, Requests, Unstopped, Asked, LimitReached
<1>7. DispatchInv'
  BY <1>1, <1>2, <1>4, <1>5, <1>6 DEF DispatchInv, Silent, Reported
<1> QED BY <1>2, <1>3, <1>7 DEF Keeps

LEMMA DispatchStep ==
  ASSUME DecomposedInv, embodiment = "external_dispatch", DecomposedNext
  PROVE  DecomposedInv' /\ Moves
<1>1. StateInv /\ DispatchInv
  BY DEF DecomposedInv
<1>2. workers \subseteq {"agent"} /\ pc \notin {"wait_result", "wait_ack"}
  BY <1>1 DEF DispatchInv, AwaitsDone, AgentGivenUp
<1>3. \/ Dispatch \/ AgentExecutes \/ AgentModifies \/ AgentRoutes \/ AgentExits \/ TakeDone
      \/ StopAtLimit \/ TimesOut \/ SendStop \/ Join \/ WorkerDies
  BY <1>2 DEF DecomposedNext, DecomposedStep, SingleVisit, SingleRaises, SingleModify,
    SingleRoute, SingleFails, AskExecution, ExecutionWorker, TakeResult, ModifierWorker,
    TakeAck, CoordinatorRoutes
<1>4. UNCHANGED embodiment
  BY <1>3 DEF Dispatch, AgentExecutes, AgentModifies, AgentRoutes, AgentExits, TakeDone,
    StopAtLimit, TimesOut, SendStop, Join, WorkerDies
<1>5. Keeps(DispatchInv' /\ current' \in NodeId)
  BY <1>1, <1>3, DispatcherAsks, AgentTakesStep, AgentWrites, AgentAnswers, AgentLeaves,
     DispatcherTakesDone, DispatcherStops, DispatcherTimesOut, DispatcherSendsStop,
     DispatcherJoins, DispatcherLosesAgent
<1>6. StateInv' /\ DispatchInv' /\ Moves
  BY <1>5 DEF Keeps, Moves, StateInv
<1> QED BY <1>4, <1>6 DEF DecomposedInv, DecomposedEmbodiment

-----------------------------------------------------------------------------
(* What STUDY-203 promises.                                                *)

LEMMA DecomposedMoves ==
  ASSUME DecomposedInv, [DecomposedNext]_<<walkVars, decomposedVars>>
  PROVE  DecomposedInv' /\ Moves
<1>1. CASE DecomposedNext
  <2>1. embodiment \in {"single_process", "three_processes", "external_dispatch"}
    BY DEF DecomposedInv, DecomposedEmbodiment
  <2> QED BY <1>1, <2>1, SingleStep, ThreeStep, DispatchStep
<1>2. CASE UNCHANGED <<walkVars, decomposedVars>>
  <2>1. UNCHANGED <<embodiment, doc, files, walk, visited, pc, mail, workers, current>>
    BY <1>2 DEF walkVars, decomposedVars
  <2>2. Moves
    BY <2>1, Resting DEF DecomposedInv, StateInv
  <2>3. StateInv'
    BY <2>1, <2>2 DEF Moves, DecomposedInv, StateInv, MailPart
  <2>4. embodiment = "single_process" => SingleInv'
    BY <2>1 DEF DecomposedInv, SingleInv, Silent, Reported, Mended
  <2>5. embodiment = "three_processes" => ThreeInv'
    BY <2>1 DEF DecomposedInv, ThreeInv, AwaitsResult, AwaitsAck, GivenUp, Silent, Reported,
      Unreported, Mended, Requests, Unstopped, Asked, LimitReached
  <2>6. embodiment = "external_dispatch" => DispatchInv'
    BY <2>1 DEF DecomposedInv, DispatchInv, AwaitsDone, AgentGivenUp, Silent, Reported,
      Unreported, Requests, Unstopped, Asked, LimitReached
  <2> QED BY <2>1, <2>2, <2>3, <2>4, <2>5, <2>6 DEF DecomposedInv
<1> QED BY <1>1, <1>2

\* In every reachable state the queues of STUDY-203 hold what the phase of the
\* turn allows: a request at most, and never both a request and its answer; a
\* worker that the coordinator has given up has one request left to answer.
THEOREM DecomposedInvariant == DecomposedSpec => []DecomposedInv
<1>1. DecomposedInit => DecomposedInv
  BY BeginsWell
<1>2. DecomposedInv /\ [DecomposedNext]_<<walkVars, decomposedVars>> => DecomposedInv'
  BY DecomposedMoves
<1> QED BY <1>1, <1>2, PTL DEF DecomposedSpec

\* A program of STUDY-203 that returns reports the nodes that were executed, in
\* order, though another process executed them and messages to it were lost, and
\* its file holds the graph it walked (run in each of its three programs).
THEOREM DecomposedReports == DecomposedSpec => []ReportsAndKeepsTheWalk
<1>1. DecomposedInv => ReportsAndKeepsTheWalk
  <2> SUFFICES ASSUME DecomposedInv, pc = "ended" PROVE ReportsAndKeepsTheWalk
    BY DEF ReportsAndKeepsTheWalk
  <2>1. files = <<doc>>
    BY DEF DecomposedInv, StateInv, DocPart
  <2>2. Last(files) = doc
    BY <2>1 DEF Last
  <2>3. embodiment = "single_process" => walk.stage = "done" /\ Reported
    BY DEF DecomposedInv, SingleInv
  <2>4. embodiment = "three_processes" => walk.stage = "done" /\ Reported
    BY DEF DecomposedInv, ThreeInv, AwaitsResult, AwaitsAck, GivenUp
  <2>5. embodiment = "external_dispatch" => walk.stage = "done" /\ Reported
    BY DEF DecomposedInv, DispatchInv, AwaitsDone, AgentGivenUp
  <2> QED BY <2>2, <2>3, <2>4, <2>5
          DEF ReportsAndKeepsTheWalk, Reported, DecomposedInv, DecomposedEmbodiment
<1> QED BY <1>1, DecomposedInvariant, PTL

\* STUDY-203 implements the reference walk: each step of one process, of a
\* coordinator with its workers, or of a dispatcher with its agent, and each
\* death, timeout and late answer, is a step of the walk the graph prescribes or
\* leaves the document and the walk alone.
THEOREM DecomposedWalks == DecomposedSpec => WalksAsTheGraphSays
<1>1. ASSUME DecomposedInv, [DecomposedNext]_<<walkVars, decomposedVars>>
      PROVE  [Reference!ReferenceNext]_<<doc, walk>>
  BY <1>1, DecomposedMoves DEF Moves
<1> QED BY <1>1, DecomposedInvariant, PTL DEF DecomposedSpec, WalksAsTheGraphSays

\* Whatever process of STUDY-203 writes the file, and wherever it dies, the file
\* that replaces the one before holds the whole modification of the node walked,
\* and is never torn (the rename in save_graph_atomic).
THEOREM DecomposedFileSurvives == DecomposedSpec => EarlierFileSurvives
<1> DEFINE Survives ==
      /\ embodiment \in {"single_process", "three_processes", "external_dispatch",
                         "relational"}
           => \A i \in DOMAIN files :
                files'[i] # files[i]
                  => files'[i] # Torn /\ Whole(files'[i], walk.at)
      /\ embodiment = "rerender_new_file" => IsPrefix(files, files')
<1>1. ASSUME DecomposedInv, [DecomposedNext]_<<walkVars, decomposedVars>>
      PROVE  [Survives]_files
  <2>1. DecomposedInv' /\ Moves
    BY <1>1, DecomposedMoves
  <2>2. files = <<doc>> /\ files' = <<doc'>> /\ doc' \in Document
    BY <1>1, <2>1 DEF DecomposedInv, StateInv, DocPart
  <2>3. doc' = doc \/ Whole(doc', walk.at)
    BY <2>1 DEF Moves
  <2>4. embodiment # "rerender_new_file"
    BY <1>1 DEF DecomposedInv, DecomposedEmbodiment
  <2>5. \A i \in DOMAIN files : files[i] = doc /\ files'[i] = doc'
    BY <2>2
  <2> QED BY <2>2, <2>3, <2>4, <2>5, TornAssumption
<1> QED BY <1>1, DecomposedInvariant, PTL DEF DecomposedSpec, EarlierFileSurvives

-----------------------------------------------------------------------------
(* A modification that is written piece by piece.                          *)

GraphPart == doc \in Document /\ ControlFlow(doc) /\ GrowsByParts(doc)

\* e has what d has, and otherwise only what n adds.
Extended(e, d, n) ==
  /\ e \in Document
  /\ ToSet(d.nodes) \subseteq ToSet(e.nodes)
  /\ ToSet(e.nodes) \subseteq ToSet(d.nodes) \cup ToSet(Growth[n].nodes)
  /\ ToSet(d.edges) \subseteq ToSet(e.edges)
  /\ ToSet(e.edges) \subseteq ToSet(d.edges) \cup ToSet(Growth[n].edges)

\* e is d, its lists in any order.
Rearranged(e, d) ==
  /\ e \in Document
  /\ Len(e.nodes) = Len(d.nodes) /\ ToSet(e.nodes) = ToSet(d.nodes)
  /\ Len(e.edges) = Len(d.edges) /\ ToSet(e.edges) = ToSet(d.edges)

LEMMA GrowersGrow ==
  ASSUME NEW d \in Document, NEW n \in Growers(d)
  PROVE  n \in NodeId /\ Grows(n) /\ Has(d, n) /\ Growth[n] \in Document
<1>1. ToSet(d.nodes) \subseteq NodeId
  BY ElementsOf DEF Document
<1> QED BY <1>1, GrowthAssumption DEF Growers, Grows, Has

LEMMA ExtendedGraph ==
  ASSUME NEW d \in Document, GrowsByParts(d), NEW n \in Growers(d), NEW e, Extended(e, d, n)
  PROVE  /\ Growers(e) = Growers(d) /\ GrowsByParts(e)
         /\ ControlFlow(d) => ControlFlow(e)
<1>1. \A m \in ToSet(Growth[n].nodes) : ~Grows(m)
  BY DEF GrowsByParts
<1>2. Growers(e) = Growers(d)
  BY <1>1 DEF Growers, Extended
<1>3. GrowsByParts(e)
  BY <1>2 DEF GrowsByParts
<1>4. ASSUME ControlFlow(d) PROVE ControlFlow(e)
  <2>1. Flows(Growth[n])
    BY <1>4 DEF ControlFlow, Growers
  <2>2. Flows(e)
    BY <1>4, <2>1 DEF ControlFlow, Flows, Extended
  <2>3. \A k \in ToSet(e.nodes) : Grows(k) => k \in ToSet(d.nodes)
    BY <1>2 DEF Growers
  <2> QED BY <1>4, <2>2, <2>3 DEF ControlFlow
<1> QED BY <1>2, <1>3, <1>4

LEMMA ExtendedOthers ==
  ASSUME NEW d \in Document, GrowsByParts(d), NEW n \in Growers(d), NEW e, Extended(e, d, n),
         NEW m \in Growers(d)
  PROVE  /\ m # n /\ Apart(d, Growth[m]) => Apart(e, Growth[m])
         /\ Whole(d, m) => Whole(e, m)
<1>1. m \in NodeId /\ Grows(m) /\ e \in Document
  BY GrowersGrow DEF Extended
<1>2. m # n => Apart(Growth[m], Growth[n])
  BY DEF GrowsByParts
<1>3. m # n /\ Apart(d, Growth[m]) => Apart(e, Growth[m])
  BY <1>2 DEF Apart, Extended
<1>4. Whole(d, m) => Whole(e, m)
  <2>1. /\ Whole(d, m) <=> /\ ToSet(Growth[m].nodes) \subseteq ToSet(d.nodes)
                           /\ ToSet(Growth[m].edges) \subseteq ToSet(d.edges)
        /\ Whole(e, m) <=> /\ ToSet(Growth[m].nodes) \subseteq ToSet(e.nodes)
                           /\ ToSet(Growth[m].edges) \subseteq ToSet(e.edges)
    BY <1>1, WholeHasAll
  <2> QED BY <2>1 DEF Extended
<1> QED BY <1>3, <1>4

\* What a node adds when nothing of it is there.
LEMMA MissesAll ==
  ASSUME NEW d \in Document, NEW n \in NodeId, Grows(n), Apart(d, Growth[n])
  PROVE  Missing(d, n) = Growth[n]
<1>1. /\ Growth[n] \in Document /\ Growth[n].nodes \in Seq(NodeId)
      /\ Growth[n].edges \in Seq(Edges)
      /\ Growth[n] = [nodes |-> Growth[n].nodes, edges |-> Growth[n].edges]
  BY MissingType DEF Document
<1>2. /\ ToSet(Growth[n].nodes) \subseteq ToSet(Growth[n].nodes) \ ToSet(d.nodes)
      /\ ToSet(Growth[n].edges) \subseteq ToSet(Growth[n].edges) \ ToSet(d.edges)
  BY DEF Apart
<1>3. /\ Kept(Growth[n].nodes, ToSet(Growth[n].nodes) \ ToSet(d.nodes)) = Growth[n].nodes
      /\ Kept(Growth[n].edges, ToSet(Growth[n].edges) \ ToSet(d.edges)) = Growth[n].edges
  BY <1>1, <1>2, KeptAll
<1> QED BY <1>1, <1>3 DEF Missing

\* The first piece of what is missing.
LEMMA FirstPiece ==
  ASSUME NEW d \in Document, NEW m \in Document, m # Empty
  PROVE  /\ WriteFirst(d, m) \in Document /\ Rest(m) \in Document
         /\ IF m.nodes # <<>>
            THEN /\ Head(m.nodes) \in ToSet(m.nodes)
                 /\ WriteFirst(d, m) =
                      [nodes |-> Append(d.nodes, Head(m.nodes)), edges |-> d.edges]
                 /\ ToSet(WriteFirst(d, m).nodes) = ToSet(d.nodes) \cup {Head(m.nodes)}
                 /\ Rest(m) = [nodes |-> Tail(m.nodes), edges |-> m.edges]
            ELSE /\ m.edges # <<>> /\ Head(m.edges) \in ToSet(m.edges)
                 /\ WriteFirst(d, m) =
                      [nodes |-> d.nodes, edges |-> Append(d.edges, Head(m.edges))]
                 /\ ToSet(WriteFirst(d, m).edges) = ToSet(d.edges) \cup {Head(m.edges)}
                 /\ Rest(m) = [nodes |-> m.nodes, edges |-> Tail(m.edges)]
<1>1. /\ d.nodes \in Seq(NodeId) /\ d.edges \in Seq(Edges)
      /\ m.nodes \in Seq(NodeId) /\ m.edges \in Seq(Edges)
      /\ d = [nodes |-> d.nodes, edges |-> d.edges]
      /\ m = [nodes |-> m.nodes, edges |-> m.edges]
  BY DEF Document
<1>2. CASE m.nodes # <<>>
  <2> DEFINE h == Head(m.nodes)
             a == Append(d.nodes, h)
  <2>1. h \in NodeId /\ h \in ToSet(m.nodes) /\ Tail(m.nodes) \in Seq(NodeId)
    BY <1>1, <1>2, HeadTailProperties, FirstAndRest
  <2> HIDE DEF h
  <2>2. a \in Seq(NodeId) /\ ToSet(a) = ToSet(d.nodes) \cup {h}
    BY <1>1, <2>1, AppendProperties, ElementsOfAppend
  <2>3. WriteFirst(d, m) = [nodes |-> a, edges |-> d.edges]
    BY <1>1, <1>2 DEF WriteFirst, h
  <2>4. Rest(m) = [nodes |-> Tail(m.nodes), edges |-> m.edges]
    BY <1>1, <1>2 DEF Rest
  <2> HIDE DEF a
  <2>5. WriteFirst(d, m) \in Document /\ Rest(m) \in Document
    BY <1>1, <2>1, <2>2, <2>3, <2>4 DEF Document
  <2>6. ToSet(WriteFirst(d, m).nodes) = ToSet(d.nodes) \cup {h}
    BY <2>2, <2>3
  <2> QED BY <1>2, <2>1, <2>3, <2>4, <2>5, <2>6 DEF a, h
<1>3. CASE m.nodes = <<>>
  <2> DEFINE h == Head(m.edges)
             a == Append(d.edges, h)
  <2>0. m.edges # <<>>
    BY <1>1, <1>3 DEF Empty
  <2>1. h \in Edges /\ h \in ToSet(m.edges) /\ Tail(m.edges) \in Seq(Edges)
    BY <1>1, <2>0, HeadTailProperties, FirstAndRest
  <2> HIDE DEF h
  <2>2. a \in Seq(Edges) /\ ToSet(a) = ToSet(d.edges) \cup {h}
    BY <1>1, <2>1, AppendProperties, ElementsOfAppend
  <2>3. WriteFirst(d, m) = [nodes |-> d.nodes, edges |-> a]
    BY <1>1, <1>3 DEF WriteFirst, h
  <2>4. Rest(m) = [nodes |-> m.nodes, edges |-> Tail(m.edges)]
    BY <1>1, <1>3 DEF Rest
  <2> HIDE DEF a
  <2>5. WriteFirst(d, m) \in Document /\ Rest(m) \in Document
    BY <1>1, <2>1, <2>2, <2>3, <2>4 DEF Document
  <2>6. ToSet(WriteFirst(d, m).edges) = ToSet(d.edges) \cup {h}
    BY <2>2, <2>3
  <2> QED BY <1>3, <2>0, <2>1, <2>3, <2>4, <2>5, <2>6 DEF a, h
<1> QED BY <1>2, <1>3

\* When the first of what is missing has been written, the rest is missing.
LEMMA MissingRest ==
  ASSUME NEW d \in Document, NEW n \in Growers(d), GrowsByParts(d), Missing(d, n) # Empty,
         NEW e, Rearranged(e, WriteFirst(d, Missing(d, n)))
  PROVE  /\ Missing(e, n) = Rest(Missing(d, n)) /\ Extended(e, d, n)
<1> DEFINE m == Missing(d, n)
           G == Growth[n]
           S == ToSet(G.nodes) \ ToSet(d.nodes)
           T == ToSet(G.edges) \ ToSet(d.edges)
<1>1. /\ n \in NodeId /\ Grows(n) /\ G \in Document /\ m \in Document
      /\ G.nodes \in Seq(NodeId) /\ G.edges \in Seq(Edges)
      /\ ToSet(m.nodes) = S /\ ToSet(m.edges) = T
  <2>1. n \in NodeId /\ Grows(n)
    BY GrowersGrow
  <2> QED BY <2>1, MissingType DEF Document
<1>2. m.nodes = Kept(G.nodes, S) /\ m.edges = Kept(G.edges, T)
  BY DEF Missing
<1>3. IsInjective(G.nodes) /\ IsInjective(G.edges)
  BY DEF GrowsByParts
<1>4. /\ Missing(e, n).nodes = Kept(G.nodes, ToSet(G.nodes) \ ToSet(e.nodes))
      /\ Missing(e, n).edges = Kept(G.edges, ToSet(G.edges) \ ToSet(e.edges))
      /\ Missing(e, n) = [nodes |-> Missing(e, n).nodes, edges |-> Missing(e, n).edges]
  BY DEF Missing
<1> DEFINE w == WriteFirst(d, m)
<1>0. m # Empty
  OBVIOUS
<1>5. /\ e \in Document
      /\ ToSet(e.nodes) = ToSet(w.nodes) /\ ToSet(e.edges) = ToSet(w.edges)
  BY DEF Rearranged
<1> HIDE DEF G
<1>6. CASE m.nodes # <<>>
  <2> DEFINE h == Head(m.nodes)
  <2>1. /\ h \in S /\ w.edges = d.edges /\ ToSet(w.nodes) = ToSet(d.nodes) \cup {h}
        /\ Rest(m) = [nodes |-> Tail(m.nodes), edges |-> m.edges]
    <3> HIDE DEF m
    <3>1. /\ h \in ToSet(m.nodes)
          /\ w = [nodes |-> Append(d.nodes, h), edges |-> d.edges]
          /\ ToSet(w.nodes) = ToSet(d.nodes) \cup {h}
          /\ Rest(m) = [nodes |-> Tail(m.nodes), edges |-> m.edges]
      BY <1>0, <1>1, <1>6, FirstPiece
    <3> HIDE DEF w, h, S
    <3> QED BY <1>1, <3>1
  <2>2. Kept(G.nodes, S \ {h}) = Tail(m.nodes)
    <3> HIDE DEF S
    <3> QED BY <1>1, <1>2, <1>3, <1>6, KeptRest
  <2> HIDE DEF m, h, w
  <2>3. ToSet(G.nodes) \ ToSet(e.nodes) = S \ {h}
    BY <1>5, <2>1
  <2>4. ToSet(G.edges) \ ToSet(e.edges) = T
    BY <1>5, <2>1
  <2>5. Missing(e, n) = Rest(m)
    <3> HIDE DEF S, T
    <3> QED BY <1>2, <1>4, <2>1, <2>2, <2>3, <2>4
  <2>6. Extended(e, d, n)
    BY <1>5, <2>1 DEF Extended, G
  <2> QED BY <2>5, <2>6 DEF m
<1>7. CASE m.nodes = <<>>
  <2> DEFINE h == Head(m.edges)
  <2>1. /\ m.edges # <<>>
        /\ h \in T /\ w.nodes = d.nodes /\ ToSet(w.edges) = ToSet(d.edges) \cup {h}
        /\ Rest(m) = [nodes |-> m.nodes, edges |-> Tail(m.edges)]
    <3> HIDE DEF m
    <3>1. /\ m.edges # <<>> /\ h \in ToSet(m.edges)
          /\ w = [nodes |-> d.nodes, edges |-> Append(d.edges, h)]
          /\ ToSet(w.edges) = ToSet(d.edges) \cup {h}
          /\ Rest(m) = [nodes |-> m.nodes, edges |-> Tail(m.edges)]
      BY <1>0, <1>1, <1>7, FirstPiece
    <3> HIDE DEF w, h, T
    <3> QED BY <1>1, <3>1
  <2>2. Kept(G.edges, T \ {h}) = Tail(m.edges)
    <3> HIDE DEF T
    <3> QED BY <1>1, <1>2, <1>3, <2>1, KeptRest
  <2> HIDE DEF m, h, w
  <2>3. ToSet(G.edges) \ ToSet(e.edges) = T \ {h}
    BY <1>5, <2>1
  <2>4. ToSet(G.nodes) \ ToSet(e.nodes) = S
    BY <1>5, <2>1
  <2>5. Missing(e, n) = Rest(m)
    <3> HIDE DEF S, T
    <3> QED BY <1>2, <1>4, <2>1, <2>2, <2>3, <2>4
  <2>6. Extended(e, d, n)
    BY <1>5, <2>1 DEF Extended, G
  <2> QED BY <2>5, <2>6 DEF m
<1> QED BY <1>6, <1>7

LEMMA OneElement ==
  ASSUME NEW X, NEW s \in Seq(X), NEW t \in Seq(X), t # <<>>
  PROVE  /\ 1 \in 0..Len(t) /\ SubSeq(t, 1, 1) = <<Head(t)>>
         /\ Len(s \o <<Head(t)>>) = Len(Append(s, Head(t)))
         /\ ToSet(s \o <<Head(t)>>) = ToSet(Append(s, Head(t)))
<1>1. Len(t) \in Nat /\ Len(t) # 0 /\ t[1] = Head(t) /\ t[1] \in X
  BY EmptySeq, LenProperties, HeadTailProperties
<1> DEFINE u == SubSeq(t, 1, 1)
           v == <<Head(t)>>
<1>2. u \in Seq(X) /\ Len(u) = 1 /\ u[1] = t[1]
  <2>1. \A i \in 1..1 : t[i] \in X
    BY <1>1
  <2> QED BY <1>1, <2>1, SubSeqProperties
<1>3. v \in Seq(X) /\ Len(v) = 1 /\ v[1] = t[1]
  BY <1>1
<1>4. ToSet(v) = {Head(t)}
  <2> HIDE DEF v
  <2>1. v \in Seq(X) /\ Len(v) = 1
    BY <1>3
  <2>2. ToSet(v) = {v[i] : i \in 1..Len(v)}
    BY <2>1, ElementsOf
  <2>3. \A i \in 1..1 : i = 1
    OBVIOUS
  <2> QED BY <1>1, <1>3, <2>1, <2>2, <2>3
<1> HIDE DEF u, v
<1>5. u = v
  <2>1. \A i \in 1..Len(u) : u[i] = v[i]
    BY <1>2, <1>3
  <2> QED BY <1>2, <1>3, <2>1, SeqEqual
<1>9. v \in Seq(X)
  BY <1>3
<1>6. Len(s \o v) = Len(s) + 1
  <2>1. Len(s \o v) = Len(s) + Len(v)
    BY <1>9, ConcatProperties
  <2> QED BY <1>3, <2>1
<1>7. ToSet(s \o v) = ToSet(s) \cup {Head(t)}
  BY <1>4, <1>9, ElementsOfConcat
<1>8. /\ Len(Append(s, Head(t))) = Len(s) + 1
      /\ ToSet(Append(s, Head(t))) = ToSet(s) \cup {Head(t)}
  BY <1>1, AppendProperties, ElementsOfAppend
<1>10. 1 \in 0..Len(t)
  BY <1>1
<1>11. /\ Len(s \o v) = Len(Append(s, Head(t)))
       /\ ToSet(s \o v) = ToSet(Append(s, Head(t)))
  BY <1>6, <1>7, <1>8
<1> QED BY <1>5, <1>10, <1>11 DEF u, v

\* e is d with the first i nodes and the first j edges of m.
Alike(s, t) == Len(s) = Len(t) /\ ToSet(s) = ToSet(t)
Portion(e, d, m, i, j) ==
  /\ j > 0 => i = Len(m.nodes)
  /\ Alike(e.nodes, d.nodes \o SubSeq(m.nodes, 1, i))
  /\ Alike(e.edges, d.edges \o SubSeq(m.edges, 1, j))

LEMMA FirstPortion ==
  ASSUME NEW d \in Document, NEW m \in Document, m # Empty,
         NEW e, Rearranged(e, WriteFirst(d, m))
  PROVE  \E i \in 0..Len(m.nodes), j \in 0..Len(m.edges) : Portion(e, d, m, i, j)
<1> DEFINE w == WriteFirst(d, m)
<1>1. /\ m.nodes \in Seq(NodeId) /\ m.edges \in Seq(Edges)
      /\ d.nodes \in Seq(NodeId) /\ d.edges \in Seq(Edges)
  BY DEF Document
<1>2. Alike(e.nodes, w.nodes) /\ Alike(e.edges, w.edges)
  BY DEF Rearranged, Alike
<1>3. /\ SubSeq(m.nodes, 1, 0) = <<>> /\ SubSeq(m.edges, 1, 0) = <<>>
      /\ 0 \in 0..Len(m.nodes) /\ 0 \in 0..Len(m.edges)
  BY <1>1, SubSeqEmpty, LenProperties
<1>4. d.nodes \o <<>> = d.nodes /\ d.edges \o <<>> = d.edges
  BY <1>1, ConcatEmptySeq
<1>5. CASE m.nodes # <<>>
  <2> DEFINE h == Head(m.nodes)
  <2>1. w = [nodes |-> Append(d.nodes, h), edges |-> d.edges]
    BY <1>5, FirstPiece
  <2> HIDE DEF w
  <2>2. /\ 1 \in 0..Len(m.nodes) /\ SubSeq(m.nodes, 1, 1) = <<h>>
        /\ Len(d.nodes \o <<h>>) = Len(Append(d.nodes, h))
        /\ ToSet(d.nodes \o <<h>>) = ToSet(Append(d.nodes, h))
    BY <1>1, <1>5, OneElement
  <2> HIDE DEF h
  <2>3. w.nodes = Append(d.nodes, h) /\ w.edges = d.edges
    BY <2>1
  <2>4. Alike(e.nodes, d.nodes \o SubSeq(m.nodes, 1, 1))
    BY <1>2, <2>2, <2>3 DEF Alike
  <2>5. Alike(e.edges, d.edges \o SubSeq(m.edges, 1, 0))
    BY <1>2, <1>3, <1>4, <2>3
  <2>6. Portion(e, d, m, 1, 0)
    BY <2>4, <2>5 DEF Portion
  <2> QED BY <1>3, <2>2, <2>6
<1>6. CASE m.nodes = <<>>
  <2> DEFINE h == Head(m.edges)
  <2>1. m.edges # <<>> /\ w = [nodes |-> d.nodes, edges |-> Append(d.edges, h)]
    BY <1>6, FirstPiece
  <2> HIDE DEF w
  <2>2. /\ 1 \in 0..Len(m.edges) /\ SubSeq(m.edges, 1, 1) = <<h>>
        /\ Len(d.edges \o <<h>>) = Len(Append(d.edges, h))
        /\ ToSet(d.edges \o <<h>>) = ToSet(Append(d.edges, h))
    BY <1>1, <2>1, OneElement
  <2> HIDE DEF h
  <2>3. w.nodes = d.nodes /\ w.edges = Append(d.edges, h)
    BY <2>1
  <2>4. Alike(e.edges, d.edges \o SubSeq(m.edges, 1, 1))
    BY <1>2, <2>2, <2>3 DEF Alike
  <2>5. Alike(e.nodes, d.nodes \o SubSeq(m.nodes, 1, 0))
    BY <1>2, <1>3, <1>4, <2>3
  <2>6. Portion(e, d, m, 0, 1)
    <3>1. Len(m.nodes) = 0
      BY <1>6
    <3> QED BY <2>4, <2>5, <3>1 DEF Portion
  <2> QED BY <1>3, <2>2, <2>6
<1> QED BY <1>5, <1>6

\* A piece is a step of the reference walk.
LEMMA PieceStep ==
  ASSUME doc \in Document, walk.at \in NodeId, walk.stage = "route", Grows(walk.at),
         Missing(doc, walk.at) # Empty,
         Rearranged(doc', WriteFirst(doc, Missing(doc, walk.at))), UNCHANGED walk
  PROVE  Reference!ReferenceNext
<1> DEFINE m == Missing(doc, walk.at)
<1>1. m \in Document
  BY MissingType
<1>2. \E i \in 0..Len(m.nodes), j \in 0..Len(m.edges) : Portion(doc', doc, m, i, j)
  BY <1>1, FirstPortion
<1>3. \A s, t : Alike(s, t) <=> Reference!Same(s, t)
  BY SameGraph DEF Alike, Reference!Same
<1>4. Reference!Modify
  BY <1>2, <1>3, SameGraph, SameWalk DEF Reference!Modify, Portion
<1> QED BY <1>4 DEF Reference!ReferenceNext

\* Of the node that is walked, what is missing is what is still to be written; of
\* any other, all is there or nothing.
Underway ==
  /\ pending = IF Grows(walk.at) THEN Missing(doc, walk.at) ELSE Empty
  /\ \A n \in Growers(doc) \ {walk.at} : Settled(doc, n)

AtRest == \A n \in Growers(doc) : Settled(doc, n)

Walks == Reference!ReferenceNext \/ UNCHANGED <<doc, walk>>

\* A walk looks for the first node of what it would add.
LEMMA FirstTells ==
  ASSUME NEW d \in Document, GrowsByParts(d), NEW n \in Growers(d), Settled(d, n)
  PROVE  Missing(d, n) = IF Has(d, Head(Growth[n].nodes)) THEN Empty ELSE Growth[n]
<1>1. n \in NodeId /\ Grows(n) /\ Growth[n].nodes \in Seq(NodeId)
  BY GrowersGrow DEF Document
<1>2. Head(Growth[n].nodes) \in ToSet(Growth[n].nodes)
  <2>1. Growth[n].nodes # <<>>
    BY DEF GrowsByParts
  <2> QED BY <1>1, <2>1, FirstAndRest
<1>3. CASE Apart(d, Growth[n])
  BY <1>1, <1>2, <1>3, MissesAll DEF Apart, Has
<1>4. CASE Whole(d, n)
  <2>1. ToSet(Growth[n].nodes) \subseteq ToSet(d.nodes)
    BY <1>1, <1>4, WholeHasAll
  <2> QED BY <1>2, <1>4, <2>1 DEF Whole, Has
<1> QED BY <1>3, <1>4 DEF Settled

LEMMA BeginsToWrite ==
  ASSUME GraphPart, AtRest, Has(doc, walk.at), walk'.at = walk.at, doc' = doc,
         pending' = IF Grows(walk.at) /\ ~Has(doc, Head(Growth[walk.at].nodes))
                    THEN Growth[walk.at] ELSE Empty
  PROVE  Underway'
<1>1. Grows(walk.at) => walk.at \in Growers(doc)
  BY DEF Has, Growers
<1>2. Grows(walk.at) => pending' = Missing(doc, walk.at)
  BY <1>1, FirstTells DEF GraphPart, AtRest
<1>3. \A n \in Growers(doc) \ {walk.at} : Settled(doc, n)
  BY DEF AtRest
<1> QED BY <1>2, <1>3 DEF Underway

\* A piece of the modification is written, and the rest is still to be written.
LEMMA WritesPiece ==
  ASSUME GraphPart, WalkPart, walk.stage = "route", Grows(walk.at),
         Missing(doc, walk.at) # Empty,
         Rearranged(doc', WriteFirst(doc, Missing(doc, walk.at))), UNCHANGED walk
  PROVE  /\ Reference!ReferenceNext /\ GraphPart' /\ WalkPart'
         /\ walk.at \in Growers(doc) /\ Extended(doc', doc, walk.at)
         /\ Growers(doc') = Growers(doc)
         /\ Missing(doc', walk.at) = Rest(Missing(doc, walk.at))
<1>1. walk.at \in Growers(doc) /\ walk.at \in NodeId
  BY DEF WalkPart, WalkState, Has, Growers
<1>2. Reference!ReferenceNext
  BY <1>1, PieceStep DEF GraphPart
<1>3. Extended(doc', doc, walk.at) /\ Missing(doc', walk.at) = Rest(Missing(doc, walk.at))
  BY <1>1, MissingRest DEF GraphPart
<1>4. Growers(doc') = Growers(doc) /\ GrowsByParts(doc') /\ ControlFlow(doc')
  BY <1>1, <1>3, ExtendedGraph DEF GraphPart
<1>5. GraphPart'
  BY <1>3, <1>4 DEF GraphPart, Extended
<1>6. WalkPart'
  BY <1>3 DEF WalkPart, Extended, Has
<1> QED BY <1>1, <1>2, <1>3, <1>4, <1>5, <1>6

LEMMA WritesOn ==
  ASSUME GraphPart, WalkPart, Underway, walk.stage = "route", pending # Empty,
         Rearranged(doc', WriteFirst(doc, pending)), pending' = Rest(pending), UNCHANGED walk
  PROVE  Reference!ReferenceNext /\ GraphPart' /\ WalkPart' /\ Underway'
<1>1. Grows(walk.at) /\ pending = Missing(doc, walk.at)
  BY DEF Underway
<1>2. /\ Reference!ReferenceNext /\ GraphPart' /\ WalkPart'
      /\ walk.at \in Growers(doc) /\ Extended(doc', doc, walk.at)
      /\ Growers(doc') = Growers(doc)
      /\ Missing(doc', walk.at) = Rest(Missing(doc, walk.at))
  BY <1>1, WritesPiece
<1>3. ASSUME NEW n \in Growers(doc) \ {walk.at} PROVE Settled(doc', n)
  <2>1. Settled(doc, n)
    BY DEF Underway
  <2> QED BY <1>2, <2>1, ExtendedOthers DEF Settled, GraphPart
<1>4. Underway'
  <2>1. pending' = Missing(doc', walk.at)
    BY <1>1, <1>2
  <2> QED BY <1>1, <1>2, <1>3, <2>1 DEF Underway
<1> QED BY <1>2, <1>4

LEMMA TakesWay ==
  ASSUME GraphPart, WalkPart, Underway, walk.stage = "route", pending = Empty,
         walk' = SelectByTarget(doc, walk), UNCHANGED doc
  PROVE  /\ Reference!ReferenceNext /\ GraphPart' /\ WalkPart' /\ AtRest'
         /\ walk'.executed = walk.executed /\ walk'.stage \in {"execute", "done"}
<1>1. Grows(walk.at) => Whole(doc, walk.at)
  BY DEF Underway, Whole
<1>2. /\ Reference!ReferenceNext
      /\ \/ walk' = Over(walk, "done")
         \/ \E n \in NodeId : walk' = MovedTo(walk, n)
  BY <1>1, RouteStep DEF GraphPart, WalkPart, ControlFlow
<1>3. /\ walk' \in WalkState /\ walk'.executed = walk.executed
      /\ walk'.stage \in {"execute", "done"}
  BY <1>2, WalkMoves DEF WalkPart
<1>4. AtRest'
  BY <1>1 DEF AtRest, Underway, Settled, Growers
<1> QED BY <1>2, <1>3, <1>4 DEF GraphPart, WalkPart

\* The walk executes its node, or ends.
LEMMA WalkExecutes ==
  ASSUME doc \in Document, WalkPart, walk.stage = "execute", ~LimitReached(walk),
         Has(doc, walk.at), walk' = Executed(walk), UNCHANGED doc
  PROVE  /\ Reference!ReferenceNext /\ WalkPart' /\ walk'.at = walk.at
         /\ walk'.stage = "route" /\ walk'.executed = Append(walk.executed, walk.at)
<1>1. /\ walk' \in WalkState /\ walk'.at = walk.at /\ walk'.stage = "route"
      /\ walk'.executed = Append(walk.executed, walk.at)
  BY WalkMoves DEF WalkPart
<1>2. Reference!ReferenceNext
  BY ExecuteStep
<1> QED BY <1>1, <1>2 DEF WalkPart, Has

LEMMA WalkIsOver ==
  ASSUME WalkPart, NEW outcome \in {"done", "failed"},
         \/ outcome = "failed" /\ walk.stage \in {"execute", "route"}
         \/ walk.stage = "execute" /\ (LimitReached(walk) \/ ~Has(doc, walk.at)),
         walk' = Over(walk, outcome), UNCHANGED doc
  PROVE  /\ Reference!ReferenceNext /\ WalkPart'
         /\ walk'.stage = outcome /\ walk'.executed = walk.executed
<1>1. /\ walk' \in WalkState /\ walk'.stage = outcome /\ walk'.executed = walk.executed
  BY WalkMoves DEF WalkPart
<1>2. Reference!ReferenceNext
  BY FailStep, StopStep
<1> QED BY <1>1, <1>2 DEF WalkPart

\* A walk starts on a document of its embodiment.
LEMMA WalkStarts ==
  ASSUME NEW embodiments, NEW inMemory, WalkInit(embodiments, inMemory),
         Entry[doc] \in NodeId
  PROVE  /\ embodiment \in embodiments /\ doc \in Documents[embodiment]
         /\ files = (IF embodiment \in inMemory THEN <<>> ELSE <<doc>>)
         /\ pc = "visit" /\ pending = Empty /\ WalkPart /\ walk.stage = "execute" /\ Reported
         /\ walk.at = Entry[doc]
BY DEF WalkInit, Start, WalkPart, WalkState, Results, Reported

-----------------------------------------------------------------------------
(* STUDY-204.                                                              *)

StorageInv ==
  /\ embodiment \in StorageEmbodiment
  /\ GraphPart /\ WalkPart
  /\ \/ pc = "visit" /\ walk.stage = "execute" /\ Reported /\ AtRest
     \/ pc = "modify" /\ walk.stage = "route" /\ Unreported /\ Underway
     \/ pc = "ended" /\ walk.stage = "done" /\ Reported
     \/ pc = "raised"
  /\ pc # "raised" => files \in {<<>>, <<doc>>}

\* The first of what is missing is new to every store.
LEMMA StoresAgree ==
  ASSUME NEW d \in Document, NEW n \in NodeId, Grows(n), Missing(d, n) # Empty
  PROVE  LET m == Missing(d, n)
         IN  /\ Rearranged(WriteFirst(d, m), WriteFirst(d, m))
             /\ InFile(d, m) = WriteFirst(d, m) /\ InTables(d, m) = WriteFirst(d, m)
             /\ InMemory(d, m) = WriteFirst(d, m)
<1> DEFINE m == Missing(d, n)
           h == Head(m.nodes)
<1>1. /\ m \in Document /\ m # Empty /\ m.nodes \in Seq(NodeId)
      /\ ToSet(m.nodes) = ToSet(Growth[n].nodes) \ ToSet(d.nodes)
      /\ d.nodes \in Seq(NodeId) /\ d = [nodes |-> d.nodes, edges |-> d.edges]
  BY MissingType DEF Document
<1> HIDE DEF m
<1>2. m.nodes # <<>> => h \in ToSet(m.nodes)
  BY <1>1, FirstAndRest
<1> HIDE DEF h
<1>3. m.nodes # <<>> => h \notin ToSet(d.nodes)
  BY <1>1, <1>2
<1>4. Rearranged(WriteFirst(d, m), WriteFirst(d, m))
  BY <1>1, FirstPiece DEF Rearranged
<1>5. InTables(d, m) = WriteFirst(d, m)
  BY <1>3 DEF InTables, Has, h
<1>6. InFile(d, m) = WriteFirst(d, m)
  <2>1. CASE m.nodes # <<>>
    <3>1. Kept(d.nodes, ToSet(d.nodes) \ {h}) = d.nodes
      <4>1. ToSet(d.nodes) \subseteq ToSet(d.nodes) \ {h}
        BY <1>3, <2>1
      <4> QED BY <1>1, <4>1, KeptAll
    <3>2. [d EXCEPT !.nodes = Kept(@, ToSet(@) \ {h})] = d
      BY <1>1, <3>1
    <3> QED BY <2>1, <3>2 DEF InFile, h
  <2> QED BY <2>1 DEF InFile
<1>7. InMemory(d, m) = WriteFirst(d, m)
  BY <1>1, <1>3 DEF InMemory, WriteFirst, Has, h
<1> QED BY <1>4, <1>5, <1>6, <1>7 DEF m

LEMMA StorageBegins == StorageInit => StorageInv
<1> SUFFICES ASSUME StorageInit PROVE StorageInv
  OBVIOUS
<1>1. embodiment \in StorageEmbodiment /\ doc \in Documents[embodiment]
  BY DEF StorageInit, WalkInit
<1>2. GraphPart /\ Entry[doc] \in NodeId /\ AtRest
  BY <1>1, StorageDocumentsAssumption DEF GraphPart, AtRest
<1>3. /\ files \in {<<>>, <<doc>>} /\ pc = "visit" /\ WalkPart
      /\ walk.stage = "execute" /\ Reported
  BY <1>2, WalkStarts DEF StorageInit
<1> QED BY <1>1, <1>2, <1>3 DEF StorageInv

LEMMA StorageMoves ==
  ASSUME StorageInv, [StorageNext]_walkVars
  PROVE  StorageInv' /\ Walks
<1>1. embodiment \in StorageEmbodiment /\ GraphPart /\ WalkPart /\ doc \in Document
  BY DEF StorageInv, GraphPart
<1>2. CASE StorageVisit
  <2>1. pc = "visit" /\ walk.stage = "execute" /\ Reported /\ AtRest
    BY <1>2 DEF StorageInv, StorageVisit
  <2>2. /\ Reference!ReferenceNext /\ WalkPart' /\ walk'.at = walk.at
        /\ walk'.stage = "route" /\ walk'.executed = Append(walk.executed, walk.at)
    BY <1>1, <1>2, <2>1, WalkExecutes DEF StorageVisit
  <2>3. Underway'
    BY <1>1, <1>2, <2>1, <2>2, BeginsToWrite DEF StorageVisit
  <2>4. GraphPart' /\ Unreported'
    BY <1>1, <1>2, <2>1, <2>2 DEF StorageVisit, GraphPart, Reported, Unreported
  <2> QED BY <1>1, <1>2, <2>1, <2>2, <2>3, <2>4 DEF StorageInv, StorageVisit, Walks
<1>3. CASE StorageStops
  <2>1. pc = "visit" /\ walk.stage = "execute" /\ Reported
    BY <1>3 DEF StorageInv, StorageStops
  <2>2. /\ Reference!ReferenceNext /\ WalkPart'
        /\ walk'.stage = "done" /\ walk'.executed = walk.executed
    BY <1>1, <1>3, <2>1, WalkIsOver DEF StorageStops
  <2> QED BY <1>1, <1>3, <2>1, <2>2 DEF StorageInv, StorageStops, Walks, GraphPart, Reported
<1>4. CASE StorageWrite
  <2>1. pc = "modify" /\ walk.stage = "route" /\ Unreported /\ Underway
    BY <1>4 DEF StorageInv, StorageWrite
  <2>2. /\ Grows(walk.at) /\ pending = Missing(doc, walk.at) /\ pending # Empty
        /\ walk.at \in NodeId
    BY <1>1, <1>4, <2>1 DEF Underway, StorageWrite, WalkPart, WalkState
  <2>3. doc' = WriteFirst(doc, pending) /\ Rearranged(doc', WriteFirst(doc, pending))
    BY <1>1, <1>4, <2>2, StoresAgree DEF StorageWrite, Mediate
  <2>4. Reference!ReferenceNext /\ GraphPart' /\ WalkPart' /\ Underway'
    BY <1>1, <1>4, <2>1, <2>2, <2>3, WritesOn DEF StorageWrite
  <2>5. files' \in {<<>>, <<doc'>>}
    BY <1>4 DEF StorageWrite
  <2> QED BY <1>1, <1>4, <2>1, <2>4, <2>5 DEF StorageInv, StorageWrite, Walks, Unreported
<1>5. CASE StorageRoute
  <2>1. pc = "modify" /\ walk.stage = "route" /\ Unreported /\ Underway
    BY <1>5 DEF StorageInv, StorageRoute
  <2>2. /\ Reference!ReferenceNext /\ GraphPart' /\ WalkPart' /\ AtRest'
        /\ walk'.executed = walk.executed /\ walk'.stage \in {"execute", "done"}
    BY <1>1, <1>5, <2>1, TakesWay DEF StorageRoute
  <2>3. Reported'
    BY <1>5, <2>1, <2>2 DEF StorageRoute, Reported, Unreported
  <2> QED BY <1>1, <1>5, <2>1, <2>2, <2>3 DEF StorageInv, StorageRoute, Walks
<1>6. CASE StorageKilled
  <2>1. pc = "modify" /\ walk.stage = "route"
    BY <1>6 DEF StorageInv, StorageKilled
  <2>2. Reference!ReferenceNext /\ WalkPart'
    BY <1>1, <1>6, <2>1, WalkIsOver DEF StorageKilled
  <2> QED BY <1>1, <1>6, <2>2 DEF StorageInv, StorageKilled, Walks, GraphPart
<1>7. CASE UNCHANGED walkVars
  BY <1>7 DEF StorageInv, walkVars, GraphPart, WalkPart, AtRest, Underway, Reported,
    Unreported, Walks, Has
<1> QED BY <1>2, <1>3, <1>4, <1>5, <1>6, <1>7 DEF StorageNext, StorageStep

\* Between two steps of a walk over a store of STUDY-204, what every growing node
\* adds is there as a whole or not at all, and in a step exactly that is still to
\* be written which the store lacks.
THEOREM StorageInvariant == StorageSpec => []StorageInv
<1>1. StorageInit => StorageInv
  BY StorageBegins
<1>2. StorageInv /\ [StorageNext]_walkVars => StorageInv'
  BY StorageMoves
<1> QED BY <1>1, <1>2, PTL DEF StorageSpec

\* STUDY-204 implements the reference walk on each of its stores, behind the
\* mediator or not: write_node and add_edge bring a growing node's modification
\* piece by piece, nothing of it twice, and an edge is taken only when all of it
\* is there.
THEOREM StorageWalks == StorageSpec => WalksAsTheGraphSays
<1>1. ASSUME StorageInv, [StorageNext]_walkVars
      PROVE  [Reference!ReferenceNext]_<<doc, walk>>
  BY <1>1, StorageMoves DEF Walks
<1> QED BY <1>1, StorageInvariant, PTL DEF StorageSpec, WalksAsTheGraphSays

\* A walk of STUDY-204 that returns reports the nodes that were executed, in
\* order, and a FileStore's file holds the graph that it walked (run).
THEOREM StorageReports == StorageSpec => []ReportsAndKeepsTheWalk
<1>1. StorageInv => ReportsAndKeepsTheWalk
  <2> SUFFICES ASSUME StorageInv, pc = "ended" PROVE ReportsAndKeepsTheWalk
    BY DEF ReportsAndKeepsTheWalk
  <2>1. files \in {<<>>, <<doc>>} /\ walk.stage = "done" /\ Reported
    BY DEF StorageInv
  <2>2. files # <<>> => Last(files) = doc
    BY <2>1 DEF Last
  <2> QED BY <2>1, <2>2 DEF ReportsAndKeepsTheWalk, Reported
<1> QED BY <1>1, StorageInvariant, PTL

-----------------------------------------------------------------------------
(* STUDY-205.                                                              *)

RenderInv ==
  /\ embodiment \in RenderEmbodiment
  /\ GraphPart /\ WalkPart
  /\ \/ pc = "visit" /\ walk.stage = "execute" /\ Reported /\ AtRest
     \/ pc = "modify" /\ walk.stage = "route" /\ Reported /\ Underway
     \/ pc = "ended" /\ walk.stage = "done" /\ Reported
     \/ pc = "raised"
  /\ files \in Seq(Document \cup {Torn}) /\ files # <<>>
  /\ pc # "raised" => Last(files) = doc

\* A new file comes after those before; another replaces the last.
LEMMA FilesEnd ==
  ASSUME files \in Seq(Document \cup {Torn}), files # <<>>,
         NEW content \in Document \cup {Torn}
  PROVE  /\ FilesWith(content) \in Seq(Document \cup {Torn}) /\ FilesWith(content) # <<>>
         /\ Last(FilesWith(content)) = content
         /\ embodiment = "rerender_new_file" => IsPrefix(files, FilesWith(content))
<1> DEFINE X == Document \cup {Torn}
           g == FilesWith(content)
<1>1. files \in Seq(X) /\ content \in X /\ Len(files) \in Nat /\ Len(files) # 0
  BY EmptySeq, LenProperties
<1> HIDE DEF X
<1>2. CASE NextStrategy = "rerender_new_file"
  <2>1. g = Append(files, content)
    BY <1>2 DEF FilesWith
  <2> HIDE DEF g
  <2>2. g \in Seq(X) /\ Len(g) = Len(files) + 1 /\ g[Len(files) + 1] = content
    BY <1>1, <2>1, AppendProperties
  <2>3. g # <<>> /\ Last(g) = content
    BY <1>1, <2>2, EmptySeq DEF Last
  <2>4. IsPrefix(files, g)
    <3>1. <<content>> \in Seq(X) /\ g = files \o <<content>>
      BY <1>1, <2>1, AppendIsConcat
    <3> QED BY <1>1, <3>1, PrefixOfConcat
  <2> QED BY <2>2, <2>3, <2>4 DEF X, g
<1>3. CASE NextStrategy # "rerender_new_file"
  <2>1. g = [files EXCEPT ![Len(files)] = content] /\ embodiment # "rerender_new_file"
    BY <1>3 DEF FilesWith, NextStrategy
  <2>2. Len(files) \in 1..Len(files)
    BY <1>1
  <2> HIDE DEF g
  <2>3. g \in Seq(X) /\ Len(g) = Len(files) /\ g[Len(files)] = content
    BY <1>1, <2>1, <2>2, ExceptSeq
  <2>4. g # <<>> /\ Last(g) = content
    BY <1>1, <2>3, EmptySeq DEF Last
  <2> QED BY <2>1, <2>3, <2>4 DEF X, g
<1> QED BY <1>2, <1>3

\* Rendering orders the lists.
LEMMA RendersTheGraph ==
  ASSUME NEW d \in Document
  PROVE  Rearranged(Rerender(d), d) /\ Rearranged(d, d)
<1> DEFINE InIds == {p \in ToSet(d.nodes) \X ToSet(d.nodes) : IdOrder[p[1]] < IdOrder[p[2]]}
           InEnds == {p \in ToSet(d.edges) \X ToSet(d.edges) :
             LET e == p[1]
                 f == p[2]
             IN  \/ IdOrder[e.source_id] < IdOrder[f.source_id]
                 \/ e.source_id = f.source_id /\ IdOrder[e.target_id] < IdOrder[f.target_id]}
<1>1. d.nodes \in Seq(NodeId) /\ d.edges \in Seq(Edges)
  BY DEF Document
<1>2. Rerender(d) = [nodes |-> Sorted(d.nodes, InIds), edges |-> Sorted(d.edges, InEnds)]
  BY DEF Rerender
<1> HIDE DEF InIds, InEnds
<1>3. /\ Sorted(d.nodes, InIds) \in Seq(NodeId)
      /\ Len(Sorted(d.nodes, InIds)) = Len(d.nodes)
      /\ ToSet(Sorted(d.nodes, InIds)) = ToSet(d.nodes)
  BY <1>1, SortedElements
<1>4. /\ Sorted(d.edges, InEnds) \in Seq(Edges)
      /\ Len(Sorted(d.edges, InEnds)) = Len(d.edges)
      /\ ToSet(Sorted(d.edges, InEnds)) = ToSet(d.edges)
  BY <1>1, SortedElements
<1> QED BY <1>2, <1>3, <1>4 DEF Rearranged, Document

LEMMA RenderBegins == RenderInit => RenderInv
<1> SUFFICES ASSUME RenderInit PROVE RenderInv
  OBVIOUS
<1>1. embodiment \in RenderEmbodiment /\ doc \in Documents[embodiment]
  BY DEF RenderInit, WalkInit
<1>2. GraphPart /\ Entry[doc] \in NodeId /\ AtRest
  BY <1>1, RenderDocumentsAssumption DEF GraphPart, AtRest
<1>3. /\ files = <<doc>> /\ pc = "visit" /\ WalkPart
      /\ walk.stage = "execute" /\ Reported
  BY <1>2, WalkStarts DEF RenderInit
<1>4. files \in Seq(Document \cup {Torn}) /\ files # <<>> /\ Last(files) = doc
  BY <1>2, <1>3 DEF GraphPart, Last
<1> QED BY <1>1, <1>2, <1>3, <1>4 DEF RenderInv

LEMMA RenderMoves ==
  ASSUME RenderInv, [RenderNext]_<<walkVars, materialized>>
  PROVE  /\ RenderInv' /\ Walks
         /\ files' = files \/ (embodiment = "rerender_new_file" => IsPrefix(files, files'))
<1>1. /\ embodiment \in RenderEmbodiment /\ GraphPart /\ WalkPart /\ doc \in Document
      /\ files \in Seq(Document \cup {Torn}) /\ files # <<>>
  BY DEF RenderInv, GraphPart
<1>2. CASE RenderVisit
  <2>1. pc = "visit" /\ walk.stage = "execute" /\ Reported /\ AtRest
    BY <1>2 DEF RenderInv, RenderVisit
  <2>2. /\ Reference!ReferenceNext /\ WalkPart' /\ walk'.at = walk.at
        /\ walk'.stage = "route" /\ walk'.executed = Append(walk.executed, walk.at)
    BY <1>1, <1>2, <2>1, WalkExecutes DEF RenderVisit
  <2>3. Underway'
    BY <1>1, <1>2, <2>1, <2>2, BeginsToWrite DEF RenderVisit
  <2>4. GraphPart' /\ Reported'
    BY <1>1, <1>2, <2>1, <2>2 DEF RenderVisit, GraphPart, Reported
  <2> QED BY <1>1, <1>2, <2>1, <2>2, <2>3, <2>4 DEF RenderInv, RenderVisit, Walks
<1>3. CASE RenderStops
  <2>1. pc = "visit" /\ walk.stage = "execute" /\ Reported
    BY <1>3 DEF RenderInv, RenderStops
  <2>2. /\ Reference!ReferenceNext /\ WalkPart'
        /\ walk'.stage = "done" /\ walk'.executed = walk.executed
    BY <1>1, <1>3, <2>1, WalkIsOver DEF RenderStops
  <2> QED BY <1>1, <1>3, <2>1, <2>2 DEF RenderInv, RenderStops, Walks, GraphPart, Reported
<1>4. CASE RenderWrite
  <2>1. pc = "modify" /\ walk.stage = "route" /\ Reported /\ Underway
    BY <1>4 DEF RenderInv, RenderWrite
  <2>2. /\ Grows(walk.at) /\ pending = Missing(doc, walk.at) /\ pending # Empty
        /\ walk.at \in NodeId
    BY <1>1, <1>4, <2>1 DEF Underway, RenderWrite, WalkPart, WalkState
  <2>3. WriteFirst(doc, pending) \in Document
    BY <1>1, <2>2, MissingType, FirstPiece
  <2>4. Rearranged(doc', WriteFirst(doc, pending))
    BY <1>4, <2>3, RendersTheGraph DEF RenderWrite
  <2>5. Reference!ReferenceNext /\ GraphPart' /\ WalkPart' /\ Underway'
    BY <1>1, <1>4, <2>1, <2>2, <2>4, WritesOn DEF RenderWrite
  <2>6. /\ files' \in Seq(Document \cup {Torn}) /\ files' # <<>> /\ Last(files') = doc'
        /\ embodiment = "rerender_new_file" => IsPrefix(files, files')
    <3>1. doc' \in Document \cup {Torn} /\ files' = FilesWith(doc')
      BY <1>4, <2>4 DEF RenderWrite, Rearranged
    <3> QED BY <1>1, <3>1, FilesEnd
  <2> QED BY <1>1, <1>4, <2>1, <2>5, <2>6 DEF RenderInv, RenderWrite, Walks, Reported
<1>5. CASE RenderRoute
  <2>1. pc = "modify" /\ walk.stage = "route" /\ Reported /\ Underway
    BY <1>5 DEF RenderInv, RenderRoute
  <2>2. /\ Reference!ReferenceNext /\ GraphPart' /\ WalkPart' /\ AtRest'
        /\ walk'.executed = walk.executed /\ walk'.stage \in {"execute", "done"}
    BY <1>1, <1>5, <2>1, TakesWay DEF RenderRoute
  <2>3. Reported'
    BY <1>5, <2>1, <2>2 DEF RenderRoute, Reported
  <2> QED BY <1>1, <1>5, <2>1, <2>2, <2>3 DEF RenderInv, RenderRoute, Walks
<1>6. CASE RenderKilled
  <2>1. pc = "modify" /\ walk.stage = "route"
    BY <1>6 DEF RenderInv, RenderKilled
  <2>2. Reference!ReferenceNext /\ WalkPart'
    BY <1>1, <1>6, <2>1, WalkIsOver DEF RenderKilled
  <2>3. /\ files' \in Seq(Document \cup {Torn}) /\ files' # <<>>
        /\ files' = files \/ (embodiment = "rerender_new_file" => IsPrefix(files, files'))
    <3>1. files' = files \/ files' = FilesWith(Torn)
      BY <1>6 DEF RenderKilled
    <3> QED BY <1>1, <3>1, FilesEnd
  <2> QED BY <1>1, <1>6, <2>2, <2>3 DEF RenderInv, RenderKilled, Walks, GraphPart
<1>7. CASE UNCHANGED <<walkVars, materialized>>
  BY <1>7 DEF RenderInv, walkVars, GraphPart, WalkPart, AtRest, Underway, Reported,
    Walks, Has
<1> QED BY <1>2, <1>3, <1>4, <1>5, <1>6, <1>7 DEF RenderNext, RenderStep

\* Between two steps of a walk of STUDY-205, what every growing node adds is in
\* the graph as a whole or not at all, and the last file holds the graph; in a
\* step, exactly that is still to be written which the graph lacks.
THEOREM RenderInvariant == RenderSpec => []RenderInv
<1>1. RenderInit => RenderInv
  BY RenderBegins
<1>2. RenderInv /\ [RenderNext]_<<walkVars, materialized>> => RenderInv'
  BY RenderMoves
<1> QED BY <1>1, <1>2, PTL DEF RenderSpec

\* STUDY-205 implements the reference walk, whether a modification is edited into
\* the file or the file is rendered anew after each node and each edge: sorting
\* the lists neither loses, doubles nor adds anything (serialize_rerender).
THEOREM RenderWalks == RenderSpec => WalksAsTheGraphSays
<1>1. ASSUME RenderInv, [RenderNext]_<<walkVars, materialized>>
      PROVE  [Reference!ReferenceNext]_<<doc, walk>>
  BY <1>1, RenderMoves DEF Walks
<1> QED BY <1>1, RenderInvariant, PTL DEF RenderSpec, WalksAsTheGraphSays

\* A walk of STUDY-205 that returns reports the nodes that were executed, in
\* order, and the active file holds the graph that it walked (run).
THEOREM RenderReports == RenderSpec => []ReportsAndKeepsTheWalk
<1>1. RenderInv => ReportsAndKeepsTheWalk
  BY DEF RenderInv, ReportsAndKeepsTheWalk, Reported
<1> QED BY <1>1, RenderInvariant, PTL

\* Where STUDY-205 renders into a new file, also one whose writing is cut short,
\* every earlier file stays as it was, and in its place (_materialize).
THEOREM RenderFileSurvives == RenderSpec => EarlierFileSurvives
<1> DEFINE Survives ==
      /\ embodiment \in {"single_process", "three_processes", "external_dispatch",
                         "relational"}
           => \A i \in DOMAIN files :
                files'[i] # files[i]
                  => files'[i] # Torn /\ Whole(files'[i], walk.at)
      /\ embodiment = "rerender_new_file" => IsPrefix(files, files')
<1>1. ASSUME RenderInv, [RenderNext]_<<walkVars, materialized>>
      PROVE  [Survives]_files
  <2>1. files' = files \/ (embodiment = "rerender_new_file" => IsPrefix(files, files'))
    BY <1>1, RenderMoves
  <2>2. embodiment \notin {"single_process", "three_processes", "external_dispatch",
                           "relational"}
    BY <1>1 DEF RenderInv, RenderEmbodiment
  <2> QED BY <2>1, <2>2
<1> QED BY <1>1, RenderInvariant, PTL DEF RenderSpec, EarlierFileSurvives

-----------------------------------------------------------------------------
(* The walks that take the first matching edge.                            *)

LEMMA Matching ==
  ASSUME NEW edges \in Seq(Edges), NEW result
  PROVE  /\ FirstMatch(edges, result) \in Seq(Edges)
         /\ ToSet(FirstMatch(edges, result)) =
              {e \in ToSet(edges) : e.condition \in {"none", result}}
<1> DEFINE s == Kept(edges, {e \in ToSet(edges) : e.condition = result})
           t == Kept(edges, {e \in ToSet(edges) : e.condition = "none"})
<1>1. /\ s \in Seq(Edges) /\ t \in Seq(Edges)
      /\ ToSet(s) = ToSet(edges) \cap {e \in ToSet(edges) : e.condition = result}
      /\ ToSet(t) = ToSet(edges) \cap {e \in ToSet(edges) : e.condition = "none"}
  BY KeptElements
<1>2. FirstMatch(edges, result) = s \o t
  BY DEF FirstMatch
<1> HIDE DEF s, t
<1>3. s \o t \in Seq(Edges) /\ ToSet(s \o t) = ToSet(s) \cup ToSet(t)
  BY <1>1, ElementsOfConcat
<1> QED BY <1>1, <1>2, <1>3

OutgoingEdges(d, n) == {e \in ToSet(d.edges) : e.source_id = n}

LEMMA OutgoingOf ==
  ASSUME NEW d \in Document, NEW n
  PROVE  /\ Outgoing(d, n) \in Seq(Edges) /\ ToSet(Outgoing(d, n)) = OutgoingEdges(d, n)
         /\ d.edges \in Seq(Edges)
<1>1. d.edges \in Seq(Edges)
  BY DEF Document
<1> QED BY <1>1, KeptElements DEF Outgoing, OutgoingEdges

\* The edges that the reference walk may take.
Open(d, n, result) ==
  {e \in OutgoingEdges(d, n) : e.condition \in {"none", result} /\ e.relation # "SUPERSEDES"}

LEMMA TakesEdge ==
  ASSUME doc \in Document, walk \in WalkState, walk.stage = "route", Mended,
         ~Terminal(walk.at), NEW e \in Open(doc, walk.at, walk.result),
         walk' = MovedTo(walk, e.target_id), UNCHANGED doc
  PROVE  Reference!ReferenceNext
<1>1. e \in Reference!Ways
  BY EligibleEdges, SameGraph DEF Reference!Ways, Open, OutgoingEdges
<1>2. Reference!Route
  BY <1>1, SameGraph, SameWalk DEF Reference!Route, Mended
<1> QED BY <1>2 DEF Reference!ReferenceNext

LEMMA TakesNoEdge ==
  ASSUME doc \in Document, walk \in WalkState, walk.stage = "route", Mended,
         Terminal(walk.at) \/ Open(doc, walk.at, walk.result) = {},
         walk' = Over(walk, "done"), UNCHANGED doc
  PROVE  Reference!ReferenceNext
<1>1. Reference!Ways = Open(doc, walk.at, walk.result)
  BY EligibleEdges, SameGraph DEF Reference!Ways, Open, OutgoingEdges
<1>2. Reference!Route
  BY <1>1, SameGraph, SameWalk DEF Reference!Route, Mended
<1> QED BY <1>2 DEF Reference!ReferenceNext

LEMMA GrowerGoesOn ==
  ASSUME NEW n, Grows(n)
  PROVE  ~Terminal(n)
BY DEF Grows, Growing, Terminal

-----------------------------------------------------------------------------
(* STUDY-206: what the agent has seen when it calls, and when its call has *)
(* been answered.                                                          *)

OneGrower == \A m, n \in Growers(doc) : m = n

\* Before the agent has modified its graph, and after.
GrowsOnce ==
  \A n \in Growers(doc) :
    IF selfModified THEN Whole(doc, n)
    ELSE Apart(doc, Growth[n]) \/ (embodiment = "sqlite_service" /\ Whole(doc, n))

Writing ==
  /\ pc = "modify" /\ walk.stage = "route" /\ Reported
  /\ Grows(walk.at) /\ pending # Empty /\ ~selfModified

Asking ==
  \/ pc = "visit" /\ walk.stage = "execute" /\ Reported /\ GrowsOnce
  \/ Writing /\ (pending = Missing(doc, walk.at) \/ RowExists)
  \/ /\ pc = "route" /\ walk.stage = "route" /\ Reported
     /\ Mended /\ GrowsOnce /\ ~Terminal(walk.at)
  \/ /\ pc = "snapshot" /\ walk.stage = "route" /\ Reported
     /\ Mended /\ (Terminal(walk.at) \/ Outgoing(doc, walk.at) = <<>>)

Answered ==
  IF pc = "modify" THEN Writing /\ Rest(pending) = Missing(doc, walk.at) ELSE Asking

GraphAndWalk == GraphPart /\ WalkPart /\ OneGrower

\* Where the agent is when it has taken an answer.
Goes ==
  \/ Asking
  \/ pc = "abandon" /\ walk.stage \in {"execute", "route"}
  \/ pc = "shutdown" /\ walk.stage = "done" /\ Reported

LEMMA SeesNode ==
  ASSUME GraphAndWalk, Asking, pc = "visit", ~LimitReached(walk), SeeNode(doc),
         UNCHANGED <<doc, embodiment>>
  PROVE  GraphAndWalk' /\ Walks /\ Goes'
<1>1. walk.stage = "execute" /\ Reported /\ GrowsOnce /\ GraphPart /\ WalkPart /\ OneGrower
  BY DEF Asking, Writing, GraphAndWalk
<1>2. GraphPart' /\ OneGrower' /\ doc \in Document
  BY <1>1 DEF GraphPart, OneGrower
<1>3. CASE ~Has(doc, walk.at)
  <2>1. pc' = "abandon" /\ UNCHANGED <<walk, visited, pending>>
    BY <1>3 DEF SeeNode
  <2>2. WalkPart'
    BY <1>1, <2>1 DEF WalkPart, Has
  <2> QED BY <1>1, <1>2, <2>1, <2>2 DEF GraphAndWalk, Walks, Goes
<1>4. CASE Has(doc, walk.at)
  <2>1. /\ walk' = Executed(walk) /\ visited' = Append(visited, walk.at)
        /\ pending' = IF Grows(walk.at) /\ ~selfModified THEN Growth[walk.at] ELSE Empty
        /\ pending' # Empty => pc' = "modify" \/ Terminal(walk.at)
        /\ pending' = Empty => pc' = IF Terminal(walk.at) THEN "snapshot" ELSE "route"
        /\ pending' # Empty /\ ~Terminal(walk.at) => pc' = "modify"
        /\ selfModified' = selfModified
    BY <1>4 DEF SeeNode
  <2>2. /\ Reference!ReferenceNext /\ WalkPart' /\ walk'.at = walk.at
        /\ walk'.stage = "route" /\ walk'.executed = Append(walk.executed, walk.at)
    BY <1>1, <1>2, <1>4, <2>1, WalkExecutes
  <2>3. Reported'
    BY <1>1, <2>1, <2>2 DEF Reported
  <2>4. CASE Grows(walk.at) /\ ~selfModified
    <3>1. walk.at \in Growers(doc) /\ ~Terminal(walk.at) /\ walk.at \in NodeId
      BY <1>1, <1>4, <2>4, GrowerGoesOn DEF Growers, Has, WalkPart, WalkState
    <3>2. pending' = Growth[walk.at] /\ Growth[walk.at].nodes # <<>> /\ pending' # Empty
      BY <1>1, <2>1, <2>4, <3>1 DEF GraphPart, GrowsByParts, Empty
    <3>3. pc' = "modify" /\ Writing'
      BY <2>1, <2>2, <2>3, <2>4, <3>1, <3>2 DEF Writing
    <3>4. CASE Apart(doc, Growth[walk.at])
      <4>1. pending' = Missing(doc, walk.at)
        BY <1>2, <2>4, <3>1, <3>2, <3>4, MissesAll
      <4>2. Asking'
        BY <2>2, <3>3, <4>1 DEF Asking
      <4> QED BY <1>2, <2>2, <4>2 DEF GraphAndWalk, Walks, Goes
    <3>5. CASE embodiment = "sqlite_service" /\ Whole(doc, walk.at)
      <4>1. ToSet(Growth[walk.at].nodes) \subseteq ToSet(doc.nodes)
        BY <1>2, <2>4, <3>1, <3>5, WholeHasAll
      <4>2. Head(Growth[walk.at].nodes) \in ToSet(Growth[walk.at].nodes)
        <5>1. Growth[walk.at].nodes \in Seq(NodeId)
          BY <3>1, GrowersGrow, <1>2 DEF Document
        <5> QED BY <3>2, <5>1, FirstAndRest
      <4>3. RowExists'
        BY <3>2, <3>3, <3>5, <4>1, <4>2 DEF RowExists, Has
      <4>4. Asking'
        BY <3>3, <4>3 DEF Asking
      <4> QED BY <1>2, <2>2, <4>4 DEF GraphAndWalk, Walks, Goes
    <3> QED BY <1>1, <2>4, <3>1, <3>4, <3>5 DEF GrowsOnce
  <2>5. CASE ~(Grows(walk.at) /\ ~selfModified)
    <3>1. pending' = Empty /\ pc' = IF Terminal(walk.at) THEN "snapshot" ELSE "route"
      BY <2>1, <2>5
    <3>2. GrowsOnce'
      BY <1>1, <2>1 DEF GrowsOnce
    <3>3. Mended'
      <4>1. Grows(walk.at) => walk.at \in Growers(doc) /\ selfModified
        BY <1>4, <2>5 DEF Growers, Has
      <4> QED BY <1>1, <2>2, <4>1 DEF Mended, GrowsOnce
    <3>4. Asking'
      BY <2>2, <2>3, <3>1, <3>2, <3>3 DEF Asking
    <3> QED BY <1>2, <2>2, <3>4 DEF GraphAndWalk, Walks, Goes
  <2> QED BY <2>4, <2>5
<1> QED BY <1>3, <1>4

LEMMA SeesWritten ==
  ASSUME GraphAndWalk', Writing, Rest(pending) = Missing(doc', walk.at), SeeWritten
  PROVE  Goes'
<1>1. /\ pending' = Missing(doc', walk.at) /\ UNCHANGED <<walk, visited>>
      /\ selfModified' = (pending' = Empty)
      /\ pc' = IF pending' = Empty THEN "route" ELSE "modify"
  BY DEF SeeWritten
<1>2. walk.at \in Growers(doc') /\ ~Terminal(walk.at) /\ OneGrower'
  BY <1>1, GrowerGoesOn DEF GraphAndWalk, Writing, WalkPart, Growers, Has
<1>3. Reported' /\ walk'.stage = "route" /\ Grows(walk'.at)
  BY <1>1 DEF Writing, Reported
<1>4. CASE pending' = Empty
  <2>1. pc' = "route" /\ selfModified' /\ Whole(doc', walk.at)
    BY <1>1, <1>4 DEF Whole
  <2>2. GrowsOnce'
    BY <1>2, <2>1 DEF GrowsOnce, OneGrower
  <2>3. Asking'
    BY <1>1, <1>2, <1>3, <2>1, <2>2 DEF Asking, Mended
  <2> QED BY <2>3 DEF Goes
<1>5. CASE pending' # Empty
  <2>1. pc' = "modify" /\ ~selfModified'
    BY <1>1, <1>5
  <2>2. Writing'
    BY <1>3, <1>5, <2>1 DEF Writing
  <2>3. Asking'
    BY <1>1, <2>2 DEF Asking
  <2> QED BY <2>3 DEF Goes
<1> QED BY <1>4, <1>5

LEMMA SeesEdges ==
  ASSUME GraphAndWalk, Asking, pc = "route", SeeEdges(doc), UNCHANGED <<doc, embodiment>>
  PROVE  GraphAndWalk' /\ Walks /\ Goes'
<1> DEFINE edges == Outgoing(doc, walk.at)
           ways == FirstMatch(edges, walk.result)
<1>1. /\ walk.stage = "route" /\ Reported /\ Mended /\ GrowsOnce /\ ~Terminal(walk.at)
      /\ GraphPart /\ WalkPart /\ OneGrower
  BY DEF Asking, Writing, GraphAndWalk
<1>2. GraphPart' /\ OneGrower' /\ doc \in Document /\ walk \in WalkState
  BY <1>1 DEF GraphPart, OneGrower, WalkPart
<1>3. edges \in Seq(Edges) /\ ToSet(edges) = OutgoingEdges(doc, walk.at)
  BY <1>2, OutgoingOf
<1>4. /\ walk' = (IF ways # <<>> THEN MovedTo(walk, Head(ways).target_id) ELSE walk)
      /\ UNCHANGED <<pending, visited, selfModified>>
      /\ edges = <<>> /\ ways = <<>> => pc' = "snapshot"
      /\ edges # <<>> /\ ways # <<>> => pc' = "visit"
      /\ edges # <<>> /\ ways = <<>> => pc' = "abandon"
  BY DEF SeeEdges
<1> HIDE DEF edges
<1>5. /\ ways \in Seq(Edges)
      /\ ToSet(ways) = {e \in ToSet(edges) : e.condition \in {"none", walk.result}}
  BY <1>3, Matching
<1> HIDE DEF ways
<1>6. ToSet(ways) = {} <=> ways = <<>>
  BY <1>5, ElementsOf
<1>7. edges = <<>> => ways = <<>>
  <2>1. edges = <<>> => ToSet(edges) = {}
    BY <1>3, ElementsOf
  <2> QED BY <1>5, <1>6, <2>1
<1>8. CASE ways # <<>>
  <2> DEFINE e == Head(ways)
  <2>1. e \in ToSet(ways) /\ e \in Edges
    BY <1>5, <1>8, FirstAndRest
  <2>2. walk' = MovedTo(walk, e.target_id) /\ pc' = "visit"
    BY <1>4, <1>7, <1>8
  <2> HIDE DEF e
  <2>3. e \in Open(doc, walk.at, walk.result)
    <3>1. e \in ToSet(doc.edges)
      BY <1>3, <1>5, <2>1 DEF OutgoingEdges
    <3>2. e.relation # "SUPERSEDES"
      BY <1>1, <3>1 DEF GraphPart, ControlFlow, Flows
    <3> QED BY <1>3, <1>5, <2>1, <3>2 DEF Open
  <2>4. Reference!ReferenceNext
    BY <1>1, <1>2, <2>2, <2>3, TakesEdge
  <2>5. /\ walk' \in WalkState /\ walk'.stage = "execute"
        /\ walk'.executed = walk.executed
    BY <1>2, <2>1, <2>2, WalkMoves DEF Edges
  <2>6. Asking'
    BY <1>1, <1>4, <2>2, <2>5 DEF Asking, Reported, GrowsOnce
  <2>7. WalkPart'
    BY <2>5 DEF WalkPart
  <2> QED BY <1>2, <2>4, <2>6, <2>7 DEF GraphAndWalk, Walks, Goes
<1>9. CASE ways = <<>>
  <2>1. UNCHANGED <<walk, visited>>
    BY <1>4, <1>9
  <2>2. WalkPart'
    BY <1>1, <2>1 DEF WalkPart, Has
  <2>3. CASE edges = <<>>
    <3>1. pc' = "snapshot"
      BY <1>4, <1>9, <2>3
    <3>2. Asking'
      BY <1>1, <2>1, <2>3, <3>1 DEF Asking, Reported, Mended, edges
    <3> QED BY <1>2, <2>1, <2>2, <3>2 DEF GraphAndWalk, Walks, Goes
  <2>4. CASE edges # <<>>
    <3>1. pc' = "abandon"
      BY <1>4, <1>9, <2>4
    <3> QED BY <1>1, <1>2, <2>1, <2>2, <3>1 DEF GraphAndWalk, Walks, Goes
  <2> QED BY <2>3, <2>4
<1> QED BY <1>8, <1>9

LEMMA SeesSnapshot ==
  ASSUME GraphAndWalk, Asking, pc = "snapshot", SeeSnapshot, UNCHANGED <<doc, embodiment>>
  PROVE  GraphAndWalk' /\ Walks /\ Goes'
<1>1. /\ walk.stage = "route" /\ Reported /\ Mended
      /\ Terminal(walk.at) \/ Outgoing(doc, walk.at) = <<>>
      /\ GraphPart /\ WalkPart /\ OneGrower
  BY DEF Asking, Writing, GraphAndWalk
<1>2. GraphPart' /\ OneGrower' /\ doc \in Document /\ walk \in WalkState
  BY <1>1 DEF GraphPart, OneGrower, WalkPart
<1>3. walk' = Over(walk, "done") /\ pc' = "shutdown" /\ UNCHANGED visited
  BY DEF SeeSnapshot
<1>4. Outgoing(doc, walk.at) = <<>> => Open(doc, walk.at, walk.result) = {}
  <2>1. Outgoing(doc, walk.at) = <<>> => OutgoingEdges(doc, walk.at) = {}
    BY <1>2, OutgoingOf, ElementsOf
  <2> QED BY <2>1 DEF Open
<1>5. Reference!ReferenceNext
  BY <1>1, <1>2, <1>3, <1>4, TakesNoEdge
<1>6. walk' \in WalkState /\ walk'.stage = "done" /\ walk'.executed = walk.executed
  BY <1>2, <1>3, WalkMoves
<1> QED BY <1>1, <1>2, <1>3, <1>5, <1>6 DEF GraphAndWalk, Walks, Goes, WalkPart, Reported

LEMMA SeesAnswer ==
  ASSUME GraphAndWalk, Answered, ~LimitReached(walk), SeeAnswer(doc),
         UNCHANGED <<doc, embodiment>>
  PROVE  GraphAndWalk' /\ Walks /\ Goes'
<1>1. CASE pc = "visit" /\ SeeNode(doc)
  BY <1>1, SeesNode DEF Answered
<1>2. CASE pc = "modify" /\ SeeWritten
  <2>1. UNCHANGED walk
    BY <1>2 DEF SeeWritten
  <2>2. GraphAndWalk' /\ Walks
    BY <2>1 DEF GraphAndWalk, Walks, GraphPart, WalkPart, OneGrower, Has
  <2> QED BY <1>2, <2>2, SeesWritten DEF Answered
<1>3. CASE pc = "route" /\ SeeEdges(doc)
  BY <1>3, SeesEdges DEF Answered
<1>4. CASE pc = "snapshot" /\ SeeSnapshot
  BY <1>4, SeesSnapshot DEF Answered
<1> QED BY <1>1, <1>2, <1>3, <1>4 DEF SeeAnswer

LEMMA WritesForAgent ==
  ASSUME GraphAndWalk, walk.stage = "route", Grows(walk.at), Missing(doc, walk.at) # Empty,
         doc' = WriteFirst(doc, Missing(doc, walk.at)), UNCHANGED walk
  PROVE  /\ GraphAndWalk' /\ Reference!ReferenceNext
         /\ Missing(doc', walk.at) = Rest(Missing(doc, walk.at))
<1>1. GraphPart /\ WalkPart /\ OneGrower /\ doc \in Document /\ walk.at \in NodeId
  BY DEF GraphAndWalk, GraphPart, WalkPart, WalkState
<1>2. Rearranged(doc', WriteFirst(doc, Missing(doc, walk.at)))
  BY <1>1, StoresAgree
<1>3. /\ Reference!ReferenceNext /\ GraphPart' /\ WalkPart' /\ Growers(doc') = Growers(doc)
      /\ Missing(doc', walk.at) = Rest(Missing(doc, walk.at))
  BY <1>1, <1>2, WritesPiece
<1>4. OneGrower'
  BY <1>1, <1>3 DEF OneGrower
<1> QED BY <1>3, <1>4 DEF GraphAndWalk

-----------------------------------------------------------------------------
(* STUDY-206: what is under way between the agent and the service.         *)

Finished ==
  \/ pc = "ended" /\ walk.stage = "done" /\ Reported
  \/ pc = "raised"

InProcessInv ==
  /\ requests = <<>> /\ responses = <<>> /\ ~waiting /\ ~service
  /\ Goes \/ Finished
  /\ pc # "raised" => files = IF embodiment = "direct_write" THEN <<doc>> ELSE <<>>

\* A request of an agent that has given up.
Late(r) ==
  r.op = "write" =>
    /\ walk.stage = "route" /\ Grows(walk.at)
    /\ r.what = Missing(doc, walk.at) /\ r.what # Empty

Abandoned ==
  /\ pc \in {"abandon", "join_abandoned"} /\ walk.stage \in {"execute", "route"}
  /\ \/ requests = <<>>
     \/ requests = <<Shutdown>> /\ pc = "join_abandoned"
     \/ LET r == Head(requests)
        IN  Late(r) /\ requests = IF pc = "abandon" THEN <<r>> ELSE <<r, Shutdown>>

Awaits ==
  /\ ~LimitReached(walk)
  /\ \/ Asking /\ requests = <<Request>> /\ responses = <<>>
     \/ Answered /\ requests = <<>> /\ responses = <<doc>>
     \/ /\ pc \in {"visit", "modify", "route", "snapshot"}
        /\ walk.stage \in {"execute", "route"} /\ requests = <<>> /\ responses = <<>>

ServiceInv ==
  /\ files = <<>>
  /\ IF waiting THEN Awaits
     ELSE \/ Asking /\ requests = <<>> /\ responses = <<>>
          \/ Abandoned
          \/ /\ pc \in {"shutdown", "join"} /\ walk.stage = "done" /\ Reported
             /\ requests = <<>> \/ (requests = <<Shutdown>> /\ pc = "join")
          \/ Finished /\ ~service

MediatedInv ==
  /\ embodiment \in MediatedEmbodiment
  /\ GraphAndWalk
  /\ IF InProcess THEN InProcessInv ELSE ServiceInv

LEMMA MediatedBegins == MediatedInit => MediatedInv
<1> SUFFICES ASSUME MediatedInit PROVE MediatedInv
  OBVIOUS
<1>1. /\ embodiment \in MediatedEmbodiment /\ doc \in Documents[embodiment]
      /\ requests = <<>> /\ responses = <<>> /\ ~waiting /\ service = ~InProcess
      /\ selfModified = FALSE
  BY DEF MediatedInit, WalkInit
<1>2. GraphPart /\ OneGrower /\ Entry[doc] \in NodeId /\ GrowsOnce
  BY <1>1, MediatedDocumentsAssumption DEF GraphPart, OneGrower, GrowsOnce
<1>3. /\ files = (IF embodiment \in MediatedEmbodiment \ {"direct_write"}
                  THEN <<>> ELSE <<doc>>)
      /\ pc = "visit" /\ WalkPart /\ walk.stage = "execute" /\ Reported
  BY <1>2, WalkStarts DEF MediatedInit
<1>4. Asking
  BY <1>2, <1>3 DEF Asking
<1>5. embodiment \in {"direct_write", "write_service", "service_process", "sqlite_service"}
  BY <1>1 DEF MediatedEmbodiment
<1>6. InProcess => InProcessInv
  BY <1>1, <1>3, <1>4, <1>5 DEF InProcess, InProcessInv, Goes, MediatedEmbodiment
<1>7. ~InProcess => ServiceInv
  BY <1>1, <1>3, <1>4, <1>5 DEF InProcess, ServiceInv, MediatedEmbodiment
<1> QED BY <1>1, <1>2, <1>3, <1>6, <1>7 DEF MediatedInv, GraphAndWalk

\* The agent's own process.
LEMMA CallsInProcess ==
  ASSUME MediatedInv, CallInProcess
  PROVE  MediatedInv' /\ Walks
<1>1. /\ InProcess /\ ~LimitReached(walk) /\ ~RowExists /\ doc' = Applied(Request)
      /\ SeeAnswer(doc') /\ files' = (IF files = <<>> THEN <<>> ELSE <<doc'>>)
      /\ UNCHANGED <<embodiment, requests, responses, waiting, service>>
  BY DEF CallInProcess
<1>2. /\ embodiment \in MediatedEmbodiment /\ GraphAndWalk
      /\ requests = <<>> /\ responses = <<>> /\ ~waiting /\ ~service
  BY <1>1 DEF MediatedInv, InProcessInv
<1>3. pc \in {"visit", "modify", "route", "snapshot"}
  BY <1>1 DEF SeeAnswer
<1>4. Asking /\ files = IF embodiment = "direct_write" THEN <<doc>> ELSE <<>>
  BY <1>1, <1>3 DEF MediatedInv, InProcessInv, Goes, Finished
<1>5. GraphAndWalk' /\ Walks /\ Goes'
  <2>1. CASE pc = "modify"
    <3>1. Writing /\ pending = Missing(doc, walk.at)
      BY <1>1, <1>4, <2>1 DEF Asking
    <3>2. SeeWritten
      BY <1>1, <2>1 DEF SeeAnswer
    <3>3. doc' = WriteFirst(doc, Missing(doc, walk.at))
      BY <1>1, <2>1, <3>1 DEF Applied, Request
    <3>4. UNCHANGED walk
      BY <3>2 DEF SeeWritten
    <3>5. /\ GraphAndWalk' /\ Reference!ReferenceNext
          /\ Rest(pending) = Missing(doc', walk.at)
      BY <1>2, <3>1, <3>3, <3>4, WritesForAgent DEF Writing
    <3> QED BY <3>1, <3>2, <3>5, SeesWritten DEF Walks
  <2>2. CASE pc # "modify"
    <3>1. doc' = doc
      BY <1>1, <2>2 DEF Applied, Request
    <3>2. Answered
      BY <1>4, <2>2 DEF Answered
    <3>3. SeeAnswer(doc)
      BY <1>1, <3>1
    <3> QED BY <1>1, <1>2, <3>1, <3>2, <3>3, SeesAnswer
  <2> QED BY <2>1, <2>2
<1>6. InProcess' /\ files' = IF embodiment' = "direct_write" THEN <<doc'>> ELSE <<>>
  BY <1>1, <1>4 DEF InProcess
<1> QED BY <1>1, <1>2, <1>5, <1>6 DEF MediatedInv, InProcessInv

LEMMA RefusesInsert ==
  ASSUME MediatedInv, InsertRefused
  PROVE  MediatedInv' /\ Walks
<1>1. /\ embodiment = "sqlite_service" /\ pc = "modify" /\ pc' = "abandon"
      /\ UNCHANGED <<embodiment, doc, files, walk, pending, visited,
                     requests, responses, waiting, service, selfModified>>
  BY DEF InsertRefused, RowExists, mediatedVars
<1>2. InProcess /\ InProcess'
  BY <1>1 DEF InProcess
<1>3. InProcessInv /\ Asking /\ walk.stage = "route"
  BY <1>1, <1>2 DEF MediatedInv, InProcessInv, Goes, Finished, Asking, Writing
<1>4. InProcessInv'
  BY <1>1, <1>3 DEF InProcessInv, Goes
<1> QED BY <1>1, <1>2, <1>4
        DEF MediatedInv, GraphAndWalk, GraphPart, WalkPart, OneGrower, Has, Walks

LEMMA KillsWriter ==
  ASSUME MediatedInv, WriterKilled
  PROVE  MediatedInv' /\ Walks
<1>1. /\ embodiment = "direct_write" /\ pc = "modify" /\ pc' = "raised"
      /\ walk' = Over(walk, "failed")
      /\ UNCHANGED <<embodiment, doc, pending, visited,
                     requests, responses, waiting, service, selfModified>>
  BY DEF WriterKilled, mediatedVars
<1>2. InProcess /\ InProcess'
  BY <1>1 DEF InProcess
<1>3. InProcessInv /\ Asking /\ walk.stage = "route" /\ WalkPart
  BY <1>1, <1>2 DEF MediatedInv, GraphAndWalk, InProcessInv, Goes, Finished, Asking, Writing
<1>4. Reference!ReferenceNext /\ WalkPart'
  BY <1>1, <1>3, WalkIsOver
<1>5. InProcessInv'
  BY <1>1, <1>3 DEF InProcessInv, Finished
<1> QED BY <1>1, <1>2, <1>4, <1>5
        DEF MediatedInv, GraphAndWalk, GraphPart, OneGrower, Walks

\* The agent gives up after too many steps.
LEMMA GivesUp ==
  ASSUME MediatedInv, TooManySteps
  PROVE  MediatedInv' /\ Walks
<1>1. /\ pc = "visit" /\ LimitReached(walk) /\ pc' = "abandon"
      /\ UNCHANGED <<embodiment, doc, files, walk, pending, visited,
                     requests, responses, waiting, service, selfModified>>
  BY DEF TooManySteps, mediatedVars
<1>2. GraphAndWalk' /\ Walks /\ InProcess' = InProcess /\ embodiment' \in MediatedEmbodiment
  BY <1>1 DEF MediatedInv, GraphAndWalk, GraphPart, WalkPart, OneGrower, Has, Walks, InProcess
<1>3. walk.stage = "execute"
  BY <1>1 DEF LimitReached
<1>4. CASE InProcess
  <2>1. InProcessInv'
    BY <1>1, <1>3, <1>4 DEF MediatedInv, InProcessInv, Goes
  <2> QED BY <1>2, <1>4, <2>1 DEF MediatedInv
<1>5. CASE ~InProcess
  <2>1. ~waiting /\ files = <<>> /\ requests = <<>>
    BY <1>1, <1>5 DEF MediatedInv, ServiceInv, Awaits, Abandoned, Finished
  <2>2. ServiceInv'
    BY <1>1, <1>3, <2>1 DEF ServiceInv, Abandoned
  <2> QED BY <1>2, <1>5, <2>2 DEF MediatedInv
<1> QED BY <1>4, <1>5

LEMMA AgentIsBack ==
  ASSUME MediatedInv, AgentReturns
  PROVE  MediatedInv' /\ Walks
<1>1. /\ IF InProcess THEN pc \in {"shutdown", "abandon"}
         ELSE pc \in {"join", "join_abandoned"}
      /\ service' = FALSE
      /\ walk' = (IF walk.stage = "done" THEN walk ELSE Over(walk, "failed"))
      /\ pc' = (IF walk.stage = "done" THEN "ended" ELSE "raised")
      /\ UNCHANGED <<embodiment, doc, files, pending, visited,
                     requests, responses, waiting, selfModified>>
  BY DEF AgentReturns
<1>2. GraphPart /\ WalkPart /\ OneGrower /\ embodiment \in MediatedEmbodiment
  BY DEF MediatedInv, GraphAndWalk
<1>3. /\ ~waiting
      /\ \/ walk.stage = "done" /\ Reported
         \/ walk.stage \in {"execute", "route"}
      /\ ~InProcess => files = <<>>
      /\ InProcess => /\ requests = <<>> /\ responses = <<>>
                      /\ files = IF embodiment = "direct_write" THEN <<doc>> ELSE <<>>
  <2>1. CASE InProcess
    BY <1>1, <2>1 DEF MediatedInv, InProcessInv, Goes, Asking, Writing, Finished
  <2>2. CASE ~InProcess
    BY <1>1, <2>2 DEF MediatedInv, ServiceInv, Awaits, Asking, Answered, Writing, Abandoned,
      Finished
  <2> QED BY <2>1, <2>2
<1>4. /\ walk.stage = "done" => walk' = walk
      /\ walk.stage # "done" => Reference!ReferenceNext /\ WalkPart'
  BY <1>1, <1>2, <1>3, WalkIsOver
<1>5. WalkPart' /\ Walks
  BY <1>1, <1>2, <1>4 DEF WalkPart, Has, Walks
<1>6. GraphAndWalk' /\ InProcess' = InProcess
  BY <1>1, <1>2, <1>5 DEF GraphAndWalk, GraphPart, OneGrower, InProcess
<1>7. Finished'
  BY <1>1, <1>3 DEF Finished, Reported
<1>8. InProcess => InProcessInv'
  BY <1>1, <1>3, <1>7 DEF InProcessInv
<1>9. ~InProcess => ServiceInv'
  BY <1>1, <1>3, <1>7 DEF ServiceInv
<1> QED BY <1>1, <1>2, <1>5, <1>6, <1>8, <1>9 DEF MediatedInv

\* The agent and the service process.
LEMMA SendsRequest ==
  ASSUME MediatedInv, SendRequest
  PROVE  MediatedInv' /\ Walks
<1>1. /\ ~InProcess /\ ~waiting /\ ~LimitReached(walk)
      /\ pc \in {"visit", "modify", "route", "snapshot"}
      /\ requests' = Append(requests, Request) /\ waiting'
      /\ UNCHANGED <<embodiment, doc, files, walk, pending, visited, pc,
                     responses, service, selfModified>>
  BY DEF SendRequest, walkVars
<1>2. files = <<>> /\ Asking /\ requests = <<>> /\ responses = <<>>
  BY <1>1 DEF MediatedInv, ServiceInv, Abandoned, Finished
<1>3. requests' = <<Request'>>
  BY <1>1, <1>2, ShortLists DEF Request
<1>4. Asking' /\ ~LimitReached(walk)'
  BY <1>1, <1>2 DEF Asking, Writing, Reported, GrowsOnce, Mended, RowExists, LimitReached
<1>5. ServiceInv'
  BY <1>1, <1>2, <1>3, <1>4 DEF ServiceInv, Awaits
<1> QED BY <1>1, <1>5 DEF MediatedInv, InProcess, GraphAndWalk, GraphPart, WalkPart,
  OneGrower, Has, Walks

\* What the service does to the graph.
LEMMA Applies ==
  ASSUME GraphAndWalk, NEW r, Late(r), doc' = Applied(r), UNCHANGED walk
  PROVE  /\ GraphAndWalk' /\ Walks
         /\ r.op = "write" => Missing(doc', walk.at) = Rest(r.what)
         /\ r.op # "write" => doc' = doc
<1>1. CASE r.op = "write"
  BY <1>1, WritesForAgent DEF Late, Applied, Walks
<1>2. CASE r.op # "write"
  BY <1>2 DEF Applied, Walks, GraphAndWalk, GraphPart, WalkPart, OneGrower, Has
<1> QED BY <1>1, <1>2

LEMMA ServesRequest ==
  ASSUME MediatedInv, ServeRequest
  PROVE  MediatedInv' /\ Walks
<1> DEFINE r == Head(requests)
<1>1. /\ service /\ requests # <<>> /\ doc' = Applied(r)
      /\ requests' = Tail(requests) /\ responses' = Append(responses, doc')
      /\ UNCHANGED <<embodiment, files, walk, pending, visited, pc, waiting, selfModified>>
  BY DEF ServeRequest
<1>2. ~InProcess /\ GraphAndWalk /\ embodiment = "service_process"
  BY <1>1 DEF MediatedInv, InProcessInv, InProcess
<1>3. ServiceInv /\ files = <<>> /\ ~RowExists
  BY <1>2 DEF MediatedInv, ServiceInv, RowExists
<1> HIDE DEF r
<1>4. CASE waiting
  <2>1. ~LimitReached(walk) /\ Asking /\ requests = <<Request>> /\ responses = <<>>
    BY <1>1, <1>3, <1>4 DEF ServiceInv, Awaits
  <2>2. r = Request /\ requests' = <<>> /\ responses' = <<doc'>>
    BY <1>1, <2>1, ShortLists DEF r
  <2>3. ~LimitReached(walk)'
    BY <1>1, <2>1 DEF LimitReached
  <2>4. CASE pc = "modify"
    <3>1. Writing /\ pending = Missing(doc, walk.at) /\ pending # Empty
      BY <1>3, <2>1, <2>4 DEF Asking, Writing
    <3>2. r.op = "write" /\ r.what = pending
      BY <2>2, <2>4 DEF Request
    <3>3. Late(r)
      BY <3>1, <3>2 DEF Late, Writing
    <3>4. GraphAndWalk' /\ Walks /\ Missing(doc', walk.at) = Rest(pending)
      BY <1>1, <1>2, <3>2, <3>3, Applies
    <3>5. Answered'
      BY <1>1, <2>4, <3>1, <3>4 DEF Answered, Writing, Reported
    <3>6. ServiceInv'
      BY <1>1, <1>3, <1>4, <2>2, <2>3, <3>5 DEF ServiceInv, Awaits
    <3> QED BY <1>1, <1>2, <3>4, <3>6 DEF MediatedInv, InProcess
  <2>5. CASE pc # "modify"
    <3>1. r.op # "write"
      BY <2>2, <2>5 DEF Request
    <3>2. Late(r)
      BY <3>1 DEF Late
    <3>3. GraphAndWalk' /\ Walks /\ doc' = doc
      BY <1>1, <1>2, <3>1, <3>2, Applies
    <3>4. Answered'
      BY <1>1, <2>1, <2>5, <3>3
         DEF Answered, Asking, Writing, Reported, GrowsOnce, Mended, RowExists
    <3>5. ServiceInv'
      BY <1>1, <1>3, <1>4, <2>2, <2>3, <3>4 DEF ServiceInv, Awaits
    <3> QED BY <1>1, <1>2, <3>3, <3>5 DEF MediatedInv, InProcess
  <2> QED BY <2>4, <2>5
<1>5. CASE ~waiting /\ Abandoned
  <2>1. /\ Late(r)
        /\ requests' = <<>> \/ (requests' = <<Shutdown>> /\ pc = "join_abandoned")
    <3>1. CASE requests = <<Shutdown>>
      <4>1. r = Shutdown /\ requests' = <<>>
        BY <1>1, <3>1, ShortLists DEF r
      <4>2. r.op # "write"
        BY <4>1 DEF Shutdown
      <4>3. Late(r)
        BY <4>2 DEF Late
      <4> QED BY <4>1, <4>3
    <3>2. CASE Late(r) /\ requests = IF pc = "abandon" THEN <<r>> ELSE <<r, Shutdown>>
      <4>1. Tail(<<r>>) = <<>> /\ Tail(<<r, Shutdown>>) = <<Shutdown>>
        BY ShortLists
      <4>2. pc \in {"abandon", "join_abandoned"}
        BY <1>5 DEF Abandoned
      <4> QED BY <1>1, <3>2, <4>1, <4>2
    <3> QED BY <1>1, <1>5, <3>1, <3>2 DEF Abandoned, r
  <2>2. GraphAndWalk' /\ Walks
    BY <1>1, <1>2, <2>1, Applies
  <2>3. Abandoned'
    BY <1>1, <1>5, <2>1 DEF Abandoned
  <2>4. ServiceInv'
    BY <1>1, <1>3, <1>5, <2>3 DEF ServiceInv
  <2> QED BY <1>1, <1>2, <2>2, <2>4 DEF MediatedInv, InProcess
<1>6. CASE /\ ~waiting /\ pc \in {"shutdown", "join"} /\ walk.stage = "done" /\ Reported
           /\ requests = <<>> \/ (requests = <<Shutdown>> /\ pc = "join")
  <2>1. r = Shutdown /\ requests' = <<>>
    BY <1>1, <1>6, ShortLists DEF r
  <2>2. Late(r)
    BY <2>1 DEF Late, Shutdown
  <2>3. GraphAndWalk' /\ Walks
    BY <1>1, <1>2, <2>2, Applies
  <2>4. ServiceInv'
    BY <1>1, <1>3, <1>6, <2>1 DEF ServiceInv, Reported
  <2> QED BY <1>1, <1>2, <2>3, <2>4 DEF MediatedInv, InProcess
<1> QED BY <1>1, <1>3, <1>4, <1>5, <1>6 DEF ServiceInv

LEMMA TakesAnswer ==
  ASSUME MediatedInv, TakeAnswer
  PROVE  MediatedInv' /\ Walks
<1>1. /\ waiting /\ responses # <<>> /\ SeeAnswer(Head(responses))
      /\ responses' = Tail(responses) /\ ~waiting'
      /\ UNCHANGED <<embodiment, doc, files, requests, service>>
  BY DEF TakeAnswer
<1>2. ~InProcess /\ GraphAndWalk /\ files = <<>>
  BY <1>1 DEF MediatedInv, InProcessInv, ServiceInv
<1>3. ~LimitReached(walk) /\ Answered /\ requests = <<>> /\ responses = <<doc>>
  BY <1>1, <1>2 DEF MediatedInv, ServiceInv, Awaits
<1>4. SeeAnswer(doc) /\ responses' = <<>>
  BY <1>1, <1>3, ShortLists
<1>5. GraphAndWalk' /\ Walks /\ Goes'
  BY <1>1, <1>2, <1>3, <1>4, SeesAnswer
<1>6. ServiceInv'
  BY <1>1, <1>2, <1>3, <1>4, <1>5 DEF ServiceInv, Goes, Abandoned
<1> QED BY <1>1, <1>2, <1>5, <1>6 DEF MediatedInv, InProcess

LEMMA HasNoAnswer ==
  ASSUME MediatedInv, NoAnswer
  PROVE  MediatedInv' /\ Walks
<1>1. /\ waiting /\ responses = <<>> /\ ~waiting' /\ pc' = "abandon"
      /\ UNCHANGED <<embodiment, doc, files, walk, pending, visited,
                     requests, responses, service, selfModified>>
  BY DEF NoAnswer
<1>2. ~InProcess /\ GraphAndWalk /\ files = <<>> /\ Awaits /\ embodiment = "service_process"
  BY <1>1 DEF MediatedInv, InProcessInv, ServiceInv, InProcess
<1>3. GraphAndWalk' /\ Walks
  BY <1>1, <1>2 DEF GraphAndWalk, GraphPart, WalkPart, OneGrower, Has, Walks
<1>4. Abandoned'
  <2>1. CASE Asking /\ requests = <<Request>>
    <3>1. walk.stage \in {"execute", "route"}
      BY <2>1 DEF Asking, Writing
    <3>2. Late(Request)
      BY <1>2, <2>1 DEF Asking, Late, Request, Writing, RowExists
    <3>3. requests = <<Head(requests)>> /\ Late(Head(requests))
      BY <2>1, <3>2, ShortLists
    <3>4. Late(Head(requests))'
      BY <1>1, <3>3 DEF Late
    <3> QED BY <1>1, <3>1, <3>3, <3>4 DEF Abandoned
  <2>2. CASE walk.stage \in {"execute", "route"} /\ requests = <<>>
    BY <1>1, <2>2 DEF Abandoned
  <2>3. responses # <<doc>>
    BY <1>1, ShortLists
  <2> QED BY <1>2, <2>1, <2>2, <2>3 DEF Awaits
<1>5. ServiceInv'
  BY <1>1, <1>2, <1>4 DEF ServiceInv
<1> QED BY <1>1, <1>2, <1>3, <1>5 DEF MediatedInv, InProcess

LEMMA SendsShutdown ==
  ASSUME MediatedInv, SendShutdown
  PROVE  MediatedInv' /\ Walks
<1>1. /\ ~InProcess /\ pc \in {"shutdown", "abandon"}
      /\ requests' = Append(requests, Shutdown)
      /\ pc' = (IF pc = "shutdown" THEN "join" ELSE "join_abandoned")
      /\ UNCHANGED <<embodiment, doc, files, walk, pending, visited,
                     responses, waiting, service, selfModified>>
  BY DEF SendShutdown
<1>2. GraphAndWalk /\ files = <<>> /\ embodiment \in MediatedEmbodiment
  BY <1>1 DEF MediatedInv, ServiceInv
<1>3. GraphAndWalk' /\ Walks
  BY <1>1, <1>2 DEF GraphAndWalk, GraphPart, WalkPart, OneGrower, Has, Walks
<1>4. ~waiting
  BY <1>1 DEF MediatedInv, ServiceInv, Awaits, Asking, Answered, Writing
<1>5. CASE pc = "shutdown"
  <2>1. walk.stage = "done" /\ Reported /\ requests = <<>>
    BY <1>1, <1>4, <1>5 DEF MediatedInv, ServiceInv, Asking, Writing, Abandoned, Finished
  <2>2. requests' = <<Shutdown>> /\ pc' = "join"
    BY <1>1, <1>5, <2>1, ShortLists
  <2>3. Shutdown' = Shutdown
    BY DEF Shutdown
  <2>4. ServiceInv'
    BY <1>1, <1>2, <1>4, <2>1, <2>2, <2>3 DEF ServiceInv, Reported
  <2> QED BY <1>1, <1>2, <1>3, <2>4 DEF MediatedInv, InProcess
<1>6. CASE pc = "abandon"
  <2>1. Abandoned /\ pc' = "join_abandoned"
    BY <1>1, <1>4, <1>6 DEF MediatedInv, ServiceInv, Asking, Writing, Finished
  <2>2. ASSUME requests = <<>> PROVE Abandoned'
    <3>1. requests' = <<Shutdown>>
      BY <1>1, <2>2, ShortLists
    <3> QED BY <1>1, <2>1, <3>1 DEF Abandoned, Shutdown
  <2>3. ASSUME Late(Head(requests)), requests = <<Head(requests)>> PROVE Abandoned'
    <3> DEFINE r == Head(requests)
    <3>1. requests' = <<r, Shutdown>> /\ Head(requests') = r
      <4> HIDE DEF r
      <4>1. Append(<<r>>, Shutdown) = <<r, Shutdown>> /\ Head(<<r, Shutdown>>) = r
        BY ShortLists
      <4>2. requests = <<r>>
        BY <2>3 DEF r
      <4> QED BY <1>1, <4>1, <4>2
    <3>2. Late(Head(requests))'
      BY <1>1, <2>3, <3>1 DEF Late
    <3> QED BY <1>1, <2>1, <3>1, <3>2 DEF Abandoned, Shutdown
  <2>4. Abandoned'
    BY <1>6, <2>1, <2>2, <2>3 DEF Abandoned
  <2>5. ServiceInv'
    BY <1>1, <1>2, <1>4, <2>4 DEF ServiceInv
  <2> QED BY <1>1, <1>2, <1>3, <2>5 DEF MediatedInv, InProcess
<1> QED BY <1>1, <1>5, <1>6

LEMMA LosesService ==
  ASSUME MediatedInv, ServiceDies
  PROVE  MediatedInv' /\ Walks
<1>1. /\ service /\ ~service' /\ responses' \in {responses, <<>>}
      /\ UNCHANGED <<embodiment, doc, files, walk, pending, visited, pc,
                     requests, waiting, selfModified>>
  BY DEF ServiceDies, walkVars
<1>2. ~InProcess /\ GraphAndWalk /\ ServiceInv /\ embodiment \in MediatedEmbodiment
  BY <1>1 DEF MediatedInv, InProcessInv
<1>3. GraphAndWalk' /\ Walks
  BY <1>1, <1>2 DEF GraphAndWalk, GraphPart, WalkPart, OneGrower, Has, Walks
<1>4. /\ Asking' = Asking /\ Answered' = Answered /\ Abandoned' = Abandoned
      /\ LimitReached(walk)' = LimitReached(walk) /\ Request' = Request
  BY <1>1 DEF Asking, Answered, Writing, Reported, GrowsOnce, Mended, RowExists, Abandoned,
    Late, Shutdown, LimitReached, Request
<1>5. CASE waiting
  <2>1. Awaits'
    <3>1. Answered => pc \in {"visit", "modify", "route", "snapshot"}
                        /\ walk.stage \in {"execute", "route"}
      BY DEF Answered, Asking, Writing
    <3> QED BY <1>1, <1>2, <1>4, <1>5, <3>1 DEF ServiceInv, Awaits
  <2> QED BY <1>1, <1>2, <1>3, <1>5, <2>1 DEF MediatedInv, ServiceInv, InProcess
<1>6. CASE ~waiting
  <2>1. ServiceInv'
    BY <1>1, <1>2, <1>4, <1>6 DEF ServiceInv, Finished, Reported, Shutdown
  <2> QED BY <1>1, <1>2, <1>3, <2>1 DEF MediatedInv, InProcess
<1> QED BY <1>5, <1>6

LEMMA MediatedMoves ==
  ASSUME MediatedInv, [MediatedNext]_<<walkVars, mediatedVars>>
  PROVE  MediatedInv' /\ Walks
<1>1. CASE MediatedNext
  BY <1>1, CallsInProcess, RefusesInsert, SendsRequest, ServesRequest, TakesAnswer,
     HasNoAnswer, GivesUp, SendsShutdown, AgentIsBack, LosesService, KillsWriter
     DEF MediatedNext, MediatedStep
<1>2. CASE UNCHANGED <<walkVars, mediatedVars>>
  <2>1. UNCHANGED <<embodiment, doc, files, walk, pending, visited, pc,
                    requests, responses, waiting, service, selfModified>>
    BY <1>2 DEF walkVars, mediatedVars
  <2>2. GraphAndWalk' = GraphAndWalk /\ Walks /\ InProcess' = InProcess
    BY <2>1 DEF GraphAndWalk, GraphPart, WalkPart, OneGrower, Has, Walks, InProcess
  <2>3. /\ Asking' = Asking /\ Answered' = Answered /\ Abandoned' = Abandoned
        /\ LimitReached(walk)' = LimitReached(walk) /\ Request' = Request
        /\ Reported' = Reported
    BY <2>1 DEF Asking, Answered, Writing, Reported, GrowsOnce, Mended, RowExists, Abandoned,
      Late, Shutdown, LimitReached, Request
  <2>4. InProcess => InProcessInv'
    BY <2>1, <2>3 DEF MediatedInv, InProcessInv, Goes, Finished
  <2>5. Awaits' = Awaits
    BY <2>1, <2>3 DEF Awaits
  <2>6. ~InProcess => ServiceInv'
    BY <2>1, <2>3, <2>5 DEF MediatedInv, ServiceInv, Finished, Shutdown
  <2> QED BY <2>1, <2>2, <2>4, <2>6 DEF MediatedInv
<1> QED BY <1>1, <1>2

\* The agent of STUDY-206 and the service hold at most one request or its answer
\* between them, the answer is the graph as it is, and a request whose agent has
\* given up writes only what the graph still lacks, once.
THEOREM MediatedInvariant == MediatedSpec => []MediatedInv
<1>1. MediatedInit => MediatedInv
  BY MediatedBegins
<1>2. MediatedInv /\ [MediatedNext]_<<walkVars, mediatedVars>> => MediatedInv'
  BY MediatedMoves
<1> QED BY <1>1, <1>2, PTL DEF MediatedSpec

\* STUDY-206 implements the reference walk, whoever writes for the agent: a
\* service that dies, answers late or is told to stop, and a request that is
\* still served after its agent gave up, never take an edge before the whole
\* modification is there, and never write a part of it twice.
THEOREM MediatedWalks == MediatedSpec => WalksAsTheGraphSays
<1>1. ASSUME MediatedInv, [MediatedNext]_<<walkVars, mediatedVars>>
      PROVE  [Reference!ReferenceNext]_<<doc, walk>>
  BY <1>1, MediatedMoves DEF Walks
<1> QED BY <1>1, MediatedInvariant, PTL DEF MediatedSpec, WalksAsTheGraphSays

\* An agent of STUDY-206 that returns reports the nodes that were executed, in
\* order, and a direct write leaves in the file the graph that it walked (run).
THEOREM MediatedReports == MediatedSpec => []ReportsAndKeepsTheWalk
<1>1. MediatedInv => ReportsAndKeepsTheWalk
  <2> SUFFICES ASSUME MediatedInv, pc = "ended" PROVE ReportsAndKeepsTheWalk
    BY DEF ReportsAndKeepsTheWalk
  <2>1. CASE InProcess
    <3>1. walk.stage = "done" /\ Reported /\ files \in {<<>>, <<doc>>}
      BY <2>1 DEF MediatedInv, InProcessInv, Goes, Asking, Writing, Finished
    <3>2. files # <<>> => Last(files) = doc
      BY <3>1 DEF Last
    <3> QED BY <3>1, <3>2 DEF ReportsAndKeepsTheWalk, Reported
  <2>2. CASE ~InProcess
    <3>1. walk.stage = "done" /\ Reported /\ files = <<>>
      BY <2>2 DEF MediatedInv, ServiceInv, Awaits, Answered, Asking, Writing, Abandoned,
        Finished
    <3> QED BY <3>1 DEF ReportsAndKeepsTheWalk, Reported
  <2> QED BY <2>1, <2>2
<1> QED BY <1>1, MediatedInvariant, PTL

-----------------------------------------------------------------------------
(* STUDY-208: a modification is written without a look at what is there,   *)
(* and the graph is never walked back to a node that has grown.            *)

NoReturn(n) == \E S \in Ahead(doc, n) : n \notin S
Untouched(n) == NoReturn(n) /\ Apart(doc, Growth[n])
Left(n) == Whole(doc, n) /\ \E S \in Ahead(doc, n) : n \notin S /\ walk.at \in S

BackendGraph ==
  /\ doc \in Document /\ GrowsByParts(doc)
  /\ \A e \in FullEdges(doc) : Terminal(e.source_id) => e.relation = "SUPERSEDES"

\* The nodes other than the one that is walked, and that one.
OthersOnce == \A n \in Growers(doc) \ {walk.at} : Untouched(n) \/ Left(n)
Onward == Grows(walk.at) => NoReturn(walk.at)

BackendInv ==
  /\ embodiment \in Backend
  /\ BackendGraph /\ WalkPart
  /\ \/ /\ pc = "visit" /\ walk.stage = "execute" /\ Reported
        /\ \A n \in Growers(doc) : Untouched(n) \/ Left(n)
     \/ /\ walk.stage = "route" /\ Reported /\ OthersOnce /\ Onward
        /\ \/ /\ pc = "persist" /\ Grows(walk.at)
              /\ pending = Missing(doc, walk.at) /\ pending # Empty
              /\ embodiment # "multifile" => Apart(doc, Growth[walk.at])
           \/ pc = "flush" /\ embodiment = "kv" /\ Mended
           \/ pc = "route" /\ Mended
     \/ pc = "ended" /\ walk.stage = "done" /\ Reported
     \/ pc = "raised"
  /\ pc \notin {"flush", "raised"} =>
       files = IF embodiment = "inmemory" THEN <<>> ELSE <<doc>>

\* What the nodes of a graph add is ahead of it from the start.
LEMMA ExtendedAhead ==
  ASSUME NEW d \in Document, GrowsByParts(d), NEW n \in Growers(d), NEW e, Extended(e, d, n)
  PROVE  FullEdges(e) = FullEdges(d) /\ \A m : Ahead(e, m) = Ahead(d, m)
<1>1. Growers(e) = Growers(d)
  BY ExtendedGraph
<1>2. ToSet(Growth[n].edges) \subseteq UNION {ToSet(Growth[m].edges) : m \in Growers(d)}
  OBVIOUS
<1>3. FullEdges(e) = FullEdges(d)
  BY <1>1, <1>2 DEF FullEdges, Extended
<1> QED BY <1>3 DEF Ahead

\* The graph gets something that its node adds, and the walk stays where it is.
LEMMA GraphIsExtended ==
  ASSUME BackendGraph, WalkPart, walk.stage = "route", Grows(walk.at), OthersOnce, Onward,
         Extended(doc', doc, walk.at), UNCHANGED walk
  PROVE  BackendGraph' /\ WalkPart' /\ OthersOnce' /\ Onward'
<1>1. walk.at \in Growers(doc) /\ doc \in Document /\ GrowsByParts(doc)
  BY DEF BackendGraph, WalkPart, Growers, Has
<1>2. /\ Growers(doc') = Growers(doc) /\ GrowsByParts(doc')
      /\ FullEdges(doc') = FullEdges(doc) /\ \A m : Ahead(doc', m) = Ahead(doc, m)
      /\ doc' \in Document /\ ToSet(doc.nodes) \subseteq ToSet(doc'.nodes)
  BY <1>1, ExtendedGraph, ExtendedAhead DEF Extended
<1>3. BackendGraph' /\ WalkPart' /\ Onward'
  BY <1>2 DEF BackendGraph, WalkPart, Has, Onward, NoReturn
<1>4. ASSUME NEW n \in Growers(doc) \ {walk.at} PROVE Untouched(n)' \/ Left(n)'
  <2>1. Untouched(n) \/ Left(n)
    BY DEF OthersOnce
  <2>2. /\ Apart(doc, Growth[n]) => Apart(doc', Growth[n])
        /\ Whole(doc, n) => Whole(doc', n)
    BY <1>1, ExtendedOthers
  <2> QED BY <1>2, <2>1, <2>2 DEF Untouched, Left, NoReturn
<1>5. OthersOnce'
  BY <1>2, <1>4 DEF OthersOnce
<1> QED BY <1>3, <1>5

LEMMA MergedExtends ==
  ASSUME NEW d \in Document, NEW n \in Growers(d)
  PROVE  /\ Extended(Merge(d, Missing(d, n)), d, n) /\ Whole(Merge(d, Missing(d, n)), n)
<1>1. n \in NodeId /\ Grows(n)
  BY GrowersGrow
<1> DEFINE e == Merge(d, Missing(d, n))
<1>2. /\ e \in Document /\ Whole(e, n)
      /\ ToSet(e.nodes) = ToSet(d.nodes) \cup ToSet(Growth[n].nodes)
      /\ ToSet(e.edges) = ToSet(d.edges) \cup ToSet(Growth[n].edges)
  BY <1>1, MergedIsWhole
<1> HIDE DEF e
<1>3. Extended(e, d, n) /\ Whole(e, n)
  BY <1>2 DEF Extended
<1> QED BY <1>3 DEF e

\* What is written as it was staged.
LEMMA StagedIsMissing ==
  ASSUME doc \in Document, NEW n \in NodeId, Grows(n), Apart(doc, Growth[n]),
         pending = Growth[n]
  PROVE  pending = Missing(doc, n) /\ NewNodes = Missing(doc, n)
<1>1. /\ Missing(doc, n) = Growth[n] /\ Growth[n].nodes \in Seq(NodeId)
      /\ Growth[n] = [nodes |-> Growth[n].nodes, edges |-> Growth[n].edges]
  BY MissesAll, MissingType DEF Document
<1>2. Kept(Growth[n].nodes, ToSet(Growth[n].nodes) \ ToSet(doc.nodes)) = Growth[n].nodes
  BY <1>1, KeptAll DEF Apart
<1> QED BY <1>1, <1>2 DEF NewNodes

LEMMA BackendBegins == BackendInit => BackendInv
<1> SUFFICES ASSUME BackendInit PROVE BackendInv
  OBVIOUS
<1>1. embodiment \in Backend /\ doc \in Documents[embodiment]
  BY DEF BackendInit, WalkInit
<1>2. /\ BackendGraph /\ Entry[doc] \in NodeId
      /\ \A n \in Growers(doc) : Untouched(n)
  BY <1>1, BackendDocumentsAssumption DEF BackendGraph, Untouched, NoReturn
<1>3. /\ files = (IF embodiment = "inmemory" THEN <<>> ELSE <<doc>>)
      /\ pc = "visit" /\ WalkPart /\ walk.stage = "execute" /\ Reported
  BY <1>2, WalkStarts DEF BackendInit
<1> QED BY <1>1, <1>2, <1>3 DEF BackendInv

LEMMA BackendReads ==
  ASSUME BackendInv, BackendRead
  PROVE  BackendInv' /\ Walks
<1>1. /\ pc = "visit" /\ ~LimitReached(walk) /\ Has(doc, walk.at)
      /\ visited' = Append(visited, walk.at) /\ walk' = Executed(walk)
      /\ pending' = (IF Grows(walk.at) THEN Growth[walk.at] ELSE Empty)
      /\ pc' = (IF Grows(walk.at) THEN "persist" ELSE "route")
      /\ UNCHANGED <<embodiment, doc, files>>
  BY DEF BackendRead
<1>2. /\ embodiment \in Backend /\ BackendGraph /\ WalkPart /\ doc \in Document
      /\ walk.stage = "execute" /\ Reported
      /\ \A n \in Growers(doc) : Untouched(n) \/ Left(n)
      /\ files = IF embodiment = "inmemory" THEN <<>> ELSE <<doc>>
  BY <1>1 DEF BackendInv, BackendGraph
<1>3. /\ Reference!ReferenceNext /\ WalkPart' /\ walk'.at = walk.at
      /\ walk'.stage = "route" /\ walk'.executed = Append(walk.executed, walk.at)
  BY <1>1, <1>2, WalkExecutes
<1>4. BackendGraph' /\ Reported'
  BY <1>1, <1>2, <1>3 DEF BackendGraph, Reported
<1>5. OthersOnce'
  BY <1>1, <1>2, <1>3 DEF OthersOnce, Untouched, Left, NoReturn
<1>6. CASE Grows(walk.at)
  <2>1. walk.at \in Growers(doc) /\ walk.at \in NodeId
    BY <1>1, <1>2, <1>6 DEF Growers, Has, WalkPart, WalkState
  <2>2. Untouched(walk.at)
    BY <1>2, <2>1 DEF Left
  <2>3. pending' = Missing(doc, walk.at) /\ pending' # Empty
    <3>1. Growth[walk.at].nodes # <<>>
      BY <1>2, <2>1 DEF BackendGraph, GrowsByParts
    <3> QED BY <1>1, <1>2, <1>6, <2>1, <2>2, <3>1, MissesAll DEF Untouched, Empty
  <2>4. Onward' /\ Apart(doc, Growth[walk.at])
    BY <1>1, <1>3, <2>2 DEF Onward, Untouched, NoReturn
  <2> QED BY <1>1, <1>2, <1>3, <1>4, <1>5, <1>6, <2>3, <2>4 DEF BackendInv, Walks
<1>7. CASE ~Grows(walk.at)
  <2>1. Onward' /\ Mended'
    BY <1>3, <1>7 DEF Onward, Mended
  <2> QED BY <1>1, <1>2, <1>3, <1>4, <1>5, <1>7, <2>1 DEF BackendInv, Walks
<1> QED BY <1>6, <1>7

\* A modification that is written at once.
LEMMA GraphIsMerged ==
  ASSUME BackendGraph, WalkPart, walk.stage = "route", Grows(walk.at), OthersOnce, Onward,
         doc' = Merge(doc, Missing(doc, walk.at)), UNCHANGED walk
  PROVE  /\ BackendGraph' /\ WalkPart' /\ OthersOnce' /\ Onward' /\ Mended'
         /\ Reference!ReferenceNext
<1>1. walk.at \in Growers(doc) /\ walk.at \in NodeId /\ doc \in Document
  BY DEF BackendGraph, WalkPart, WalkState, Growers, Has
<1>2. Extended(doc', doc, walk.at) /\ Whole(doc', walk.at)
  BY <1>1, MergedExtends
<1>3. BackendGraph' /\ WalkPart' /\ OthersOnce' /\ Onward'
  BY <1>2, GraphIsExtended
<1>4. Reference!ReferenceNext
  BY <1>1, ModifyStep
<1> QED BY <1>2, <1>3, <1>4 DEF Mended

Persisting ==
  /\ pc = "persist" /\ walk.stage = "route" /\ Reported /\ OthersOnce /\ Onward
  /\ Grows(walk.at) /\ pending = Missing(doc, walk.at) /\ pending # Empty
  /\ embodiment # "multifile" =>
       pending = Growth[walk.at] /\ NewNodes = Missing(doc, walk.at)

LEMMA Persists ==
  ASSUME BackendInv, pc = "persist"
  PROVE  Persisting
<1>1. /\ walk.stage = "route" /\ Reported /\ OthersOnce /\ Onward /\ WalkPart
      /\ Grows(walk.at) /\ pending = Missing(doc, walk.at) /\ pending # Empty
      /\ embodiment # "multifile" => Apart(doc, Growth[walk.at])
      /\ doc \in Document
  BY DEF BackendInv, BackendGraph
<1>2. walk.at \in NodeId
  BY <1>1 DEF WalkPart, WalkState
<1>3. embodiment # "multifile" => pending = Growth[walk.at]
  BY <1>1, <1>2, MissesAll
<1>4. embodiment # "multifile" => NewNodes = Missing(doc, walk.at)
  BY <1>1, <1>2, <1>3, StagedIsMissing
<1> QED BY <1>1, <1>3, <1>4 DEF Persisting

KeepsFile ==
  embodiment = "relational" =>
    \/ files' = files
    \/ files = <<doc>> /\ files' = <<doc'>> /\ doc' \in Document /\ Whole(doc', walk.at)

LEMMA BackendPersists ==
  ASSUME BackendInv, PersistFile \/ PersistDict \/ PersistTables \/ PersistKeys
  PROVE  BackendInv' /\ Walks /\ KeepsFile
<1>1. /\ pc = "persist" /\ embodiment \in {"file", "inmemory", "relational", "kv"}
      /\ doc' = Merge(doc, IF embodiment = "file" THEN pending ELSE NewNodes)
      /\ embodiment = "kv" => pc' = "flush" /\ UNCHANGED files
      /\ embodiment # "kv" => pc' = "route"
      /\ embodiment \in {"file", "relational"} => files' = <<doc'>>
      /\ embodiment = "inmemory" => files' = <<>>
      /\ UNCHANGED <<embodiment, walk, visited>>
  BY DEF PersistFile, PersistDict, PersistTables, PersistKeys, Committed
<1>2. Persisting /\ BackendGraph /\ WalkPart /\ doc \in Document
  BY <1>1, Persists DEF BackendInv, BackendGraph
<1>3. doc' = Merge(doc, Missing(doc, walk.at))
  BY <1>1, <1>2 DEF Persisting
<1>4. /\ BackendGraph' /\ WalkPart' /\ OthersOnce' /\ Onward' /\ Mended'
      /\ Reference!ReferenceNext
  BY <1>1, <1>2, <1>3, GraphIsMerged DEF Persisting
<1>5. Reported' /\ walk'.stage = "route"
  BY <1>1, <1>2 DEF Persisting, Reported
<1>6. files = IF embodiment = "inmemory" THEN <<>> ELSE <<doc>>
  BY <1>1 DEF BackendInv
<1>7. KeepsFile
  BY <1>1, <1>2, <1>4, <1>6 DEF KeepsFile, BackendGraph, Mended, Persisting
<1>8. embodiment' \in Backend
  BY <1>1 DEF Backend
<1>9. BackendInv'
  BY <1>1, <1>4, <1>5, <1>8 DEF BackendInv
<1> QED BY <1>4, <1>7, <1>9 DEF Walks

LEMMA BackendPersistsOneFile ==
  ASSUME BackendInv, PersistOneFile
  PROVE  BackendInv' /\ Walks /\ KeepsFile
<1>1. /\ pc = "persist" /\ embodiment = "multifile" /\ doc' = InTables(doc, pending)
      /\ files' = <<doc'>> /\ pending' = Rest(pending)
      /\ pc' = (IF pending' = Empty THEN "route" ELSE "persist")
      /\ UNCHANGED <<embodiment, walk, visited>>
  BY DEF PersistOneFile, InTables
<1>2. Persisting /\ BackendGraph /\ WalkPart /\ doc \in Document /\ GrowsByParts(doc)
  BY <1>1, Persists DEF BackendInv, BackendGraph
<1>3. /\ walk.at \in Growers(doc) /\ walk.at \in NodeId /\ walk.stage = "route"
      /\ Grows(walk.at) /\ pending = Missing(doc, walk.at) /\ pending # Empty
      /\ OthersOnce /\ Onward /\ Reported
  BY <1>2 DEF Persisting, WalkPart, WalkState, Growers, Has
<1>4. Rearranged(doc', WriteFirst(doc, Missing(doc, walk.at)))
  BY <1>1, <1>2, <1>3, StoresAgree
<1>5. Missing(doc', walk.at) = Rest(Missing(doc, walk.at)) /\ Extended(doc', doc, walk.at)
  BY <1>2, <1>3, <1>4, MissingRest
<1>6. BackendGraph' /\ WalkPart' /\ OthersOnce' /\ Onward'
  BY <1>1, <1>2, <1>3, <1>5, GraphIsExtended
<1>7. Reference!ReferenceNext
  BY <1>1, <1>2, <1>3, <1>4, PieceStep
<1>8. /\ pending' = Missing(doc', walk.at) /\ Reported' /\ walk'.stage = "route"
      /\ Grows(walk'.at) /\ walk' = walk
  BY <1>1, <1>3, <1>5 DEF Reported
<1>9. pc' = "route" => Mended'
  BY <1>1, <1>8 DEF Mended, Whole
<1>10. BackendInv'
  BY <1>1, <1>6, <1>8, <1>9 DEF BackendInv, Backend
<1> QED BY <1>1, <1>7, <1>10 DEF Walks, KeepsFile

LEMMA BackendFlushes ==
  ASSUME BackendInv, Flush
  PROVE  BackendInv' /\ Walks /\ KeepsFile
<1>1. /\ pc = "flush" /\ files' = <<doc>> /\ pc' = "route"
      /\ UNCHANGED <<embodiment, doc, walk, visited>>
  BY DEF Flush
<1>2. /\ embodiment = "kv" /\ Mended /\ walk.stage = "route" /\ Reported
      /\ OthersOnce /\ Onward /\ BackendGraph /\ WalkPart
  BY <1>1 DEF BackendInv
<1>3. /\ BackendGraph' /\ WalkPart' /\ OthersOnce' /\ Onward' /\ Mended' /\ Reported'
      /\ Walks /\ KeepsFile
  BY <1>1, <1>2 DEF BackendGraph, WalkPart, Has, OthersOnce, Untouched, Left, NoReturn,
    Onward, Mended, Reported, Walks, KeepsFile
<1> QED BY <1>1, <1>2, <1>3 DEF BackendInv, Backend

LEMMA BackendTakesWay ==
  ASSUME BackendInv, BackendRoute
  PROVE  BackendInv' /\ Walks /\ KeepsFile
<1> DEFINE out == Outgoing(doc, walk.at)
           edges == Kept(out, {e \in ToSet(out) : e.relation # "SUPERSEDES"})
           ways == FirstMatch(edges, walk.result)
<1>1. /\ pc = "route"
      /\ walk' = (IF ways = <<>> THEN Over(walk, "done")
                  ELSE MovedTo(walk, Head(ways).target_id))
      /\ pc' = (IF walk'.stage = "done" THEN "ended" ELSE "visit")
      /\ UNCHANGED <<embodiment, doc, files, pending, visited>>
  BY DEF BackendRoute
<1>2. /\ embodiment \in Backend /\ BackendGraph /\ WalkPart /\ walk.stage = "route"
      /\ Reported /\ OthersOnce /\ Onward /\ Mended
      /\ doc \in Document /\ walk \in WalkState
      /\ files = IF embodiment = "inmemory" THEN <<>> ELSE <<doc>>
  BY <1>1 DEF BackendInv, BackendGraph, WalkPart
<1>3. out \in Seq(Edges) /\ ToSet(out) = OutgoingEdges(doc, walk.at)
  BY <1>2, OutgoingOf
<1> HIDE DEF out
<1>4. /\ edges \in Seq(Edges)
      /\ ToSet(edges) = ToSet(out) \cap {e \in ToSet(out) : e.relation # "SUPERSEDES"}
  BY <1>3, KeptElements
<1> HIDE DEF edges
<1>5. /\ ways \in Seq(Edges)
      /\ ToSet(ways) = {e \in ToSet(edges) : e.condition \in {"none", walk.result}}
  BY <1>4, Matching
<1> HIDE DEF ways
<1>6. ToSet(ways) = Open(doc, walk.at, walk.result)
  BY <1>3, <1>4, <1>5 DEF Open
<1>7. ToSet(ways) = {} <=> ways = <<>>
  BY <1>5, ElementsOf
<1>8. KeepsFile
  BY <1>1 DEF KeepsFile
<1>9. CASE ways = <<>>
  <2>1. walk' = Over(walk, "done")
    BY <1>1, <1>9
  <2>2. Reference!ReferenceNext
    BY <1>1, <1>2, <1>6, <1>7, <1>9, <2>1, TakesNoEdge
  <2>3. walk' \in WalkState /\ walk'.stage = "done" /\ walk'.executed = walk.executed
    BY <1>2, <2>1, WalkMoves
  <2>4. BackendGraph' /\ WalkPart' /\ Reported'
    BY <1>1, <1>2, <2>3 DEF BackendGraph, WalkPart, Reported
  <2> QED BY <1>1, <1>2, <1>8, <2>2, <2>3, <2>4 DEF BackendInv, Walks
<1>10. CASE ways # <<>>
  <2> DEFINE e == Head(ways)
  <2>1. e \in ToSet(ways) /\ e \in Edges
    BY <1>5, <1>10, FirstAndRest
  <2>2. walk' = MovedTo(walk, e.target_id)
    BY <1>1, <1>10
  <2> HIDE DEF e
  <2>3. /\ e \in Open(doc, walk.at, walk.result) /\ e \in FullEdges(doc)
        /\ e.source_id = walk.at /\ e.relation # "SUPERSEDES"
    BY <1>6, <2>1 DEF Open, OutgoingEdges, FullEdges
  <2>4. ~Terminal(walk.at)
    BY <1>2, <2>3 DEF BackendGraph
  <2>5. Reference!ReferenceNext
    BY <1>1, <1>2, <2>2, <2>3, <2>4, TakesEdge
  <2>6. /\ walk' \in WalkState /\ walk'.stage = "execute" /\ walk'.at = e.target_id
        /\ walk'.executed = walk.executed
    BY <1>2, <2>1, <2>2, WalkMoves DEF Edges
  <2>7. BackendGraph' /\ WalkPart' /\ Reported' /\ pc' = "visit"
    BY <1>1, <1>2, <2>6 DEF BackendGraph, WalkPart, Reported
  <2>8. \A n, S : S \in Ahead(doc, n) /\ (walk.at \in S \/ n = walk.at) => walk'.at \in S
    BY <2>3, <2>6 DEF Ahead
  <2>9. ASSUME NEW n \in Growers(doc) PROVE Untouched(n)' \/ Left(n)'
    <3>1. CASE n = walk.at
      <4>1. Whole(doc, n) /\ NoReturn(n)
        BY <1>2, <3>1 DEF Mended, Onward, Growers
      <4> QED BY <1>1, <2>8, <3>1, <4>1 DEF Left, NoReturn
    <3>2. CASE n # walk.at
      <4>1. Untouched(n) \/ Left(n)
        BY <1>2, <3>2 DEF OthersOnce
      <4> QED BY <1>1, <2>8, <4>1 DEF Untouched, Left, NoReturn
    <3> QED BY <3>1, <3>2
  <2>10. BackendInv'
    BY <1>1, <1>2, <2>6, <2>7, <2>9 DEF BackendInv
  <2> QED BY <1>8, <2>5, <2>10 DEF Walks
<1> QED BY <1>9, <1>10

LEMMA BackendMoves ==
  ASSUME BackendInv, [BackendNext]_walkVars
  PROVE  BackendInv' /\ Walks /\ KeepsFile
<1>1. CASE BackendRead
  BY <1>1, BackendReads DEF BackendRead, KeepsFile
<1>2. CASE BackendRaises
  <2>1. walk.stage = "execute" /\ WalkPart /\ embodiment \in Backend /\ BackendGraph
    BY <1>2 DEF BackendInv, BackendRaises
  <2>2. Reference!ReferenceNext /\ WalkPart'
    BY <1>2, <2>1, WalkIsOver DEF BackendRaises
  <2> QED BY <1>2, <2>1, <2>2 DEF BackendInv, BackendRaises, BackendGraph, Walks, KeepsFile
<1>3. CASE PersistFile \/ PersistDict \/ PersistTables \/ PersistKeys
  BY <1>3, BackendPersists
<1>4. CASE BackendKilled
  <2>1. walk.stage = "route" /\ WalkPart /\ embodiment \in Backend /\ BackendGraph
    BY <1>4 DEF BackendInv, BackendKilled
  <2>2. Reference!ReferenceNext /\ WalkPart'
    BY <1>4, <2>1, WalkIsOver DEF BackendKilled
  <2> QED BY <1>4, <2>1, <2>2 DEF BackendInv, BackendKilled, BackendGraph, Walks, KeepsFile
<1>5. CASE UNCHANGED walkVars
  BY <1>5 DEF walkVars, BackendInv, BackendGraph, WalkPart, Has, OthersOnce, Untouched,
    Left, NoReturn, Onward, Mended, Reported, Walks, KeepsFile
<1> QED BY <1>1, <1>2, <1>3, <1>4, <1>5, BackendFlushes, BackendPersistsOneFile,
           BackendTakesWay DEF BackendNext, BackendStep

\* In a walk of STUDY-208 the graph never has a part of what a node adds before
\* the walk is at that node, has all of it once the walk has left the node, and
\* the walk is then where no way leads back to it; so write_modification, which
\* does not look at what is there, adds nothing twice.
THEOREM BackendInvariant == BackendSpec => []BackendInv
<1>1. BackendInit => BackendInv
  BY BackendBegins
<1>2. BackendInv /\ [BackendNext]_walkVars => BackendInv'
  BY BackendMoves
<1> QED BY <1>1, <1>2, PTL DEF BackendSpec

\* STUDY-208 implements the reference walk on each of its five backends: persist
\* brings the modification of the node at once or file by file, nothing of it
\* twice, and the walk goes on when all of it is there.
THEOREM BackendWalks == BackendSpec => WalksAsTheGraphSays
<1>1. ASSUME BackendInv, [BackendNext]_walkVars
      PROVE  [Reference!ReferenceNext]_<<doc, walk>>
  BY <1>1, BackendMoves DEF Walks
<1> QED BY <1>1, BackendInvariant, PTL DEF BackendSpec, WalksAsTheGraphSays

\* A walk of STUDY-208 that returns reports the nodes that were executed, in
\* order, and leaves the graph that it walked in what the backend has persisted,
\* also where the keys are flushed after they were changed (execute_walk).
THEOREM BackendReports == BackendSpec => []ReportsAndKeepsTheWalk
<1>1. BackendInv => ReportsAndKeepsTheWalk
  <2> SUFFICES ASSUME BackendInv, pc = "ended" PROVE ReportsAndKeepsTheWalk
    BY DEF ReportsAndKeepsTheWalk
  <2>1. files \in {<<>>, <<doc>>} /\ walk.stage = "done" /\ Reported
    BY DEF BackendInv
  <2>2. files # <<>> => Last(files) = doc
    BY <2>1 DEF Last
  <2> QED BY <2>1, <2>2 DEF ReportsAndKeepsTheWalk, Reported
<1> QED BY <1>1, BackendInvariant, PTL

\* The relational backend of STUDY-208 commits the whole modification of a node
\* or, killed before the commit, leaves its database as it was.
THEOREM BackendFileSurvives == BackendSpec => EarlierFileSurvives
<1> DEFINE Survives ==
      /\ embodiment \in {"single_process", "three_processes", "external_dispatch",
                         "relational"}
           => \A i \in DOMAIN files :
                files'[i] # files[i]
                  => files'[i] # Torn /\ Whole(files'[i], walk.at)
      /\ embodiment = "rerender_new_file" => IsPrefix(files, files')
<1>1. ASSUME BackendInv, [BackendNext]_walkVars
      PROVE  [Survives]_files
  <2>1. KeepsFile
    BY <1>1, BackendMoves
  <2>2. embodiment \in Backend
    BY <1>1 DEF BackendInv
  <2>3. CASE files' = files
    BY <2>3
  <2>4. CASE files = <<doc>> /\ files' = <<doc'>> /\ doc' \in Document /\ Whole(doc', walk.at)
    <3>1. \A i \in DOMAIN files : files'[i] = doc'
      BY <2>4
    <3> QED BY <2>2, <2>4, <3>1, TornAssumption DEF Backend
  <2>5. CASE embodiment # "relational"
    BY <2>2, <2>5 DEF Backend
  <2> QED BY <2>1, <2>3, <2>4, <2>5 DEF KeepsFile
<1> QED BY <1>1, BackendInvariant, PTL DEF BackendSpec, EarlierFileSurvives
=============================================================================
