--------------------------- MODULE ReferenceWalk ---------------------------
(***************************************************************************)
(* The walk a self-modifying graph prescribes, which STUDY-203 to 208      *)
(* embody each in its own way: execute the node, let it extend the graph,  *)
(* take an edge on its result.  A modification may arrive piece by piece;  *)
(* an edge may be taken only when all of it is there.  The order of the    *)
(* lists in a document is not part of the graph.                           *)
(***************************************************************************)
EXTENDS WalkGraph

VARIABLES doc, walk

referenceVars == <<doc, walk>>

Same(s, t) == Len(s) = Len(t) /\ ToSet(s) = ToSet(t)

Execute ==
  /\ walk.stage = "execute" /\ ~LimitReached(walk)
  /\ Has(doc, walk.at)
  /\ walk' = Executed(walk)
  /\ UNCHANGED doc

\* Some of what is missing, nodes before edges; nothing else, and nothing twice.
Modify ==
  /\ walk.stage = "route" /\ Grows(walk.at)
  /\ LET missing == Missing(doc, walk.at)
     IN  \E i \in 0..Len(missing.nodes), j \in 0..Len(missing.edges) :
           /\ j > 0 => i = Len(missing.nodes)
           /\ Same(doc'.nodes, doc.nodes \o SubSeq(missing.nodes, 1, i))
           /\ Same(doc'.edges, doc.edges \o SubSeq(missing.edges, 1, j))
  /\ UNCHANGED walk

\* A SUPERSEDES edge is structure, not control flow.
Ways ==
  {e \in ToSet(Eligible(Outgoing(doc, walk.at), walk.result)) : e.relation # "SUPERSEDES"}

Route ==
  /\ walk.stage = "route"
  /\ Grows(walk.at) => Whole(doc, walk.at)
  /\ \/ ~Terminal(walk.at) /\ \E e \in Ways : walk' = MovedTo(walk, e.target_id)
     \/ (Terminal(walk.at) \/ Ways = {}) /\ walk' = Over(walk, "done")
  /\ UNCHANGED doc

\* At the limit, or at a node that is not there.
Stop ==
  /\ walk.stage = "execute"
  /\ LimitReached(walk) \/ ~Has(doc, walk.at)
  /\ walk' = Over(walk, "done")
  /\ UNCHANGED doc

Fail ==
  /\ walk.stage \in {"execute", "route"}
  /\ walk' = Over(walk, "failed")
  /\ UNCHANGED doc

ReferenceNext == Execute \/ Modify \/ Route \/ Stop \/ Fail
=============================================================================
