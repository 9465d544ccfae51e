----------------------------- MODULE WalkGraph -----------------------------
(***************************************************************************)
(* The self-modifying graphs of STUDY-203 to STUDY-208, and what executing *)
(* a node means: its result selects the outgoing edge, and a growing node  *)
(* brings the nodes and edges that it adds.  A document is the list of     *)
(* nodes and the list of edges in a file, a table or a process's memory;   *)
(* what a node contains is determined by its id.                           *)
(***************************************************************************)
EXTENDS Lists

CONSTANTS
  NodeId,
  Op,            \* node -> what executing it does
  Amount,        \* node -> the value, or the threshold, in its data
  Growth,        \* growing node -> the document of what it adds
  Relation,
  Condition,     \* "none" and what edges may require of a result
  IdOrder,       \* node -> rank of its id in the order of strings
  MaxSteps       \* the limit on the steps of a walk (100, 1000 or 64)

Growing == {"self_modify", "mutate", "supersede"}

Edges ==
  [source_id : NodeId, relation : Relation, target_id : NodeId, condition : Condition]
Document == [nodes : Seq(NodeId), edges : Seq(Edges)]

ASSUME GrowthAssumption ==
  \A n \in NodeId : Op[n] \in Growing => n \in DOMAIN Growth /\ Growth[n] \in Document
ASSUME MaxStepsAssumption == MaxSteps \in Nat
ASSUME AmountAssumption == Amount \in [NodeId -> Int]
ASSUME IdOrderAssumption == IdOrder \in [NodeId -> Nat]

Edge(source, relation, target, condition) ==
  [source_id |-> source, relation |-> relation, target_id |-> target,
   condition |-> condition]

Empty == [nodes |-> <<>>, edges |-> <<>>]
Has(d, n) == n \in ToSet(d.nodes)
Outgoing(d, n) == Kept(d.edges, {e \in ToSet(d.edges) : e.source_id = n})
Merge(d, e) == [nodes |-> d.nodes \o e.nodes, edges |-> d.edges \o e.edges]

\* The accumulator after executing n, and the result of that execution; the
\* results that no condition tests are "ok".
Accumulate(n, acc) ==
  CASE Op[n] = "init" -> 0
    [] Op[n] = "set" -> Amount[n]
    [] Op[n] = "add" -> acc + Amount[n]
    [] OTHER -> acc

Result(n, acc) ==
  CASE Op[n] = "classify" -> IF acc >= Amount[n] THEN "high" ELSE "low"
    [] Op[n] = "parity" -> IF acc % 2 = 0 THEN "even" ELSE "odd"
    [] Op[n] = "finalize" -> "done"
    [] Op[n] = "mutate" -> "audit"
    [] Op[n] = "supersede" -> "v2"
    [] OTHER -> "ok"

Grows(n) == Op[n] \in Growing
Terminal(n) == Op[n] = "finalize"

\* What d lacks of what n adds.
Missing(d, n) ==
  [nodes |-> Kept(Growth[n].nodes, ToSet(Growth[n].nodes) \ ToSet(d.nodes)),
   edges |-> Kept(Growth[n].edges, ToSet(Growth[n].edges) \ ToSet(d.edges))]

Whole(d, n) == Missing(d, n) = Empty

\* A modification written one node or edge at a time: d with the first of p,
\* and the rest of p.
WriteFirst(d, p) ==
  IF p.nodes # <<>> THEN [d EXCEPT !.nodes = Append(@, Head(p.nodes))]
  ELSE [d EXCEPT !.edges = Append(@, Head(p.edges))]
Rest(p) ==
  IF p.nodes # <<>> THEN [p EXCEPT !.nodes = Tail(@)] ELSE [p EXCEPT !.edges = Tail(@)]

\* The edges a result may take: without a condition, or with this one.
Eligible(edges, result) ==
  Kept(edges, {e \in ToSet(edges) : e.condition \in {"none", result}})

-----------------------------------------------------------------------------
(* A walk: where it is, the agent's accumulator and last result, and the   *)
(* nodes executed so far.                                                  *)

Start(n) ==
  [at |-> n, acc |-> 0, result |-> "ok", executed |-> <<>>, stage |-> "execute"]

Executed(w) ==
  [w EXCEPT !.acc = Accumulate(w.at, w.acc),
            !.result = Result(w.at, Accumulate(w.at, w.acc)),
            !.executed = Append(@, w.at),
            !.stage = "route"]

MovedTo(w, n) == [w EXCEPT !.at = n, !.stage = "execute"]
Over(w, outcome) == [w EXCEPT !.stage = outcome]

LimitReached(w) == w.stage = "execute" /\ Len(w.executed) >= MaxSteps
=============================================================================
