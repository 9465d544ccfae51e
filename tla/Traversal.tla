----------------------------- MODULE Traversal -----------------------------
(***************************************************************************)
(* What every condition of STUDY-209 shares (baseline_local.py): how a     *)
(* node executes, which edge the agent takes, and the modification it      *)
(* makes.  The relation of an edge and the type of a node play no part in  *)
(* the traversal and are left out.                                         *)
(***************************************************************************)
EXTENDS Integers, Sequences

CONSTANTS
  NodeId,
  Graphs,     \* the starting graphs
  Default     \* the condition of an unconditional edge (Python's None)

\* op is "kind:n", or a kind alone with n = 0.
Op == [kind : {"set", "add", "parity", "self_modify", "finalize"}, n : Nat]
Node == [id : NodeId, op : Op]
Token == {"next", "odd", "even", "modified", "halt"}
Edge == [source : NodeId, target : NodeId, condition : Token \cup {Default}]

ASSUME GraphsAssumption ==
  \A g \in Graphs : g.nodes \subseteq Node /\ g.edges \subseteq Edge
ASSUME NamesAssumption == {"start", "mutate", "audit", "end"} \subseteq NodeId
ASSUME DefaultAssumption == Default \notin Token

Ids(nodes) == {node.id : node \in nodes}
Outgoing(edges, id) == {e \in edges : e.source = id}

-----------------------------------------------------------------------------
(* execute: the routing token and the new accumulator.                     *)

TokenOf(op, acc) ==
  CASE op.kind \in {"set", "add"} -> "next"
    [] op.kind = "parity"         -> IF acc % 2 = 1 THEN "odd" ELSE "even"
    [] op.kind = "self_modify"    -> "modified"
    [] op.kind = "finalize"       -> "halt"

NewAcc(op, acc) ==
  CASE op.kind = "set" -> op.n
    [] op.kind = "add" -> acc + op.n
    [] OTHER           -> acc

\* select_edge, by any of the matching edges where the code takes the first.
Selected(edges, token) ==
  LET matching == {e \in edges : e.condition = token}
  IN  IF matching # {} THEN matching ELSE {e \in edges : e.condition = Default}

\* self_modification.
AddNodes == {[id |-> "audit", op |-> [kind |-> "add", n |-> 5]]}
AddEdges == {[source |-> "mutate", target |-> "audit", condition |-> "modified"],
             [source |-> "audit", target |-> "end", condition |-> Default]}

\* The graphs a walk starts from have a start and an end, no edge into nothing,
\* and the modification as a whole or not at all (graph_initial.json).
ASSUME StartAssumption ==
  \A g \in Graphs :
    /\ {"start", "end"} \subseteq Ids(g.nodes)
    /\ \A e \in g.edges : {e.source, e.target} \subseteq Ids(g.nodes)
    /\ "audit" \in Ids(g.nodes) => AddNodes \subseteq g.nodes /\ AddEdges \subseteq g.edges

\* With the modification, whatever token a node gives selects an edge, except at
\* the end, which is only reached from what the node "mutate" adds.
ASSUME RoutesAssumption ==
  \A g \in Graphs :
    /\ \A e \in g.edges : e.target = "end" => e.source = "audit"
    /\ \A node \in g.nodes \cup AddNodes :
         /\ node.id = "mutate" => node.op.kind = "self_modify"
         /\ node.id # "end" => \A acc \in {0, 1} :
              Selected(Outgoing(g.edges \cup AddEdges, node.id), TokenOf(node.op, acc)) # {}
=============================================================================
