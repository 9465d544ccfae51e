----------------------------- MODULE MCExecutor -----------------------------
(* An operand, two TRANSFORM nodes (t2 is a second RESULT when it names no *)
(* transform) and a RESULT with every combination of the FEEDS edges       *)
(* between them that matters, a REQUIRES edge or not, and each builtin, a  *)
(* custom transform or none in the TRANSFORM nodes; and every graph over    *)
(* three nodes for the sort alone; and graphs whose nodes take all, one,   *)
(* two or none of their inputs.  Two calls of execute(), so that a run     *)
(* meets what the last one added.                                          *)
EXTENDS Executor
CONSTANTS op, t1, t2, res, op_copy, t1_copy, t2_copy, res_copy, summary, extra

MCNodeId == {op, t1, t2, res, op_copy, t1_copy, t2_copy, res_copy, summary, extra}
MCNodeType == {"OPERAND", "OPERATION", "BRANCH", "MERGE", "TRANSFORM", "RESULT", "CONCEPT"}
MCRelation == {"FEEDS", "REQUIRES", "MENTIONS"}
Setup == <<"setup">>
MCCreator == {Setup} \cup ({"transform"} \X MCNodeId)
MCKey == {"duplicate", "summarize", "custom", "unregistered", "add", "subtract", "compare"}
MCRegistered == {"duplicate", "summarize", "custom"}
MCMaxRuns == 2

MCCopy == [n \in MCNodeId |->
  CASE n = op -> op_copy [] n = t1 -> t1_copy [] n = t2 -> t2_copy
    [] n = res -> res_copy [] OTHER -> extra]

Link(s, r, t) ==
  [source_id |-> s, target_id |-> t, relation |-> r, created_by |-> Setup]

\* A custom transform may add a node with an edge, add an edge into a node that
\* has run already, add an input to a node that has planned ones, or return an
\* edge to a node that does not exist.
MCCustomResults ==
  {[nodes |-> {<<extra, "OPERAND">>}, edges |-> {Link(extra, "FEEDS", res)}],
   [nodes |-> {}, edges |-> {Link(res, "FEEDS", op)}],
   [nodes |-> {}, edges |-> {Link(op, "FEEDS", res)}],
   [nodes |-> {<<extra, "CONCEPT">>}, edges |-> {Link(summary, "FEEDS", res)}]}

InitialNodes(d1, d2) == [n \in MCNodeId |->
  IF n \in {op, t1, t2, res}
  THEN [type |-> CASE n = op -> "OPERAND"
                  [] n = res \/ (n = t2 /\ d2 = {}) -> "RESULT"
                  [] OTHER -> "TRANSFORM",
        data |-> CASE n = t1 -> d1 [] n = t2 -> d2 [] OTHER -> {},
        created_by |-> Setup]
  ELSE NoNode]

TransformGraphs ==
  {[nodes |-> InitialNodes(d1, d2),
    edges |-> {Link(p[1], "FEEDS", p[2]) : p \in feeds} \cup requires] :
     d1 \in {{"duplicate"}, {"summarize"}, {"custom"}, {"unregistered"}},
     d2 \in {{"duplicate"}, {"summarize"}, {}},
     feeds \in SUBSET {<<op, t1>>, <<t1, t2>>, <<t2, res>>, <<t1, res>>, <<res, t1>>},
     requires \in {{}, {Link(op, "REQUIRES", t2)}}}

\* Every FEEDS graph over three executable nodes, self loops included, with
\* REQUIRES edges in parallel or on their own, and a CONCEPT node whose edges
\* must not count.
SortNodes == [n \in MCNodeId |->
  IF n \in {op, t1, res, extra}
  THEN [type |-> CASE n = extra -> "CONCEPT" [] n = res -> "RESULT" [] OTHER -> "OPERAND",
        data |-> {}, created_by |-> Setup]
  ELSE NoNode]

SortGraphs ==
  {[nodes |-> SortNodes,
    edges |-> {Link(p[1], "FEEDS", p[2]) : p \in feeds}
                \cup {Link(p[1], "REQUIRES", p[2]) : p \in requires}
                \cup {Link(extra, "FEEDS", op), Link(t1, "MENTIONS", op)}] :
     feeds \in SUBSET ({op, t1, res} \X {op, t1, res}),
     requires \in SUBSET {<<op, t1>>, <<t1, res>>}}

\* A transform that extends the graph, a node of each kind that takes inputs,
\* and a RESULT that takes all, one, two or none of those that feed it.
OperationNodes(kind, d) == [n \in MCNodeId |->
  IF n \in {op, t1, t2, res}
  THEN [type |-> CASE n = op -> "OPERAND" [] n = t1 -> "TRANSFORM"
                  [] n = t2 -> kind [] OTHER -> "RESULT",
        data |-> CASE n = t1 -> {"custom"} [] n = res -> d
                  [] n = t2 /\ kind = "OPERATION" -> {"add"} [] OTHER -> {},
        created_by |-> Setup]
  ELSE NoNode]

OperationGraphs ==
  {[nodes |-> OperationNodes(kind, d),
    edges |-> {Link(p[1], "FEEDS", p[2]) : p \in feeds \cup {<<op, t2>>}}] :
     kind \in {"OPERATION", "BRANCH", "MERGE"},
     d \in {{}, {"add"}, {"subtract"}, {"compare"}},
     feeds \in SUBSET {<<t1, t2>>, <<t1, res>>, <<t2, res>>}}

MCInitialGraphs == TransformGraphs \cup SortGraphs \cup OperationGraphs
=============================================================================
