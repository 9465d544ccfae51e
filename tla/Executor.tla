------------------------------ MODULE Executor ------------------------------
(***************************************************************************)
(* GraphExecutor.execute of src/sgs/executor.py with the transforms of     *)
(* src/sgs/transform.py.  execute() sorts once, then runs the nodes in     *)
(* that order on the live graph, which TRANSFORM nodes extend while the    *)
(* run goes on, one add_node or add_edge at a time.                        *)
(*                                                                         *)
(* A value is abstracted to its lineage: the nodes whose values it was     *)
(* computed from.  The arithmetic is not modelled, but which of its inputs *)
(* a node computes with is, and that a computation may raise.              *)
(***************************************************************************)
EXTENDS TopologicalSort

CONSTANTS
  Registered,       \* names in the TransformRegistry; a node's transform_fn
                    \* is the name among its data, if any, and so is the
                    \* operation of an OPERATION or RESULT node
  Copy,             \* node id -> "<id>_copy"
  SummaryId,        \* "summary", summarize's default output_id
  CustomResults,    \* what a registered function of the user's may return
  MaxRuns           \* bound on the number of execute() calls

ASSUME ExecutorAssumption ==
  /\ Copy \in [NodeId -> NodeId]
  /\ SummaryId \in NodeId
  /\ MaxRuns \in Nat
  /\ \A n \in NodeId : <<"transform", n>> \in Creator
  /\ {"OPERAND", "CONCEPT"} \subseteq NodeType
  /\ \A r \in CustomResults : r.nodes \subseteq NodeId \X NodeType /\ r.edges \subseteq Edge

VARIABLES
  step_num,    \* index into order
  outputs,     \* node id -> lineage of its output, {} where there is none
  steps,       \* trace.steps
  result,      \* trace.result: the RESULT node it came from, or NoNode
  pending,     \* what is left to add of the transform's result, and the
               \* inputs gathered before it was called
  planned,     \* history: Dependencies when the sort was made
  runs         \* execute() calls so far

runVars == <<step_num, outputs, steps, result, pending>>
execVars == <<sortVars, runVars, planned, runs>>

Nothing == [nodes |-> {}, edges |-> {}, inputs |-> {}]

Current == order[step_num]

\* _gather_inputs: over FEEDS edges of the live graph, the sources that have
\* an output.
Mut_InputsOverRequires(n) ==
  {m \in NodeId : /\ outputs[m] # {}
                  /\ \E e \in edges : /\ e.source_id = m
                                      /\ e.target_id = n
                                      /\ e.relation = "REQUIRES"}

Inputs(n) ==
  {m \in NodeId : /\ outputs[m] # {}
                  /\ \E e \in edges : /\ e.source_id = m
                                      /\ e.target_id = n
                                      /\ e.relation = "FEEDS"}

\* The registered function a TRANSFORM node names; none means pass-through.
TransformFn(node) ==
  IF node.type = "TRANSFORM" THEN node.data \cap Registered ELSE {}

\* What a registered function returns; nodes are <<id, type>> pairs.
TransformResults(name, inputs) ==
  CASE name = "duplicate" ->
         {[nodes |-> {<<Copy[m], "OPERAND">> : m \in inputs}, edges |-> {}]}
    [] name = "summarize" ->
         {[nodes |-> {<<SummaryId, "CONCEPT">>}, edges |-> {}]}
    [] OTHER -> CustomResults

FeedsInPlan(n) ==
  {e.source_id : e \in {f \in planned : f.relation = "FEEDS" /\ f.target_id = n}}

\* The operations other than identity, which is what any other name means.
OPERATIONS == {"add", "subtract", "multiply", "compare", "filter", "aggregate"}

\* Which of its inputs a node computes with.  subtract is content with one where
\* there are no two, compare is not.  An applied transform returns created ids.
Uses(node) ==
  CASE node.type = "OPERAND" -> "none"
    [] node.type = "BRANCH" -> "first"
    [] node.type = "MERGE" -> "all"
    [] node.type = "TRANSFORM" -> IF TransformFn(node) = {} THEN "all" ELSE "none"
    [] node.data \cap {"add", "multiply", "aggregate"} # {} -> "all"
    [] "subtract" \in node.data -> "two"
    [] "compare" \in node.data -> "both"
    [] OTHER -> "first"

Several(S) == \E m, k \in S : m # k

Mut_HeadsNewest(n, inputs) ==
  IF inputs \ FeedsInPlan(n) = {} THEN inputs ELSE inputs \ FeedsInPlan(n)

\* What may come first among the inputs.  They are in the order of graph.edges:
\* the edges there were when the order was made before those added since, and
\* the former in any order.
Heads(n, inputs) ==
  IF inputs \cap FeedsInPlan(n) = {} THEN inputs ELSE inputs \cap FeedsInPlan(n)

FirstOf(n, inputs) ==
  IF inputs = {} THEN {{}} ELSE {{m} : m \in Heads(n, inputs)}

FirstTwo(n, inputs) ==
  IF inputs = {} THEN {{}}
  ELSE UNION {{{m} \cup others : others \in FirstOf(n, inputs \ {m})} : m \in Heads(n, inputs)}

\* The inputs that go into the output, one set for every order they may be in.
Taken(n, inputs) ==
  CASE Uses(nodes[n]) = "all" -> {inputs}
    [] Uses(nodes[n]) = "first" -> FirstOf(n, inputs)
    [] Uses(nodes[n]) = "two" \/ (Uses(nodes[n]) = "both" /\ Several(inputs)) -> FirstTwo(n, inputs)
    [] OTHER -> {{}}

-----------------------------------------------------------------------------
ExecInit ==
  /\ SortInit
  /\ step_num = 1
  /\ outputs = [n \in NodeId |-> {}]
  /\ steps = <<>>
  /\ result = NoNode
  /\ pending = Nothing
  /\ planned = {}
  /\ runs = 0

\* A call of execute(): a fresh trace, fresh outputs, and the sort.
Execute ==
  /\ runs < MaxRuns
  /\ BeginSort
  /\ step_num' = 1
  /\ outputs' = [n \in NodeId |-> {}]
  /\ steps' = <<>>
  /\ result' = NoNode
  /\ pending' = Nothing
  /\ planned' = Dependencies
  /\ runs' = runs + 1

Sort ==
  /\ Visit \/ EndSort
  /\ UNCHANGED <<runVars, planned, runs>>

\* The end of the loop's body: the output is stored, the step recorded, and a
\* RESULT node's output replaces the result of an earlier one.
FinishStep(inputs) ==
  /\ \E taken \in Taken(Current, inputs) :
       outputs' = [outputs EXCEPT ![Current] = {Current} \cup UNION {outputs[m] : m \in taken}]
  /\ steps' = Append(steps, [order |-> step_num - 1, node_id |-> Current,
                             inputs |-> inputs])
  /\ result' = IF nodes[Current].type = "RESULT" THEN Current ELSE result
  /\ step_num' = step_num + 1

ExecuteNode ==
  /\ phase = "sorted"
  /\ step_num <= Len(order)
  /\ TransformFn(nodes[Current]) = {}
  /\ FinishStep(Inputs(Current))
  /\ UNCHANGED <<sortVars, pending, planned, runs>>

\* An operation raises on values it is not defined for, such as the list of a
\* MERGE, and a transform function on whatever it does not expect; duplicate
\* expects anything.
ComputationRaises ==
  /\ phase = "sorted"
  /\ step_num <= Len(order)
  /\ \/ /\ nodes[Current].type \in {"OPERATION", "RESULT"}
        /\ nodes[Current].data \cap OPERATIONS # {}
        /\ Inputs(Current) # {}
     \/ TransformFn(nodes[Current]) \ {"duplicate"} # {}
  /\ phase' = "raised"
  /\ UNCHANGED <<nodes, edges, in_degree, queue, order, runVars, planned, runs>>

BeginTransform ==
  /\ phase = "sorted"
  /\ step_num <= Len(order)
  /\ \E name \in TransformFn(nodes[Current]) :
       \E r \in TransformResults(name, Inputs(Current)) :
         pending' = [nodes |-> r.nodes, edges |-> r.edges,
                     inputs |-> Inputs(Current)]
  /\ phase' = "transforming"
  /\ UNCHANGED <<nodes, edges, in_degree, queue, order, step_num, outputs,
                 steps, result, planned, runs>>

\* A new node or edge is stamped with the transform that made it.
Stamp == <<"transform", Current>>

Stamped(pair) == [type |-> pair[2], data |-> {}, created_by |-> Stamp]

\* The transform's nodes first, one at a time, in the order of its list.
ApplyNode ==
  /\ phase = "transforming"
  /\ \E pair \in pending.nodes :
       /\ AddNode(pair[1], Stamped(pair))
       /\ pending' = [pending EXCEPT !.nodes = @ \ {pair}]
  /\ UNCHANGED <<phase, in_degree, queue, order, step_num, outputs, steps,
                 result, planned, runs>>

Mut_ApplyEdgeUnchecked ==
  /\ phase = "transforming"
  /\ pending.nodes = {}
  /\ \E e \in pending.edges :
       /\ edges' = edges \cup {[e EXCEPT !.created_by = Stamp]}
       /\ nodes' = nodes
       /\ pending' = [pending EXCEPT !.edges = @ \ {e}]
  /\ UNCHANGED <<phase, in_degree, queue, order, step_num, outputs, steps,
                 result, planned, runs>>

ApplyEdge ==
  /\ phase = "transforming"
  /\ pending.nodes = {}
  /\ \E e \in pending.edges :
       /\ AddEdge([e EXCEPT !.created_by = Stamp])
       /\ pending' = [pending EXCEPT !.edges = @ \ {e}]
  /\ UNCHANGED <<phase, in_degree, queue, order, step_num, outputs, steps,
                 result, planned, runs>>

Mut_TransformRetriesForever ==
  /\ phase = "transforming"
  /\ \/ \E pair \in pending.nodes : Exists(pair[1])
     \/ pending.nodes = {} /\ \E e \in pending.edges : ~EdgeAccepted(e)
  /\ UNCHANGED execVars

\* add_node or add_edge raises ValueError: it leaves execute(), which returns no
\* trace and undoes nothing of what was added before.
TransformRaises ==
  /\ phase = "transforming"
  /\ \/ \E pair \in pending.nodes : Exists(pair[1])
     \/ pending.nodes = {} /\ \E e \in pending.edges : ~EdgeAccepted(e)
  /\ phase' = "raised"
  /\ UNCHANGED <<nodes, edges, in_degree, queue, order, runVars, planned, runs>>

EndTransform ==
  /\ phase = "transforming"
  /\ pending.nodes = {} /\ pending.edges = {}
  /\ FinishStep(pending.inputs)
  /\ phase' = "sorted"
  /\ pending' = Nothing
  /\ UNCHANGED <<nodes, edges, in_degree, queue, order, planned, runs>>

Return ==
  /\ phase = "sorted"
  /\ step_num > Len(order)
  /\ phase' = "done"
  /\ UNCHANGED <<nodes, edges, in_degree, queue, order, runVars, planned, runs>>

\* The caller may execute the graph again, as the last run left it.
Again ==
  /\ phase \in {"done", "cycle", "raised"}
  /\ runs < MaxRuns
  /\ phase' = "idle"
  /\ UNCHANGED <<nodes, edges, in_degree, queue, order, runVars, planned, runs>>

RunStep ==
  \/ Sort
  \/ ExecuteNode
  \/ ComputationRaises
  \/ BeginTransform
  \/ ApplyNode
  \/ ApplyEdge
  \/ TransformRaises
  \/ EndTransform
  \/ Return

ExecNext == Execute \/ Again \/ RunStep

\* A call that has begun runs on; nobody has to call execute().
ExecSpec == ExecInit /\ [][ExecNext]_execVars /\ WF_execVars(RunStep)

-----------------------------------------------------------------------------
(* Properties.                                                             *)

\* Type invariant of the run's variables.
ExecTypeOK ==
  /\ phase \in {"idle", "sorting", "sorted", "transforming", "raised", "cycle", "done"}
  /\ step_num \in 1..(Len(order) + 1)
  /\ outputs \in [NodeId -> SUBSET NodeId]
  /\ result \in NodeId \cup {NoNode}
  /\ pending.edges \subseteq Edge
  /\ planned \subseteq Edge
  /\ runs \in 0..MaxRuns

\* Although the graph grows under the run, every node of the order is executed
\* once, in order, and is given the output of every node that fed it when the
\* order was made (executor.py:245-250): a node is never run before a planned
\* input exists, and nothing is taken from a node that has not run.
TraceFollowsPlan ==
  /\ \A i \in 1..Len(steps) :
       /\ steps[i].node_id = order[i]
       /\ steps[i].order = i - 1
       /\ FeedsInPlan(order[i]) \subseteq steps[i].inputs
       /\ steps[i].inputs \subseteq {order[j] : j \in 1..(i - 1)}
  /\ phase = "done" => Len(steps) = Len(order)

\* What a node computes with reached it: the values of all its planned inputs
\* where it takes them all, and otherwise those of one or two of them.
ValuesArrive(n) ==
  LET fed == FeedsInPlan(n)
  IN  /\ Uses(nodes[n]) = "all" => \A m \in fed : outputs[m] \subseteq outputs[n]
      /\ Uses(nodes[n]) = "first" /\ fed # {} => \E m \in fed : outputs[n] = {n} \cup outputs[m]
      /\ Uses(nodes[n]) \in {"two", "both"} /\ Several(fed) =>
           \E m, k \in fed : m # k /\ outputs[n] = {n} \cup outputs[m] \cup outputs[k]

\* At the end of a run every node that combines its inputs has the values of all
\* its planned ones, and one that takes the first or the first two has planned
\* ones: an edge that a transform added meanwhile never takes their place
\* (executor.py:112-122, 125-207).  The trace's result is that of the last RESULT
\* node of the order (executor.py:279-280).
ResultsComplete ==
  phase = "done" =>
    /\ \A i \in 1..Len(order) : ValuesArrive(order[i])
    /\ \A i \in 1..Len(order) : nodes[order[i]].type = "RESULT" =>
         \E j \in i..Len(order) : result = order[j]

\* A graph that a run has left behind, whether it ended well, failed on a cycle
\* or raised between two additions, is still one that add_edge could have built
\* (graph.py:133-145).
RunsKeepIntegrity == GraphIntegrity

\* Every call of execute() comes to an end although transforms add executable
\* nodes while it runs: the order is fixed before the first node (executor.py:245).
ExecutionEnds ==
  phase = "sorting" ~> phase \in {"done", "cycle", "raised"}
=============================================================================
