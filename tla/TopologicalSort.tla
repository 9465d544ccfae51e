-------------------------- MODULE TopologicalSort --------------------------
(***************************************************************************)
(* Kahn's algorithm as _topological_sort of src/sgs/executor.py runs it    *)
(* over an SGS: the loop, one action per node taken from the queue.  The   *)
(* code breaks ties between nodes that become ready together by sorting    *)
(* their ids; here they enter the queue in any order, so what is shown     *)
(* does not depend on how ids compare.                                     *)
(***************************************************************************)
EXTENDS SGSGraph, Sequences, FiniteSets

CONSTANT InitialGraphs   \* the graphs handed to the executor

\* Each of them holds finitely many nodes and was built by add_node and add_edge.
ASSUME InitialGraphsAssumption ==
  /\ IsFiniteSet(NodeId)
  /\ \A g \in InitialGraphs :
       /\ g.nodes \in [NodeId -> Node \cup {NoNode}]
       /\ g.edges \subseteq Edge /\ IsFiniteSet(g.edges)
       /\ \A e \in g.edges : g.nodes[e.source_id] # NoNode /\ g.nodes[e.target_id] # NoNode
       /\ \A e, f \in g.edges : EdgeKey(e) = EdgeKey(f) => e = f

VARIABLES
  phase,       \* where execute() is; "sorted" and "cycle" end the sort
  in_degree,   \* unvisited dependencies of each node, counted per edge
  queue,       \* nodes whose dependencies have all been visited
  order        \* the result

sortVars == <<nodes, edges, phase, in_degree, queue, order>>

DEPENDENCY_RELATIONS == {"FEEDS", "REQUIRES"}

EXECUTABLE_TYPES ==
  {"OPERAND", "OPERATION", "RESULT", "TRANSFORM", "BRANCH", "MERGE"}

ExecNodes == {n \in NodeId : Exists(n) /\ nodes[n].type \in EXECUTABLE_TYPES}

\* The edges that order execution: both relations count, and a FEEDS and a
\* REQUIRES edge between the same nodes count twice.
Dependencies ==
  {e \in edges : /\ e.relation \in DEPENDENCY_RELATIONS
                 /\ e.source_id \in ExecNodes
                 /\ e.target_id \in ExecNodes}

Into(m) == {e \in Dependencies : e.target_id = m}

Between(n, m) == {e \in Into(m) : e.source_id = n}

Elements(s) == {s[i] : i \in 1..Len(s)}

\* All ways to list a set without repetition.
Orderings(S) ==
  {s \in [1..Cardinality(S) -> S] :
     /\ {s[i] : i \in 1..Cardinality(S)} = S
     /\ \A i, j \in 1..Cardinality(S) : s[i] = s[j] => i = j}

SortInit ==
  /\ \E g \in InitialGraphs : nodes = g.nodes /\ edges = g.edges
  /\ phase = "idle"
  /\ in_degree = [n \in NodeId |-> 0]
  /\ queue = <<>>
  /\ order = <<>>

\* in_degree counts every dependency edge; nodes without any start the queue.
BeginSort ==
  /\ phase = "idle"
  /\ phase' = "sorting"
  /\ in_degree' = [n \in NodeId |-> Cardinality(Into(n))]
  /\ queue' \in Orderings({n \in ExecNodes : Into(n) = {}})
  /\ order' = <<>>
  /\ UNCHANGED graphVars

Mut_VisitQueuesAllDependents ==
  /\ phase = "sorting" /\ queue # <<>>
  /\ LET n == Head(queue)
         dependents == {m \in ExecNodes : Between(n, m) # {}} \ Elements(queue \o order)
     IN  /\ order' = Append(order, n)
         /\ in_degree' = [m \in NodeId |-> in_degree[m] - Cardinality(Between(n, m))]
         /\ \E s \in Orderings(dependents) : queue' = Tail(queue) \o s
  /\ UNCHANGED <<nodes, edges, phase>>

Mut_VisitDecrementsOnce ==
  /\ phase = "sorting" /\ queue # <<>>
  /\ LET n == Head(queue)
         dependents == {m \in ExecNodes : Between(n, m) # {}}
     IN  /\ order' = Append(order, n)
         /\ in_degree' = [m \in NodeId |->
              IF m \in dependents THEN in_degree[m] - 1 ELSE in_degree[m]]
         /\ \E s \in Orderings({m \in dependents : in_degree'[m] = 0}) :
              queue' = Tail(queue) \o s
  /\ UNCHANGED <<nodes, edges, phase>>

\* One turn of the while loop: take a node, decrement its dependents once per
\* edge, and queue those whose count reached zero.
Visit ==
  /\ phase = "sorting" /\ queue # <<>>
  /\ LET n == Head(queue)
         dependents == {m \in ExecNodes : Between(n, m) # {}}
     IN  /\ order' = Append(order, n)
         /\ in_degree' = [m \in NodeId |-> in_degree[m] - Cardinality(Between(n, m))]
         /\ \E s \in Orderings({m \in dependents : in_degree'[m] = 0}) :
              queue' = Tail(queue) \o s
  /\ UNCHANGED <<nodes, edges, phase>>

\* len(order) != len(exec_nodes) is how a cycle is noticed.
EndSort ==
  /\ phase = "sorting" /\ queue = <<>>
  /\ phase' = IF Len(order) = Cardinality(ExecNodes) THEN "sorted" ELSE "cycle"
  /\ UNCHANGED <<nodes, edges, in_degree, queue, order>>

SortStep == BeginSort \/ Visit \/ EndSort

SortSpec == SortInit /\ [][SortStep]_sortVars /\ WF_sortVars(SortStep)

-----------------------------------------------------------------------------
(* Properties.                                                             *)

\* Type invariant of the sort's variables.
SortTypeOK ==
  /\ phase \in {"idle", "sorting", "sorted", "cycle"}
  /\ in_degree \in [NodeId -> Nat]
  /\ queue \in Seq(ExecNodes)
  /\ order \in Seq(ExecNodes)

\* Reference definition of a cycle: a non-empty set of nodes each of which
\* depends on a node of the set.
HasCycle ==
  \E S \in SUBSET ExecNodes :
    /\ S # {}
    /\ \A m \in S : \E n \in S : Between(n, m) # {}

\* Nothing is listed before what it depends on, listed twice, or both listed and
\* waiting, at any turn of the loop (executor.py:94-100), also where a FEEDS and
\* a REQUIRES edge run in parallel and count twice.
OrderRespectsDependencies ==
  phase = "sorting" =>
    /\ \A i, j \in 1..Len(order) : order[i] = order[j] => i = j
    /\ Elements(order) \cap Elements(queue) = {}
    /\ \A e \in Dependencies : \A i \in 1..Len(order) :
         order[i] = e.target_id => \E j \in 1..(i - 1) : order[j] = e.source_id

\* When the loop ends, the sort gives up exactly on the graphs with a dependency
\* cycle and otherwise has listed every executable node: comparing two lengths
\* (executor.py:102) is right only if every node outside a cycle's reach, and
\* none within it, gets listed.
CycleDetectedExactly ==
  [][phase = "sorting" /\ phase' # "sorting" =>
       IF HasCycle THEN phase' = "cycle"
       ELSE phase' = "sorted" /\ Elements(order') = ExecNodes]_sortVars
=============================================================================
