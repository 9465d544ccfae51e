--------------------------- MODULE NestedExecutor ---------------------------
(***************************************************************************)
(* STUDY-107: nested_graph.py and hierarchy_executor.py.  A SUBGRAPH node  *)
(* stands for the graph in another file; executing it executes that graph  *)
(* in a scope of its own.  An exception in a subgraph ends its scope and   *)
(* is swallowed; one in the root graph ends the execution.                 *)
(***************************************************************************)
EXTENDS Integers, Sequences, FiniteSets, SequencesExt, Lists

CONSTANTS
  Graphs,        \* file -> [nodes, edges]; nodes in the order of the file
  Roots          \* the files that are executed

VARIABLES
  frames,        \* the calls of _execute_graph: path, file, the open calls of visit, the
                 \* order so far, how many of it have run, local results
  contexts,      \* context_stack: the paths of its contexts
  trace,         \* the paths of the nodes, in the order of the trace
  results,       \* path -> result, of the nodes that have one
  outcome        \* of execute: "none" yet, "returned" or "raised"

executorVars == <<frames, contexts, trace, results, outcome>>

Ids(graph) == {graph.nodes[i].id : i \in DOMAIN graph.nodes}
GetNode(graph, id) ==
  graph.nodes[CHOOSE i \in DOMAIN graph.nodes : graph.nodes[i].id = id]

Ordering == {"REQUIRES", "DEPENDS_ON", "LEADS_TO"}

\* The dependencies of _get_execution_order that are in the graph.
Mut_DependencyOnFollowers(graph, id) ==
  {graph.edges[i].to_id : i \in {j \in DOMAIN graph.edges :
     graph.edges[j].from_id = id /\ graph.edges[j].relation \in Ordering}}
  \cap Ids(graph)

Dependency(graph, id) ==
  {graph.edges[i].from_id : i \in {j \in DOMAIN graph.edges :
     graph.edges[j].to_id = id /\ graph.edges[j].relation \in Ordering}}
  \cap Ids(graph)

-----------------------------------------------------------------------------
(* The handlers.  A value is a number, a string, of which only remains     *)
(* whether it has characters, or something else.                           *)

Number(n) == [kind |-> "number", value |-> n]
Text(written) == [kind |-> "text", value |-> written]
Other(what) == [kind |-> "other", value |-> what]
Nothing == Other("none")
Raised == Other("raised")

Truth(v) ==
  CASE v.kind = "number" -> v.value # 0
    [] v.kind = "text" -> v.value
    [] OTHER -> v # Nothing
Numeric(values) == \A i \in DOMAIN values : values[i].kind = "number"
Sum(values) == Number(FoldLeft(LAMBDA total, v : total + v.value, 0, values))

\* A string times a number is the string so many times.
Times(x, y) ==
  CASE x.kind = "number" /\ y.kind = "number" -> Number(x.value * y.value)
    [] x.kind = "number" /\ y.kind = "text" -> Text(x.value > 0 /\ y.value)
    [] x.kind = "text" /\ y.kind = "number" -> Text(x.value /\ y.value > 0)
    [] OTHER -> Raised
Product(values) == FoldLeft(Times, Number(1), values)

\* What has come along the edges to a node, in their order.
Inputs(graph, local, id, relations) ==
  LET along == Kept(graph.edges, {e \in ToSet(graph.edges) :
                 e.to_id = id /\ e.relation \in relations /\ e.from_id \in DOMAIN local})
  IN  [i \in DOMAIN along |-> local[along[i].from_id]]

FirstOf(values) == IF values = <<>> THEN Nothing ELSE Head(values)

Operation(operation, values) ==
  CASE operation = "add" /\ Len(values) >= 2 ->
         IF Numeric(values) THEN Sum(values) ELSE Raised
    [] operation = "multiply" /\ Len(values) >= 2 -> Product(values)
    [] operation = "validate" ->
         Number(IF \A i \in DOMAIN values : Truth(values[i]) THEN 1 ELSE 0)
    [] OTHER -> FirstOf(values)

Relations(graph) == {graph.edges[i].relation : i \in DOMAIN graph.edges}

Handle(graph, local, node) ==
  CASE node.type = "OPERAND" -> Number(node.data)
    [] node.type = "OPERATION" ->
         Operation(node.data, Inputs(graph, local, node.id, {"REQUIRES"}))
    [] node.type = "RESULT" ->
         FirstOf(Inputs(graph, local, node.id, Relations(graph)))
    [] node.type \in {"CONCEPT", "DECISION"} -> Text(TRUE)
    [] OTHER -> Other("done")

-----------------------------------------------------------------------------
(* The hierarchy.                                                          *)

\* The nodes for which load_subgraph finds a graph.
Loadable(file) ==
  {id \in Ids(Graphs[file]) : LET node == GetNode(Graphs[file], id)
                              IN  node.type = "SUBGRAPH" /\ node.data \in DOMAIN Graphs}

\* The scopes so many levels below a root: <<path, file>>.
ScopesAt(root, depth) ==
  LET scopes[d \in 0..depth] ==
        IF d = 0 THEN {<<<<>>, root>>}
        ELSE UNION {{<<Append(s[1], id), GetNode(Graphs[s[2]], id).data>> :
                       id \in Loadable(s[2])} : s \in scopes[d - 1]}
  IN  scopes[depth]

Scopes == [root \in Roots |-> UNION {ScopesAt(root, d) : d \in 0..Cardinality(DOMAIN Graphs)}]

\* flatten: the paths of all nodes, those of the subgraphs under their own.
Flatten(root) == UNION {{Append(s[1], id) : id \in Ids(Graphs[s[2]])} : s \in Scopes[root]}

\* No graph is nested in itself.
ASSUME HierarchyAssumption ==
  /\ Roots \subseteq DOMAIN Graphs /\ IsFiniteSet(DOMAIN Graphs)
  /\ \A root \in Roots : ScopesAt(root, Cardinality(DOMAIN Graphs)) = {}
  /\ \A file \in DOMAIN Graphs : Graphs[file].edges \in Seq(ToSet(Graphs[file].edges))

-----------------------------------------------------------------------------
(* The execution.                                                          *)

Frame(path, file) ==
  [path |-> path, file |-> file, open |-> <<>>, order |-> <<>>, ran |-> 0, local |-> <<>>]

NestedInit ==
  /\ \E file \in Roots : frames = <<Frame(<<>>, file)>>
  /\ contexts = <<<<>>>>
  /\ trace = <<>>
  /\ results = <<>>
  /\ outcome = "none"

Top == frames[Len(frames)]
TopGraph == Graphs[Top.file]
Continue(frame) == [frames EXCEPT ![Len(frames)] = frame]

\* _get_execution_order: visit the first node that is not visited yet,
VisitNode ==
  /\ outcome = "none" /\ Top.open = <<>>
  /\ \E i \in DOMAIN TopGraph.nodes :
       /\ TopGraph.nodes[i].id \notin ToSet(Top.order)
       /\ \A j \in 1..(i - 1) : TopGraph.nodes[j].id \in ToSet(Top.order)
       /\ frames' = Continue([Top EXCEPT !.open = <<TopGraph.nodes[i].id>>])
  /\ UNCHANGED <<contexts, trace, results, outcome>>

\* before it what it depends on, a set of strings, in any order; a node that is
\* being visited closes a cycle and is passed over;
VisitDependency ==
  /\ outcome = "none" /\ Top.open # <<>>
  /\ \E dep \in Dependency(TopGraph, Last(Top.open)) \ (ToSet(Top.open) \cup ToSet(Top.order)) :
       frames' = Continue([Top EXCEPT !.open = Append(@, dep)])
  /\ UNCHANGED <<contexts, trace, results, outcome>>

\* and then itself.
Visited ==
  /\ outcome = "none" /\ Top.open # <<>>
  /\ Dependency(TopGraph, Last(Top.open)) \subseteq ToSet(Top.open) \cup ToSet(Top.order)
  /\ frames' = Continue([Top EXCEPT !.open = Front(@), !.order = Append(@, Last(Top.open))])
  /\ UNCHANGED <<contexts, trace, results, outcome>>

Planned(frame) == frame.open = <<>> /\ Ids(Graphs[frame.file]) \subseteq ToSet(frame.order)
Busy == outcome = "none" /\ Planned(Top) /\ Top.ran < Len(Top.order)
Here == GetNode(TopGraph, Top.order[Top.ran + 1])
HerePath == Append(Top.path, Top.order[Top.ran + 1])

With(f, x, y) == [z \in DOMAIN f \cup {x} |-> IF z = x THEN y ELSE f[z]]

ExecuteNode ==
  /\ Busy /\ Here.type # "SUBGRAPH"
  /\ LET id == Top.order[Top.ran + 1]
         result == Handle(TopGraph, Top.local, Here)
     IN  /\ result # Raised
         /\ results' = With(results, HerePath, result)
         /\ trace' = Append(trace, HerePath)
         /\ frames' = Continue([Top EXCEPT !.ran = @ + 1, !.local = With(@, id, result)])
  /\ UNCHANGED <<contexts, outcome>>

\* The exception leaves every context of the scope on the stack.
Mut_NodeRaisesCompletes ==
  /\ Busy /\ Here.type # "SUBGRAPH"
  /\ Handle(TopGraph, Top.local, Here) = Raised
  /\ IF Len(frames) = 1 THEN outcome' = "raised" /\ UNCHANGED <<frames, results>>
     ELSE /\ frames' = Front(frames)
          /\ results' = With(results, Top.path, Other("completed"))
          /\ UNCHANGED outcome
  /\ UNCHANGED <<contexts, trace>>

NodeRaises ==
  /\ Busy /\ Here.type # "SUBGRAPH"
  /\ Handle(TopGraph, Top.local, Here) = Raised
  /\ IF Len(frames) = 1 THEN outcome' = "raised" /\ UNCHANGED frames
     ELSE frames' = Front(frames) /\ UNCHANGED outcome
  /\ UNCHANGED <<contexts, trace, results>>

\* _enter_subgraph: a graph that cannot be loaded is passed over.
EnterSubgraph ==
  /\ Busy /\ Here.type = "SUBGRAPH"
  /\ trace' = Append(trace, HerePath)
  /\ LET passed == Continue([Top EXCEPT !.ran = @ + 1])
     IN  IF Here.data \in DOMAIN Graphs
         THEN /\ frames' = Append(passed, Frame(HerePath, Here.data))
              /\ contexts' = Append(contexts, HerePath)
         ELSE frames' = passed /\ UNCHANGED contexts
  /\ UNCHANGED <<results, outcome>>

ExitGraph ==
  /\ outcome = "none" /\ Planned(Top) /\ Top.ran = Len(Top.order)
  /\ contexts' = Front(contexts)
  /\ IF Len(frames) = 1 THEN outcome' = "returned" /\ UNCHANGED <<frames, results>>
     ELSE /\ frames' = Front(frames)
          /\ results' = With(results, Top.path, Other("completed"))
          /\ UNCHANGED outcome
  /\ UNCHANGED trace

NestedNext ==
  \/ VisitNode \/ VisitDependency \/ Visited
  \/ ExecuteNode \/ NodeRaises \/ EnterSubgraph \/ ExitGraph

NestedSpec == NestedInit /\ [][NestedNext]_executorVars

-----------------------------------------------------------------------------
(* Properties.                                                             *)

RootFile == frames[1].file
Hierarchy == Scopes[RootFile]

\* The nodes that an edge leads from to this one.
Sources(graph, id) ==
  {m \in Ids(graph) : \E i \in DOMAIN graph.edges :
     graph.edges[i].from_id = m /\ graph.edges[i].to_id = id}
Feeding(graph, id) == {m \in Sources(graph, id) : GetNode(graph, m).type # "SUBGRAPH"}

\* The graphs whose edges all order execution and close no cycle.
Rankings(graph) ==
  {rank \in [Ids(graph) -> 1..Len(graph.nodes)] :
     \A id \in Ids(graph) : \A m \in Sources(graph, id) : rank[m] < rank[id]}
OrderedFiles ==
  {file \in DOMAIN Graphs :
     Relations(Graphs[file]) \subseteq Ordering /\ Rankings(Graphs[file]) # {}}

\* (1) Whatever order the dependencies are visited in and whatever fails, a result
\* under a scoped id is what the handler makes of the results of all nodes that
\* lead to that node, in the same scope: no node runs before what it depends on,
\* no scope sees another's values, and no result changes after it was used.
ResultsAreMeanings ==
  \A s \in Hierarchy : s[2] \in OrderedFiles =>
    LET graph == Graphs[s[2]]
    IN  \A id \in Ids(graph) :
          Append(s[1], id) \in DOMAIN results /\ GetNode(graph, id).type # "SUBGRAPH" =>
            /\ \A m \in Feeding(graph, id) : Append(s[1], m) \in DOMAIN results
            /\ results[Append(s[1], id)] =
                 Handle(graph, [m \in Feeding(graph, id) |-> results[Append(s[1], m)]],
                        GetNode(graph, id))

\* A scope with all of its nodes, and their results.
Ran(s) ==
  \A id \in Ids(Graphs[s[2]]) :
    /\ Append(s[1], id) \in ToSet(trace)
    /\ GetNode(Graphs[s[2]], id).type # "SUBGRAPH" => Append(s[1], id) \in DOMAIN results

\* (2) A scope is reported as completed when each of its nodes has run and each of
\* its subgraphs was entered, and never when one of its nodes raised; a nested
\* scope that failed does not count.  If all did complete, the trace of the
\* execution is the flattened view of the hierarchy, each node once.
CompletedScopesRan ==
  LET entered == {s \in Hierarchy : s[1] \in ToSet(trace)}
  IN  /\ \A s \in entered : s[1] \in DOMAIN results => Ran(s)
      /\ outcome = "returned" /\ (\A s \in entered : s[1] \in DOMAIN results)
           => IsInjective(trace) /\ ToSet(trace) = Flatten(RootFile)

\* What an execution of nested graphs reports is what the graphs say: (1) and (2),
\* of no other nodes than those of the hierarchy.
NestedRunsSound ==
  /\ DOMAIN results \subseteq ToSet(trace) /\ ToSet(trace) \subseteq Flatten(RootFile)
  /\ ResultsAreMeanings
  /\ CompletedScopesRan
=============================================================================
