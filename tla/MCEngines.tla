----------------------------- MODULE MCEngines -----------------------------
(***************************************************************************)
(* Calls of the mutation engine of STUDY-109, and executions of nested     *)
(* graphs of STUDY-107: the study's own, one with arithmetic in two scopes *)
(* that use the same ids, one whose subgraphs fail or are missing, one     *)
(* that multiplies strings, and one with a cycle.                          *)
(***************************************************************************)
EXTENDS NestedExecutor, MutationEngine

AddNode(n, t) == [kind |-> "ADD_NODE", id |-> n, type |-> t]
UpdateNode(n, t) == [kind |-> "UPDATE_NODE", id |-> n, type |-> t]
DeleteNode(n) == [kind |-> "DELETE_NODE", id |-> n]
AddEdge(s, t) == [kind |-> "ADD_EDGE", source |-> s, target |-> t]
DeleteEdge(s, t) == [kind |-> "DELETE_EDGE", source |-> s, target |-> t]

MCMutations ==
  {AddNode("task_1", "TASK"), UpdateNode("task_1", "INVALID"), UpdateNode("task_2", NoDict),
   DeleteNode("task_1"), AddEdge("task_1", "task_2"), DeleteEdge("task_1", "task_2"),
   AddEdge("task_1", NoId), AddNode("task_2", NoDict)}

N(id, type, data) == [id |-> id, type |-> type, data |-> data]
E(from, relation, to) == [from_id |-> from, relation |-> relation, to_id |-> to]

\* x and y feed total; the file lists what depends before what it depends on.
Sums(operation) ==
  [nodes |-> <<N("out", "RESULT", ""), N("total", "OPERATION", operation),
               N("x", "OPERAND", 3), N("y", "OPERAND", 4), N("note", "TASK", "")>>,
   edges |-> <<E("x", "REQUIRES", "total"), E("y", "REQUIRES", "total"),
               E("total", "LEADS_TO", "out"), E("out", "LEADS_TO", "note")>>]

MCGraphs ==
  [parent |->
     [nodes |-> <<N("task_start", "TASK", ""), N("data_pipeline", "SUBGRAPH", "child_workflow"),
                  N("validation_suite", "SUBGRAPH", "child_validation"), N("task_end", "TASK", "")>>,
      edges |-> <<E("task_start", "LEADS_TO", "data_pipeline"),
                  E("data_pipeline", "LEADS_TO", "validation_suite"),
                  E("validation_suite", "LEADS_TO", "task_end")>>],
   child_workflow |->
     [nodes |-> <<N("fetch_data", "TASK", ""), N("transform_data", "TASK", ""),
                  N("store_data", "TASK", "")>>,
      edges |-> <<E("fetch_data", "LEADS_TO", "transform_data"),
                  E("transform_data", "LEADS_TO", "store_data")>>],
   child_validation |->
     [nodes |-> <<N("validate_schema", "TASK", ""), N("validate_constraints", "TASK", "")>>,
      edges |-> <<E("validate_schema", "LEADS_TO", "validate_constraints")>>],
   add |-> Sums("add"),
   scopes |->
     [nodes |-> <<N("total", "OPERATION", "multiply"), N("x", "OPERAND", 5),
                  N("y", "OPERATION", "validate"), N("sub", "SUBGRAPH", "add"),
                  N("again", "SUBGRAPH", "add")>>,
      edges |-> <<E("x", "REQUIRES", "total"), E("y", "REQUIRES", "total"),
                  E("sub", "REQUIRES", "total"), E("x", "REQUIRES", "y"),
                  E("sub", "DEPENDS_ON", "again")>>],
   bad_sum |->
     [nodes |-> <<N("total", "OPERATION", "add"), N("x", "OPERAND", 3), N("t", "TASK", ""),
                  N("late", "OPERAND", 1)>>,
      edges |-> <<E("x", "REQUIRES", "total"), E("t", "REQUIRES", "total")>>],
   middle |->
     [nodes |-> <<N("inner", "SUBGRAPH", "bad_sum"), N("after", "OPERATION", "validate")>>,
      edges |-> <<E("inner", "REQUIRES", "after")>>],
   failing |->
     [nodes |-> <<N("first", "SUBGRAPH", "bad_sum"), N("second", "SUBGRAPH", "middle"),
                  N("lost", "SUBGRAPH", "no_such_file"), N("end", "RESULT", "")>>,
      edges |-> <<E("lost", "LEADS_TO", "end"), E("gone", "REQUIRES", "end")>>],
   texts |->
     [nodes |-> <<N("word", "CONCEPT", ""), N("zero", "OPERAND", 0),
                  N("never", "OPERATION", "multiply"), N("all", "OPERATION", "validate"),
                  N("product", "OPERATION", "multiply")>>,
      edges |-> <<E("zero", "REQUIRES", "never"), E("word", "REQUIRES", "never"),
                  E("never", "REQUIRES", "all"), E("word", "REQUIRES", "product"),
                  E("never", "REQUIRES", "product")>>],
   cyclic |->
     [nodes |-> <<N("a", "OPERATION", "add"), N("b", "OPERATION", "identity"),
                  N("c", "SUBGRAPH", "child_validation")>>,
      edges |-> <<E("a", "REQUIRES", "b"), E("b", "REQUIRES", "a"), E("b", "LEADS_TO", "c"),
                  E("c", "LEADS_TO", "b")>>]]
MCRoots == {"parent", "scopes", "failing", "bad_sum", "texts", "cyclic"}

-----------------------------------------------------------------------------
VARIABLE study

NoBatches ==
  /\ nodes = <<>> /\ edges = [e \in Id \X Id |-> 0]
  /\ checkpoint = [nodes |-> nodes, edges |-> edges]
  /\ batch = <<>> /\ next = 1 /\ rollback = TRUE /\ succeeded = <<>>
  /\ calls = 0 /\ running = FALSE /\ raised = FALSE
NoExecution ==
  /\ frames = <<Frame(<<>>, "parent")>> /\ contexts = <<>> /\ trace = <<>>
  /\ results = <<>> /\ outcome = "none"

Init ==
  \/ study = 109 /\ EngineInit /\ NoExecution
  \/ study = 107 /\ NestedInit /\ NoBatches

Next ==
  \/ study = 109 /\ EngineNext /\ UNCHANGED <<study, executorVars>>
  \/ study = 107 /\ NestedNext /\ UNCHANGED <<study, engineVars>>

Spec == Init /\ [][Next]_<<study, engineVars, executorVars>>
=============================================================================
