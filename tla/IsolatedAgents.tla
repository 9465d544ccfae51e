--------------------------- MODULE IsolatedAgents ---------------------------
(***************************************************************************)
(* STUDY-104, demo_isolated.py: agent A adds the revenue from its own      *)
(* database, agent B two figures from its own and the operations, and the  *)
(* executor computes the result from the graph alone.                      *)
(***************************************************************************)
EXTENDS SharedFile

CONSTANT Figure          \* operand -> its value in the database that has it

VARIABLE result          \* what the executor printed: none, or one number

Operand(id) == [id |-> id, type |-> "OPERAND", value |-> Figure[id]]
Operation(id, operation) == [id |-> id, type |-> "OPERATION", value |-> operation]
Requires(from, to) == [from_id |-> from, to_id |-> to]

NodesOfA == <<Operand("q4_revenue")>>
NodesOfB == <<Operand("growth_rate"), Operand("competitor_revenue"),
              Operation("multiply_projection", "multiply"),
              Operation("subtract_advantage", "subtract"),
              [id |-> "result", type |-> "RESULT", value |-> "none"]>>
EdgesOfB == <<Requires("multiply_projection", "q4_revenue"),
              Requires("multiply_projection", "growth_rate"),
              Requires("subtract_advantage", "multiply_projection"),
              Requires("subtract_advantage", "competitor_revenue"),
              Requires("result", "subtract_advantage")>>

AgentNodes == ToSet(NodesOfA) \cup ToSet(NodesOfB)
AgentEdges == ToSet(EdgesOfB)

ASSUME AgentsAssumption == Absent \notin Graph(AgentNodes, AgentEdges)

IsolatedInit ==
  /\ SharedInit("isolated", Process("agent_a", 0), EmptyGraph)
  /\ result = <<>>

AgentA ==
  /\ pc = "work" /\ running.role = "agent_a"
  /\ Adds(NodesOfA, <<>>)
  /\ UNCHANGED result

\* Agent B does not look whether the revenue is there.
AgentB ==
  /\ pc = "work" /\ running.role = "agent_b"
  /\ Adds(NodesOfB, EdgesOfB)
  /\ UNCHANGED result

\* _compute: the value of a node, or nothing if an error is raised on the way.
Apply(operation, x, y) == IF operation = "multiply" THEN x * y ELSE x - y

Mut_ValueMissingAsZero(graph, inner, id) ==
  LET node == Last(Kept(graph.nodes, {n \in ToSet(graph.nodes) : n.id = id}))
      uses == Kept(graph.edges, {e \in ToSet(graph.edges) : e.from_id = id})
      inputs == [i \in DOMAIN uses |-> IF uses[i].to_id \in DOMAIN inner
                                      THEN inner[uses[i].to_id] ELSE <<0>>]
  IN  CASE node.type = "OPERAND" -> <<node.value>>
        [] node.type = "OPERATION" /\ Len(inputs) >= 2 /\ (\A i \in DOMAIN inputs : inputs[i] # <<>>) ->
             <<Apply(node.value, inputs[1][1], inputs[2][1])>>
        [] node.type = "RESULT" /\ inputs # <<>> -> inputs[1]
        [] OTHER -> <<>>

\* inner: the values of the nodes that the calls made from here have returned.
Value(graph, inner, id) ==
  LET node == Last(Kept(graph.nodes, {n \in ToSet(graph.nodes) : n.id = id}))
      uses == Kept(graph.edges, {e \in ToSet(graph.edges) : e.from_id = id})
      inputs == [i \in DOMAIN uses |-> IF uses[i].to_id \in DOMAIN inner
                                      THEN inner[uses[i].to_id] ELSE <<>>]
  IN  CASE node.type = "OPERAND" -> <<node.value>>
        [] node.type = "OPERATION" /\ Len(inputs) >= 2 /\ (\A i \in DOMAIN inputs : inputs[i] # <<>>) ->
             <<Apply(node.value, inputs[1][1], inputs[2][1])>>
        [] node.type = "RESULT" /\ inputs # <<>> -> inputs[1]
        [] OTHER -> <<>>

\* The recursion follows the edges; through more nodes than there are it only
\* goes in a cycle, and ends in an error.
Compute(graph, id) ==
  LET ids == {n.id : n \in ToSet(graph.nodes)}
      value[depth \in 0..Len(graph.nodes)] ==
        [n \in ids |-> IF depth = 0 THEN <<>> ELSE Value(graph, value[depth - 1], n)]
  IN  IF id \in ids THEN value[Len(graph.nodes)][id] ELSE <<>>

ExecutorProcess ==
  /\ pc = "work" /\ running.role = "executor"
  /\ result' = Compute(memory, "result")
  /\ pc' = "exit"
  /\ UNCHANGED <<scenario, running, memory, file, saved, outcome>>

\* The orchestrator reads the file after each agent.
IsolatedContinues ==
  /\ scenario = "isolated" /\ pc = "exit"
  /\ CASE running.role = "executor" -> Finishes("ended")
       [] ~Readable -> Finishes("raised")
       [] running.role = "agent_a" -> Runs(Process("agent_b", 0))
       [] running.role = "agent_b" -> Runs(Process("executor", 0))
  /\ UNCHANGED result

IsolatedNext == AgentA \/ AgentB \/ ExecutorProcess \/ IsolatedContinues

IsolatedSpec ==
  /\ IsolatedInit
  /\ [][(SharedNext /\ UNCHANGED result) \/ IsolatedNext]_<<sharedVars, result>>

-----------------------------------------------------------------------------
(* Properties.                                                             *)

\* The executor prints the result of both agents' figures or none: an agent that
\* died leaves it without a node it needs, never with a partial result.
ResultNeedsEveryAgent ==
  result # <<>> =>
    result[1] = Figure["q4_revenue"] * Figure["growth_rate"] - Figure["competitor_revenue"]
=============================================================================
