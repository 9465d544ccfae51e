--------------------------- MODULE MutationEngine ---------------------------
(***************************************************************************)
(* STUDY-109: mutation_engine.py.  A language model answers with a batch   *)
(* of mutations; each is validated and applied in turn.  With              *)
(* rollback_on_failure the first that fails undoes the batch.  The answer  *)
(* is any JSON: an exception while a mutation is applied makes it fail,    *)
(* one while it is validated leaves the call.                              *)
(***************************************************************************)
EXTENDS Naturals, Sequences

CONSTANTS
  Id,            \* node ids that a mutation may name
  NoId,          \* a source or target that is missing or empty
  ValidType,     \* VALID_NODE_TYPES
  OtherType,     \* what else a payload may have as its type; "none" for no type
  Unhashable,    \* a list or an object where a node's id or type should be
  NoDict,        \* in place of what a payload holds: it is null, or a number
  Mutations,     \* the mutations that the model may ask for
  MaxBatch,      \* of them in one batch
  MaxCalls       \* of apply_mutations_atomic

Type == ValidType \cup OtherType \cup {Unhashable}
End == Id \cup {NoId, NoDict}
NodeKind == {"ADD_NODE", "UPDATE_NODE", "DELETE_NODE"}
EdgeKind == {"ADD_EDGE", "DELETE_EDGE"}

Mutation ==
       [kind : NodeKind \ {"DELETE_NODE"}, id : Id \cup {Unhashable}, type : Type \cup {NoDict}]
  \cup [kind : {"DELETE_NODE"}, id : Id \cup {Unhashable}]
  \cup [kind : EdgeKind, source : End, target : End]

ASSUME MutationAssumption == Mutations \subseteq Mutation
ASSUME MaxBatchAssumption == MaxBatch \in Nat

VARIABLES
  nodes,         \* GraphState.nodes: id -> type, of the nodes that there are
  edges,         \* GraphState.edges: how many edges lead from one id to another
  checkpoint,    \* the copy of both that a call starts from
  batch,         \* the mutations of the call
  next,          \* the index of the one that is applied next
  rollback,      \* rollback_on_failure
  succeeded,     \* results of the call: whether each mutation was applied; the log grows by it
  calls,         \* the calls so far
  running,       \* whether a call is going on
  raised         \* whether the call ended with an exception

engineVars ==
  <<nodes, edges, checkpoint, batch, next, rollback, succeeded, calls, running, raised>>

\* create_initial_graph has no dangling edge.
EngineInit ==
  /\ \E ids \in SUBSET Id : nodes \in [ids -> ValidType]
  /\ edges \in {f \in [Id \X Id -> 0..1] :
                  \A s, t \in Id : f[<<s, t>>] > 0 => s \in DOMAIN nodes /\ t \in DOMAIN nodes}
  /\ checkpoint = [nodes |-> nodes, edges |-> edges]
  /\ batch = <<>> /\ next = 1 /\ succeeded = <<>>
  /\ rollback = TRUE
  /\ calls = 0
  /\ running = FALSE /\ raised = FALSE

\* What validate_mutation cannot look at, outside any try: ids and types that are
\* no members of a set or keys of a dictionary, payloads without in or get.
Raises(m) ==
  \/ m.kind \in NodeKind /\ m.id = Unhashable
  \/ m.kind = "ADD_NODE" /\ m.type \in {Unhashable, NoDict}
  \/ m.kind \in EdgeKind /\ NoDict \in {m.source, m.target}

\* validate_mutation.  An edge may name nodes that are not there, and an update
\* may set any type.
Valid(m) ==
  CASE m.kind = "ADD_NODE" -> m.type \in ValidType /\ m.id \notin DOMAIN nodes
    [] m.kind \in {"UPDATE_NODE", "DELETE_NODE"} -> m.id \in DOMAIN nodes
    [] m.kind = "ADD_EDGE" -> m.source # NoId /\ m.target # NoId
    [] m.kind = "DELETE_EDGE" ->
         m.source # NoId /\ m.target # NoId /\ edges[<<m.source, m.target>>] > 0

\* dict.update of something that is no dictionary.
UpdateRaises(m) == m.kind = "UPDATE_NODE" /\ m.type = NoDict

\* The results of apply_mutation; what is neither leaves it as an exception.
Succeeds(m) == ~Raises(m) /\ Valid(m) /\ ~UpdateRaises(m)
Fails(m) == ~Raises(m) /\ ~(Valid(m) /\ ~UpdateRaises(m))

\* apply_mutation, for one that succeeds.
NodesAfter(m) ==
  CASE m.kind = "ADD_NODE" ->
         [n \in DOMAIN nodes \cup {m.id} |-> IF n = m.id THEN m.type ELSE nodes[n]]
    [] m.kind = "UPDATE_NODE" ->
         IF m.type = "none" THEN nodes ELSE [nodes EXCEPT ![m.id] = m.type]
    [] m.kind = "DELETE_NODE" -> [n \in DOMAIN nodes \ {m.id} |-> nodes[n]]
    [] OTHER -> nodes

Mut_EdgesAfterOutgoingStay(m) ==
  CASE m.kind = "ADD_EDGE" -> [edges EXCEPT ![<<m.source, m.target>>] = @ + 1]
    [] m.kind = "DELETE_EDGE" -> [edges EXCEPT ![<<m.source, m.target>>] = 0]
    [] m.kind = "DELETE_NODE" -> [e \in Id \X Id |-> IF m.id = e[2] THEN 0 ELSE edges[e]]
    [] OTHER -> edges

\* add_edge does not look for a duplicate; the deletions filter all of them out.
EdgesAfter(m) ==
  CASE m.kind = "ADD_EDGE" -> [edges EXCEPT ![<<m.source, m.target>>] = @ + 1]
    [] m.kind = "DELETE_EDGE" -> [edges EXCEPT ![<<m.source, m.target>>] = 0]
    [] m.kind = "DELETE_NODE" ->
         [e \in Id \X Id |-> IF m.id \in {e[1], e[2]} THEN 0 ELSE edges[e]]
    [] OTHER -> edges

\* An update that raises may have set the type before: a list of pairs with a
\* malformed one behind a good one.
NodesAfterFailure(m) ==
  {nodes} \cup {[nodes EXCEPT ![n] = t] :
                  n \in {i \in DOMAIN nodes : UpdateRaises(m) /\ i = m.id},
                  t \in Type \ {"none"}}

-----------------------------------------------------------------------------
(* apply_mutations_atomic.                                                 *)

BeginBatch ==
  /\ ~running /\ calls < MaxCalls
  /\ \E size \in 0..MaxBatch : batch' \in [1..size -> Mutations]
  /\ rollback' \in BOOLEAN
  /\ checkpoint' = [nodes |-> nodes, edges |-> edges]
  /\ next' = 1 /\ succeeded' = <<>>
  /\ calls' = calls + 1
  /\ running' = TRUE /\ raised' = FALSE
  /\ UNCHANGED <<nodes, edges>>

ApplyMutation ==
  /\ running /\ next <= Len(batch)
  /\ Succeeds(batch[next])
  /\ nodes' = NodesAfter(batch[next])
  /\ edges' = EdgesAfter(batch[next])
  /\ succeeded' = Append(succeeded, TRUE)
  /\ next' = next + 1
  /\ UNCHANGED <<checkpoint, batch, rollback, calls, running, raised>>

Mut_RollBackKeepsUpdates ==
  /\ running /\ next <= Len(batch)
  /\ Fails(batch[next]) /\ rollback
  /\ nodes' = [n \in DOMAIN checkpoint.nodes |->
                 IF n \in DOMAIN nodes THEN nodes[n] ELSE checkpoint.nodes[n]]
  /\ edges' = checkpoint.edges
  /\ succeeded' = Append(succeeded, FALSE)
  /\ running' = FALSE
  /\ UNCHANGED <<checkpoint, batch, next, rollback, calls, raised>>

\* restore_from copies the checkpoint back, and the loop ends.
RollBack ==
  /\ running /\ next <= Len(batch)
  /\ Fails(batch[next]) /\ rollback
  /\ nodes' = checkpoint.nodes
  /\ edges' = checkpoint.edges
  /\ succeeded' = Append(succeeded, FALSE)
  /\ running' = FALSE
  /\ UNCHANGED <<checkpoint, batch, next, rollback, calls, raised>>

SkipFailed ==
  /\ running /\ next <= Len(batch)
  /\ Fails(batch[next]) /\ ~rollback
  /\ nodes' \in NodesAfterFailure(batch[next])
  /\ succeeded' = Append(succeeded, FALSE)
  /\ next' = next + 1
  /\ UNCHANGED <<edges, checkpoint, batch, rollback, calls, running, raised>>

\* The exception leaves the loop, which catches none: no results, no rollback.
ValidationRaises ==
  /\ running /\ next <= Len(batch)
  /\ Raises(batch[next])
  /\ running' = FALSE /\ raised' = TRUE
  /\ UNCHANGED <<nodes, edges, checkpoint, batch, next, rollback, succeeded, calls>>

EndBatch ==
  /\ running /\ next > Len(batch)
  /\ running' = FALSE
  /\ UNCHANGED <<nodes, edges, checkpoint, batch, next, rollback, succeeded, calls, raised>>

EngineNext ==
  \/ BeginBatch \/ ApplyMutation \/ RollBack \/ SkipFailed \/ ValidationRaises
  \/ EndBatch

EngineSpec == EngineInit /\ [][EngineNext]_engineVars

-----------------------------------------------------------------------------
(* Properties.                                                             *)

Done == {i \in DOMAIN succeeded : succeeded[i]}
LastOf(S) == CHOOSE i \in S : \A j \in S : j <= i

\* The successful mutations of the call that decide whether a node, or an edge, is
\* there.
NodeTouches(n) ==
  {i \in Done : batch[i].kind \in {"ADD_NODE", "DELETE_NODE"} /\ batch[i].id = n}

EdgeTouches(s, t) ==
  {i \in Done :
     \/ /\ batch[i].kind \in {"ADD_EDGE", "DELETE_EDGE"}
        /\ batch[i].source = s /\ batch[i].target = t
     \/ batch[i].kind = "DELETE_NODE" /\ batch[i].id \in {s, t}}

\* The graph holds what the last successful mutation of the call made of each
\* node and of each edge, and otherwise what was there before the call.
NodesExplained ==
  \A n \in Id :
    n \in DOMAIN nodes <=>
      IF NodeTouches(n) = {} THEN n \in DOMAIN checkpoint.nodes
      ELSE batch[LastOf(NodeTouches(n))].kind = "ADD_NODE"

EdgesExplained ==
  \A s, t \in Id :
    edges[<<s, t>>] > 0 <=>
      IF EdgeTouches(s, t) = {} THEN checkpoint.edges[<<s, t>>] > 0
      ELSE batch[LastOf(EdgeTouches(s, t))].kind = "ADD_EDGE"

\* A call with rollback_on_failure in which a mutation failed has left the graph
\* as it found it, whatever it had done to it before the failure.
FailedBatchUndone ==
  ~running /\ rollback /\ Done # DOMAIN succeeded
    => nodes = checkpoint.nodes /\ edges = checkpoint.edges

\* A call that returns either undoes everything or the graph is explained by the
\* results it returns: no edge outlives a deleted node, not even when the node is
\* added again, and no update or re-add brings back what a mutation removed.  An
\* update that raises counts as failed, whatever it had changed.  A call that a
\* malformed mutation ends with an exception keeps what it has done, all of it
\* and nothing else, although the docstring has any failure roll back
\* (mutation_engine.py:213-246).
BatchAllOrNothing ==
  /\ FailedBatchUndone
  /\ running \/ ~rollback \/ Done = DOMAIN succeeded => NodesExplained /\ EdgesExplained
  /\ ~running /\ ~raised => \/ Len(succeeded) = Len(batch)
                            \/ rollback /\ Done = 1..(Len(succeeded) - 1)
  /\ raised /\ rollback => Done = DOMAIN succeeded
=============================================================================
