--------------------------- MODULE Engines_proofs ---------------------------
(***************************************************************************)
(* Proofs about the mutation engine: a batch is undone as a whole or the   *)
(* graph is what its results say, for any mutations and any length; and    *)
(* about the executor of nested graphs: its results are what the graphs    *)
(* say, for any hierarchy of finite depth and any order of execution.      *)
(***************************************************************************)
EXTENDS NestedExecutor, MutationEngine, Lists_proofs, FiniteSetTheorems

-----------------------------------------------------------------------------
(* The mutation engine.                                                    *)

Explained == NodesExplained /\ EdgesExplained

EngineTyped ==
  /\ edges \in [Id \X Id -> Nat] /\ checkpoint.edges \in [Id \X Id -> Nat]
  /\ batch \in Seq(Mutations) /\ succeeded \in Seq(BOOLEAN)
  /\ Len(succeeded) <= Len(batch)
  /\ next \in Nat \ {0}

\* While a batch with rollback runs nothing has failed; without it or when it is
\* over the results so far explain the graph.
EngineInv ==
  /\ EngineTyped
  /\ running =>
       /\ next \in 1..(Len(batch) + 1) /\ Len(succeeded) = next - 1
       /\ rollback => Done = DOMAIN succeeded
       /\ Explained
       /\ ~raised
  /\ BatchAllOrNothing

-----------------------------------------------------------------------------
LEMMA LastIsNew ==
  ASSUME NEW k \in Nat, NEW S \in SUBSET Nat, \A i \in S : i < k
  PROVE  LastOf(S \cup {k}) = k
<1> DEFINE Latest(i) == i \in S \cup {k} /\ \A j \in S \cup {k} : j <= i
<1>1. Latest(k)
  OBVIOUS
<1>2. \A i : Latest(i) => i = k
  OBVIOUS
<1>3. LastOf(S \cup {k}) = CHOOSE i : Latest(i)
  BY DEF LastOf
<1> QED BY <1>1, <1>2, <1>3

LEMMA DoneTyped ==
  ASSUME EngineTyped
  PROVE  /\ Done \subseteq 1..Len(succeeded) /\ DOMAIN succeeded = 1..Len(succeeded)
         /\ Len(succeeded) \in Nat /\ Len(batch) \in Nat /\ next \in Nat \ {0}
BY DEF EngineTyped, Done

\* What the result of one more mutation adds to the successful ones.
LEMMA DoneGrows ==
  ASSUME EngineTyped, NEW ok \in BOOLEAN, succeeded' = Append(succeeded, ok)
  PROVE  /\ succeeded' \in Seq(BOOLEAN) /\ Len(succeeded') = Len(succeeded) + 1
         /\ DOMAIN succeeded' = 1..(Len(succeeded) + 1)
         /\ Done' = IF ok THEN Done \cup {Len(succeeded) + 1} ELSE Done
<1>1. /\ succeeded' \in Seq(BOOLEAN) /\ Len(succeeded') = Len(succeeded) + 1
      /\ Len(succeeded) \in Nat
      /\ \A i \in 1..Len(succeeded) : succeeded'[i] = succeeded[i]
      /\ succeeded'[Len(succeeded) + 1] = ok
      /\ DOMAIN succeeded = 1..Len(succeeded)
      /\ DOMAIN succeeded' = 1..(Len(succeeded) + 1)
  BY AppendProperties DEF EngineTyped
<1>2. \A i \in DOMAIN succeeded' : i \in DOMAIN succeeded \/ i = Len(succeeded) + 1
  BY <1>1
<1>3. /\ \A i \in DOMAIN succeeded : i \in DOMAIN succeeded'
      /\ Len(succeeded) + 1 \in DOMAIN succeeded'
  BY <1>1
<1>4. \A i \in DOMAIN succeeded : succeeded'[i] = succeeded[i]
  BY <1>1
<1>5. succeeded'[Len(succeeded) + 1] = ok
  BY <1>1
<1>6. Len(succeeded) + 1 \notin DOMAIN succeeded
  BY <1>1
<1>7. Done' = IF ok THEN Done \cup {Len(succeeded) + 1} ELSE Done
  BY <1>2, <1>3, <1>4, <1>5, <1>6, Zenon DEF Done
<1> QED BY <1>1, <1>7

LEMMA SuccessCounts ==
  ASSUME EngineTyped, succeeded' = Append(succeeded, TRUE)
  PROVE  /\ succeeded' \in Seq(BOOLEAN) /\ Len(succeeded') = Len(succeeded) + 1
         /\ DOMAIN succeeded' = 1..(Len(succeeded) + 1)
         /\ Done' = Done \cup {Len(succeeded) + 1}
BY DoneGrows

LEMMA FailureCounts ==
  ASSUME EngineTyped, succeeded' = Append(succeeded, FALSE)
  PROVE  /\ succeeded' \in Seq(BOOLEAN) /\ Len(succeeded') = Len(succeeded) + 1
         /\ DOMAIN succeeded' = 1..(Len(succeeded) + 1)
         /\ Done' = Done
BY DoneGrows

LEMMA MutationTyped ==
  ASSUME NEW m \in Mutations
  PROVE  /\ m.kind \in NodeKind \cup EdgeKind
         /\ m.kind \in NodeKind => m.id \in Id \cup {Unhashable}
         /\ m.kind \in EdgeKind => m.source \in End /\ m.target \in End
BY MutationAssumption DEF Mutation, NodeKind, EdgeKind

\* What can be applied names nodes by their ids.
LEMMA SuccessTyped ==
  ASSUME NEW m \in Mutations, Succeeds(m)
  PROVE  /\ m.kind \in {"ADD_NODE", "UPDATE_NODE", "DELETE_NODE", "ADD_EDGE", "DELETE_EDGE"}
         /\ m.kind \in {"ADD_NODE", "UPDATE_NODE", "DELETE_NODE"} => m.id \in Id
         /\ m.kind \in {"ADD_EDGE", "DELETE_EDGE"} => m.source \in Id /\ m.target \in Id
<1>1. /\ m.kind \in NodeKind => m.id # Unhashable
      /\ m.kind \in EdgeKind => m.source # NoDict /\ m.target # NoDict
  BY DEF Succeeds, Raises
<1>2. m.kind \in EdgeKind => m.source # NoId /\ m.target # NoId
  BY DEF Succeeds, Valid, EdgeKind
<1> QED BY <1>1, <1>2, MutationTyped DEF NodeKind, EdgeKind, End

\* A mutation that fails leaves the node ids.
LEMMA FailureKeepsNodes ==
  ASSUME NEW m, NEW after \in NodesAfterFailure(m)
  PROVE  DOMAIN after = DOMAIN nodes
BY DEF NodesAfterFailure

-----------------------------------------------------------------------------
(* One mutation.                                                           *)

\* A call in which nothing has succeeded since the checkpoint.
LEMMA NothingDone ==
  ASSUME Done = {}, nodes = checkpoint.nodes, edges = checkpoint.edges
  PROVE  Explained
<1>1. \A n : NodeTouches(n) = {}
  BY DEF NodeTouches
<1>2. \A s, t : EdgeTouches(s, t) = {}
  BY DEF EdgeTouches
<1> QED BY <1>1, <1>2 DEF Explained, NodesExplained, EdgesExplained

LEMMA ExplainedStays ==
  ASSUME Explained, Done' = Done, UNCHANGED <<edges, checkpoint, batch>>,
         DOMAIN nodes' = DOMAIN nodes
  PROVE  Explained'
<1>1. \A n : NodeTouches(n)' = NodeTouches(n)
  BY DEF NodeTouches
<1>2. \A s, t : EdgeTouches(s, t)' = EdgeTouches(s, t)
  BY DEF EdgeTouches
<1> QED BY <1>1, <1>2 DEF Explained, NodesExplained, EdgesExplained

\* The latest mutation decides about what it touches and leaves the rest alone.
LEMMA AppliedIsExplained ==
  ASSUME EngineTyped, Explained, ApplyMutation, Len(succeeded) = next - 1
  PROVE  Explained'
<1> DEFINE m == batch[next]
<1>1. /\ next \in 1..Len(batch) /\ m \in Mutations /\ Succeeds(m)
      /\ nodes' = NodesAfter(m) /\ edges' = EdgesAfter(m)
      /\ batch' = batch /\ checkpoint' = checkpoint
  <2>1. next \in 1..Len(batch)
    BY DoneTyped DEF ApplyMutation
  <2>2. batch[next] \in Mutations
    BY <2>1 DEF EngineTyped
  <2> QED BY <2>1, <2>2 DEF ApplyMutation
<1>2. /\ m.kind \in {"ADD_NODE", "UPDATE_NODE", "DELETE_NODE", "ADD_EDGE", "DELETE_EDGE"}
      /\ m.kind \in {"ADD_NODE", "UPDATE_NODE", "DELETE_NODE"} => m.id \in Id
      /\ m.kind \in {"ADD_EDGE", "DELETE_EDGE"} => m.source \in Id /\ m.target \in Id
  BY <1>1, SuccessTyped
<1>3. next \in Nat /\ Done' = Done \cup {next} /\ \A i \in Done : i \in Nat /\ i < next
  <2>1. next \in Nat /\ Len(succeeded) + 1 = next
    BY DoneTyped
  <2>2. Done' = Done \cup {Len(succeeded) + 1}
    BY SuccessCounts DEF ApplyMutation
  <2> QED BY <2>1, <2>2, DoneTyped
<1>4. NodesExplained'
  <2> SUFFICES ASSUME NEW n \in Id
               PROVE  n \in DOMAIN nodes' <=>
                        IF NodeTouches(n)' = {} THEN n \in DOMAIN checkpoint.nodes
                        ELSE batch[LastOf(NodeTouches(n)')].kind = "ADD_NODE"
    BY <1>1 DEF NodesExplained
  <2>1. CASE m.kind \in {"ADD_NODE", "DELETE_NODE"} /\ m.id = n
    <3>1. NodeTouches(n)' = NodeTouches(n) \cup {next}
      BY <2>1, <1>1, <1>3 DEF NodeTouches
    <3>2. LastOf(NodeTouches(n) \cup {next}) = next
      <4>1. NodeTouches(n) \in SUBSET Nat /\ \A i \in NodeTouches(n) : i < next
        BY <1>3 DEF NodeTouches
      <4> QED BY <4>1, <1>3, LastIsNew
    <3>3. n \in DOMAIN nodes' <=> m.kind = "ADD_NODE"
      BY <2>1, <1>1 DEF NodesAfter
    <3> QED BY <3>1, <3>2, <3>3
  <2>2. CASE ~(m.kind \in {"ADD_NODE", "DELETE_NODE"} /\ m.id = n)
    <3>1. NodeTouches(n)' = NodeTouches(n)
      BY <2>2, <1>1, <1>3 DEF NodeTouches
    <3>2. n \in DOMAIN nodes' <=> n \in DOMAIN nodes
      BY <2>2, <1>1, <1>2 DEF NodesAfter
    <3> QED BY <3>1, <3>2 DEF Explained, NodesExplained
  <2> QED BY <2>1, <2>2
<1>5. EdgesExplained'
  <2> SUFFICES ASSUME NEW s \in Id, NEW t \in Id
               PROVE  edges'[<<s, t>>] > 0 <=>
                        IF EdgeTouches(s, t)' = {} THEN checkpoint.edges[<<s, t>>] > 0
                        ELSE batch[LastOf(EdgeTouches(s, t)')].kind = "ADD_EDGE"
    BY <1>1 DEF EdgesExplained
  <2> DEFINE touches ==
        \/ m.kind \in {"ADD_EDGE", "DELETE_EDGE"} /\ m.source = s /\ m.target = t
        \/ m.kind = "DELETE_NODE" /\ m.id \in {s, t}
  <2>0. <<s, t>> \in Id \X Id /\ edges[<<s, t>>] \in Nat
    BY DEF EngineTyped
  <2>1. CASE touches
    <3>1. EdgeTouches(s, t)' = EdgeTouches(s, t) \cup {next}
      BY <2>1, <1>1, <1>3 DEF EdgeTouches
    <3>2. LastOf(EdgeTouches(s, t) \cup {next}) = next
      <4>1. EdgeTouches(s, t) \in SUBSET Nat /\ \A i \in EdgeTouches(s, t) : i < next
        BY <1>3 DEF EdgeTouches
      <4> QED BY <4>1, <1>3, LastIsNew
    <3>3. edges'[<<s, t>>] > 0 <=> m.kind = "ADD_EDGE"
      BY <2>0, <2>1, <1>1, <1>2 DEF EdgesAfter, EngineTyped
    <3> QED BY <3>1, <3>2, <3>3
  <2>2. CASE ~touches
    <3>1. EdgeTouches(s, t)' = EdgeTouches(s, t)
      BY <2>2, <1>1, <1>3 DEF EdgeTouches
    <3>2. edges'[<<s, t>>] = edges[<<s, t>>]
      BY <2>0, <2>2, <1>1, <1>2 DEF EdgesAfter, EngineTyped
    <3> QED BY <3>1, <3>2 DEF Explained, EdgesExplained
  <2> QED BY <2>1, <2>2
<1> QED BY <1>4, <1>5 DEF Explained

LEMMA AppliedIsTyped ==
  ASSUME EngineTyped, ApplyMutation, Len(succeeded) = next - 1
  PROVE  EngineTyped'
<1> DEFINE m == batch[next]
<1>1. /\ m \in Mutations /\ Succeeds(m) /\ edges' = EdgesAfter(m)
      /\ batch' = batch /\ checkpoint' = checkpoint
      /\ Len(succeeded) + 1 <= Len(batch)
  <2>1. next \in 1..Len(batch)
    BY DoneTyped DEF ApplyMutation
  <2> QED BY <2>1, DoneTyped DEF ApplyMutation, EngineTyped
<1>2. m.kind \in {"ADD_EDGE", "DELETE_EDGE"} => m.source \in Id /\ m.target \in Id
  BY <1>1, SuccessTyped
<1>3. edges' \in [Id \X Id -> Nat]
  BY <1>1, <1>2 DEF EdgesAfter, EngineTyped
<1> QED BY <1>1, <1>3, SuccessCounts, DoneTyped DEF ApplyMutation, EngineTyped

-----------------------------------------------------------------------------
(* A call.                                                                 *)

LEMMA EngineInvInductive ==
  /\ EngineInit => EngineInv
  /\ EngineInv /\ [EngineNext]_engineVars => EngineInv'
<1>1. ASSUME EngineInit PROVE EngineInv
  <2>1. /\ batch = <<>> /\ succeeded = <<>> /\ next = 1 /\ ~running /\ ~raised
        /\ nodes = checkpoint.nodes /\ edges = checkpoint.edges
        /\ edges \in [Id \X Id -> Nat]
    BY <1>1 DEF EngineInit
  <2>2. Done = {} /\ Len(succeeded) = 0 /\ Len(batch) = 0
    BY <2>1 DEF Done
  <2>3. EngineTyped
    BY <2>1, <2>2, EmptySeq DEF EngineTyped
  <2>4. Explained
    BY <2>1, <2>2, NothingDone
  <2> QED BY <2>1, <2>2, <2>3, <2>4 DEF EngineInv, BatchAllOrNothing, FailedBatchUndone,
     Explained
<1>2. ASSUME EngineInv, BeginBatch PROVE EngineInv'
  <2>1. /\ nodes' = checkpoint'.nodes /\ edges' = checkpoint'.edges /\ edges' = edges
        /\ next' = 1 /\ succeeded' = <<>> /\ running' /\ ~raised'
    BY <1>2 DEF BeginBatch
  <2>2. batch' \in Seq(Mutations) /\ Len(batch') \in Nat
    BY <1>2, MaxBatchAssumption DEF BeginBatch
  <2>3. Done' = {} /\ Len(succeeded') = 0 /\ DOMAIN succeeded' = {}
    BY <2>1 DEF Done
  <2>4. EngineTyped'
    BY <1>2, <2>1, <2>2, <2>3, EmptySeq DEF EngineInv, EngineTyped
  <2>5. Explained'
    <3>1. /\ \A n : NodeTouches(n)' = {}
          /\ \A s, t : EdgeTouches(s, t)' = {}
      BY <2>3 DEF NodeTouches, EdgeTouches
    <3> QED BY <2>1, <3>1 DEF Explained, NodesExplained, EdgesExplained
  <2> QED BY <2>1, <2>2, <2>3, <2>4, <2>5 DEF EngineInv, BatchAllOrNothing, FailedBatchUndone,
     Explained
<1>3. ASSUME EngineInv, ApplyMutation PROVE EngineInv'
  <2>1. /\ EngineTyped /\ Explained /\ running /\ Len(succeeded) = next - 1
        /\ rollback => Done = DOMAIN succeeded
    BY <1>3 DEF EngineInv, ApplyMutation
  <2>2. EngineTyped' /\ Explained'
    BY <1>3, <2>1, AppliedIsTyped, AppliedIsExplained
  <2>3. next \in 1..Len(batch) /\ Len(batch) \in Nat
    BY <1>3, <2>1, DoneTyped DEF ApplyMutation
  <2>4. /\ Done' = Done \cup {next} /\ DOMAIN succeeded' = 1..next
        /\ Len(succeeded') = next
    BY <1>3, <2>1, <2>3, SuccessCounts, DoneTyped DEF ApplyMutation
  <2>5. /\ running' /\ ~raised' /\ rollback' = rollback /\ batch' = batch
        /\ next' = next + 1
    BY <1>3, <2>1 DEF ApplyMutation, EngineInv
  <2>6. rollback' => Done' = DOMAIN succeeded'
    <3>1. DOMAIN succeeded = 1..(next - 1)
      BY <2>1, DoneTyped
    <3> QED BY <2>1, <2>3, <2>4, <2>5, <3>1
  <2> QED BY <2>2, <2>3, <2>4, <2>5, <2>6 DEF EngineInv, BatchAllOrNothing, FailedBatchUndone,
     Explained
<1>4. ASSUME EngineInv, RollBack PROVE EngineInv'
  <2>1. /\ EngineTyped /\ Len(succeeded) = next - 1 /\ Done = DOMAIN succeeded
        /\ rollback' /\ ~running' /\ ~raised'
        /\ nodes' = checkpoint.nodes /\ edges' = checkpoint.edges
        /\ UNCHANGED <<checkpoint, batch, next>>
    BY <1>4 DEF EngineInv, RollBack
  <2>2. next \in 1..Len(batch) /\ Len(batch) \in Nat
    BY <1>4, <2>1, DoneTyped DEF RollBack
  <2>3. /\ Done' = Done /\ Done = 1..(next - 1) /\ DOMAIN succeeded' = 1..next
        /\ Len(succeeded') = next /\ succeeded' \in Seq(BOOLEAN)
    BY <1>4, <2>1, <2>2, FailureCounts, DoneTyped DEF RollBack
  <2>4. EngineTyped'
    BY <2>1, <2>2, <2>3 DEF EngineTyped
  <2>5. Done' # DOMAIN succeeded'
    BY <2>2, <2>3
  <2> QED BY <2>1, <2>2, <2>3, <2>4, <2>5 DEF EngineInv, BatchAllOrNothing, FailedBatchUndone
<1>5. ASSUME EngineInv, SkipFailed PROVE EngineInv'
  <2>1. /\ EngineTyped /\ Explained /\ Len(succeeded) = next - 1
        /\ running' /\ ~raised' /\ ~rollback' /\ next' = next + 1
        /\ UNCHANGED <<edges, checkpoint, batch>>
        /\ DOMAIN nodes' = DOMAIN nodes
    BY <1>5, FailureKeepsNodes DEF EngineInv, SkipFailed
  <2>2. next \in 1..Len(batch) /\ Len(batch) \in Nat
    BY <1>5, <2>1, DoneTyped DEF SkipFailed
  <2>3. Done' = Done /\ Len(succeeded') = next /\ succeeded' \in Seq(BOOLEAN)
    BY <1>5, <2>1, <2>2, FailureCounts, DoneTyped DEF SkipFailed
  <2>4. EngineTyped'
    BY <2>1, <2>2, <2>3 DEF EngineTyped
  <2>5. Explained'
    BY <2>1, <2>3, ExplainedStays
  <2> QED BY <2>1, <2>2, <2>3, <2>4, <2>5 DEF EngineInv, BatchAllOrNothing, FailedBatchUndone,
     Explained
<1>6. ASSUME EngineInv, ValidationRaises PROVE EngineInv'
  <2>1. /\ EngineTyped /\ Explained /\ Len(succeeded) = next - 1 /\ ~running'
        /\ rollback => Done = DOMAIN succeeded
        /\ raised'
        /\ UNCHANGED <<nodes, edges, checkpoint, batch, next, rollback, succeeded>>
    BY <1>6 DEF EngineInv, ValidationRaises
  <2>2. Done' = Done
    BY <2>1 DEF Done
  <2>3. EngineTyped' /\ Explained'
    BY <2>1, <2>2, ExplainedStays DEF EngineTyped
  <2> QED BY <2>1, <2>2, <2>3 DEF EngineInv, BatchAllOrNothing, FailedBatchUndone, Explained
<1>7. ASSUME EngineInv, EndBatch PROVE EngineInv'
  <2>1. /\ EngineTyped /\ Explained /\ ~running' /\ ~raised'
        /\ rollback => Done = DOMAIN succeeded
        /\ UNCHANGED <<nodes, edges, checkpoint, batch, next, rollback, succeeded>>
    BY <1>7 DEF EngineInv, EndBatch
  <2>2. Len(succeeded) = Len(batch)
    BY <1>7, <2>1, DoneTyped DEF EngineInv, EndBatch
  <2>3. Done' = Done
    BY <2>1 DEF Done
  <2>4. EngineTyped' /\ Explained'
    BY <2>1, <2>3, ExplainedStays DEF EngineTyped
  <2> QED BY <2>1, <2>2, <2>3, <2>4 DEF EngineInv, BatchAllOrNothing, FailedBatchUndone, Explained
<1>8. ASSUME EngineInv, UNCHANGED engineVars PROVE EngineInv'
  <2>1. Done' = Done /\ (Explained => Explained')
    <3>1. Done' = Done
      BY <1>8 DEF engineVars, Done
    <3> QED BY <1>8, <3>1, ExplainedStays DEF engineVars
  <2> QED BY <1>8, <2>1 DEF engineVars, EngineInv, EngineTyped, BatchAllOrNothing,
     FailedBatchUndone, Explained
<1> QED BY <1>1, <1>2, <1>3, <1>4, <1>5, <1>6, <1>7, <1>8 DEF EngineNext

\* Whatever mutations a model asks for, malformed ones included, a call with
\* rollback_on_failure that returns with a failure leaves the graph as it was, and
\* after any other call the successful mutations tell what the graph holds, also
\* when an exception ended it (mutation_engine.py:166-248).
THEOREM BatchesAllOrNothing == EngineSpec => []BatchAllOrNothing
<1>1. EngineInv => BatchAllOrNothing
  BY DEF EngineInv
<1> QED BY <1>1, EngineInvInductive, PTL DEF EngineSpec

-----------------------------------------------------------------------------
(* Nested graphs: the scopes of a hierarchy.                               *)

NodeIds == UNION {Ids(Graphs[file]) : file \in DOMAIN Graphs}
Scope == Seq(NodeIds) \X DOMAIN Graphs

\* The scopes directly below those of S.
Below(s) == {<<Append(s[1], id), GetNode(Graphs[s[2]], id).data>> : id \in Loadable(s[2])}
Nested(S) == UNION {Below(s) : s \in S}

LEMMA NestedTyped ==
  ASSUME NEW s \in Scope
  PROVE  Below(s) \in SUBSET Scope
<1> SUFFICES ASSUME NEW id \in Loadable(s[2])
             PROVE  <<Append(s[1], id), GetNode(Graphs[s[2]], id).data>> \in Scope
  BY DEF Below
<1>1. s[1] \in Seq(NodeIds) /\ s[2] \in DOMAIN Graphs
  BY DEF Scope
<1>2. id \in NodeIds /\ GetNode(Graphs[s[2]], id).data \in DOMAIN Graphs
  BY <1>1 DEF Loadable, NodeIds
<1>3. Append(s[1], id) \in Seq(NodeIds)
  BY <1>1, <1>2, AppendProperties
<1> QED BY <1>2, <1>3 DEF Scope

AtBy(f, root, n) ==
  /\ ScopesAt(root, n) = f[n]
  /\ f[0] = {<<<<>>, root>>}
  /\ \A d \in 1..n : f[d] = Nested(f[d - 1])

LEMMA ScopesRecursion ==
  ASSUME NEW root \in DOMAIN Graphs, NEW n \in Nat
  PROVE  \E f \in [0..n -> SUBSET Scope] : AtBy(f, root, n)
<1> DEFINE V == SUBSET Scope
           Step(g, d) == IF d = 0 THEN {<<<<>>, root>>} ELSE Nested(g[d - 1])
           f == CHOOSE g : g = [d \in 0..n |-> Step(g, d)]
           step == [d \in 1..n |-> [S \in V |-> Nested(S)]]
<1>1. {<<<<>>, root>>} \in V
  <2>1. <<>> \in Seq(NodeIds)
    BY EmptySeq
  <2>2. <<<<>>, root>> \in Scope
    BY <2>1 DEF Scope
  <2> QED BY <2>2
<1>2. \A S \in V : Nested(S) \in V
  BY NestedTyped DEF Nested
<1>3. step \in [1..n -> [V -> V]]
  <2> HIDE DEF V
  <2> QED BY <1>2
<1>4. PICK h \in [0..n -> V] :
        h[0] = {<<<<>>, root>>} /\ \A d \in 1..n : h[d] = step[d][h[d - 1]]
  <2> HIDE DEF step, V
  <2>1. \E h \in [0..n -> V] : Recurs(h, {<<<<>>, root>>}, n, step)
    BY <1>1, <1>3, Recursion
  <2> QED BY <2>1 DEF Recurs
<1> HIDE DEF V
<1>5. ASSUME NEW d \in 0..n PROVE h[d] = Step(h, d)
  <2>1. CASE d = 0
    BY <1>4, <2>1
  <2>2. CASE d # 0
    <3>1. d \in 1..n /\ h[d - 1] \in V
      BY <2>2
    <3>2. h[d] = Nested(h[d - 1])
      BY <1>4, <3>1
    <3> QED BY <2>2, <3>2
  <2> QED BY <2>1, <2>2
<1>6. h = [d \in 0..n |-> Step(h, d)]
  BY <1>5
<1>7. f = [d \in 0..n |-> Step(f, d)]
  <2> HIDE DEF step
  <2> QED BY <1>6
<1>8. ScopesAt(root, n) = f[n]
  BY DEF ScopesAt, Nested, Below
<1> HIDE DEF f, step
<1>9. f[0] = {<<<<>>, root>>} /\ \A d \in 1..n : f[d] = Nested(f[d - 1])
  <2>1. 0 \in 0..n /\ \A d \in 1..n : d \in 0..n /\ d # 0
    OBVIOUS
  <2> QED BY <1>7, <2>1
<1>10. f \in [0..n -> V]
  <2> DEFINE N == {d \in Nat : d <= n => f[d] \in V}
  <2>1. 0 \in N
    BY <1>1, <1>9
  <2>2. ASSUME NEW d \in Nat, d \in N PROVE d + 1 \in N
    <3> SUFFICES ASSUME d + 1 <= n PROVE f[d + 1] \in V
      OBVIOUS
    <3>1. d + 1 \in 1..n /\ f[d] \in V /\ (d + 1) - 1 = d
      BY <2>2
    <3> QED BY <1>2, <1>9, <3>1
  <2>3. N \in SUBSET Nat
    OBVIOUS
  <2> HIDE DEF N
  <2>4. N = Nat
    BY <2>1, <2>2, <2>3, Induction
  <2>5. \A d \in 0..n : f[d] \in V
    BY <2>4 DEF N
  <2> QED BY <1>7, <2>5
<1> QED BY <1>8, <1>9, <1>10 DEF AtBy, V

LEMMA ScopesStep ==
  ASSUME NEW root \in DOMAIN Graphs, NEW n \in Nat
  PROVE  /\ ScopesAt(root, 0) = {<<<<>>, root>>}
         /\ ScopesAt(root, n + 1) = Nested(ScopesAt(root, n))
         /\ ScopesAt(root, n) \in SUBSET Scope
<1>1. PICK e \in [0..0 -> SUBSET Scope] : AtBy(e, root, 0)
  BY ScopesRecursion
<1>2. PICK f \in [0..n -> SUBSET Scope] : AtBy(f, root, n)
  BY ScopesRecursion
<1>3. PICK g \in [0..(n + 1) -> SUBSET Scope] : AtBy(g, root, n + 1)
  <2>1. n + 1 \in Nat
    OBVIOUS
  <2> QED BY <2>1, ScopesRecursion
<1>4. GoAlike(f, g, n)
  <2>1. ASSUME NEW d \in 1..n, f[d - 1] = g[d - 1] PROVE f[d] = g[d]
    <3>1. d \in 1..(n + 1)
      OBVIOUS
    <3> QED BY <1>2, <1>3, <2>1, <3>1 DEF AtBy
  <2> QED BY <1>2, <1>3, <2>1 DEF AtBy, GoAlike
<1>5. f[n] = g[n]
  BY <1>4, SameRecursion
<1>6. g[n + 1] = Nested(g[n])
  <2>1. n + 1 \in 1..(n + 1) /\ (n + 1) - 1 = n
    OBVIOUS
  <2> QED BY <1>3, <2>1 DEF AtBy
<1>7. ScopesAt(root, 0) = {<<<<>>, root>>}
  BY <1>1 DEF AtBy
<1>8. ScopesAt(root, n) = f[n] /\ ScopesAt(root, n + 1) = g[n + 1] /\ f[n] \in SUBSET Scope
  BY <1>2, <1>3 DEF AtBy
<1> QED BY <1>5, <1>6, <1>7, <1>8

\* A hierarchy is of finite depth.
LEMMA ScopesEnd ==
  ASSUME NEW root \in Roots
  PROVE  /\ root \in DOMAIN Graphs
         /\ Scopes[root] = UNION {ScopesAt(root, d) : d \in Nat}
<1> DEFINE depth == Cardinality(DOMAIN Graphs)
<1>1. /\ root \in DOMAIN Graphs /\ depth \in Nat /\ ScopesAt(root, depth) = {}
  BY HierarchyAssumption, FS_CardinalityType
<1>2. Scopes[root] = UNION {ScopesAt(root, d) : d \in 0..depth}
  BY DEF Scopes
<1> HIDE DEF depth
<1> DEFINE N == {n \in Nat : ScopesAt(root, depth + n) = {}}
<1>3. 0 \in N
  BY <1>1
<1>4. ASSUME NEW n \in Nat, n \in N PROVE n + 1 \in N
  <2>1. depth + n \in Nat /\ depth + (n + 1) = (depth + n) + 1
    BY <1>1
  <2>2. ScopesAt(root, (depth + n) + 1) = Nested(ScopesAt(root, depth + n))
    BY <1>1, <2>1, ScopesStep
  <2>3. ScopesAt(root, depth + n) = {}
    BY <1>4
  <2>4. Nested({}) = {}
    BY DEF Nested
  <2>5. ScopesAt(root, depth + (n + 1)) = {}
    <3> HIDE DEF N
    <3>1. ScopesAt(root, (depth + n) + 1) = {}
      BY <2>2, <2>3, <2>4
    <3> QED BY <2>1, <3>1
  <2> QED BY <2>5
<1>5. N \in SUBSET Nat
  OBVIOUS
<1> HIDE DEF N
<1>6. N = Nat
  BY <1>3, <1>4, <1>5, Induction
<1>7. ASSUME NEW d \in Nat, d \notin 0..depth PROVE ScopesAt(root, d) = {}
  <2>1. d - depth \in N /\ depth + (d - depth) = d
    BY <1>1, <1>6, <1>7
  <2> QED BY <2>1 DEF N
<1> QED BY <1>1, <1>2, <1>7

LEMMA ScopesAre ==
  ASSUME NEW root \in Roots
  PROVE  /\ root \in DOMAIN Graphs /\ Scopes[root] \in SUBSET Scope
         /\ <<<<>>, root>> \in Scopes[root]
         /\ \A s \in Scopes[root] : Below(s) \subseteq Scopes[root]
         /\ \A s \in Scopes[root] :
              s = <<<<>>, root>> \/ \E t \in Scopes[root] : s \in Below(t)
<1> DEFINE At(d) == ScopesAt(root, d)
<1>1. root \in DOMAIN Graphs /\ Scopes[root] = UNION {At(d) : d \in Nat}
  BY ScopesEnd
<1>2. At(0) = {<<<<>>, root>>} /\ \A d \in Nat : At(d + 1) = Nested(At(d)) /\ At(d) \in SUBSET Scope
  BY <1>1, ScopesStep
<1> HIDE DEF At
<1>3. Scopes[root] \in SUBSET Scope /\ <<<<>>, root>> \in Scopes[root]
  BY <1>1, <1>2
<1>4. ASSUME NEW s \in Scopes[root] PROVE Below(s) \subseteq Scopes[root]
  <2>1. PICK d \in Nat : s \in At(d)
    BY <1>1
  <2>2. Below(s) \subseteq At(d + 1)
    BY <1>2, <2>1 DEF Nested
  <2> QED BY <1>1, <2>2
<1>5. ASSUME NEW s \in Scopes[root], s # <<<<>>, root>>
      PROVE  \E t \in Scopes[root] : s \in Below(t)
  <2>1. PICK d \in Nat : s \in At(d)
    BY <1>1
  <2>2. d # 0 /\ d - 1 \in Nat /\ (d - 1) + 1 = d
    BY <1>2, <1>5, <2>1
  <2>3. s \in Nested(At(d - 1))
    BY <1>2, <2>1, <2>2
  <2>4. PICK t \in At(d - 1) : s \in Below(t)
    BY <2>3 DEF Nested
  <2> QED BY <1>1, <2>2, <2>4
<1> QED BY <1>1, <1>3, <1>4, <1>5

\* What holds of the root and goes on to the scopes below holds of all.
LEMMA ScopesInduction ==
  ASSUME NEW root \in Roots, NEW S, <<<<>>, root>> \in S,
         \A s \in Scopes[root] : s \in S => Below(s) \subseteq S
  PROVE  Scopes[root] \subseteq S
<1> DEFINE N == {d \in Nat : ScopesAt(root, d) \subseteq S}
<1>1. root \in DOMAIN Graphs /\ Scopes[root] = UNION {ScopesAt(root, d) : d \in Nat}
  BY ScopesEnd
<1>2. 0 \in N
  BY <1>1, ScopesStep
<1>3. ASSUME NEW d \in Nat, d \in N PROVE d + 1 \in N
  <2>1. ScopesAt(root, d) \subseteq S /\ ScopesAt(root, d) \subseteq Scopes[root]
    BY <1>1, <1>3
  <2>2. ScopesAt(root, d + 1) = Nested(ScopesAt(root, d))
    BY <1>1, ScopesStep
  <2>3. Nested(ScopesAt(root, d)) \subseteq S
    BY <2>1 DEF Nested
  <2> QED BY <2>2, <2>3
<1>4. N \in SUBSET Nat
  OBVIOUS
<1> HIDE DEF N
<1>5. N = Nat
  BY <1>2, <1>3, <1>4, Induction
<1> QED BY <1>1, <1>5 DEF N

\* A path shows one file.
LEMMA OneFile ==
  ASSUME NEW root \in Roots, NEW s \in Scopes[root], NEW t \in Scopes[root], s[1] = t[1]
  PROVE  s = t
<1> DEFINE H == Scopes[root]
           S == {x \in H : \A y \in H : x[1] = y[1] => x = y}
<1>1. /\ H \in SUBSET Scope /\ <<<<>>, root>> \in H
      /\ \A x \in H : Below(x) \subseteq H
      /\ \A x \in H : x = <<<<>>, root>> \/ \E y \in H : x \in Below(y)
  BY ScopesAre
<1> HIDE DEF H
<1>2. \A x \in H : x[1] \in Seq(NodeIds)
  BY <1>1 DEF Scope
<1>8. \A x \in H : Loadable(x[2]) \subseteq NodeIds
  BY <1>1 DEF Scope, Loadable, NodeIds
<1>3. ASSUME NEW x \in H, NEW y \in Below(x)
      PROVE  \E id \in Loadable(x[2]) :
               /\ y[1] = Append(x[1], id) /\ y[1] # <<>>
               /\ y = <<Append(x[1], id), GetNode(Graphs[x[2]], id).data>>
  BY <1>2, <1>8, AppendProperties DEF Below
<1>4. <<<<>>, root>> \in S
  BY <1>1, <1>3
<1>5. ASSUME NEW x \in H, x \in S PROVE Below(x) \subseteq S
  <2> SUFFICES ASSUME NEW u \in Below(x), NEW y \in H, u[1] = y[1] PROVE u = y
    BY <1>1
  <2>1. PICK id \in Loadable(x[2]) :
          u[1] = Append(x[1], id) /\ u[1] # <<>> /\ u = <<Append(x[1], id), GetNode(Graphs[x[2]], id).data>>
    BY <1>3
  <2>2. y # <<<<>>, root>>
    <3>1. y[1] # <<>>
      BY <2>1
    <3> QED BY <3>1
  <2>3. PICK z \in H : y \in Below(z)
    BY <1>1, <2>2
  <2>4. PICK j \in Loadable(z[2]) :
          y[1] = Append(z[1], j) /\ y = <<Append(z[1], j), GetNode(Graphs[z[2]], j).data>>
    BY <1>3, <2>3
  <2>5. x[1] = z[1] /\ id = j
    <3>1. Append(x[1], id) = Append(z[1], j)
      BY <2>1, <2>4
    <3>2. x[1] \in Seq(NodeIds) /\ z[1] \in Seq(NodeIds) /\ id \in NodeIds /\ j \in NodeIds
      BY <1>2, <1>8
    <3> HIDE DEF S
    <3> QED BY <3>1, <3>2, AppendInjective
  <2>6. x = z
    BY <1>5, <2>5
  <2> QED BY <2>1, <2>4, <2>5, <2>6
<1> HIDE DEF S
<1>6. H \subseteq S
  BY <1>4, <1>5, ScopesInduction DEF H
<1>7. s \in S /\ t \in H
  BY <1>6 DEF H
<1> QED BY <1>7 DEF S

-----------------------------------------------------------------------------
(* What a handler sees.                                                    *)

LEMMA NodeHasId ==
  ASSUME NEW graph, NEW id \in Ids(graph)
  PROVE  GetNode(graph, id).id = id
BY DEF Ids, GetNode

LEMMA InputsAgree ==
  ASSUME NEW file \in DOMAIN Graphs, NEW id, NEW relations, NEW f, NEW g,
         DOMAIN f \subseteq Ids(Graphs[file]), DOMAIN g \subseteq Ids(Graphs[file]),
         \A m \in Sources(Graphs[file], id) :
           (m \in DOMAIN f <=> m \in DOMAIN g) /\ (m \in DOMAIN f => f[m] = g[m])
  PROVE  Inputs(Graphs[file], f, id, relations) = Inputs(Graphs[file], g, id, relations)
<1> DEFINE lines == Graphs[file].edges
           Along(h) == {e \in ToSet(lines) :
             e.to_id = id /\ e.relation \in relations /\ e.from_id \in DOMAIN h}
<1>1. lines \in Seq(ToSet(lines))
  BY HierarchyAssumption
<1>2. ASSUME NEW e \in ToSet(lines), e.to_id = id, e.from_id \in Ids(Graphs[file])
      PROVE  e.from_id \in Sources(Graphs[file], id)
  <2>1. PICK i \in DOMAIN lines : e = lines[i]
    BY DEF ToSet
  <2> QED BY <1>2, <2>1 DEF Sources
<1>3. Along(f) = Along(g)
  BY <1>2
<1> DEFINE kept == Kept(lines, Along(f))
<1>4. kept \in Seq(ToSet(lines)) /\ ToSet(kept) = ToSet(lines) \cap Along(f)
  <2> HIDE DEF lines, Along
  <2> QED BY <1>1, KeptElements
<1>5. ASSUME NEW i \in DOMAIN kept PROVE f[kept[i].from_id] = g[kept[i].from_id]
  <2>1. kept[i] \in ToSet(kept)
    BY DEF ToSet
  <2>2. kept[i] \in Along(f)
    BY <1>4, <2>1
  <2> HIDE DEF kept
  <2>3. kept[i].from_id \in Sources(Graphs[file], id) /\ kept[i].from_id \in DOMAIN f
    BY <1>2, <2>2
  <2> QED BY <2>3
<1>6. /\ Inputs(Graphs[file], f, id, relations) = [i \in DOMAIN kept |-> f[kept[i].from_id]]
      /\ Inputs(Graphs[file], g, id, relations) = [i \in DOMAIN kept |-> g[kept[i].from_id]]
  BY <1>3 DEF Inputs
<1> HIDE DEF kept
<1> QED BY <1>5, <1>6

\* A handler sees what has come along the edges to its node, and no more.
LEMMA HandleAgrees ==
  ASSUME NEW file \in DOMAIN Graphs, NEW id \in Ids(Graphs[file]), NEW f, NEW g,
         DOMAIN f \subseteq Ids(Graphs[file]), DOMAIN g \subseteq Ids(Graphs[file]),
         \A m \in Sources(Graphs[file], id) :
           (m \in DOMAIN f <=> m \in DOMAIN g) /\ (m \in DOMAIN f => f[m] = g[m])
  PROVE  Handle(Graphs[file], f, GetNode(Graphs[file], id))
           = Handle(Graphs[file], g, GetNode(Graphs[file], id))
<1>1. GetNode(Graphs[file], id).id = id
  BY NodeHasId
<1>2. /\ Inputs(Graphs[file], f, id, {"REQUIRES"}) = Inputs(Graphs[file], g, id, {"REQUIRES"})
      /\ Inputs(Graphs[file], f, id, Relations(Graphs[file]))
           = Inputs(Graphs[file], g, id, Relations(Graphs[file]))
  BY InputsAgree
<1> QED BY <1>1, <1>2 DEF Handle

-----------------------------------------------------------------------------
(* The order of execution.                                                 *)

\* The visits of a call of _get_execution_order.  A graph with a ranking has each
\* node in the order after what it depends on.
Plans(file, open, order) ==
  /\ open \in Seq(Ids(Graphs[file])) /\ order \in Seq(Ids(Graphs[file]))
  /\ IsInjective(open) /\ IsInjective(order)
  /\ ToSet(open) \cap ToSet(order) = {}
  /\ file \in OrderedFiles =>
       /\ \A rank \in Rankings(Graphs[file]) : \A i, j \in 1..Len(open) :
            i < j => rank[open[j]] < rank[open[i]]
       /\ \A i \in 1..Len(order) : \A m \in Sources(Graphs[file], order[i]) :
            \E j \in 1..(i - 1) : order[j] = m

\* In a graph of an ordered file all that leads to a node is a dependency.
LEMMA SourcesAreDependencies ==
  ASSUME NEW file \in OrderedFiles, NEW id
  PROVE  Sources(Graphs[file], id) = Dependency(Graphs[file], id)
<1> DEFINE lines == Graphs[file].edges
<1>1. \A i \in DOMAIN lines : lines[i].relation \in Ordering
  BY DEF OrderedFiles, Relations
<1> QED BY <1>1 DEF Sources, Dependency

\* A list without repetition goes on without.
LEMMA AppendedOnce ==
  ASSUME NEW X, NEW s \in Seq(X), NEW x \in X, IsInjective(s), x \notin ToSet(s)
  PROVE  IsInjective(Append(s, x))
<1> DEFINE t == Append(s, x)
<1>1. /\ t \in Seq(X) /\ Len(t) = Len(s) + 1 /\ t[Len(s) + 1] = x
      /\ \A i \in 1..Len(s) : t[i] = s[i]
  BY AppendProperties
<1>2. DOMAIN t = 1..Len(t) /\ DOMAIN s = 1..Len(s) /\ Len(s) \in Nat
  BY <1>1, LenProperties
<1>3. /\ \A i, j \in 1..Len(s) : s[i] = s[j] => i = j
      /\ \A i \in 1..Len(s) : s[i] # x
  BY <1>2, ElementsOf DEF IsInjective
<1> HIDE DEF t
<1>4. ASSUME NEW i \in 1..(Len(s) + 1), NEW j \in 1..(Len(s) + 1), t[i] = t[j] PROVE i = j
  <2>1. CASE i \in 1..Len(s) /\ j \in 1..Len(s)
    BY <1>1, <1>3, <1>4, <2>1
  <2>2. CASE i = Len(s) + 1
    BY <1>1, <1>2, <1>3, <1>4, <2>2
  <2>3. CASE j = Len(s) + 1
    BY <1>1, <1>2, <1>3, <1>4, <2>3
  <2> QED BY <1>2, <2>1, <2>2, <2>3
<1>5. IsInjective(t)
  BY <1>1, <1>2, <1>4 DEF IsInjective
<1> QED BY <1>5 DEF t

LEMMA Visits ==
  ASSUME NEW file \in DOMAIN Graphs, NEW order, Plans(file, <<>>, order),
         NEW id \in Ids(Graphs[file]) \ ToSet(order)
  PROVE  Plans(file, <<id>>, order)
<1> DEFINE X == Ids(Graphs[file])
<1>1. <<id>> \in Seq(X) /\ Len(<<id>>) = 1 /\ ToSet(<<id>>) = {id} /\ IsInjective(<<id>>)
  BY DEF ToSet, IsInjective
<1>2. \A i, j \in 1..Len(<<id>>) : ~(i < j)
  BY <1>1
<1> QED BY <1>1, <1>2 DEF Plans

LEMMA VisitsDependency ==
  ASSUME NEW file \in DOMAIN Graphs, NEW open, NEW order, Plans(file, open, order),
         open # <<>>,
         NEW dep \in Dependency(Graphs[file], Last(open)) \ (ToSet(open) \cup ToSet(order))
  PROVE  Plans(file, Append(open, dep), order)
<1> DEFINE X == Ids(Graphs[file])
           n == Len(open)
           u == Append(open, dep)
<1>1. open \in Seq(X) /\ dep \in X /\ IsInjective(open)
  BY DEF Plans, Dependency
<1>2. n \in Nat \ {0} /\ \A i \in 1..n : open[i] \in X
  BY <1>1, EmptySeq, LenProperties, ElementOfSeq
<1>3. /\ u \in Seq(X) /\ Len(u) = n + 1 /\ u[n + 1] = dep
      /\ \A i \in 1..n : u[i] = open[i]
  BY <1>1, AppendProperties
<1>4. ToSet(u) = ToSet(open) \cup {dep} /\ IsInjective(u)
  BY <1>1, ElementsOfAppend, AppendedOnce
<1>5. ASSUME file \in OrderedFiles, NEW rank \in Rankings(Graphs[file]),
             NEW i \in 1..(n + 1), NEW j \in 1..(n + 1), i < j
      PROVE  rank[u[j]] < rank[u[i]]
  <2>1. \A k, l \in 1..n : k < l => rank[open[l]] < rank[open[k]]
    BY <1>5 DEF Plans
  <2>2. CASE j \in 1..n
    BY <1>3, <1>5, <2>1, <2>2
  <2>3. CASE j = n + 1
    <3>1. Last(open) = open[n] /\ dep \in Sources(Graphs[file], open[n])
      BY <1>5, SourcesAreDependencies DEF Last
    <3>2. rank[dep] < rank[open[n]] /\ rank \in [X -> 1..Len(Graphs[file].nodes)]
      BY <1>2, <3>1 DEF Rankings
    <3>3. i \in 1..n /\ u[i] = open[i] /\ u[j] = dep /\ (i = n \/ i < n) /\ n \in 1..n
      BY <1>2, <1>3, <1>5, <2>3
    <3>4. i < n => rank[open[n]] < rank[open[i]]
      BY <2>1, <3>3
    <3>5. rank[open[i]] \in Int /\ rank[open[n]] \in Int /\ rank[dep] \in Int
      BY <1>1, <1>2, <3>2, <3>3
    <3> HIDE DEF u, n
    <3> QED BY <3>2, <3>3, <3>4, <3>5
  <2> QED BY <1>2, <2>2, <2>3
<1> HIDE DEF u, n
<1>6. ToSet(u) \cap ToSet(order) = {}
  BY <1>4 DEF Plans
<1>7. file \in OrderedFiles =>
        \A rank \in Rankings(Graphs[file]) : \A i, j \in 1..Len(u) :
          i < j => rank[u[j]] < rank[u[i]]
  BY <1>3, <1>5
<1>8. Plans(file, u, order)
  BY <1>3, <1>4, <1>6, <1>7 DEF Plans
<1> QED BY <1>8 DEF u

\* All but the last of a list, and the last.
LEMMA FrontAndLast ==
  ASSUME NEW X, NEW s \in Seq(X), s # <<>>
  PROVE  /\ Len(s) \in Nat \ {0} /\ Last(s) = s[Len(s)] /\ Last(s) \in X
         /\ Front(s) \in Seq(X) /\ Len(Front(s)) = Len(s) - 1
         /\ \A i \in 1..(Len(s) - 1) : Front(s)[i] = s[i]
         /\ ToSet(s) = ToSet(Front(s)) \cup {Last(s)}
         /\ IsInjective(s) => IsInjective(Front(s)) /\ Last(s) \notin ToSet(Front(s))
<1>1. /\ Len(s) \in Nat \ {0} /\ Last(s) = s[Len(s)] /\ Last(s) \in X
      /\ DOMAIN s = 1..Len(s) /\ \A i \in 1..Len(s) : s[i] \in X
  BY EmptySeq, LenProperties, ElementOfSeq DEF Last
<1> DEFINE f == SubSeq(s, 1, Len(s) - 1)
<1>2. f = Front(s)
  BY DEF Front
<1>3. /\ f \in Seq(X) /\ Len(f) = Len(s) - 1
      /\ \A i \in 1..(Len(s) - 1) : f[i] = s[i]
  <2>1. \A i \in 1..(Len(s) - 1) : s[i] \in X
    BY <1>1
  <2>2. Len(s) - 1 \in Int /\ 1 \in Int
    BY <1>1
  <2>3. /\ f \in Seq(X) /\ Len(f) = IF 1 <= Len(s) - 1 THEN (Len(s) - 1) - 1 + 1 ELSE 0
        /\ \A i \in 1..((Len(s) - 1) - 1 + 1) : f[i] = s[1 + i - 1]
    BY <2>1, <2>2, SubSeqProperties
  <2> HIDE DEF f
  <2>4. Len(f) = Len(s) - 1
    <3> DEFINE n == Len(s)
    <3>1. n \in Nat \ {0} /\ Len(f) = IF 1 <= n - 1 THEN (n - 1) - 1 + 1 ELSE 0
      BY <1>1, <2>3
    <3> HIDE DEF n
    <3>2. Len(f) = n - 1
      BY <3>1
    <3> QED BY <3>2 DEF n
  <2>5. ASSUME NEW i \in 1..(Len(s) - 1) PROVE f[i] = s[i]
    <3>1. i \in 1..((Len(s) - 1) - 1 + 1) /\ 1 + i - 1 = i
      BY <1>1
    <3>2. f[i] = s[1 + i - 1]
      BY <2>3, <3>1
    <3> QED BY <3>1, <3>2
  <2> QED BY <2>3, <2>4, <2>5
<1> HIDE DEF f
<1>4. DOMAIN f = 1..(Len(s) - 1)
  BY <1>3, LenProperties
<1>5. ToSet(f) = {s[i] : i \in 1..(Len(s) - 1)} /\ ToSet(s) = {s[i] : i \in 1..Len(s)}
  BY <1>1, <1>3, <1>4 DEF ToSet
<1>6. ToSet(s) = ToSet(f) \cup {Last(s)}
  BY <1>1, <1>5
<1>7. IsInjective(s) => IsInjective(f) /\ Last(s) \notin ToSet(f)
  BY <1>1, <1>3, <1>4, <1>5 DEF IsInjective
<1> QED BY <1>1, <1>2, <1>3, <1>6, <1>7

LEMMA VisitEnds ==
  ASSUME NEW file \in DOMAIN Graphs, NEW open, NEW order, Plans(file, open, order),
         open # <<>>,
         Dependency(Graphs[file], Last(open)) \subseteq ToSet(open) \cup ToSet(order)
  PROVE  Plans(file, Front(open), Append(order, Last(open)))
<1> DEFINE X == Ids(Graphs[file])
           id == Last(open)
           u == Append(order, id)
           f == Front(open)
<1>1. /\ open \in Seq(X) /\ order \in Seq(X) /\ IsInjective(open) /\ IsInjective(order)
      /\ ToSet(open) \cap ToSet(order) = {}
  BY DEF Plans
<1>2. /\ Len(open) \in Nat \ {0} /\ id = open[Len(open)] /\ id \in X
      /\ f \in Seq(X) /\ Len(f) = Len(open) - 1
      /\ \A i \in 1..(Len(open) - 1) : f[i] = open[i]
      /\ ToSet(open) = ToSet(f) \cup {id}
      /\ IsInjective(f) /\ id \notin ToSet(f)
  BY <1>1, FrontAndLast
<1>3. /\ u \in Seq(X) /\ Len(u) = Len(order) + 1 /\ u[Len(order) + 1] = id
      /\ \A i \in 1..Len(order) : u[i] = order[i]
      /\ ToSet(u) = ToSet(order) \cup {id} /\ IsInjective(u) /\ Len(order) \in Nat
  <2>1. id \notin ToSet(order)
    BY <1>1, <1>2
  <2> HIDE DEF id
  <2> QED BY <1>1, <1>2, <2>1, AppendProperties, ElementsOfAppend, AppendedOnce, LenProperties
<1>4. ToSet(f) \cap ToSet(u) = {}
  BY <1>1, <1>2, <1>3
<1>5. ASSUME file \in OrderedFiles, NEW m \in Sources(Graphs[file], id)
      PROVE  \E j \in 1..Len(order) : order[j] = m
  <2>1. PICK rank \in Rankings(Graphs[file]) : TRUE
    BY <1>5 DEF OrderedFiles
  <2>2. rank \in [X -> 1..Len(Graphs[file].nodes)] /\ rank[m] < rank[id] /\ m \in X
    BY <1>2, <2>1 DEF Rankings, Sources
  <2>3. m \notin ToSet(open)
    <3> SUFFICES ASSUME m \in ToSet(open) PROVE FALSE
      OBVIOUS
    <3>1. PICK i \in 1..Len(open) : open[i] = m
      BY <1>1, ElementsOf
    <3>2. i < Len(open) => rank[open[Len(open)]] < rank[open[i]]
      <4>1. Len(open) \in 1..Len(open)
        BY <1>2
      <4> QED BY <1>5, <2>1, <4>1 DEF Plans
    <3>3. rank[id] \in Int /\ rank[m] \in Int
      BY <1>2, <2>2
    <3>4. i = Len(open) \/ i < Len(open)
      BY <1>2
    <3> QED BY <1>2, <2>2, <3>1, <3>2, <3>3, <3>4
  <2>4. m \in Dependency(Graphs[file], id)
    BY <1>5, SourcesAreDependencies
  <2>5. m \in ToSet(order)
    BY <2>3, <2>4
  <2> QED BY <1>1, <2>5, ElementsOf
<1> HIDE DEF id, u, f
<1>6. ASSUME file \in OrderedFiles, NEW i \in 1..Len(u), NEW m \in Sources(Graphs[file], u[i])
      PROVE  \E j \in 1..(i - 1) : u[j] = m
  <2>1. CASE i = Len(order) + 1
    <3>1. PICK j \in 1..Len(order) : order[j] = m
      BY <1>3, <1>5, <1>6, <2>1
    <3> QED BY <1>3, <2>1, <3>1
  <2>2. CASE i # Len(order) + 1
    <3>1. i \in 1..Len(order) /\ u[i] = order[i]
      BY <1>3, <2>2
    <3>2. PICK j \in 1..(i - 1) : order[j] = m
      BY <1>6, <3>1 DEF Plans
    <3>3. j \in 1..Len(order) /\ u[j] = m
      BY <1>3, <3>1, <3>2
    <3> QED BY <3>2, <3>3
  <2> QED BY <2>1, <2>2
<1>7. file \in OrderedFiles =>
        \A rank \in Rankings(Graphs[file]) : \A i, j \in 1..Len(f) :
          i < j => rank[f[j]] < rank[f[i]]
  BY <1>2 DEF Plans
<1>8. Plans(file, f, u)
  BY <1>2, <1>3, <1>4, <1>6, <1>7 DEF Plans
<1> QED BY <1>8 DEF f, u, id

-----------------------------------------------------------------------------
(* The invariant.                                                          *)

IsSubgraph(file, id) == GetNode(Graphs[file], id).type = "SUBGRAPH"
ScopeOf(frame) == <<frame.path, frame.file>>
Executed(frame) == {frame.order[i] : i \in 1..frame.ran}

\* A call of _execute_graph: what has run, when the order was complete, is what is
\* in the trace, and the local results are the results of this scope.
Runs(frame, root, traced, reported) ==
  /\ frame = [path |-> frame.path, file |-> frame.file, open |-> frame.open,
              order |-> frame.order, ran |-> frame.ran, local |-> frame.local]
  /\ ScopeOf(frame) \in Scopes[root]
  /\ Plans(frame.file, frame.open, frame.order)
  /\ frame.ran \in 0..Len(frame.order)
  /\ frame.ran > 0 => Planned(frame)
  /\ \A id \in Ids(Graphs[frame.file]) :
       Append(frame.path, id) \in traced <=> id \in Executed(frame)
  /\ DOMAIN frame.local = {id \in Executed(frame) : ~IsSubgraph(frame.file, id)}
  /\ \A id \in DOMAIN frame.local :
       /\ Append(frame.path, id) \in DOMAIN reported
       /\ frame.local[id] = reported[Append(frame.path, id)]

\* Each call is about the subgraph that the call before it is at.
StackRuns(stack, root, traced, reported) ==
  /\ stack \in Seq(ToSet(stack)) /\ stack # <<>>
  /\ stack[1].path = <<>> /\ stack[1].file = root /\ root \in Roots
  /\ \A i \in 1..Len(stack) :
       Runs(stack[i], root, traced, reported) /\ Len(stack[i].path) = i - 1
  /\ \A i \in 1..(Len(stack) - 1) :
       /\ stack[i].ran > 0
       /\ stack[i + 1].path = Append(stack[i].path, stack[i].order[stack[i].ran])

\* What the results say, whatever is going on.
Meanings(root, reported) ==
  \A s \in Scopes[root] : s[2] \in OrderedFiles =>
    \A id \in Ids(Graphs[s[2]]) :
      Append(s[1], id) \in DOMAIN reported /\ ~IsSubgraph(s[2], id) =>
        /\ \A m \in Feeding(Graphs[s[2]], id) : Append(s[1], m) \in DOMAIN reported
        /\ reported[Append(s[1], id)] =
             Handle(Graphs[s[2]],
                    [m \in Feeding(Graphs[s[2]], id) |-> reported[Append(s[1], m)]],
                    GetNode(Graphs[s[2]], id))

Complete(s, traced, reported) ==
  \A id \in Ids(Graphs[s[2]]) :
    /\ Append(s[1], id) \in traced
    /\ ~IsSubgraph(s[2], id) => Append(s[1], id) \in DOMAIN reported

Reports(root, traced, reported) ==
  /\ DOMAIN reported \subseteq traced /\ traced \subseteq Flatten(root)
  /\ \A s \in Scopes[root] : \A id \in Ids(Graphs[s[2]]) :
       Append(s[1], id) \in traced => s[1] = <<>> \/ s[1] \in traced
  /\ Meanings(root, reported)
  /\ \A s \in Scopes[root] : s[1] \in DOMAIN reported => Complete(s, traced, reported)

NestedInv ==
  /\ StackRuns(frames, RootFile, ToSet(trace), results)
  /\ Reports(RootFile, ToSet(trace), results)
  /\ trace \in Seq(Seq(NodeIds)) /\ IsInjective(trace)
  /\ outcome = "returned" => Len(frames) = 1 /\ Planned(Top) /\ Top.ran = Len(Top.order)

-----------------------------------------------------------------------------
(* What the results say, and what is added to them.                        *)

LEMMA WithIs ==
  ASSUME NEW f, NEW x, NEW y
  PROVE  /\ DOMAIN With(f, x, y) = DOMAIN f \cup {x} /\ With(f, x, y)[x] = y
         /\ \A z \in DOMAIN f : z # x => With(f, x, y)[z] = f[z]
BY DEF With

LEMMA ScopeFacts ==
  ASSUME NEW root \in Roots, NEW s \in Scopes[root]
  PROVE  /\ s[1] \in Seq(NodeIds) /\ s[2] \in DOMAIN Graphs
         /\ Ids(Graphs[s[2]]) \subseteq NodeIds
         /\ \A id \in Ids(Graphs[s[2]]) :
              /\ Append(s[1], id) \in Flatten(root) /\ Append(s[1], id) # <<>>
              /\ Len(Append(s[1], id)) = Len(s[1]) + 1
<1>1. s \in Scope
  BY ScopesAre
<1>2. s[1] \in Seq(NodeIds) /\ s[2] \in DOMAIN Graphs /\ Ids(Graphs[s[2]]) \subseteq NodeIds
  BY <1>1 DEF Scope, NodeIds
<1> QED BY <1>2, AppendProperties DEF Flatten

LEMMA SameNode ==
  ASSUME NEW root \in Roots, NEW s \in Scopes[root], NEW t \in Scopes[root],
         NEW id \in Ids(Graphs[s[2]]), NEW j \in Ids(Graphs[t[2]]),
         Append(s[1], id) = Append(t[1], j)
  PROVE  s = t /\ id = j
<1>1. s[1] = t[1] /\ id = j
  <2>1. s[1] \in Seq(NodeIds) /\ t[1] \in Seq(NodeIds) /\ id \in NodeIds /\ j \in NodeIds
    BY ScopeFacts
  <2> QED BY <2>1, AppendInjective
<1> QED BY <1>1, OneFile

\* The path of a scope is that of a SUBGRAPH node.
LEMMA ScopeIsSubgraph ==
  ASSUME NEW root \in Roots, NEW s \in Scopes[root], NEW t \in Scopes[root],
         NEW id \in Ids(Graphs[t[2]]), s[1] = Append(t[1], id)
  PROVE  id \in Loadable(t[2]) /\ IsSubgraph(t[2], id)
<1>1. s # <<<<>>, root>>
  <2>1. s[1] # <<>>
    BY ScopeFacts
  <2> QED BY <2>1
<1>2. PICK u \in Scopes[root] : s \in Below(u)
  BY <1>1, ScopesAre
<1>3. PICK j \in Loadable(u[2]) : s[1] = Append(u[1], j)
  BY <1>2 DEF Below
<1>4. j \in Ids(Graphs[u[2]])
  BY DEF Loadable
<1>5. t = u /\ id = j
  BY <1>3, <1>4, SameNode
<1> QED BY <1>3, <1>5 DEF Loadable, IsSubgraph

\* A result that is new, or that of a subgraph, leaves the others what they mean.
LEMMA MeaningsStay ==
  ASSUME NEW root \in Roots, NEW reported, NEW p, NEW v, Meanings(root, reported),
         \A s \in Scopes[root] : \A id \in Ids(Graphs[s[2]]) :
           ~IsSubgraph(s[2], id) /\ p = Append(s[1], id) =>
             /\ p \notin DOMAIN reported
             /\ s[2] \in OrderedFiles =>
                  /\ \A m \in Feeding(Graphs[s[2]], id) : Append(s[1], m) \in DOMAIN reported
                  /\ v = Handle(Graphs[s[2]],
                           [m \in Feeding(Graphs[s[2]], id) |-> reported[Append(s[1], m)]],
                           GetNode(Graphs[s[2]], id))
  PROVE  Meanings(root, With(reported, p, v))
<1> DEFINE now == With(reported, p, v)
<1>1. /\ DOMAIN now = DOMAIN reported \cup {p} /\ now[p] = v
      /\ \A z \in DOMAIN reported : z # p => now[z] = reported[z]
  BY DEF With
<1> HIDE DEF now
<1> SUFFICES ASSUME NEW s \in Scopes[root], s[2] \in OrderedFiles,
                    NEW id \in Ids(Graphs[s[2]]),
                    Append(s[1], id) \in DOMAIN now, ~IsSubgraph(s[2], id)
             PROVE  /\ \A m \in Feeding(Graphs[s[2]], id) : Append(s[1], m) \in DOMAIN now
                    /\ now[Append(s[1], id)] =
                         Handle(Graphs[s[2]],
                           [m \in Feeding(Graphs[s[2]], id) |-> now[Append(s[1], m)]],
                           GetNode(Graphs[s[2]], id))
  BY DEF Meanings, now
<1> DEFINE F == Feeding(Graphs[s[2]], id)
<1>2. \A m \in F : m \in Ids(Graphs[s[2]]) /\ ~IsSubgraph(s[2], m)
  BY DEF Feeding, Sources, IsSubgraph
<1>3. /\ \A m \in F : Append(s[1], m) \in DOMAIN reported
      /\ now[Append(s[1], id)] =
           Handle(Graphs[s[2]], [m \in F |-> reported[Append(s[1], m)]], GetNode(Graphs[s[2]], id))
  <2>1. CASE Append(s[1], id) = p
    BY <1>1, <2>1
  <2>2. CASE Append(s[1], id) # p
    BY <1>1, <2>2 DEF Meanings
  <2> QED BY <2>1, <2>2
<1>4. ASSUME NEW m \in F PROVE now[Append(s[1], m)] = reported[Append(s[1], m)]
  <2>1. Append(s[1], m) \in DOMAIN reported
    BY <1>3
  <2>2. Append(s[1], m) # p
    BY <1>2, <2>1
  <2> QED BY <1>1, <2>1, <2>2
<1> HIDE DEF F
<1>5. [m \in F |-> now[Append(s[1], m)]] = [m \in F |-> reported[Append(s[1], m)]]
  BY <1>4
<1>6. \A m \in F : Append(s[1], m) \in DOMAIN now
  BY <1>1, <1>3
<1> QED BY <1>3, <1>5, <1>6 DEF F

-----------------------------------------------------------------------------
(* One more node has run.                                                  *)

\* A frame that has not run all of its order, at the next node.
At(frame, id) ==
  /\ Planned(frame) /\ frame.ran < Len(frame.order) /\ id = frame.order[frame.ran + 1]

LEMMA AtNext ==
  ASSUME NEW root \in Roots, NEW traced, NEW reported, NEW F, NEW id,
         Runs(F, root, traced, reported), At(F, id)
  PROVE  /\ id \in Ids(Graphs[F.file]) /\ id \notin Executed(F)
         /\ F.file \in DOMAIN Graphs /\ F.path \in Seq(NodeIds)
         /\ ScopeOf(F) \in Scopes[root] /\ ScopeOf(F)[1] = F.path /\ ScopeOf(F)[2] = F.file
         /\ Executed(F) \subseteq Ids(Graphs[F.file])
         /\ Append(F.path, id) \notin traced
         /\ F.ran \in Nat
         /\ {F.order[i] : i \in 1..(F.ran + 1)} = Executed(F) \cup {id}
<1> DEFINE X == Ids(Graphs[F.file])
           n == F.ran
           o == F.order
<1>1. o \in Seq(X) /\ IsInjective(o) /\ n \in 0..Len(o) /\ n < Len(o) /\ id = o[n + 1]
  BY DEF Runs, Plans, At
<1>2. ScopeOf(F) \in Scopes[root] /\ ScopeOf(F)[1] = F.path /\ ScopeOf(F)[2] = F.file
  BY DEF Runs, ScopeOf
<1>3. F.file \in DOMAIN Graphs /\ F.path \in Seq(NodeIds)
  BY <1>2, ScopeFacts
<1>4. /\ Len(o) \in Nat /\ DOMAIN o = 1..Len(o) /\ \A i \in 1..Len(o) : o[i] \in X
  BY <1>1, LenProperties, ElementOfSeq
<1>5. Executed(F) = {o[i] : i \in 1..n}
  BY DEF Executed
<1> HIDE DEF X, n, o
<1>6. n \in Nat /\ n + 1 \in 1..Len(o) /\ \A i \in 1..n : i \in 1..Len(o) /\ i # n + 1
  BY <1>1, <1>4
<1>7. id \in X /\ id \notin Executed(F) /\ Executed(F) \subseteq X
  BY <1>1, <1>4, <1>5, <1>6 DEF IsInjective
<1>8. {o[i] : i \in 1..(n + 1)} = {o[i] : i \in 1..n} \cup {o[n + 1]}
  <2>1. \A i \in 1..(n + 1) : i \in 1..n \/ i = n + 1
    BY <1>6
  <2>2. \A i \in 1..n : i \in 1..(n + 1)
    BY <1>6
  <2>3. n + 1 \in 1..(n + 1)
    BY <1>6
  <2> QED BY <2>1, <2>2, <2>3
<1>9. Append(F.path, id) \notin traced
  BY <1>7 DEF Runs, X
<1> QED BY <1>1, <1>2, <1>3, <1>5, <1>6, <1>7, <1>8, <1>9 DEF X, n, o

\* When a node of an ordered graph runs, all that leads to it has, and its handler
\* sees their results and no others.
LEMMA HandlerSees ==
  ASSUME NEW root \in Roots, NEW traced, NEW reported, NEW F, NEW id,
         Runs(F, root, traced, reported), At(F, id), F.file \in OrderedFiles
  PROVE  /\ \A m \in Feeding(Graphs[F.file], id) : Append(F.path, m) \in DOMAIN reported
         /\ Handle(Graphs[F.file], F.local, GetNode(Graphs[F.file], id))
              = Handle(Graphs[F.file],
                       [m \in Feeding(Graphs[F.file], id) |-> reported[Append(F.path, m)]],
                       GetNode(Graphs[F.file], id))
<1> DEFINE graph == Graphs[F.file]
           fed == Feeding(graph, id)
           g == [m \in fed |-> reported[Append(F.path, m)]]
<1>1. /\ id \in Ids(graph) /\ F.file \in DOMAIN Graphs /\ F.ran \in Nat
      /\ Executed(F) \subseteq Ids(graph)
  BY AtNext
<1>2. \A m \in Sources(graph, id) : m \in Executed(F)
  <2> TAKE m \in Sources(graph, id)
  <2>1. F.ran + 1 \in 1..Len(F.order) /\ id = F.order[F.ran + 1] /\ (F.ran + 1) - 1 = F.ran
    <3>1. Len(F.order) \in Nat
      BY LenProperties DEF Runs, Plans
    <3> QED BY <1>1, <3>1 DEF At
  <2>2. PICK j \in 1..((F.ran + 1) - 1) : F.order[j] = m
    BY <2>1 DEF Runs, Plans
  <2> QED BY <2>1, <2>2 DEF Executed
<1>3. DOMAIN F.local = {m \in Executed(F) : ~IsSubgraph(F.file, m)}
  BY DEF Runs
<1>4. fed = {m \in Sources(graph, id) : ~IsSubgraph(F.file, m)}
  BY DEF Feeding, IsSubgraph
<1>5. \A m \in fed : m \in DOMAIN F.local
  BY <1>2, <1>3, <1>4
<1>6. \A m \in fed : Append(F.path, m) \in DOMAIN reported /\ F.local[m] = reported[Append(F.path, m)]
  BY <1>5 DEF Runs
<1>7. \A m \in Sources(graph, id) :
        (m \in DOMAIN F.local <=> m \in DOMAIN g) /\ (m \in DOMAIN F.local => F.local[m] = g[m])
  <2> TAKE m \in Sources(graph, id)
  <2>1. m \in DOMAIN F.local <=> m \in fed
    BY <1>2, <1>3, <1>4
  <2>2. DOMAIN g = fed /\ (m \in fed => g[m] = reported[Append(F.path, m)])
    OBVIOUS
  <2> HIDE DEF g, fed
  <2> QED BY <1>6, <2>1, <2>2
<1>8. DOMAIN F.local \subseteq Ids(graph) /\ DOMAIN g \subseteq Ids(graph)
  BY <1>1, <1>3, <1>4 DEF Sources
<1> HIDE DEF g, fed
<1>9. Handle(graph, F.local, GetNode(graph, id)) = Handle(graph, g, GetNode(graph, id))
  BY <1>1, <1>7, <1>8, HandleAgrees
<1> QED BY <1>6, <1>9 DEF g, fed

LEMMA NodeReports ==
  ASSUME NEW root \in Roots, NEW traced, NEW reported, NEW F, NEW id, NEW v,
         Runs(F, root, traced, reported), At(F, id), Reports(root, traced, reported),
         ~IsSubgraph(F.file, id), F.path = <<>> \/ F.path \in traced,
         v = Handle(Graphs[F.file], F.local, GetNode(Graphs[F.file], id))
  PROVE  Reports(root, traced \cup {Append(F.path, id)}, With(reported, Append(F.path, id), v))
<1> DEFINE p == Append(F.path, id)
           now == With(reported, p, v)
           after == traced \cup {p}
           here == ScopeOf(F)
<1>1. /\ id \in Ids(Graphs[F.file]) /\ p \notin traced
      /\ here \in Scopes[root] /\ here[1] = F.path /\ here[2] = F.file
  BY AtNext
<1>2. /\ DOMAIN reported \subseteq traced /\ traced \subseteq Flatten(root)
      /\ Meanings(root, reported)
  BY DEF Reports
<1>3. DOMAIN now = DOMAIN reported \cup {p}
  BY DEF With
<1>4. p \in Flatten(root)
  BY <1>1, ScopeFacts
<1> HIDE DEF here, p
<1>5. ASSUME NEW s \in Scopes[root], NEW j \in Ids(Graphs[s[2]]), Append(s[1], j) = p
      PROVE  s = here /\ j = id
  <2>1. Append(s[1], j) = Append(here[1], id)
    BY <1>1, <1>5 DEF p
  <2>2. here \in Scopes[root] /\ id \in Ids(Graphs[here[2]])
    BY <1>1
  <2> HIDE DEF now, after
  <2> QED BY <2>1, <2>2, SameNode
<1>6. Meanings(root, now)
  <2>1. F.file \in OrderedFiles =>
          /\ \A m \in Feeding(Graphs[F.file], id) : Append(F.path, m) \in DOMAIN reported
          /\ v = Handle(Graphs[F.file],
                       [m \in Feeding(Graphs[F.file], id) |-> reported[Append(F.path, m)]],
                       GetNode(Graphs[F.file], id))
    BY HandlerSees
  <2>2. \A s \in Scopes[root] : \A j \in Ids(Graphs[s[2]]) :
          ~IsSubgraph(s[2], j) /\ p = Append(s[1], j) =>
            /\ p \notin DOMAIN reported
            /\ s[2] \in OrderedFiles =>
                 /\ \A m \in Feeding(Graphs[s[2]], j) : Append(s[1], m) \in DOMAIN reported
                 /\ v = Handle(Graphs[s[2]],
                          [m \in Feeding(Graphs[s[2]], j) |-> reported[Append(s[1], m)]],
                          GetNode(Graphs[s[2]], j))
    <3> SUFFICES ASSUME NEW s \in Scopes[root], NEW j \in Ids(Graphs[s[2]]), p = Append(s[1], j)
                 PROVE  /\ p \notin DOMAIN reported
                        /\ s[2] \in OrderedFiles =>
                             /\ \A m \in Feeding(Graphs[s[2]], j) : Append(s[1], m) \in DOMAIN reported
                             /\ v = Handle(Graphs[s[2]],
                                      [m \in Feeding(Graphs[s[2]], j) |-> reported[Append(s[1], m)]],
                                      GetNode(Graphs[s[2]], j))
      OBVIOUS
    <3>1. s[1] = F.path /\ s[2] = F.file /\ j = id
      BY <1>1, <1>5
    <3> QED BY <1>1, <1>2, <2>1, <3>1
  <2> QED BY <1>2, <2>2, MeaningsStay
<1>7. ASSUME NEW s \in Scopes[root], NEW j \in Ids(Graphs[s[2]]), Append(s[1], j) \in after
      PROVE  s[1] = <<>> \/ s[1] \in after
  <2>1. CASE Append(s[1], j) \in traced
    BY <2>1 DEF Reports
  <2>2. CASE Append(s[1], j) = p
    <3>1. s[1] = F.path
      BY <1>1, <1>5, <2>2
    <3> QED BY <3>1
  <2> QED BY <1>7, <2>1, <2>2
<1>8. ASSUME NEW s \in Scopes[root], s[1] \in DOMAIN now
      PROVE  Complete(s, after, now)
  <2>1. s[1] # p
    <3> SUFFICES ASSUME s[1] = p PROVE FALSE
      OBVIOUS
    <3>1. s[1] = Append(here[1], id) /\ id \in Ids(Graphs[here[2]])
      BY <1>1 DEF p
    <3>2. IsSubgraph(here[2], id)
      BY <1>1, <3>1, ScopeIsSubgraph
    <3> QED BY <1>1, <3>2
  <2>2. Complete(s, traced, reported)
    BY <1>3, <1>8, <2>1 DEF Reports
  <2> QED BY <1>3, <2>2 DEF Complete
<1> HIDE DEF now
<1>9. Reports(root, after, now)
  BY <1>2, <1>3, <1>4, <1>6, <1>7, <1>8 DEF Reports
<1> QED BY <1>9 DEF p, now

LEMMA EntryReports ==
  ASSUME NEW root \in Roots, NEW traced, NEW reported, NEW F, NEW id,
         Runs(F, root, traced, reported), At(F, id), Reports(root, traced, reported),
         F.path = <<>> \/ F.path \in traced
  PROVE  Reports(root, traced \cup {Append(F.path, id)}, reported)
<1> DEFINE p == Append(F.path, id)
           after == traced \cup {p}
           here == ScopeOf(F)
<1>1. /\ id \in Ids(Graphs[F.file])
      /\ here \in Scopes[root] /\ here[1] = F.path /\ here[2] = F.file
  BY AtNext
<1>2. p \in Flatten(root)
  BY <1>1, ScopeFacts
<1> HIDE DEF here, p
<1>3. ASSUME NEW s \in Scopes[root], NEW j \in Ids(Graphs[s[2]]), Append(s[1], j) \in after
      PROVE  s[1] = <<>> \/ s[1] \in after
  <2>1. CASE Append(s[1], j) \in traced
    BY <2>1 DEF Reports
  <2>2. CASE Append(s[1], j) = p
    <3>1. id \in Ids(Graphs[here[2]]) /\ Append(s[1], j) = Append(here[1], id)
      BY <1>1, <2>2 DEF p
    <3>2. s = here
      BY <1>1, <3>1, SameNode
    <3> QED BY <1>1, <3>2
  <2> QED BY <1>3, <2>1, <2>2
<1>4. \A s \in Scopes[root] : s[1] \in DOMAIN reported => Complete(s, after, reported)
  BY DEF Reports, Complete
<1>5. Reports(root, after, reported)
  BY <1>2, <1>3, <1>4 DEF Reports
<1> QED BY <1>5 DEF p

\* A scope that has run its order has run all of its nodes.
LEMMA AllRan ==
  ASSUME NEW root \in Roots, NEW traced, NEW reported, NEW F,
         Runs(F, root, traced, reported), Planned(F), F.ran = Len(F.order)
  PROVE  Executed(F) = Ids(Graphs[F.file]) /\ Complete(ScopeOf(F), traced, reported)
<1>1. F.order \in Seq(Ids(Graphs[F.file])) /\ Ids(Graphs[F.file]) \subseteq ToSet(F.order)
  BY DEF Runs, Plans, Planned
<1>2. ToSet(F.order) = Executed(F) /\ ToSet(F.order) \subseteq Ids(Graphs[F.file])
  BY <1>1, ElementsOf DEF Executed
<1>3. ScopeOf(F)[1] = F.path /\ ScopeOf(F)[2] = F.file
  BY DEF ScopeOf
<1>4. ASSUME NEW id \in Ids(Graphs[F.file])
      PROVE  /\ Append(F.path, id) \in traced
             /\ ~IsSubgraph(F.file, id) => Append(F.path, id) \in DOMAIN reported
  BY <1>1, <1>2 DEF Runs
<1> QED BY <1>1, <1>2, <1>3, <1>4 DEF Complete

LEMMA ScopeReports ==
  ASSUME NEW root \in Roots, NEW traced, NEW reported, NEW F, NEW v,
         Runs(F, root, traced, reported), Planned(F), F.ran = Len(F.order),
         Reports(root, traced, reported), F.path \in traced
  PROVE  Reports(root, traced, With(reported, F.path, v))
<1> DEFINE here == ScopeOf(F)
           now == With(reported, F.path, v)
<1>1. here \in Scopes[root] /\ here[1] = F.path /\ Complete(here, traced, reported)
  BY AllRan DEF Runs, ScopeOf
<1>2. DOMAIN now = DOMAIN reported \cup {F.path}
  BY DEF With
<1> HIDE DEF here
<1>3. Meanings(root, now)
  <2>1. \A s \in Scopes[root] : \A j \in Ids(Graphs[s[2]]) :
          F.path = Append(s[1], j) => IsSubgraph(s[2], j)
    BY <1>1, ScopeIsSubgraph
  <2>2. Meanings(root, reported)
    BY DEF Reports
  <2> QED BY <2>1, <2>2, MeaningsStay
<1>4. ASSUME NEW s \in Scopes[root], s[1] \in DOMAIN now PROVE Complete(s, traced, now)
  <2>1. Complete(s, traced, reported)
    <3>1. CASE s[1] = F.path
      <4>1. s = here
        BY <1>1, <3>1, OneFile
      <4> QED BY <1>1, <4>1
    <3>2. CASE s[1] # F.path
      BY <1>2, <1>4, <3>2 DEF Reports
    <3> QED BY <3>1, <3>2
  <2> QED BY <1>2, <2>1 DEF Complete
<1> HIDE DEF now
<1>5. Reports(root, traced, now)
  BY <1>2, <1>3, <1>4 DEF Reports
<1> QED BY <1>5 DEF now

-----------------------------------------------------------------------------
(* What becomes of the frames.                                             *)

LEMMA PlanningRuns ==
  ASSUME NEW root \in Roots, NEW traced, NEW reported, NEW F, NEW G, NEW open, NEW order,
         Runs(F, root, traced, reported), F.ran = 0, Plans(F.file, open, order),
         G = [path |-> F.path, file |-> F.file, open |-> open, order |-> order,
              ran |-> F.ran, local |-> F.local]
  PROVE  Runs(G, root, traced, reported) /\ G.path = F.path /\ G.file = F.file
<1>1. G = [path |-> F.path, file |-> F.file, open |-> open, order |-> order,
           ran |-> 0, local |-> F.local]
  OBVIOUS
<1>2. /\ G.path = F.path /\ G.file = F.file /\ G.open = open /\ G.order = order
      /\ G.ran = 0 /\ G.local = F.local
      /\ G = [path |-> G.path, file |-> G.file, open |-> G.open, order |-> G.order,
              ran |-> G.ran, local |-> G.local]
  BY <1>1
<1>3. Executed(G) = {} /\ Executed(F) = {}
  BY <1>2 DEF Executed
<1>4. Len(order) \in Nat
  BY LenProperties DEF Plans
<1>5. ScopeOf(G) = ScopeOf(F)
  BY <1>2 DEF ScopeOf
<1> QED BY <1>2, <1>3, <1>4, <1>5 DEF Runs

\* A call that has run one more node.
After(frame, id, v) ==
  [path |-> frame.path, file |-> frame.file, open |-> frame.open, order |-> frame.order,
   ran |-> frame.ran + 1, local |-> With(frame.local, id, v)]

LEMMA NodeRuns ==
  ASSUME NEW root \in Roots, NEW traced, NEW reported, NEW F, NEW G, NEW id, NEW v,
         Runs(F, root, traced, reported), At(F, id), ~IsSubgraph(F.file, id),
         G = After(F, id, v)
  PROVE  /\ Runs(G, root, traced \cup {Append(F.path, id)}, With(reported, Append(F.path, id), v))
         /\ G.path = F.path /\ G.file = F.file
<1> DEFINE p == Append(F.path, id)
           now == With(reported, p, v)
           X == Ids(Graphs[F.file])
<1> PICK mine : mine = With(F.local, id, v)
  OBVIOUS
<1>1. G = [path |-> F.path, file |-> F.file, open |-> F.open, order |-> F.order,
           ran |-> F.ran + 1, local |-> mine]
  BY DEF After
<1>2. /\ G.path = F.path /\ G.file = F.file /\ G.open = F.open /\ G.order = F.order
      /\ G.ran = F.ran + 1 /\ G.local = mine
      /\ G = [path |-> G.path, file |-> G.file, open |-> G.open, order |-> G.order,
              ran |-> G.ran, local |-> G.local]
  BY <1>1
<1>3. /\ id \in X /\ id \notin Executed(F) /\ F.file \in DOMAIN Graphs
      /\ F.path \in Seq(NodeIds) /\ ScopeOf(F) \in Scopes[root] /\ Executed(F) \subseteq X
      /\ p \notin traced /\ F.ran \in Nat
      /\ {F.order[i] : i \in 1..(F.ran + 1)} = Executed(F) \cup {id}
  BY AtNext
<1>4. Executed(G) = Executed(F) \cup {id} /\ ScopeOf(G) = ScopeOf(F)
  <2>1. Executed(G) = {F.order[i] : i \in 1..(F.ran + 1)}
    BY <1>2 DEF Executed
  <2>2. ScopeOf(G) = ScopeOf(F)
    BY <1>2 DEF ScopeOf
  <2> QED BY <1>3, <2>1, <2>2
<1>5. /\ DOMAIN now = DOMAIN reported \cup {p} /\ now[p] = v
      /\ \A z \in DOMAIN reported : z # p => now[z] = reported[z]
  BY DEF With
<1>6. /\ DOMAIN mine = DOMAIN F.local \cup {id} /\ mine[id] = v
      /\ \A z \in DOMAIN F.local : z # id => mine[z] = F.local[z]
  BY DEF With
<1> HIDE DEF now
<1>7. \A j \in X : Append(F.path, j) = p <=> j = id
  <2>1. X \subseteq NodeIds
    BY <1>3 DEF NodeIds
  <2> QED BY <1>3, <2>1, AppendInjective
<1> HIDE DEF p
<1>8. \A j \in X : Append(F.path, j) \in traced \cup {p} <=> j \in Executed(G)
  BY <1>4, <1>7 DEF Runs
<1>9. DOMAIN mine = {j \in Executed(G) : ~IsSubgraph(F.file, j)}
  BY <1>4, <1>6 DEF Runs
<1>10. ASSUME NEW j \in DOMAIN mine
       PROVE  Append(F.path, j) \in DOMAIN now /\ mine[j] = now[Append(F.path, j)]
  <2>1. CASE j = id
    BY <1>5, <1>6, <2>1 DEF p
  <2>2. CASE j # id
    <3>1. j \in DOMAIN F.local /\ mine[j] = F.local[j]
      BY <1>6, <2>2
    <3>2. j \in X
      BY <1>3, <3>1 DEF Runs
    <3>3. Append(F.path, j) \in DOMAIN reported /\ F.local[j] = reported[Append(F.path, j)]
      BY <3>1 DEF Runs
    <3>4. Append(F.path, j) # p
      BY <1>7, <2>2, <3>2
    <3> QED BY <1>5, <3>1, <3>3, <3>4
  <2> QED BY <2>1, <2>2
<1>11. F.ran + 1 \in 0..Len(F.order)
  <2>1. Len(F.order) \in Nat
    BY LenProperties DEF Runs, Plans
  <2> QED BY <1>3, <2>1 DEF At
<1>12. Planned(G)
  BY <1>2 DEF At, Planned
<1>13. Runs(G, root, traced \cup {p}, now)
  <2>1. /\ ScopeOf(G) \in Scopes[root] /\ Plans(G.file, G.open, G.order)
        /\ G.ran \in 0..Len(G.order)
    BY <1>2, <1>3, <1>4, <1>11 DEF Runs
  <2> QED BY <1>2, <1>8, <1>9, <1>10, <1>12, <2>1 DEF Runs
<1> QED BY <1>2, <1>13 DEF p, now

LEMMA EntryRuns ==
  ASSUME NEW root \in Roots, NEW traced, NEW reported, NEW F, NEW G, NEW id,
         Runs(F, root, traced, reported), At(F, id), IsSubgraph(F.file, id),
         G = [F EXCEPT !.ran = @ + 1]
  PROVE  /\ Runs(G, root, traced \cup {Append(F.path, id)}, reported)
         /\ G.path = F.path /\ G.file = F.file /\ G.order = F.order /\ G.ran = F.ran + 1
         /\ Planned(G)
<1> DEFINE p == Append(F.path, id)
           X == Ids(Graphs[F.file])
<1>1. G = [path |-> F.path, file |-> F.file, open |-> F.open, order |-> F.order,
           ran |-> F.ran + 1, local |-> F.local]
  BY DEF Runs
<1>2. /\ G.path = F.path /\ G.file = F.file /\ G.open = F.open /\ G.order = F.order
      /\ G.ran = F.ran + 1 /\ G.local = F.local
      /\ G = [path |-> G.path, file |-> G.file, open |-> G.open, order |-> G.order,
              ran |-> G.ran, local |-> G.local]
  BY <1>1
<1>3. /\ id \in X /\ id \notin Executed(F) /\ F.file \in DOMAIN Graphs
      /\ F.path \in Seq(NodeIds) /\ ScopeOf(F) \in Scopes[root] /\ F.ran \in Nat
      /\ {F.order[i] : i \in 1..(F.ran + 1)} = Executed(F) \cup {id}
  BY AtNext
<1>4. Executed(G) = Executed(F) \cup {id} /\ ScopeOf(G) = ScopeOf(F)
  <2>1. Executed(G) = {F.order[i] : i \in 1..(F.ran + 1)}
    BY <1>2 DEF Executed
  <2>2. ScopeOf(G) = ScopeOf(F)
    BY <1>2 DEF ScopeOf
  <2> QED BY <1>3, <2>1, <2>2
<1>5. \A j \in X : Append(F.path, j) = p <=> j = id
  <2>1. X \subseteq NodeIds
    BY <1>3 DEF NodeIds
  <2> QED BY <1>3, <2>1, AppendInjective
<1> HIDE DEF p
<1>6. \A j \in X : Append(F.path, j) \in traced \cup {p} <=> j \in Executed(G)
  BY <1>4, <1>5 DEF Runs
<1>7. DOMAIN F.local = {j \in Executed(G) : ~IsSubgraph(F.file, j)}
  BY <1>4 DEF Runs
<1>8. F.ran + 1 \in 0..Len(F.order)
  <2>1. Len(F.order) \in Nat
    BY LenProperties DEF Runs, Plans
  <2> QED BY <1>3, <2>1 DEF At
<1>9. Planned(G)
  BY <1>2 DEF At, Planned
<1>10. Runs(G, root, traced \cup {p}, reported)
  <2>1. /\ ScopeOf(G) \in Scopes[root] /\ Plans(G.file, G.open, G.order)
        /\ G.ran \in 0..Len(G.order)
        /\ \A j \in DOMAIN G.local : /\ Append(G.path, j) \in DOMAIN reported
                                     /\ G.local[j] = reported[Append(G.path, j)]
    BY <1>2, <1>3, <1>4, <1>8 DEF Runs
  <2> QED BY <1>2, <1>6, <1>7, <1>9, <2>1 DEF Runs
<1> QED BY <1>2, <1>9, <1>10 DEF p

LEMMA NewRuns ==
  ASSUME NEW root \in Roots, NEW traced, NEW reported, NEW s \in Scopes[root],
         \A id \in Ids(Graphs[s[2]]) : Append(s[1], id) \notin traced
  PROVE  Runs(Frame(s[1], s[2]), root, traced, reported)
<1> DEFINE G == Frame(s[1], s[2])
<1>1. /\ G.path = s[1] /\ G.file = s[2] /\ G.open = <<>> /\ G.order = <<>> /\ G.ran = 0
      /\ G.local = <<>>
      /\ G = [path |-> G.path, file |-> G.file, open |-> G.open, order |-> G.order,
              ran |-> G.ran, local |-> G.local]
  BY DEF Frame
<1> HIDE DEF G
<1>2. Plans(s[2], <<>>, <<>>)
  <2>1. <<>> \in Seq(Ids(Graphs[s[2]])) /\ Len(<<>>) = 0 /\ ToSet(<<>>) = {} /\ IsInjective(<<>>)
    BY EmptySeq DEF ToSet, IsInjective
  <2>2. 1..Len(<<>>) = {}
    BY <2>1
  <2> QED BY <2>1, <2>2 DEF Plans
<1>3. Executed(G) = {} /\ DOMAIN G.local = {}
  <2>1. 1..G.ran = {}
    BY <1>1
  <2>2. DOMAIN <<>> = {}
    OBVIOUS
  <2> QED BY <1>1, <2>1, <2>2 DEF Executed
<1>4. ScopeOf(G) \in Scopes[root]
  <2>1. s = <<s[1], s[2]>>
    <3>1. s \in Scope
      BY ScopesAre
    <3>2. \A S, T : s \in S \X T => s = <<s[1], s[2]>>
      OBVIOUS
    <3> QED BY <3>1, <3>2 DEF Scope
  <2> QED BY <1>1, <2>1 DEF ScopeOf
<1>5. G.ran \in 0..Len(G.order)
  BY <1>1, EmptySeq
<1>6. Runs(G, root, traced, reported)
  BY <1>1, <1>2, <1>3, <1>4, <1>5 DEF Runs
<1> QED BY <1>6 DEF G

\* The frames below do not see what runs above them,
LEMMA OthersRun ==
  ASSUME NEW root \in Roots, NEW traced, NEW reported, NEW F, NEW G, NEW v,
         NEW id \in Ids(Graphs[F.file]), ScopeOf(F) \in Scopes[root],
         Runs(G, root, traced, reported), G.path # F.path
  PROVE  /\ Runs(G, root, traced \cup {Append(F.path, id)}, reported)
         /\ Runs(G, root, traced \cup {Append(F.path, id)},
                 With(reported, Append(F.path, id), v))
<1> DEFINE p == Append(F.path, id)
           now == With(reported, p, v)
           X == Ids(Graphs[G.file])
<1>1. /\ ScopeOf(F)[1] = F.path /\ ScopeOf(F)[2] = F.file
      /\ ScopeOf(G)[1] = G.path /\ ScopeOf(G)[2] = G.file /\ ScopeOf(G) \in Scopes[root]
  BY DEF ScopeOf, Runs
<1>2. \A j \in X : Append(G.path, j) # p
  <2>1. \A j \in X : Append(ScopeOf(G)[1], j) = Append(ScopeOf(F)[1], id)
                       => ScopeOf(G) = ScopeOf(F)
    BY <1>1, SameNode
  <2> QED BY <1>1, <2>1
<1>3. DOMAIN now = DOMAIN reported \cup {p} /\ \A z \in DOMAIN reported : z # p => now[z] = reported[z]
  BY DEF With
<1>4. DOMAIN G.local \subseteq X
  <2>1. Executed(G) \subseteq X
    <3>1. G.order \in Seq(X) /\ G.ran \in 0..Len(G.order) /\ Len(G.order) \in Nat
      BY LenProperties DEF Runs, Plans
    <3>2. \A i \in 1..G.ran : i \in 1..Len(G.order)
      BY <3>1
    <3>3. \A i \in 1..Len(G.order) : G.order[i] \in X
      BY <3>1, ElementOfSeq
    <3> QED BY <3>2, <3>3 DEF Executed
  <2> QED BY <2>1 DEF Runs
<1> HIDE DEF p, now
<1>5. Runs(G, root, traced \cup {p}, reported)
  BY <1>2 DEF Runs
<1>6. \A j \in DOMAIN G.local :
        Append(G.path, j) \in DOMAIN now /\ G.local[j] = now[Append(G.path, j)]
  <2> TAKE j \in DOMAIN G.local
  <2>1. j \in X /\ Append(G.path, j) # p
    BY <1>2, <1>4
  <2>2. Append(G.path, j) \in DOMAIN reported /\ G.local[j] = reported[Append(G.path, j)]
    BY DEF Runs
  <2> QED BY <1>3, <2>1, <2>2
<1>7. Runs(G, root, traced \cup {p}, now)
  BY <1>5, <1>6 DEF Runs
<1> QED BY <1>5, <1>7 DEF p, now

\* nor that their subgraph is reported as completed.
LEMMA ParentsRun ==
  ASSUME NEW root \in Roots, NEW traced, NEW reported, NEW F, NEW G, NEW v,
         ScopeOf(F) \in Scopes[root], Runs(G, root, traced, reported)
  PROVE  Runs(G, root, traced, With(reported, F.path, v))
<1> DEFINE now == With(reported, F.path, v)
           X == Ids(Graphs[G.file])
<1>1. /\ ScopeOf(F)[1] = F.path
      /\ ScopeOf(G)[1] = G.path /\ ScopeOf(G)[2] = G.file /\ ScopeOf(G) \in Scopes[root]
  BY DEF ScopeOf, Runs
<1>2. \A j \in X : F.path = Append(G.path, j) => IsSubgraph(G.file, j)
  <2>1. \A j \in X : ScopeOf(F)[1] = Append(ScopeOf(G)[1], j) => IsSubgraph(ScopeOf(G)[2], j)
    BY <1>1, ScopeIsSubgraph
  <2> QED BY <1>1, <2>1
<1>3. /\ DOMAIN now = DOMAIN reported \cup {F.path}
      /\ \A z \in DOMAIN reported : z # F.path => now[z] = reported[z]
  BY DEF With
<1>4. \A j \in DOMAIN G.local : j \in X /\ ~IsSubgraph(G.file, j)
  <2>1. Executed(G) \subseteq X
    <3>1. G.order \in Seq(X) /\ G.ran \in 0..Len(G.order) /\ Len(G.order) \in Nat
      BY LenProperties DEF Runs, Plans
    <3>2. \A i \in 1..G.ran : i \in 1..Len(G.order)
      BY <3>1
    <3>3. \A i \in 1..Len(G.order) : G.order[i] \in X
      BY <3>1, ElementOfSeq
    <3> QED BY <3>2, <3>3 DEF Executed
  <2> QED BY <2>1 DEF Runs
<1> HIDE DEF now
<1>5. \A j \in DOMAIN G.local :
        Append(G.path, j) \in DOMAIN now /\ G.local[j] = now[Append(G.path, j)]
  <2> TAKE j \in DOMAIN G.local
  <2>1. F.path # Append(G.path, j)
    BY <1>2, <1>4
  <2>2. Append(G.path, j) \in DOMAIN reported /\ G.local[j] = reported[Append(G.path, j)]
    BY DEF Runs
  <2> QED BY <1>3, <2>1, <2>2
<1>6. Runs(G, root, traced, now)
  BY <1>5 DEF Runs
<1> QED BY <1>6 DEF now

-----------------------------------------------------------------------------
(* What becomes of the stack.                                              *)

LEMMA OwnList ==
  ASSUME NEW X, NEW s \in Seq(X)
  PROVE  s \in Seq(ToSet(s))
<1>1. Len(s) \in Nat /\ DOMAIN s = 1..Len(s) /\ s \in [1..Len(s) -> X]
  BY LenProperties
<1>2. s \in [1..Len(s) -> ToSet(s)]
  BY <1>1 DEF ToSet
<1> QED BY <1>1, <1>2, SeqDef

LEMMA StackTop ==
  ASSUME NEW stack, NEW root, NEW traced, NEW reported,
         StackRuns(stack, root, traced, reported)
  PROVE  /\ root \in Roots /\ Len(stack) \in Nat \ {0} /\ stack \in Seq(ToSet(stack))
         /\ Runs(stack[Len(stack)], root, traced, reported)
         /\ ScopeOf(stack[Len(stack)]) \in Scopes[root]
         /\ stack[Len(stack)].path = <<>> \/ stack[Len(stack)].path \in traced
         /\ Len(stack) > 1 => stack[Len(stack)].path \in traced
         /\ \A i \in 1..(Len(stack) - 1) :
              Runs(stack[i], root, traced, reported) /\ stack[i].path # stack[Len(stack)].path
<1> DEFINE n == Len(stack)
<1>1. n \in Nat \ {0} /\ stack \in Seq(ToSet(stack)) /\ root \in Roots
  BY EmptySeq, LenProperties DEF StackRuns
<1>2. n \in 1..n /\ \A i \in 1..(n - 1) : i \in 1..n /\ i - 1 # n - 1
  BY <1>1
<1>3. Runs(stack[n], root, traced, reported) /\ ScopeOf(stack[n]) \in Scopes[root]
  BY <1>2 DEF StackRuns, Runs
<1>4. \A i \in 1..(n - 1) :
        Runs(stack[i], root, traced, reported) /\ stack[i].path # stack[n].path
  BY <1>2 DEF StackRuns
<1>5. ASSUME n > 1 PROVE stack[n].path \in traced
  <2> DEFINE G == stack[n - 1]
  <2>1. n - 1 \in 1..(n - 1) /\ (n - 1) + 1 = n
    BY <1>1, <1>5
  <2>2. G.ran > 0 /\ stack[n].path = Append(G.path, G.order[G.ran])
    BY <2>1 DEF StackRuns
  <2>3. Runs(G, root, traced, reported)
    BY <1>4, <2>1
  <2> HIDE DEF G
  <2>4. G.order \in Seq(Ids(Graphs[G.file])) /\ G.ran \in 1..Len(G.order) /\ G.ran \in 1..G.ran
    <3>1. G.order \in Seq(Ids(Graphs[G.file])) /\ Len(G.order) \in Nat /\ G.ran \in 0..Len(G.order)
      BY <2>3, LenProperties DEF Runs, Plans
    <3> QED BY <2>2, <3>1
  <2>5. G.order[G.ran] \in Ids(Graphs[G.file]) /\ G.order[G.ran] \in Executed(G)
    BY <2>4, ElementOfSeq DEF Executed
  <2> QED BY <2>2, <2>3, <2>5 DEF Runs
<1>6. stack[n].path = <<>> \/ stack[n].path \in traced
  <2>1. n = 1 \/ n > 1
    BY <1>1
  <2> QED BY <1>5, <2>1 DEF StackRuns
<1> QED BY <1>1, <1>3, <1>4, <1>5, <1>6

\* Another frame for the last.
Put(stack, frame) == [stack EXCEPT ![Len(stack)] = frame]

\* The frames below the last.
Others(stack, root, traced, reported) ==
  \A i \in 1..(Len(stack) - 1) : Runs(stack[i], root, traced, reported)

LEMMA StackContinues ==
  ASSUME NEW stack, NEW root, NEW traced, NEW reported, NEW after, NEW now, NEW G, NEW u,
         StackRuns(stack, root, traced, reported), u = Put(stack, G),
         G.path = stack[Len(stack)].path, G.file = stack[Len(stack)].file,
         Runs(G, root, after, now),
         Others(stack, root, after, now)
  PROVE  StackRuns(u, root, after, now) /\ Len(u) = Len(stack) /\ u[Len(u)] = G
<1> DEFINE n == Len(stack)
           X == ToSet(stack) \cup {G}
<1>1. n \in Nat \ {0} /\ stack \in Seq(ToSet(stack)) /\ root \in Roots
  BY StackTop
<1>2. stack \in Seq(X) /\ n \in 1..n /\ G \in X
  BY <1>1, SeqMonotonic
<1>3. /\ u \in Seq(X) /\ Len(u) = n /\ \A i \in 1..n : u[i] = IF i = n THEN G ELSE stack[i]
  BY <1>2, ExceptSeq DEF Put
<1>4. u \in Seq(ToSet(u)) /\ u # <<>>
  BY <1>1, <1>3, OwnList, EmptySeq
<1>5. u[n] = G /\ \A i \in 1..(n - 1) : u[i] = stack[i] /\ i \in 1..n
  BY <1>1, <1>3
<1> HIDE DEF n
<1>6. ASSUME NEW i \in 1..n
      PROVE  Runs(u[i], root, after, now) /\ Len(u[i].path) = i - 1 /\ u[i].path = stack[i].path
             /\ u[i].file = stack[i].file
  <2>1. CASE i = n
    BY <1>5, <2>1 DEF StackRuns, n
  <2>2. CASE i # n
    <3>1. i \in 1..(n - 1)
      BY <1>1, <2>2
    <3> QED BY <1>5, <3>1 DEF StackRuns, Others, n
  <2> QED BY <2>1, <2>2
<1>7. ASSUME NEW i \in 1..(n - 1)
      PROVE  u[i].ran > 0 /\ u[i + 1].path = Append(u[i].path, u[i].order[u[i].ran])
  <2>1. i + 1 \in 1..n
    BY <1>1
  <2>2. stack[i].ran > 0 /\ stack[i + 1].path = Append(stack[i].path, stack[i].order[stack[i].ran])
    BY DEF StackRuns, n
  <2> QED BY <1>5, <1>6, <2>1, <2>2
<1>8. u[1].path = <<>> /\ u[1].file = root
  <2>1. 1 \in 1..n
    BY <1>1
  <2> QED BY <1>6, <2>1 DEF StackRuns
<1>9. StackRuns(u, root, after, now)
  BY <1>1, <1>3, <1>4, <1>6, <1>7, <1>8 DEF StackRuns
<1> QED BY <1>3, <1>5, <1>9 DEF n

LEMMA StackEnters ==
  ASSUME NEW stack, NEW root, NEW traced, NEW reported, NEW G, NEW u,
         StackRuns(stack, root, traced, reported), u = Append(stack, G),
         Runs(G, root, traced, reported), stack[Len(stack)].ran > 0,
         G.path = Append(stack[Len(stack)].path,
                         stack[Len(stack)].order[stack[Len(stack)].ran])
  PROVE  StackRuns(u, root, traced, reported)
<1> DEFINE n == Len(stack)
           X == ToSet(stack) \cup {G}
<1>1. n \in Nat \ {0} /\ stack \in Seq(ToSet(stack)) /\ root \in Roots
  BY StackTop
<1>2. stack \in Seq(X) /\ G \in X
  BY <1>1, SeqMonotonic
<1>3. /\ u \in Seq(X) /\ u # <<>> /\ Len(u) = n + 1 /\ u[n + 1] = G
      /\ \A i \in 1..n : u[i] = stack[i]
  BY <1>2, AppendProperties
<1>4. u \in Seq(ToSet(u))
  BY <1>3, OwnList
<1>5. Len(G.path) = n
  <2> DEFINE T == stack[n]
  <2>1. Runs(T, root, traced, reported) /\ ScopeOf(T) \in Scopes[root]
    BY StackTop
  <2>2. Len(T.path) = n - 1
    <3>1. n \in 1..n
      BY <1>1
    <3> QED BY <3>1 DEF StackRuns
  <2>3. T.ran > 0 /\ G.path = Append(T.path, T.order[T.ran])
    OBVIOUS
  <2> HIDE DEF T, n
  <2>4. T.order \in Seq(Ids(Graphs[T.file])) /\ T.ran \in 1..Len(T.order)
    <3>1. T.order \in Seq(Ids(Graphs[T.file])) /\ Len(T.order) \in Nat /\ T.ran \in 0..Len(T.order)
      BY <2>1, LenProperties DEF Runs, Plans
    <3> QED BY <2>3, <3>1
  <2>5. T.order[T.ran] \in Ids(Graphs[T.file])
    BY <2>4, ElementOfSeq
  <2>6. ScopeOf(T)[1] = T.path /\ ScopeOf(T)[2] = T.file
    BY DEF ScopeOf
  <2>7. Len(Append(T.path, T.order[T.ran])) = Len(T.path) + 1
    BY <1>1, <2>1, <2>5, <2>6, ScopeFacts
  <2> QED BY <1>1, <2>2, <2>3, <2>7
<1> HIDE DEF n
<1>6. ASSUME NEW i \in 1..(n + 1)
      PROVE  Runs(u[i], root, traced, reported) /\ Len(u[i].path) = i - 1
  <2>1. CASE i = n + 1
    BY <1>1, <1>3, <1>5, <2>1
  <2>2. CASE i # n + 1
    <3>1. i \in 1..n
      BY <1>1, <2>2
    <3> QED BY <1>3, <3>1 DEF StackRuns, n
  <2> QED BY <2>1, <2>2
<1>7. ASSUME NEW i \in 1..n
      PROVE  u[i].ran > 0 /\ u[i + 1].path = Append(u[i].path, u[i].order[u[i].ran])
  <2>1. CASE i = n
    BY <1>3, <2>1 DEF n
  <2>2. CASE i # n
    <3>1. i \in 1..(n - 1) /\ i + 1 \in 1..n
      BY <1>1, <2>2
    <3> QED BY <1>3, <3>1 DEF StackRuns, n
  <2> QED BY <2>1, <2>2
<1>8. u[1].path = <<>> /\ u[1].file = root
  <2>1. 1 \in 1..n
    BY <1>1
  <2> QED BY <1>3, <2>1 DEF StackRuns
<1>9. Len(u) - 1 = n
  BY <1>1, <1>3
<1> QED BY <1>1, <1>3, <1>4, <1>6, <1>7, <1>8, <1>9 DEF StackRuns

LEMMA StackLeaves ==
  ASSUME NEW stack, NEW root, NEW traced, NEW reported, NEW now, NEW u,
         StackRuns(stack, root, traced, reported), Len(stack) # 1, u = Front(stack),
         \A i \in 1..(Len(stack) - 1) : Runs(stack[i], root, traced, now)
  PROVE  StackRuns(u, root, traced, now)
<1> DEFINE n == Len(stack)
           X == ToSet(stack)
<1>1. n \in Nat \ {0} /\ stack \in Seq(X) /\ root \in Roots /\ n # 1 /\ stack # <<>>
  BY StackTop, EmptySeq
<1>2. u \in Seq(X) /\ Len(u) = n - 1 /\ \A i \in 1..(n - 1) : u[i] = stack[i]
  BY <1>1, FrontAndLast
<1> HIDE DEF n
<1>3. u \in Seq(ToSet(u)) /\ u # <<>>
  <2>1. Len(u) # 0
    BY <1>1, <1>2
  <2> QED BY <1>2, <2>1, OwnList, EmptySeq
<1>4. ASSUME NEW i \in 1..(n - 1)
      PROVE  Runs(u[i], root, traced, now) /\ Len(u[i].path) = i - 1
  <2>1. i \in 1..n
    BY <1>1
  <2> QED BY <1>2, <2>1 DEF StackRuns, n
<1>5. ASSUME NEW i \in 1..((n - 1) - 1)
      PROVE  u[i].ran > 0 /\ u[i + 1].path = Append(u[i].path, u[i].order[u[i].ran])
  <2>1. i \in 1..(n - 1) /\ i + 1 \in 1..(n - 1)
    BY <1>1
  <2> QED BY <1>2, <2>1 DEF StackRuns, n
<1>6. u[1].path = <<>> /\ u[1].file = root
  <2>1. 1 \in 1..(n - 1)
    BY <1>1
  <2> QED BY <1>2, <2>1 DEF StackRuns
<1> QED BY <1>1, <1>2, <1>3, <1>4, <1>5, <1>6 DEF StackRuns

-----------------------------------------------------------------------------
(* The steps.                                                              *)

LEMMA NestedBegins == NestedInit => NestedInv
<1> SUFFICES ASSUME NestedInit PROVE NestedInv
  OBVIOUS
<1>1. PICK file \in Roots : frames = <<Frame(<<>>, file)>>
  BY DEF NestedInit
<1>2. trace = <<>> /\ results = <<>> /\ outcome = "none"
  BY DEF NestedInit
<1> DEFINE G == Frame(<<>>, file)
           s == <<<<>>, file>>
<1>3. s \in Scopes[file] /\ s[1] = <<>> /\ s[2] = file
  BY ScopesAre
<1>4. G.path = <<>> /\ G.file = file /\ Len(G.path) = 0
  BY DEF Frame
<1>5. ToSet(trace) = {} /\ IsInjective(trace) /\ trace \in Seq(Seq(NodeIds)) /\ DOMAIN results = {}
  <2>1. DOMAIN <<>> = {} /\ <<>> \in Seq(Seq(NodeIds))
    BY EmptySeq
  <2> QED BY <1>2, <2>1 DEF ToSet, IsInjective
<1>6. Runs(G, file, {}, results)
  <2> HIDE DEF s
  <2>1. Runs(Frame(s[1], s[2]), file, {}, results)
    BY <1>3, NewRuns
  <2> QED BY <1>3, <2>1
<1> HIDE DEF G, s
<1>7. frames \in Seq({G}) /\ Len(frames) = 1 /\ frames[1] = G /\ frames # <<>>
  BY <1>1 DEF G
<1>8. RootFile = file
  BY <1>4, <1>7 DEF RootFile
<1>9. StackRuns(frames, file, {}, results)
  <2>1. frames \in Seq(ToSet(frames))
    BY <1>7, OwnList
  <2>2. \A i \in 1..Len(frames) : i = 1
    BY <1>7
  <2>3. 1..(Len(frames) - 1) = {}
    BY <1>7
  <2> QED BY <1>4, <1>6, <1>7, <2>1, <2>2, <2>3 DEF StackRuns
<1>10. Reports(file, {}, results)
  BY <1>5 DEF Reports, Meanings
<1> QED BY <1>2, <1>5, <1>8, <1>9, <1>10 DEF NestedInv

\* The call that runs, and what the invariant says of it.
LEMMA TopIs ==
  ASSUME NestedInv
  PROVE  /\ RootFile \in Roots /\ Len(frames) \in Nat \ {0} /\ Top = frames[Len(frames)]
         /\ Runs(Top, RootFile, ToSet(trace), results)
         /\ ScopeOf(Top) \in Scopes[RootFile] /\ Top.file \in DOMAIN Graphs
         /\ Top.path = <<>> \/ Top.path \in ToSet(trace)
         /\ Len(frames) > 1 => Top.path \in ToSet(trace)
         /\ \A i \in 1..(Len(frames) - 1) :
              Runs(frames[i], RootFile, ToSet(trace), results) /\ frames[i].path # Top.path
<1>1. StackRuns(frames, RootFile, ToSet(trace), results)
  BY DEF NestedInv
<1>2. Top = frames[Len(frames)]
  BY DEF Top
<1>3. /\ RootFile \in Roots /\ Len(frames) \in Nat \ {0}
      /\ Runs(Top, RootFile, ToSet(trace), results)
      /\ ScopeOf(Top) \in Scopes[RootFile]
      /\ Top.path = <<>> \/ Top.path \in ToSet(trace)
      /\ Len(frames) > 1 => Top.path \in ToSet(trace)
      /\ \A i \in 1..(Len(frames) - 1) :
           Runs(frames[i], RootFile, ToSet(trace), results) /\ frames[i].path # Top.path
  BY <1>1, <1>2, StackTop
<1>4. ScopeOf(Top)[2] = Top.file
  BY DEF ScopeOf
<1> QED BY <1>2, <1>3, <1>4, ScopeFacts

Planning(frame, open, order) == [frame EXCEPT !.open = open, !.order = order]

\* A step of the order: nothing else moves.
LEMMA PlanningMoves ==
  ASSUME NestedInv, outcome = "none", Top.ran = 0, NEW open, NEW order,
         Plans(Top.file, open, order),
         frames' = Continue(Planning(Top, open, order)),
         UNCHANGED <<trace, results, outcome>>
  PROVE  NestedInv'
<1>1. PICK G : G = Planning(Top, open, order)
  OBVIOUS
<1>2. /\ RootFile \in Roots /\ Len(frames) \in Nat \ {0} /\ Top = frames[Len(frames)]
      /\ Runs(Top, RootFile, ToSet(trace), results)
      /\ \A i \in 1..(Len(frames) - 1) : Runs(frames[i], RootFile, ToSet(trace), results)
  BY TopIs
<1>3. G = [path |-> Top.path, file |-> Top.file, open |-> open, order |-> order,
           ran |-> Top.ran, local |-> Top.local]
  BY <1>1, <1>2 DEF Runs, Planning
<1>4. Runs(G, RootFile, ToSet(trace), results) /\ G.path = Top.path /\ G.file = Top.file
  BY <1>2, <1>3, PlanningRuns
<1>5. frames' = Put(frames, G)
  BY <1>1 DEF Continue, Put
<1>6. StackRuns(frames, RootFile, ToSet(trace), results)
  BY DEF NestedInv
<1>7. StackRuns(frames', RootFile, ToSet(trace), results)
  <2>1. G.path = frames[Len(frames)].path /\ G.file = frames[Len(frames)].file
    BY <1>2, <1>4
  <2>2. Others(frames, RootFile, ToSet(trace), results)
    BY <1>2 DEF Others
  <2> QED BY <1>4, <1>5, <1>6, <2>1, <2>2, StackContinues
<1>8. RootFile' = RootFile
  BY <1>7 DEF StackRuns, RootFile
<1> QED BY <1>7, <1>8 DEF NestedInv

LEMMA NestedPlans ==
  ASSUME NestedInv, VisitNode \/ VisitDependency \/ Visited
  PROVE  NestedInv'
<1>1. /\ Runs(Top, RootFile, ToSet(trace), results) /\ Top.file \in DOMAIN Graphs
      /\ Plans(Top.file, Top.open, Top.order) /\ TopGraph = Graphs[Top.file]
      /\ Top.ran \in 0..Len(Top.order)
      /\ Top.ran > 0 => Planned(Top)
      /\ Top = [path |-> Top.path, file |-> Top.file, open |-> Top.open, order |-> Top.order,
                ran |-> Top.ran, local |-> Top.local]
      /\ Len(Top.order) \in Nat
  BY TopIs, LenProperties DEF Runs, TopGraph, Plans
<1>2. CASE VisitNode
  <2>1. PICK i \in DOMAIN TopGraph.nodes :
          /\ TopGraph.nodes[i].id \notin ToSet(Top.order)
          /\ frames' = Continue([Top EXCEPT !.open = <<TopGraph.nodes[i].id>>])
    BY <1>2 DEF VisitNode
  <2> DEFINE id == TopGraph.nodes[i].id
  <2>2. id \in Ids(Graphs[Top.file]) \ ToSet(Top.order) /\ Top.open = <<>>
    BY <1>1, <1>2, <2>1 DEF Ids, VisitNode
  <2>3. Top.ran = 0
    BY <1>1, <2>2 DEF Planned
  <2>4. [Top EXCEPT !.open = <<id>>] = [Top EXCEPT !.open = <<id>>, !.order = Top.order]
    BY <1>1
  <2> HIDE DEF id
  <2>5. Plans(Top.file, <<id>>, Top.order)
    BY <1>1, <2>2, Visits
  <2>6. frames' = Continue(Planning(Top, <<id>>, Top.order))
    BY <2>1, <2>4 DEF id, Planning
  <2>7. outcome = "none" /\ UNCHANGED <<trace, results, outcome>>
    BY <1>2 DEF VisitNode
  <2> QED BY <2>3, <2>5, <2>6, <2>7, PlanningMoves
<1>3. CASE VisitDependency
  <2>1. PICK dep \in Dependency(TopGraph, Last(Top.open)) \ (ToSet(Top.open) \cup ToSet(Top.order)) :
          frames' = Continue([Top EXCEPT !.open = Append(@, dep)])
    BY <1>3 DEF VisitDependency
  <2>2. Top.open # <<>> /\ outcome = "none" /\ UNCHANGED <<trace, results, outcome>>
    BY <1>3 DEF VisitDependency
  <2>3. Top.ran = 0
    BY <1>1, <2>2 DEF Planned
  <2> DEFINE u == Append(Top.open, dep)
  <2>4. Plans(Top.file, u, Top.order)
    BY <1>1, <2>2, VisitsDependency
  <2>5. frames' = Continue([Top EXCEPT !.open = u])
    BY <2>1
  <2> HIDE DEF u
  <2>6. [Top EXCEPT !.open = u] = [Top EXCEPT !.open = u, !.order = Top.order]
    BY <1>1
  <2>7. frames' = Continue(Planning(Top, u, Top.order))
    BY <2>5, <2>6 DEF Planning
  <2> QED BY <2>2, <2>3, <2>4, <2>7, PlanningMoves
<1>4. CASE Visited
  <2> DEFINE u == Front(Top.open)
             w == Append(Top.order, Last(Top.open))
  <2>1. /\ Top.open # <<>> /\ outcome = "none" /\ UNCHANGED <<trace, results, outcome>>
        /\ Dependency(TopGraph, Last(Top.open)) \subseteq ToSet(Top.open) \cup ToSet(Top.order)
        /\ frames' = Continue(Planning(Top, u, w))
    BY <1>4 DEF Visited, Planning
  <2>2. Top.ran = 0
    BY <1>1, <2>1 DEF Planned
  <2>3. Plans(Top.file, u, w)
    BY <1>1, <2>1, VisitEnds
  <2> HIDE DEF u, w
  <2> QED BY <2>1, <2>2, <2>3, PlanningMoves
<1> QED BY <1>2, <1>3, <1>4


\* A node that is executed,
LEMMA NodeExecutes ==
  ASSUME NestedInv, ExecuteNode
  PROVE  NestedInv'
<1>1. PICK id : id = Top.order[Top.ran + 1]
  OBVIOUS
<1>2. PICK v : v = Handle(TopGraph, Top.local, Here)
  OBVIOUS
<1>3. PICK p : p = HerePath
  OBVIOUS
<1>4. PICK mine : mine = With(Top.local, id, v)
  OBVIOUS
<1>5. PICK G : G = [Top EXCEPT !.ran = Top.ran + 1, !.local = mine]
  OBVIOUS
<1>6. PICK now : now = With(results, p, v)
  OBVIOUS
<1>7. PICK traced : traced = ToSet(trace)
  OBVIOUS
<1>8. /\ RootFile \in Roots /\ Len(frames) \in Nat \ {0} /\ Top = frames[Len(frames)]
      /\ Runs(Top, RootFile, traced, results)
      /\ Top.path = <<>> \/ Top.path \in traced
      /\ \A i \in 1..(Len(frames) - 1) :
           Runs(frames[i], RootFile, traced, results) /\ frames[i].path # Top.path
  BY <1>7, TopIs
<1>9. /\ outcome = "none" /\ Planned(Top) /\ Top.ran < Len(Top.order)
      /\ Here = GetNode(Graphs[Top.file], id) /\ TopGraph = Graphs[Top.file]
      /\ ~IsSubgraph(Top.file, id) /\ p = Append(Top.path, id)
  BY <1>1, <1>3 DEF ExecuteNode, Busy, Here, HerePath, TopGraph, IsSubgraph
<1>10. At(Top, id)
  BY <1>1, <1>9 DEF At
<1>11. results' = now /\ trace' = Append(trace, p) /\ outcome' = outcome
  BY <1>1, <1>2, <1>3, <1>6 DEF ExecuteNode
<1>12. frames' = Put(frames, G)
  BY <1>1, <1>2, <1>4, <1>5 DEF ExecuteNode, Continue, Put
<1>13. /\ id \in Ids(Graphs[Top.file]) /\ ScopeOf(Top) \in Scopes[RootFile]
      /\ p \notin traced /\ Top.path \in Seq(NodeIds) /\ Top.file \in DOMAIN Graphs
  BY <1>8, <1>9, <1>10, AtNext
<1>14. StackRuns(frames, RootFile, traced, results) /\ Reports(RootFile, traced, results)
  BY <1>7 DEF NestedInv
<1>15. Reports(RootFile, traced \cup {p}, now)
  <2>1. v = Handle(Graphs[Top.file], Top.local, GetNode(Graphs[Top.file], id))
    BY <1>2, <1>9
  <2>2. Reports(RootFile, traced \cup {Append(Top.path, id)}, With(results, Append(Top.path, id), v))
    BY <1>8, <1>9, <1>10, <1>14, <2>1, NodeReports
  <2> QED BY <1>6, <1>9, <2>2
<1>16. Runs(G, RootFile, traced \cup {p}, now) /\ G.path = Top.path /\ G.file = Top.file
  <2>1. G = After(Top, id, v)
    BY <1>4, <1>5, <1>8 DEF Runs, After
  <2>2. RootFile \in Roots
    BY <1>8
  <2>3. Runs(Top, RootFile, traced, results)
    BY <1>8
  <2>4. ~IsSubgraph(Top.file, id)
    BY <1>9
  <2>5. Runs(G, RootFile, traced \cup {Append(Top.path, id)},
             With(results, Append(Top.path, id), v))
    BY <1>10, <2>1, <2>2, <2>3, <2>4, NodeRuns, Zenon
  <2>6. G.path = Top.path /\ G.file = Top.file
    BY <2>1 DEF After
  <2> QED BY <1>6, <1>9, <2>5, <2>6
<1>17. Others(frames, RootFile, traced \cup {p}, now)
  <2> SUFFICES ASSUME NEW i \in 1..(Len(frames) - 1)
               PROVE  Runs(frames[i], RootFile, traced \cup {p}, now)
    BY DEF Others
  <2>1. Runs(frames[i], RootFile, traced \cup {Append(Top.path, id)},
             With(results, Append(Top.path, id), v))
    BY <1>8, <1>13, OthersRun
  <2> QED BY <1>6, <1>9, <2>1
<1>18. StackRuns(frames', RootFile, traced \cup {p}, now)
  <2>1. G.path = frames[Len(frames)].path /\ G.file = frames[Len(frames)].file
    BY <1>8, <1>16
  <2> QED BY <1>12, <1>14, <1>16, <1>17, <2>1, StackContinues
<1>19. RootFile' = RootFile
  BY <1>18 DEF StackRuns, RootFile
<1>20. /\ ToSet(trace') = traced \cup {p} /\ IsInjective(trace')
       /\ trace' \in Seq(Seq(NodeIds))
  <2>1. p \in Seq(NodeIds)
    <3>1. id \in NodeIds
      BY <1>13 DEF NodeIds
    <3> QED BY <1>9, <1>13, <3>1, AppendProperties
  <2>2. trace \in Seq(Seq(NodeIds)) /\ IsInjective(trace)
    BY DEF NestedInv
  <2> QED BY <1>7, <1>11, <1>13, <2>1, <2>2, AppendedOnce, ElementsOfAppend, AppendProperties
<1> QED BY <1>9, <1>11, <1>15, <1>18, <1>19, <1>20 DEF NestedInv

\* a node whose handler raises,
LEMMA NodeFails ==
  ASSUME NestedInv, NodeRaises
  PROVE  NestedInv'
<1>1. outcome = "none" /\ UNCHANGED <<trace, results>>
  BY DEF NodeRaises, Busy
<1>2. CASE Len(frames) = 1
  <2>1. frames' = frames /\ outcome' = "raised"
    BY <1>2 DEF NodeRaises
  <2> QED BY <1>1, <2>1 DEF NestedInv, RootFile
<1>3. CASE Len(frames) # 1
  <2>1. frames' = Front(frames) /\ outcome' = outcome
    BY <1>3 DEF NodeRaises
  <2>2. \A i \in 1..(Len(frames) - 1) : Runs(frames[i], RootFile, ToSet(trace), results)
    BY TopIs
  <2>3. StackRuns(frames, RootFile, ToSet(trace), results)
    BY DEF NestedInv
  <2>4. StackRuns(frames', RootFile, ToSet(trace), results)
    BY <1>3, <2>1, <2>2, <2>3, StackLeaves
  <2>5. RootFile' = RootFile
    BY <2>4 DEF StackRuns, RootFile
  <2> QED BY <1>1, <2>1, <2>4, <2>5 DEF NestedInv
<1> QED BY <1>2, <1>3

\* a subgraph that is entered or passed over,
LEMMA SubgraphEntered ==
  ASSUME NestedInv, EnterSubgraph
  PROVE  NestedInv'
<1>1. PICK id : id = Top.order[Top.ran + 1]
  OBVIOUS
<1>2. PICK p : p = HerePath
  OBVIOUS
<1>3. PICK G : G = [Top EXCEPT !.ran = @ + 1]
  OBVIOUS
<1>4. PICK traced : traced = ToSet(trace)
  OBVIOUS
<1>5. PICK passed : passed = Continue(G)
  OBVIOUS
<1>6. /\ RootFile \in Roots /\ Len(frames) \in Nat \ {0} /\ Top = frames[Len(frames)]
      /\ Runs(Top, RootFile, traced, results)
      /\ Top.path = <<>> \/ Top.path \in traced
      /\ \A i \in 1..(Len(frames) - 1) :
           Runs(frames[i], RootFile, traced, results) /\ frames[i].path # Top.path
  BY <1>4, TopIs
<1>7. /\ outcome = "none" /\ Planned(Top) /\ Top.ran < Len(Top.order)
      /\ Here = GetNode(Graphs[Top.file], id) /\ TopGraph = Graphs[Top.file]
      /\ IsSubgraph(Top.file, id) /\ p = Append(Top.path, id)
  BY <1>1, <1>2 DEF EnterSubgraph, Busy, Here, HerePath, TopGraph, IsSubgraph
<1>8. At(Top, id)
  BY <1>1, <1>7 DEF At
<1>9. results' = results /\ trace' = Append(trace, p) /\ outcome' = outcome
  BY <1>2 DEF EnterSubgraph
<1>10. passed = Put(frames, G)
  BY <1>3, <1>5 DEF Continue, Put
<1>11. /\ id \in Ids(Graphs[Top.file]) /\ ScopeOf(Top) \in Scopes[RootFile]
      /\ ScopeOf(Top)[1] = Top.path /\ ScopeOf(Top)[2] = Top.file
      /\ p \notin traced /\ Top.path \in Seq(NodeIds) /\ Top.file \in DOMAIN Graphs
      /\ Top.ran \in Nat
  BY <1>6, <1>7, <1>8, AtNext
<1>12. StackRuns(frames, RootFile, traced, results) /\ Reports(RootFile, traced, results)
  BY <1>4 DEF NestedInv
<1>13. Reports(RootFile, traced \cup {p}, results)
  BY <1>6, <1>7, <1>8, <1>12, EntryReports
<1>14. /\ Runs(G, RootFile, traced \cup {p}, results) /\ G.path = Top.path /\ G.file = Top.file
      /\ G.order = Top.order /\ G.ran = Top.ran + 1
  BY <1>6, <1>7, <1>8, <1>3, EntryRuns
<1>15. Others(frames, RootFile, traced \cup {p}, results)
  <2> SUFFICES ASSUME NEW i \in 1..(Len(frames) - 1)
               PROVE  Runs(frames[i], RootFile, traced \cup {p}, results)
    BY DEF Others
  <2>1. Runs(frames[i], RootFile, traced \cup {Append(Top.path, id)}, results)
    BY <1>6, <1>11, OthersRun
  <2> QED BY <1>7, <2>1
<1>16. /\ StackRuns(passed, RootFile, traced \cup {p}, results)
       /\ Len(passed) = Len(frames) /\ passed[Len(passed)] = G
  <2>1. G.path = frames[Len(frames)].path /\ G.file = frames[Len(frames)].file
    BY <1>6, <1>14
  <2> QED BY <1>10, <1>12, <1>14, <1>15, <2>1, StackContinues
<1>17. StackRuns(frames', RootFile, traced \cup {p}, results)
  <2>1. CASE Here.data \notin DOMAIN Graphs
    <3>1. frames' = passed
      BY <1>3, <1>5, <2>1 DEF EnterSubgraph
    <3> QED BY <1>16, <3>1
  <2>2. CASE Here.data \in DOMAIN Graphs
    <3> PICK s : s = <<p, Here.data>>
      OBVIOUS
    <3> PICK H : H = Frame(p, Here.data)
      OBVIOUS
    <3>1. s[1] = p /\ s[2] = Here.data
      OBVIOUS
    <3>2. frames' = Append(passed, H)
      BY <1>2, <1>3, <1>5, <2>2 DEF EnterSubgraph
    <3>3. id \in Loadable(Top.file)
      BY <1>7, <1>11, <2>2 DEF Loadable, IsSubgraph
    <3>4. s \in Below(ScopeOf(Top))
      BY <1>7, <1>11, <3>3 DEF Below
    <3>5. s \in Scopes[RootFile]
      BY <1>6, <1>11, <3>4, ScopesAre
    <3>6. \A j \in Ids(Graphs[s[2]]) : Append(s[1], j) \notin traced \cup {p}
      <4> TAKE j \in Ids(Graphs[s[2]])
      <4>1. p # <<>> /\ p \in Seq(NodeIds)
        <5>1. p = Append(ScopeOf(Top)[1], id) /\ id \in Ids(Graphs[ScopeOf(Top)[2]])
          BY <1>7, <1>11
        <5> QED BY <1>6, <1>11, <3>1, <3>5, <5>1, ScopeFacts
      <4>2. Append(s[1], j) \notin traced
        BY <1>11, <1>12, <3>1, <3>5, <4>1 DEF Reports
      <4>3. Len(Append(p, j)) = Len(p) + 1 /\ Len(p) \in Nat
        BY <1>6, <3>1, <3>5, <4>1, ScopeFacts, LenProperties
      <4>4. Append(p, j) # p
        <5>1. Len(p) + 1 # Len(p)
          BY <4>3
        <5> QED BY <4>3, <5>1
      <4> QED BY <3>1, <4>2, <4>4
    <3>7. Runs(H, RootFile, traced \cup {p}, results)
      BY <1>6, <3>1, <3>5, <3>6, NewRuns
    <3>8. H.path = p
      BY DEF Frame
    <3>9. G.ran > 0 /\ H.path = Append(G.path, G.order[G.ran])
      <4>1. G.ran > 0 /\ G.path = Top.path /\ G.order[G.ran] = id
        BY <1>1, <1>11, <1>14
      <4> QED BY <1>7, <3>8, <4>1
    <3> QED BY <1>16, <3>2, <3>7, <3>9, StackEnters
  <2> QED BY <2>1, <2>2
<1>18. RootFile' = RootFile
  BY <1>17 DEF StackRuns, RootFile
<1>19. /\ ToSet(trace') = traced \cup {p} /\ IsInjective(trace')
       /\ trace' \in Seq(Seq(NodeIds))
  <2>1. p \in Seq(NodeIds)
    <3>1. id \in NodeIds
      BY <1>11 DEF NodeIds
    <3> QED BY <1>7, <1>11, <3>1, AppendProperties
  <2>2. trace \in Seq(Seq(NodeIds)) /\ IsInjective(trace)
    BY DEF NestedInv
  <2> QED BY <1>4, <1>9, <1>11, <2>1, <2>2, AppendedOnce, ElementsOfAppend, AppendProperties
<1> QED BY <1>7, <1>9, <1>13, <1>17, <1>18, <1>19 DEF NestedInv

\* and a graph that has run to its end.
LEMMA GraphEnds ==
  ASSUME NestedInv, ExitGraph
  PROVE  NestedInv'
<1>1. outcome = "none" /\ Planned(Top) /\ Top.ran = Len(Top.order) /\ UNCHANGED trace
  BY DEF ExitGraph
<1>2. CASE Len(frames) = 1
  <2>1. frames' = frames /\ results' = results
    BY <1>2 DEF ExitGraph
  <2>2. Len(frames') = 1 /\ Planned(Top)' /\ Top'.ran = Len(Top'.order)
    BY <1>1, <1>2, <2>1 DEF Top, Planned
  <2> QED BY <1>1, <2>1, <2>2 DEF NestedInv, RootFile
<1>3. CASE Len(frames) # 1
  <2> PICK v : v = Other("completed")
    OBVIOUS
  <2> PICK now : now = With(results, Top.path, v)
    OBVIOUS
  <2>1. frames' = Front(frames) /\ outcome' = outcome /\ results' = now
    BY <1>3 DEF ExitGraph
  <2>2. /\ RootFile \in Roots /\ Len(frames) > 1 /\ Top.path \in ToSet(trace)
        /\ Runs(Top, RootFile, ToSet(trace), results) /\ ScopeOf(Top) \in Scopes[RootFile]
        /\ \A i \in 1..(Len(frames) - 1) : Runs(frames[i], RootFile, ToSet(trace), results)
    <3>1. Len(frames) > 1
      <4>1. Len(frames) \in Nat \ {0}
        BY TopIs
      <4> QED BY <1>3, <4>1
    <3> QED BY <3>1, TopIs
  <2>3. /\ StackRuns(frames, RootFile, ToSet(trace), results)
        /\ Reports(RootFile, ToSet(trace), results)
    BY DEF NestedInv
  <2>4. \A i \in 1..(Len(frames) - 1) : Runs(frames[i], RootFile, ToSet(trace), now)
    BY <2>2, ParentsRun
  <2>5. StackRuns(frames', RootFile, ToSet(trace), now)
    BY <1>3, <2>1, <2>3, <2>4, StackLeaves
  <2>6. Reports(RootFile, ToSet(trace), now)
    BY <1>1, <2>2, <2>3, ScopeReports
  <2>7. RootFile' = RootFile
    BY <2>5 DEF StackRuns, RootFile
  <2> QED BY <1>1, <2>1, <2>5, <2>6, <2>7 DEF NestedInv
<1> QED BY <1>2, <1>3

LEMMA NestedMoves ==
  ASSUME NestedInv, [NestedNext]_executorVars
  PROVE  NestedInv'
<1>1. CASE NestedNext
  <2>1. CASE VisitNode \/ VisitDependency \/ Visited
    BY <2>1, NestedPlans
  <2>2. CASE ExecuteNode
    BY <2>2, NodeExecutes
  <2>3. CASE NodeRaises
    BY <2>3, NodeFails
  <2>4. CASE EnterSubgraph
    BY <2>4, SubgraphEntered
  <2>5. CASE ExitGraph
    BY <2>5, GraphEnds
  <2> QED BY <1>1, <2>1, <2>2, <2>3, <2>4, <2>5 DEF NestedNext
<1>2. CASE UNCHANGED executorVars
  BY <1>2 DEF executorVars, NestedInv, RootFile, Top, Planned
<1> QED BY <1>1, <1>2

\* An execution in which every scope that was entered has completed has run the
\* whole hierarchy.
LEMMA AllCompleted ==
  ASSUME NestedInv, outcome = "returned",
         \A s \in Hierarchy : s[1] \in ToSet(trace) => s[1] \in DOMAIN results
  PROVE  Flatten(RootFile) \subseteq ToSet(trace)
<1>1. PICK traced : traced = ToSet(trace)
  OBVIOUS
<1>2. PICK S : S = {s \in Scopes[RootFile] : Complete(s, traced, results)}
  OBVIOUS
<1>3. /\ RootFile \in Roots /\ Runs(Top, RootFile, traced, results)
      /\ Reports(RootFile, traced, results)
  BY <1>1, TopIs DEF NestedInv
<1>4. <<<<>>, RootFile>> \in S
  <2>1. Planned(Top) /\ Top.ran = Len(Top.order) /\ Len(frames) = 1
    BY DEF NestedInv
  <2>2. Complete(ScopeOf(Top), traced, results) /\ ScopeOf(Top) \in Scopes[RootFile]
    BY <1>3, <2>1, AllRan DEF Runs
  <2>3. Top.path = <<>> /\ Top.file = RootFile
    <3>1. frames[1].path = <<>>
      BY DEF NestedInv, StackRuns
    <3> QED BY <2>1, <3>1 DEF Top, RootFile
  <2>4. ScopeOf(Top) = <<<<>>, RootFile>>
    BY <2>3 DEF ScopeOf
  <2> QED BY <1>2, <2>2, <2>4
<1>5. ASSUME NEW s \in Scopes[RootFile], s \in S PROVE Below(s) \subseteq S
  <2> SUFFICES ASSUME NEW t \in Below(s) PROVE t \in S
    OBVIOUS
  <2>1. PICK id \in Loadable(s[2]) : t = <<Append(s[1], id), GetNode(Graphs[s[2]], id).data>>
    BY DEF Below
  <2>2. id \in Ids(Graphs[s[2]]) /\ t[1] = Append(s[1], id)
    BY <2>1 DEF Loadable
  <2>3. t[1] \in traced
    BY <1>2, <1>5, <2>2 DEF Complete
  <2>4. t \in Scopes[RootFile]
    BY <1>3, ScopesAre
  <2>5. t[1] \in DOMAIN results
    BY <1>1, <2>3, <2>4 DEF Hierarchy
  <2>6. Complete(t, traced, results)
    BY <1>3, <2>4, <2>5 DEF Reports
  <2> QED BY <1>2, <2>4, <2>6
<1>6. Scopes[RootFile] \subseteq S
  BY <1>3, <1>4, <1>5, ScopesInduction
<1>7. \A s \in Scopes[RootFile] : \A id \in Ids(Graphs[s[2]]) : Append(s[1], id) \in traced
  <2>1. \A s \in Scopes[RootFile] : Complete(s, traced, results)
    BY <1>2, <1>6
  <2> QED BY <2>1 DEF Complete
<1>8. Flatten(RootFile) \subseteq traced
  <2> SUFFICES ASSUME NEW p \in Flatten(RootFile) PROVE p \in traced
    OBVIOUS
  <2>1. PICK s \in Scopes[RootFile] : p \in {Append(s[1], id) : id \in Ids(Graphs[s[2]])}
    BY DEF Flatten
  <2> QED BY <1>7, <2>1
<1> QED BY <1>1, <1>8

LEMMA NestedSound ==
  ASSUME NestedInv
  PROVE  NestedRunsSound
<1>1. Reports(RootFile, ToSet(trace), results) /\ IsInjective(trace)
  BY DEF NestedInv
<1>2. ResultsAreMeanings
  BY <1>1 DEF ResultsAreMeanings, Reports, Meanings, Hierarchy, IsSubgraph
<1>3. \A s \in Hierarchy : s[1] \in DOMAIN results => Ran(s)
  BY <1>1 DEF Reports, Complete, Ran, Hierarchy, IsSubgraph
<1>4. /\ DOMAIN results \subseteq ToSet(trace) /\ ToSet(trace) \subseteq Flatten(RootFile)
  BY <1>1 DEF Reports
<1>5. ASSUME outcome = "returned",
             \A s \in Hierarchy : s[1] \in ToSet(trace) => s[1] \in DOMAIN results
      PROVE  ToSet(trace) = Flatten(RootFile)
  BY <1>4, <1>5, AllCompleted
<1>6. CompletedScopesRan
  BY <1>1, <1>3, <1>5 DEF CompletedScopesRan
<1> QED BY <1>2, <1>4, <1>6 DEF NestedRunsSound

\* The stack of calls, of any depth, mirrors the trace and the results at every
\* step of every order of visits: a call has run the nodes of its scope that are in
\* the trace, its local results are the results of its scope, and a scope that is
\* reported as completed has run all of its nodes.
THEOREM NestedInvariant == NestedSpec => []NestedInv
<1>1. NestedInit => NestedInv
  BY NestedBegins
<1>2. NestedInv /\ [NestedNext]_executorVars => NestedInv'
  BY NestedMoves
<1> QED BY <1>1, <1>2, PTL DEF NestedSpec

\* What an execution of nested graphs reports is what the graphs say, for every
\* hierarchy of finite depth and every order that _get_execution_order may choose:
\* results are those of the node's handler for the results of all nodes that lead to
\* it in its own scope, and completed scopes, the whole execution among them, have
\* run each of their nodes once.
THEOREM NestedExecution == NestedSpec => []NestedRunsSound
<1>1. NestedInv => NestedRunsSound
  BY NestedSound
<1> QED BY <1>1, NestedInvariant, PTL
=============================================================================
