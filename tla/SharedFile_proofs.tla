-------------------------- MODULE SharedFile_proofs --------------------------
(* Proofs about the processes that only share a graph file: whichever of   *)
(* them dies, and wherever, what was saved stays; the executor of the      *)
(* isolated agents prints the whole result or none; and no trade of the    *)
(* supply chain exceeds its limits, whatever the models answer.            *)
EXTENDS IsolatedAgents, SupplyChain, Lists_proofs

-----------------------------------------------------------------------------
(* The file.                                                               *)

Extended(g, h) == IsPrefix(g.nodes, h.nodes) /\ IsPrefix(g.edges, h.edges)

\* A file that is there and whole is the graph that was saved last, and so is the
\* copy of a process that has loaded it; it only adds to that copy.
FileInv(N, E) ==
  /\ saved \in Graph(N, E) /\ memory \in Graph(N, E)
  /\ file \in {Absent, Torn, saved}
  /\ file = Absent => saved = EmptyGraph
  /\ pc \in {"load", "work", "save", "write", "exit", "over"}
  /\ pc = "work" => memory = saved
  /\ pc \in {"save", "write"} => Extended(saved, memory)

Keeps == saved' = saved \/ Extended(saved, saved')

LEMMA EmptyIsGraph ==
  ASSUME NEW N, NEW E
  PROVE  EmptyGraph \in Graph(N, E)
BY DEF EmptyGraph, Graph

LEMMA Same ==
  ASSUME NEW N, NEW E, NEW g \in Graph(N, E)
  PROVE  Extended(g, g)
<1>1. g.nodes \in Seq(N) /\ g.edges \in Seq(E)
  BY DEF Graph
<1> QED BY <1>1, PrefixOfConcat DEF Extended

\* What the four steps that all processes have in common do to the file.
LEMMA FileSteps ==
  ASSUME NEW N, NEW E, FileInv(N, E), SharedNext, Absent # Torn, Absent \notin Graph(N, E)
  PROVE  FileInv(N, E)' /\ Keeps
<1>1. CASE Load
  BY <1>1, EmptyIsGraph DEF Load, FileInv, Keeps, EmptyGraph
<1>2. CASE OpenForWriting
  BY <1>2 DEF OpenForWriting, FileInv, Keeps
<1>3. CASE Write
  BY <1>3 DEF Write, FileInv, Keeps
<1>4. CASE Dies
  BY <1>4 DEF Dies, FileInv, Keeps
<1> QED BY <1>1, <1>2, <1>3, <1>4 DEF SharedNext

LEMMA FileBegins ==
  ASSUME NEW N, NEW E, NEW demonstration, NEW first, NEW content \in {Absent, EmptyGraph},
         SharedInit(demonstration, first, content)
  PROVE  FileInv(N, E)
BY EmptyIsGraph DEF SharedInit, FileInv

LEMMA FileContributes ==
  ASSUME NEW N, NEW E, FileInv(N, E), pc = "work",
         NEW nodes \in Seq(N), NEW edges \in Seq(E), Adds(nodes, edges)
  PROVE  /\ FileInv(N, E)' /\ Keeps
         /\ memory' = [nodes |-> saved.nodes \o nodes, edges |-> saved.edges \o edges]
         /\ pc' = "save" /\ UNCHANGED <<scenario, running, file, saved, outcome>>
<1>1. /\ memory' = [nodes |-> saved.nodes \o nodes, edges |-> saved.edges \o edges]
      /\ pc' = "save" /\ UNCHANGED <<scenario, running, file, saved, outcome>>
  BY DEF FileInv, Adds, Contributes
<1>2. saved.nodes \in Seq(N) /\ saved.edges \in Seq(E)
  BY DEF FileInv, Graph
<1>3. saved.nodes \o nodes \in Seq(N) /\ saved.edges \o edges \in Seq(E)
  BY <1>2, ElementsOfConcat
<1>4. IsPrefix(saved.nodes, saved.nodes \o nodes) /\ IsPrefix(saved.edges, saved.edges \o edges)
  BY <1>2, PrefixOfConcat
<1>5. memory' \in Graph(N, E) /\ Extended(saved, memory')
  BY <1>1, <1>3, <1>4 DEF Graph, Extended
<1>6. FileInv(N, E)'
  BY <1>1, <1>5 DEF FileInv
<1> QED BY <1>1, <1>6 DEF Keeps

LEMMA FileContinues ==
  ASSUME NEW N, NEW E, FileInv(N, E),
         \/ \E process : Runs(process)
         \/ \E how : Finishes(how)
         \/ pc' = "exit" /\ UNCHANGED <<memory, file, saved>>
         \/ UNCHANGED sharedVars
  PROVE  FileInv(N, E)' /\ Keeps
BY EmptyIsGraph DEF FileInv, Keeps, Runs, Finishes, sharedVars

-----------------------------------------------------------------------------
(* The isolated agents.                                                    *)

\* What the two operations and the result require.
UsesOfProduct == <<Requires("multiply_projection", "q4_revenue"),
                   Requires("multiply_projection", "growth_rate")>>
UsesOfDifference == <<Requires("subtract_advantage", "multiply_projection"),
                      Requires("subtract_advantage", "competitor_revenue")>>
UsesOfResult == <<Requires("result", "subtract_advantage")>>
LEMMA AgentsAdd ==
  /\ AgentNodes = {Operand("q4_revenue"), Operand("growth_rate"), Operand("competitor_revenue"),
                   Operation("multiply_projection", "multiply"),
                   Operation("subtract_advantage", "subtract"),
                   [id |-> "result", type |-> "RESULT", value |-> "none"]}
  /\ AgentEdges = {Requires("multiply_projection", "q4_revenue"),
                   Requires("multiply_projection", "growth_rate"),
                   Requires("subtract_advantage", "multiply_projection"),
                   Requires("subtract_advantage", "competitor_revenue"),
                   Requires("result", "subtract_advantage")}
BY DEF AgentNodes, AgentEdges, ToSet, NodesOfA, NodesOfB, EdgesOfB

LEMMA AgentsAddLists ==
  /\ NodesOfA \in Seq(AgentNodes) /\ NodesOfB \in Seq(AgentNodes)
  /\ EdgesOfB \in Seq(AgentEdges) /\ <<>> \in Seq(AgentEdges)
  /\ UsesOfProduct \in Seq(AgentEdges) /\ UsesOfDifference \in Seq(AgentEdges)
  /\ UsesOfResult \in Seq(AgentEdges)
BY AgentsAdd DEF NodesOfA, NodesOfB, EdgesOfB, UsesOfProduct, UsesOfDifference, UsesOfResult

LEMMA EdgesInOrder ==
  EdgesOfB = (UsesOfProduct \o UsesOfDifference) \o UsesOfResult
<1> DEFINE u == UsesOfProduct \o UsesOfDifference
           v == u \o UsesOfResult
<1>1. Len(UsesOfProduct) = 2 /\ Len(UsesOfDifference) = 2 /\ Len(UsesOfResult) = 1 /\ Len(EdgesOfB) = 5
  BY DEF UsesOfProduct, UsesOfDifference, UsesOfResult, EdgesOfB
<1>2. /\ u \in Seq(AgentEdges) /\ Len(u) = 4
      /\ \A i \in 1..4 : u[i] = IF i <= 2 THEN UsesOfProduct[i] ELSE UsesOfDifference[i - 2]
  <2>1. /\ u \in Seq(AgentEdges) /\ Len(u) = Len(UsesOfProduct) + Len(UsesOfDifference)
        /\ \A i \in 1..(Len(UsesOfProduct) + Len(UsesOfDifference)) :
             u[i] = IF i <= Len(UsesOfProduct) THEN UsesOfProduct[i]
                    ELSE UsesOfDifference[i - Len(UsesOfProduct)]
    BY AgentsAddLists, ConcatProperties
  <2> HIDE DEF u
  <2> QED BY <1>1, <2>1
<1> HIDE DEF u
<1>3. /\ v \in Seq(AgentEdges) /\ Len(v) = 5
      /\ \A i \in 1..5 : v[i] = IF i <= 4 THEN u[i] ELSE UsesOfResult[i - 4]
  <2>1. /\ v \in Seq(AgentEdges) /\ Len(v) = Len(u) + Len(UsesOfResult)
        /\ \A i \in 1..(Len(u) + Len(UsesOfResult)) :
             v[i] = IF i <= Len(u) THEN u[i] ELSE UsesOfResult[i - Len(u)]
    BY <1>2, AgentsAddLists, ConcatProperties
  <2> HIDE DEF v
  <2> QED BY <1>1, <1>2, <2>1
<1> HIDE DEF v
<1>4. /\ v[1] = UsesOfProduct[1] /\ v[2] = UsesOfProduct[2]
      /\ v[3] = UsesOfDifference[1] /\ v[4] = UsesOfDifference[2] /\ v[5] = UsesOfResult[1]
  BY <1>2, <1>3
<1>5. /\ v[1] = EdgesOfB[1] /\ v[2] = EdgesOfB[2] /\ v[3] = EdgesOfB[3]
      /\ v[4] = EdgesOfB[4] /\ v[5] = EdgesOfB[5]
  BY <1>4 DEF UsesOfProduct, UsesOfDifference, UsesOfResult, EdgesOfB
<1>6. \A i \in 1..5 : v[i] = EdgesOfB[i]
  <2>1. \A i \in 1..5 : i = 1 \/ i = 2 \/ i = 3 \/ i = 4 \/ i = 5
    OBVIOUS
  <2> QED BY <1>5, <2>1
<1>7. v = EdgesOfB
  BY <1>1, <1>3, <1>6, AgentsAddLists, SeqEqual
<1> QED BY <1>7 DEF u, v

From(edges, id) == Kept(edges, {e \in ToSet(edges) : e.from_id = id})

LEMMA UsesInOrder ==
  /\ From(EdgesOfB, "multiply_projection") = UsesOfProduct
  /\ From(EdgesOfB, "subtract_advantage") = UsesOfDifference
  /\ From(EdgesOfB, "result") = UsesOfResult
<1> DEFINE S(id) == {e \in ToSet(EdgesOfB) : e.from_id = id}
<1>1. /\ ToSet(UsesOfProduct) = {UsesOfProduct[1], UsesOfProduct[2]}
      /\ ToSet(UsesOfDifference) = {UsesOfDifference[1], UsesOfDifference[2]}
      /\ ToSet(UsesOfResult) = {UsesOfResult[1]}
  BY DEF UsesOfProduct, UsesOfDifference, UsesOfResult, ToSet
<1>2. /\ UsesOfProduct \o UsesOfDifference \in Seq(AgentEdges)
      /\ ToSet(EdgesOfB) = ToSet(UsesOfProduct) \cup ToSet(UsesOfDifference) \cup ToSet(UsesOfResult)
  <2> DEFINE u == UsesOfProduct \o UsesOfDifference
  <2>1. u \in Seq(AgentEdges) /\ ToSet(u) = ToSet(UsesOfProduct) \cup ToSet(UsesOfDifference)
    BY AgentsAddLists, ElementsOfConcat
  <2>2. EdgesOfB = u \o UsesOfResult
    BY EdgesInOrder
  <2> HIDE DEF u
  <2>3. ToSet(u \o UsesOfResult) = ToSet(u) \cup ToSet(UsesOfResult)
    BY <2>1, AgentsAddLists, ElementsOfConcat
  <2> QED BY <2>1, <2>2, <2>3 DEF u
<1>3. ASSUME NEW T
      PROVE  Kept(EdgesOfB, T) = (Kept(UsesOfProduct, T) \o Kept(UsesOfDifference, T))
                                 \o Kept(UsesOfResult, T)
  <2>1. /\ UsesOfProduct \in Seq(AgentEdges) /\ UsesOfDifference \in Seq(AgentEdges)
        /\ UsesOfResult \in Seq(AgentEdges)
    BY AgentsAddLists
  <2>2. KeptPartwise(UsesOfProduct, UsesOfDifference, UsesOfResult)
    BY <2>1, KeptConcats
  <2> QED BY <2>2, EdgesInOrder DEF KeptPartwise
<1>4. /\ \A e \in ToSet(UsesOfProduct) : e.from_id = "multiply_projection"
      /\ \A e \in ToSet(UsesOfDifference) : e.from_id = "subtract_advantage"
      /\ \A e \in ToSet(UsesOfResult) : e.from_id = "result"
  BY <1>1 DEF UsesOfProduct, UsesOfDifference, UsesOfResult, Requires
<1>5. From(EdgesOfB, "multiply_projection") = UsesOfProduct
  <2> DEFINE T == S("multiply_projection")
  <2>1. /\ ToSet(UsesOfProduct) \subseteq T /\ ToSet(UsesOfDifference) \cap T = {}
        /\ ToSet(UsesOfResult) \cap T = {}
    BY <1>2, <1>4
  <2> HIDE DEF T
  <2>2. /\ Kept(UsesOfProduct, T) = UsesOfProduct /\ Kept(UsesOfDifference, T) = <<>>
        /\ Kept(UsesOfResult, T) = <<>>
    BY <2>1, AgentsAddLists, KeptAll, KeptNone
  <2>3. Kept(EdgesOfB, T) = UsesOfProduct
    BY <1>3, <2>2, AgentsAddLists, ConcatEmptySeq
  <2> QED BY <2>3 DEF T, From
<1>6. From(EdgesOfB, "subtract_advantage") = UsesOfDifference
  <2> DEFINE T == S("subtract_advantage")
  <2>1. /\ ToSet(UsesOfDifference) \subseteq T /\ ToSet(UsesOfProduct) \cap T = {}
        /\ ToSet(UsesOfResult) \cap T = {}
    BY <1>2, <1>4
  <2> HIDE DEF T
  <2>2. /\ Kept(UsesOfProduct, T) = <<>> /\ Kept(UsesOfDifference, T) = UsesOfDifference
        /\ Kept(UsesOfResult, T) = <<>>
    BY <2>1, AgentsAddLists, KeptAll, KeptNone
  <2>3. Kept(EdgesOfB, T) = UsesOfDifference
    BY <1>3, <2>2, AgentsAddLists, ConcatEmptySeq
  <2> QED BY <2>3 DEF T, From
<1>7. From(EdgesOfB, "result") = UsesOfResult
  <2> DEFINE T == S("result")
  <2>1. /\ ToSet(UsesOfResult) \subseteq T /\ ToSet(UsesOfProduct) \cap T = {}
        /\ ToSet(UsesOfDifference) \cap T = {}
    BY <1>2, <1>4
  <2> HIDE DEF T
  <2>2. /\ Kept(UsesOfProduct, T) = <<>> /\ Kept(UsesOfDifference, T) = <<>>
        /\ Kept(UsesOfResult, T) = UsesOfResult
    BY <2>1, AgentsAddLists, KeptAll, KeptNone
  <2>3. Kept(EdgesOfB, T) = (<<>> \o <<>>) \o UsesOfResult
    BY <1>3, <2>2
  <2>4. UsesOfResult \in Seq(AgentEdges) /\ <<>> \in Seq(AgentEdges)
    BY AgentsAddLists
  <2>5. Kept(EdgesOfB, T) = UsesOfResult
    BY <2>3, <2>4, ConcatEmptySeq
  <2> QED BY <2>5 DEF T, From
<1> QED BY <1>5, <1>6, <1>7

Product == Figure["q4_revenue"] * Figure["growth_rate"]
Difference == Product - Figure["competitor_revenue"]

\* The value of each node, when all that it needs is there.
Expected(id) ==
  CASE id = "multiply_projection" -> <<Product>>
    [] id \in {"subtract_advantage", "result"} -> <<Difference>>
    [] OTHER -> <<Figure[id]>>

Ids == {"q4_revenue", "growth_rate", "competitor_revenue", "multiply_projection",
        "subtract_advantage", "result"}

\* Values of some nodes, each the expected one or none.
Honest(ids) ==
  {v \in [ids -> {Expected(id) : id \in Ids} \cup {<<>>}] :
     \A id \in ids : v[id] = <<>> \/ v[id] = Expected(id)}

\* A graph that agents A and B have made, or one of them.
FromAgents(g) == g.nodes \in Seq(AgentNodes) /\ g.edges \in {<<>>, EdgesOfB}

IdsOf(g) == {n.id : n \in ToSet(g.nodes)}

NodeOf(g, id) == Last(Kept(g.nodes, {n \in ToSet(g.nodes) : n.id = id}))
InputsOf(g, inner, id) ==
  [i \in DOMAIN From(g.edges, id) |->
     IF From(g.edges, id)[i].to_id \in DOMAIN inner
       THEN inner[From(g.edges, id)[i].to_id] ELSE <<>>]

LEMMA NodeFound ==
  ASSUME NEW g, FromAgents(g), NEW id \in IdsOf(g)
  PROVE  NodeOf(g, id) \in AgentNodes /\ NodeOf(g, id).id = id /\ id \in Ids
<1> DEFINE S == {n \in ToSet(g.nodes) : n.id = id}
           k == Kept(g.nodes, S)
<1>1. k \in Seq(AgentNodes) /\ ToSet(k) = ToSet(g.nodes) \cap S /\ ToSet(g.nodes) \subseteq AgentNodes
  BY KeptElements, ElementsOf DEF FromAgents
<1>2. S # {} /\ ToSet(k) = S
  BY <1>1 DEF IdsOf
<1> HIDE DEF k
<1>3. Len(k) \in 1..Len(k) /\ ToSet(k) = {k[i] : i \in 1..Len(k)}
  <2>1. k # <<>>
    BY <1>1, <1>2, ElementsOf
  <2> QED BY <1>1, <2>1, EmptySeq, ElementsOf
<1>4. k[Len(k)] \in S
  BY <1>2, <1>3
<1>5. NodeOf(g, id) \in S
  BY <1>4 DEF NodeOf, Last, k
<1>6. \A n \in AgentNodes : n.id \in Ids
  BY AgentsAdd DEF Ids, Operand, Operation
<1> QED BY <1>1, <1>5, <1>6

LEMMA NoInputs ==
  ASSUME NEW g, g.edges = <<>>, NEW inner, NEW id
  PROVE  InputsOf(g, inner, id) = <<>>
<1>1. From(<<>>, id) = <<>>
  BY KeptEmpty DEF From
<1> QED BY <1>1 DEF InputsOf

LEMMA InputsFound ==
  ASSUME NEW g, g.edges = EdgesOfB, NEW ids, NEW inner \in Honest(ids)
  PROVE  LET in(id) == IF id \in ids THEN inner[id] ELSE <<>>
         IN  /\ InputsOf(g, inner, "multiply_projection") = <<in("q4_revenue"), in("growth_rate")>>
             /\ InputsOf(g, inner, "subtract_advantage")
                  = <<in("multiply_projection"), in("competitor_revenue")>>
             /\ InputsOf(g, inner, "result") = <<in("subtract_advantage")>>
<1>1. DOMAIN inner = ids
  BY DEF Honest
<1> QED BY <1>1, UsesInOrder DEF InputsOf, UsesOfProduct, UsesOfDifference, UsesOfResult, Requires

LEMMA ValueIs ==
  ASSUME NEW g, NEW inner, NEW id
  PROVE  Value(g, inner, id) =
           CASE NodeOf(g, id).type = "OPERAND" -> <<NodeOf(g, id).value>>
             [] NodeOf(g, id).type = "OPERATION" /\ Len(InputsOf(g, inner, id)) >= 2
                /\ (\A i \in DOMAIN InputsOf(g, inner, id) : InputsOf(g, inner, id)[i] # <<>>) ->
                  <<Apply(NodeOf(g, id).value, InputsOf(g, inner, id)[1][1],
                          InputsOf(g, inner, id)[2][1])>>
             [] NodeOf(g, id).type = "RESULT" /\ InputsOf(g, inner, id) # <<>> ->
                  InputsOf(g, inner, id)[1]
             [] OTHER -> <<>>
BY DEF Value, NodeOf, InputsOf, From

LEMMA HonestValue ==
  ASSUME NEW g, FromAgents(g), NEW inner \in Honest(IdsOf(g)), NEW id \in IdsOf(g)
  PROVE  Value(g, inner, id) = <<>> \/ Value(g, inner, id) = Expected(id)
<1> DEFINE node == NodeOf(g, id)
           inputs == InputsOf(g, inner, id)
           in(m) == IF m \in IdsOf(g) THEN inner[m] ELSE <<>>
<1>1. node \in AgentNodes /\ node.id = id /\ id \in Ids
  BY NodeFound
<1>2. ASSUME NEW m PROVE in(m) = <<>> \/ in(m) = Expected(m)
  BY DEF Honest
<1>3. CASE node.type = "OPERAND"
  <2>1. Value(g, inner, id) = <<node.value>>
    BY <1>3, ValueIs
  <2>2. node.value = Figure[id] /\ id \in {"q4_revenue", "growth_rate", "competitor_revenue"}
    BY <1>1, <1>3, AgentsAdd DEF Operand, Operation
  <2> QED BY <2>1, <2>2 DEF Expected
<1>4. CASE node.type = "OPERATION"
  <2>1. \/ node = Operation("multiply_projection", "multiply")
        \/ node = Operation("subtract_advantage", "subtract")
    BY <1>1, <1>4, AgentsAdd DEF Operand
  <2>1a. \/ /\ node.value = "multiply"
            /\ id = "multiply_projection"
         \/ /\ node.value = "subtract"
            /\ id = "subtract_advantage"
    BY <1>1, <2>1 DEF Operation
  <2>2. Value(g, inner, id) = IF /\ Len(inputs) >= 2
                                 /\ \A i \in DOMAIN inputs : inputs[i] # <<>>
                              THEN <<Apply(node.value, inputs[1][1], inputs[2][1])>>
                              ELSE <<>>
    BY <1>4, ValueIs
  <2>3. CASE g.edges = <<>>
    <3>1. inputs = <<>>
      BY <2>3, NoInputs
    <3> QED BY <2>2, <3>1
  <2>4. CASE g.edges = EdgesOfB /\ id = "multiply_projection"
    <3>1. inputs = <<in("q4_revenue"), in("growth_rate")>>
      BY <2>4, InputsFound
    <3>2. SUFFICES ASSUME in("q4_revenue") # <<>>, in("growth_rate") # <<>>
                   PROVE  Value(g, inner, id) = Expected(id)
      BY <2>2, <3>1
    <3>5. in("q4_revenue") = Expected("q4_revenue") /\ in("growth_rate") = Expected("growth_rate")
      BY <1>2, <3>2
    <3>3. in("q4_revenue")[1] = Figure["q4_revenue"] /\ in("growth_rate")[1] = Figure["growth_rate"]
      BY <3>5 DEF Expected
    <3>4. Value(g, inner, id) = <<Apply(node.value, inputs[1][1], inputs[2][1])>>
      BY <2>2, <3>1, <3>2
    <3> QED BY <2>1a, <2>4, <3>1, <3>3, <3>4 DEF Expected, Apply, Product
  <2>5. CASE g.edges = EdgesOfB /\ id = "subtract_advantage"
    <3>1. inputs = <<in("multiply_projection"), in("competitor_revenue")>>
      BY <2>5, InputsFound
    <3>2. SUFFICES ASSUME in("multiply_projection") # <<>>, in("competitor_revenue") # <<>>
                   PROVE  Value(g, inner, id) = Expected(id)
      BY <2>2, <3>1
    <3>5. /\ in("multiply_projection") = Expected("multiply_projection")
          /\ in("competitor_revenue") = Expected("competitor_revenue")
      BY <1>2, <3>2
    <3>3. /\ in("multiply_projection")[1] = Product
          /\ in("competitor_revenue")[1] = Figure["competitor_revenue"]
      BY <3>5 DEF Expected
    <3>4. Value(g, inner, id) = <<Apply(node.value, inputs[1][1], inputs[2][1])>>
      BY <2>2, <3>1, <3>2
    <3> QED BY <2>1a, <2>5, <3>1, <3>3, <3>4 DEF Expected, Apply, Difference
  <2> QED BY <2>1a, <2>3, <2>4, <2>5 DEF FromAgents
<1>5. CASE node.type = "RESULT"
  <2>1. id = "result"
    BY <1>1, <1>5, AgentsAdd DEF Operand, Operation
  <2>2. Value(g, inner, id) = IF inputs # <<>> THEN inputs[1] ELSE <<>>
    BY <1>5, ValueIs
  <2>3. CASE g.edges = <<>>
    <3>1. inputs = <<>>
      BY <2>3, NoInputs
    <3> QED BY <2>2, <3>1
  <2>4. CASE g.edges = EdgesOfB
    <3>1. inputs = <<in("subtract_advantage")>>
      BY <2>1, <2>4, InputsFound
    <3>2. in("subtract_advantage") = <<>> \/ in("subtract_advantage") = Expected("result")
      BY <1>2 DEF Expected
    <3> QED BY <2>1, <2>2, <3>1, <3>2
  <2> QED BY <2>3, <2>4 DEF FromAgents
<1> QED BY <1>1, <1>3, <1>4, <1>5, AgentsAdd DEF Operand, Operation

\* The recursion of _compute, as deep as it may go.
LEMMA ComputeHonest ==
  ASSUME NEW g, FromAgents(g)
  PROVE  LET r == Compute(g, "result")
         IN  r = <<>> \/ r = <<Difference>>
<1> DEFINE ids == IdsOf(g)
           V == Honest(ids)
           Deeper(inner) == [id \in ids |-> Value(g, inner, id)]
           Nothing == [id \in ids |-> <<>>]
           n == Len(g.nodes)
           Level(f, d) == [id \in ids |-> IF d = 0 THEN <<>> ELSE Value(g, f[d - 1], id)]
           value == CHOOSE f : f = [d \in 0..n |-> Level(f, d)]
           step == [d \in 1..n |-> [inner \in V |-> Deeper(inner)]]
<1>1. n \in Nat
  BY LenProperties DEF FromAgents
<1>2. Nothing \in V
  BY DEF Honest
<1>3. ASSUME NEW inner \in V PROVE Deeper(inner) \in V
  <2>1. \A id \in ids : /\ id \in Ids
                        /\ Value(g, inner, id) = <<>> \/ Value(g, inner, id) = Expected(id)
    BY HonestValue, NodeFound
  <2> QED BY <2>1 DEF Honest
<1>4. step \in [1..n -> [V -> V]]
  BY <1>3
<1>5. PICK h \in [0..n -> V] : Recurs(h, Nothing, n, step)
  <2> HIDE DEF V, n, step, Nothing
  <2> QED BY <1>1, <1>2, <1>4, Recursion
<1>6. ASSUME NEW d \in 0..n PROVE h[d] = Level(h, d)
  <2>1. CASE d = 0
    BY <1>5, <2>1 DEF Recurs
  <2>2. CASE d # 0
    <3>1. d \in 1..n /\ h[d - 1] \in V
      BY <1>1, <2>2
    <3>2. h[d] = step[d][h[d - 1]]
      BY <1>5, <3>1 DEF Recurs
    <3> QED BY <2>2, <3>1, <3>2
  <2> QED BY <2>1, <2>2
<1>7. h = [d \in 0..n |-> Level(h, d)]
  <2> HIDE DEF Level, V
  <2> QED BY <1>6
<1>8. value = [d \in 0..n |-> Level(value, d)]
  <2> HIDE DEF Level, n
  <2> QED BY <1>7
<1>9. Compute(g, "result") = IF "result" \in ids THEN value[n]["result"] ELSE <<>>
  BY DEF Compute, IdsOf
<1> HIDE DEF value
<1>10. GoAlike(h, value, n)
  <2>1. h[0] = value[0]
    <3>1. 0 \in 0..n
      BY <1>1
    <3> QED BY <1>6, <1>8, <3>1
  <2>2. ASSUME NEW d \in 1..n, h[d - 1] = value[d - 1] PROVE h[d] = value[d]
    <3>1. d \in 0..n
      OBVIOUS
    <3> QED BY <1>6, <1>8, <2>2, <3>1
  <2> QED BY <2>1, <2>2 DEF GoAlike
<1>11. h[n] = value[n]
  <2> HIDE DEF n
  <2> QED BY <1>1, <1>10, SameRecursion
<1>12. value[n] \in V
  BY <1>1, <1>11
<1>13. "result" \in ids => value[n]["result"] = <<>> \/ value[n]["result"] = Expected("result")
  BY <1>12 DEF Honest
<1> QED BY <1>9, <1>13 DEF Expected

\* Only agent B writes edges, and once.
IsolatedInv ==
  /\ FileInv(AgentNodes, AgentEdges)
  /\ running.role \in {"agent_a", "agent_b", "executor"}
  /\ saved.edges \in {<<>>, EdgesOfB} /\ memory.edges \in {<<>>, EdgesOfB}
  /\ running.role = "agent_a" => saved.edges = <<>> /\ memory.edges = <<>>
  /\ running.role = "agent_b" /\ pc \in {"load", "work"} => saved.edges = <<>>
  /\ result \in {<<>>, <<Difference>>}

IsolatedStep == (SharedNext /\ UNCHANGED result) \/ IsolatedNext

LEMMA IsolatedSteps ==
  ASSUME IsolatedInv, IsolatedStep \/ UNCHANGED <<sharedVars, result>>
  PROVE  IsolatedInv' /\ Keeps
<1>1. CASE SharedNext /\ UNCHANGED result
  <2>1. FileInv(AgentNodes, AgentEdges)' /\ Keeps
    BY <1>1, FileSteps, FileAssumption, AgentsAssumption DEF IsolatedInv
  <2>2. UNCHANGED <<running, result>>
    BY <1>1 DEF SharedNext, Load, OpenForWriting, Write, Dies
  <2>3. /\ saved' = saved \/ (pc = "write" /\ pc' = "exit" /\ saved' = memory)
        /\ memory' \in {memory, saved, EmptyGraph}
        /\ pc' \in {"load", "work"} => pc = "load" /\ saved' = saved
    BY <1>1 DEF SharedNext, Load, OpenForWriting, Write, Dies, IsolatedInv, FileInv
  <2> QED BY <2>1, <2>2, <2>3 DEF IsolatedInv, EmptyGraph
<1>2. CASE AgentA
  <2>1. /\ FileInv(AgentNodes, AgentEdges)' /\ Keeps
        /\ memory' = [nodes |-> saved.nodes \o NodesOfA, edges |-> saved.edges \o <<>>]
        /\ pc' = "save" /\ UNCHANGED <<running, saved>>
    BY <1>2, FileContributes, AgentsAddLists DEF AgentA, IsolatedInv
  <2>2. memory'.edges = <<>>
    <3>1. saved.edges = <<>>
      BY <1>2 DEF AgentA, IsolatedInv
    <3> QED BY <2>1, <3>1, AgentsAddLists, ConcatEmptySeq
  <2>3. running.role = "agent_a" /\ UNCHANGED result
    BY <1>2 DEF AgentA
  <2> QED BY <2>1, <2>2, <2>3 DEF IsolatedInv
<1>3. CASE AgentB
  <2>1. /\ FileInv(AgentNodes, AgentEdges)' /\ Keeps
        /\ memory' = [nodes |-> saved.nodes \o NodesOfB, edges |-> saved.edges \o EdgesOfB]
        /\ pc' = "save" /\ UNCHANGED <<running, saved>>
    BY <1>3, FileContributes, AgentsAddLists DEF AgentB, IsolatedInv
  <2>2. memory'.edges = EdgesOfB
    <3>1. saved.edges = <<>>
      BY <1>3 DEF AgentB, IsolatedInv
    <3> QED BY <2>1, <3>1, AgentsAddLists, ConcatEmptySeq
  <2>3. running.role = "agent_b" /\ UNCHANGED result
    BY <1>3 DEF AgentB
  <2> QED BY <2>1, <2>2, <2>3 DEF IsolatedInv
<1>4. CASE ExecutorProcess
  <2>1. FileInv(AgentNodes, AgentEdges)' /\ Keeps
    BY <1>4, FileContinues DEF ExecutorProcess, IsolatedInv
  <2>2. FromAgents(memory)
    BY DEF IsolatedInv, FileInv, Graph, FromAgents
  <2>3. result' \in {<<>>, <<Difference>>}
    BY <1>4, <2>2, ComputeHonest DEF ExecutorProcess
  <2>4. running.role = "executor" /\ UNCHANGED <<running, memory, saved>>
    BY <1>4 DEF ExecutorProcess
  <2> QED BY <2>1, <2>3, <2>4 DEF IsolatedInv
<1>5. CASE IsolatedContinues
  <2>1. UNCHANGED <<saved, result>>
    BY <1>5 DEF IsolatedContinues, Runs, Finishes, IsolatedInv
  <2>2. \/ \E process : Runs(process)
        \/ \E how : Finishes(how)
    BY <1>5 DEF IsolatedContinues, IsolatedInv
  <2>3. FileInv(AgentNodes, AgentEdges)' /\ Keeps
    BY <2>2, FileContinues DEF IsolatedInv
  <2>4. CASE \E how : Finishes(how)
    BY <2>1, <2>3, <2>4 DEF Finishes, IsolatedInv
  <2>5. CASE Runs(Process("agent_b", 0)) /\ running.role = "agent_a"
    BY <2>1, <2>3, <2>5 DEF Runs, Process, IsolatedInv, EmptyGraph
  <2>6. CASE Runs(Process("executor", 0))
    BY <2>1, <2>3, <2>6 DEF Runs, Process, IsolatedInv, EmptyGraph
  <2> QED BY <1>5, <2>4, <2>5, <2>6 DEF IsolatedContinues, IsolatedInv
<1>6. CASE UNCHANGED <<sharedVars, result>>
  <2>1. FileInv(AgentNodes, AgentEdges)' /\ Keeps
    BY <1>6, FileContinues DEF IsolatedInv, sharedVars
  <2> QED BY <1>6, <2>1 DEF IsolatedInv, sharedVars
<1> QED BY <1>1, <1>2, <1>3, <1>4, <1>5, <1>6 DEF IsolatedStep, IsolatedNext

LEMMA IsolatedBegins == IsolatedInit => IsolatedInv
<1> SUFFICES ASSUME IsolatedInit PROVE IsolatedInv
  OBVIOUS
<1>1. FileInv(AgentNodes, AgentEdges)
  BY FileBegins DEF IsolatedInit
<1> QED BY <1>1 DEF IsolatedInit, SharedInit, IsolatedInv, Process, EmptyGraph

\* The executor prints the result of all the figures or none, whatever they are
\* and whichever process dies.
THEOREM IsolatedResult == IsolatedSpec => []ResultNeedsEveryAgent
<1>1. IsolatedInv /\ [IsolatedStep]_<<sharedVars, result>> => IsolatedInv'
  BY IsolatedSteps
<1>2. IsolatedInv => ResultNeedsEveryAgent
  BY DEF IsolatedInv, ResultNeedsEveryAgent, Difference, Product
<1> QED BY <1>1, <1>2, IsolatedBegins, PTL DEF IsolatedSpec, IsolatedStep

\* What an agent has saved stays in the file.
THEOREM IsolatedKeeps == IsolatedSpec => ContributionsKept
<1>1. IsolatedInv /\ [IsolatedStep]_<<sharedVars, result>> => IsolatedInv'
  BY IsolatedSteps
<1>2. IsolatedInv /\ [IsolatedStep]_<<sharedVars, result>>
        => [IsPrefix(saved.nodes, saved'.nodes) /\ IsPrefix(saved.edges, saved'.edges)]_saved
  BY IsolatedSteps DEF Keeps, Extended
<1> QED BY <1>1, <1>2, IsolatedBegins, PTL DEF IsolatedSpec, IsolatedStep, ContributionsKept

-----------------------------------------------------------------------------
(* Totals, the order of demands, allocations.                              *)

TotalBy(f, s) ==
  /\ Total(s) = f[Len(s)]
  /\ f[0] = 0
  /\ \A i \in 1..Len(s) : f[i] = f[i - 1] + s[i].quantity

LEMMA TotalRecursion ==
  ASSUME NEW s \in Seq(TradeNode)
  PROVE  \E f \in [0..Len(s) -> Int] : TotalBy(f, s)
<1> DEFINE Upto(g, i) == IF i = 0 THEN 0 ELSE g[i - 1] + s[i].quantity
           f == CHOOSE g : g = [i \in 0..Len(s) |-> Upto(g, i)]
           step == [i \in 1..Len(s) |-> [t \in Int |-> t + s[i].quantity]]
<1>1. Len(s) \in Nat /\ 0 \in Int /\ \A i \in 1..Len(s) : s[i].quantity \in Int
  <2>1. \A i \in 1..Len(s) : s[i] \in TradeNode
    BY ElementOfSeq
  <2> QED BY <2>1, LenProperties DEF TradeNode
<1>2. step \in [1..Len(s) -> [Int -> Int]]
  BY <1>1
<1>3. PICK h \in [0..Len(s) -> Int] : Recurs(h, 0, Len(s), step)
  <2> HIDE DEF step
  <2> QED BY <1>1, <1>2, Recursion
<1>4. ASSUME NEW i \in 0..Len(s) PROVE h[i] = Upto(h, i)
  <2>1. CASE i = 0
    BY <1>3, <2>1 DEF Recurs
  <2>2. CASE i # 0
    <3>1. i \in 1..Len(s) /\ h[i - 1] \in Int
      BY <1>1, <2>2
    <3>2. h[i] = step[i][h[i - 1]]
      BY <1>3, <3>1 DEF Recurs
    <3> QED BY <2>2, <3>1, <3>2
  <2> QED BY <2>1, <2>2
<1>5. h = [i \in 0..Len(s) |-> Upto(h, i)]
  <2> HIDE DEF Upto
  <2> QED BY <1>4
<1>6. f = [i \in 0..Len(s) |-> Upto(f, i)]
  <2> HIDE DEF Upto
  <2> QED BY <1>5
<1>7. Total(s) = f[Len(s)]
  BY DEF Total
<1> HIDE DEF f
<1>8. GoAlike(h, f, Len(s))
  <2>1. \A i \in 0..Len(s) : f[i] = Upto(f, i)
    <3> HIDE DEF Upto
    <3> QED BY <1>6
  <2> QED BY <1>1, <1>4, <2>1 DEF GoAlike
<1>9. h[Len(s)] = f[Len(s)]
  BY <1>1, <1>8, SameRecursion
<1>10. \A i \in 1..Len(s) : h[i] = h[i - 1] + s[i].quantity
  BY <1>1, <1>4
<1>11. h[0] = 0
  BY <1>1, <1>4
<1>12. TotalBy(h, s)
  BY <1>7, <1>9, <1>10, <1>11 DEF TotalBy
<1> QED BY <1>12

LEMMA TotalEmpty == Total(<<>>) = 0
<1>1. <<>> \in Seq(TradeNode) /\ Len(<<>>) = 0
  BY EmptySeq
<1>2. PICK f \in [0..Len(<<>>) -> Int] : TotalBy(f, <<>>)
  BY <1>1, TotalRecursion
<1> QED BY <1>1, <1>2 DEF TotalBy

LEMMA TotalAppend ==
  ASSUME NEW s \in Seq(TradeNode), NEW n \in TradeNode
  PROVE  Total(s) \in Int /\ Total(Append(s, n)) = Total(s) + n.quantity
<1> DEFINE t == Append(s, n)
<1>1. /\ t \in Seq(TradeNode) /\ Len(t) = Len(s) + 1 /\ t[Len(s) + 1] = n /\ Len(s) \in Nat
      /\ \A i \in 1..Len(s) : t[i] = s[i]
  BY AppendProperties, LenProperties
<1>2. PICK f \in [0..Len(s) -> Int] : TotalBy(f, s)
  BY TotalRecursion
<1> HIDE DEF t
<1>3. PICK g \in [0..Len(t) -> Int] : TotalBy(g, t)
  BY <1>1, TotalRecursion
<1>4. GoAlike(f, g, Len(s))
  <2>1. ASSUME NEW i \in 1..Len(s), f[i - 1] = g[i - 1] PROVE f[i] = g[i]
    <3>1. i \in 1..Len(t) /\ t[i] = s[i]
      BY <1>1
    <3> QED BY <1>2, <1>3, <2>1, <3>1 DEF TotalBy
  <2> QED BY <1>2, <1>3, <2>1 DEF TotalBy, GoAlike
<1>5. f[Len(s)] = g[Len(s)]
  BY <1>1, <1>4, SameRecursion
<1>6. g[Len(s) + 1] = g[Len(s)] + n.quantity
  <2>1. Len(s) + 1 \in 1..Len(t) /\ (Len(s) + 1) - 1 = Len(s)
    BY <1>1
  <2> QED BY <1>1, <1>3, <2>1 DEF TotalBy
<1>7. Total(s) = f[Len(s)] /\ Total(t) = g[Len(s) + 1]
  BY <1>1, <1>2, <1>3 DEF TotalBy
<1>8. f[Len(s)] \in Int
  BY <1>1, <1>2
<1> QED BY <1>5, <1>6, <1>7, <1>8 DEF t

LEMMA TotalIsInt ==
  ASSUME NEW s \in Seq(TradeNode)
  PROVE  Total(s) \in Int
<1>1. PICK f \in [0..Len(s) -> Int] : TotalBy(f, s)
  BY TotalRecursion
<1>2. Len(s) \in 0..Len(s)
  BY LenProperties
<1> QED BY <1>1, <1>2 DEF TotalBy

-----------------------------------------------------------------------------
(* The order of the demands.                                               *)

\* Where the next one goes: behind all that pay as much.
Placed(before, d) ==
  LET dearer == {e \in ToSet(before) : e.price >= d.price}
  IN  Kept(before, dearer) \o <<d>> \o Kept(before, ToSet(before) \ dearer)

SortedBy(f, s) ==
  /\ ByFallingPrice(s) = f[Len(s)]
  /\ f[0] = <<>>
  /\ \A i \in 1..Len(s) : f[i] = Placed(f[i - 1], s[i])

LEMMA PlacedType ==
  ASSUME NEW s \in Seq(TradeNode), NEW d \in TradeNode
  PROVE  Placed(s, d) \in Seq(TradeNode)
<1>1. ASSUME NEW S PROVE Kept(s, S) \in Seq(TradeNode)
  BY KeptElements
<1>2. <<d>> \in Seq(TradeNode)
  OBVIOUS
<1> QED BY <1>1, <1>2, ElementsOfConcat DEF Placed

LEMMA SortedRecursion ==
  ASSUME NEW s \in Seq(TradeNode)
  PROVE  \E f \in [0..Len(s) -> Seq(TradeNode)] : SortedBy(f, s)
<1> DEFINE Upto(g, i) ==
             IF i = 0 THEN <<>>
             ELSE LET before == g[i - 1]
                      dearer == {d \in ToSet(before) : d.price >= s[i].price}
                  IN  Kept(before, dearer) \o <<s[i]>> \o Kept(before, ToSet(before) \ dearer)
           f == CHOOSE g : g = [i \in 0..Len(s) |-> Upto(g, i)]
           step == [i \in 1..Len(s) |-> [t \in Seq(TradeNode) |-> Placed(t, s[i])]]
<1>1. Len(s) \in Nat /\ <<>> \in Seq(TradeNode) /\ \A i \in 1..Len(s) : s[i] \in TradeNode
  BY LenProperties, ElementOfSeq, EmptySeq
<1>2. step \in [1..Len(s) -> [Seq(TradeNode) -> Seq(TradeNode)]]
  BY <1>1, PlacedType
<1>3. PICK h \in [0..Len(s) -> Seq(TradeNode)] : Recurs(h, <<>>, Len(s), step)
  <2> HIDE DEF step
  <2> QED BY <1>1, <1>2, Recursion
<1>0. ASSUME NEW g, NEW i PROVE Upto(g, i) = IF i = 0 THEN <<>> ELSE Placed(g[i - 1], s[i])
  BY DEF Placed
<1>7. ByFallingPrice(s) = f[Len(s)]
  BY DEF ByFallingPrice
<1> HIDE DEF Upto
<1>4. ASSUME NEW i \in 0..Len(s) PROVE h[i] = Upto(h, i)
  <2>1. CASE i = 0
    BY <1>0, <1>3, <2>1 DEF Recurs
  <2>2. CASE i # 0
    <3>1. i \in 1..Len(s) /\ h[i - 1] \in Seq(TradeNode)
      BY <1>1, <2>2
    <3>2. h[i] = step[i][h[i - 1]]
      BY <1>3, <3>1 DEF Recurs
    <3> QED BY <1>0, <2>2, <3>1, <3>2
  <2> QED BY <2>1, <2>2
<1>5. h = [i \in 0..Len(s) |-> Upto(h, i)]
  BY <1>4
<1>6. f = [i \in 0..Len(s) |-> Upto(f, i)]
  BY <1>5
<1> HIDE DEF f
<1>8. GoAlike(h, f, Len(s))
  <2>1. \A i \in 0..Len(s) : f[i] = Upto(f, i)
    BY <1>6
  <2>2. ASSUME NEW i \in 1..Len(s), h[i - 1] = f[i - 1] PROVE h[i] = f[i]
    BY <1>0, <1>4, <2>1, <2>2
  <2>3. h[0] = f[0]
    BY <1>0, <1>1, <1>4, <2>1
  <2> QED BY <2>2, <2>3 DEF GoAlike
<1>9. h[Len(s)] = f[Len(s)]
  BY <1>1, <1>8, SameRecursion
<1>10. h[0] = <<>> /\ \A i \in 1..Len(s) : h[i] = Placed(h[i - 1], s[i])
  BY <1>0, <1>1, <1>4
<1>11. SortedBy(h, s)
  BY <1>7, <1>9, <1>10 DEF SortedBy
<1> QED BY <1>11

LEMMA PlacedFirst ==
  ASSUME NEW d
  PROVE  Placed(<<>>, d) = <<d>>
<1>1. <<d>> \in Seq({d}) /\ <<>> \in Seq({d})
  OBVIOUS
<1> QED BY <1>1, KeptEmpty, ConcatEmptySeq DEF Placed

LEMMA TwoLists ==
  ASSUME NEW d, NEW e
  PROVE  <<d>> \o <<e>> = <<d, e>>
<1>1. <<d>> \in Seq({d, e}) /\ e \in {d, e}
  OBVIOUS
<1>2. Append(<<d>>, e) = <<d>> \o <<e>>
  BY <1>1, AppendIsConcat
<1> QED BY <1>2, ShortLists

LEMMA PlacedSecond ==
  ASSUME NEW d, NEW e
  PROVE  Placed(<<d>>, e) = IF d.price >= e.price THEN <<d, e>> ELSE <<e, d>>
<1>1. <<d>> \in Seq({d, e}) /\ <<e>> \in Seq({d, e}) /\ <<>> \in Seq({d, e})
  OBVIOUS
<1>2. <<d>> \o <<e>> = <<d, e>> /\ <<e>> \o <<d>> = <<e, d>>
  BY TwoLists
<1>3. <<d, e>> \in Seq({d, e})
  OBVIOUS
<1>4. ToSet(<<d>>) = {d}
  BY DEF ToSet
<1>5. CASE d.price >= e.price
  <2> DEFINE dearer == {x \in ToSet(<<d>>) : x.price >= e.price}
             rest == ToSet(<<d>>) \ dearer
  <2>1. d \in dearer /\ d \notin rest
    BY <1>4, <1>5
  <2> HIDE DEF dearer, rest
  <2>2. Kept(<<d>>, dearer) = <<d>> /\ Kept(<<d>>, rest) = <<>>
    BY <2>1, KeptShort
  <2>3. Placed(<<d>>, e) = <<d>> \o <<e>> \o <<>>
    BY <2>2 DEF Placed, dearer, rest
  <2> QED BY <1>2, <1>3, <1>5, <2>3, ConcatEmptySeq
<1>6. CASE ~(d.price >= e.price)
  <2> DEFINE dearer == {x \in ToSet(<<d>>) : x.price >= e.price}
             rest == ToSet(<<d>>) \ dearer
  <2>1. d \notin dearer /\ d \in rest
    BY <1>4, <1>6
  <2> HIDE DEF dearer, rest
  <2>2. Kept(<<d>>, dearer) = <<>> /\ Kept(<<d>>, rest) = <<d>>
    BY <2>1, KeptShort
  <2>3. Placed(<<d>>, e) = <<>> \o <<e>> \o <<d>>
    BY <2>2 DEF Placed, dearer, rest
  <2>4. <<>> \o <<e>> = <<e>>
    BY <1>1, ConcatEmptySeq
  <2> QED BY <1>2, <1>6, <2>3, <2>4
<1> QED BY <1>5, <1>6

LEMMA SortedShort ==
  ASSUME NEW d \in TradeNode, NEW e \in TradeNode
  PROVE  /\ ByFallingPrice(<<d>>) = <<d>>
         /\ ByFallingPrice(<<d, e>>) = IF d.price >= e.price THEN <<d, e>> ELSE <<e, d>>
<1>1. ByFallingPrice(<<d>>) = <<d>>
  <2> DEFINE s == <<d>>
  <2>1. s \in Seq(TradeNode) /\ Len(s) = 1 /\ s[1] = d
    OBVIOUS
  <2> HIDE DEF s
  <2>2. PICK f \in [0..Len(s) -> Seq(TradeNode)] : SortedBy(f, s)
    BY <2>1, SortedRecursion
  <2>3. ByFallingPrice(s) = f[1] /\ f[1] = Placed(f[0], d) /\ f[0] = <<>>
    BY <2>1, <2>2 DEF SortedBy
  <2> QED BY <2>3, PlacedFirst DEF s
<1>2. ByFallingPrice(<<d, e>>) = IF d.price >= e.price THEN <<d, e>> ELSE <<e, d>>
  <2> DEFINE s == <<d, e>>
  <2>1. s \in Seq(TradeNode) /\ Len(s) = 2 /\ s[1] = d /\ s[2] = e
    OBVIOUS
  <2> HIDE DEF s
  <2>2. PICK f \in [0..Len(s) -> Seq(TradeNode)] : SortedBy(f, s)
    BY <2>1, SortedRecursion
  <2>3. /\ ByFallingPrice(s) = f[2] /\ f[2] = Placed(f[1], e)
        /\ f[1] = Placed(f[0], d) /\ f[0] = <<>>
    BY <2>1, <2>2 DEF SortedBy
  <2> QED BY <2>3, PlacedFirst, PlacedSecond DEF s
<1> QED BY <1>1, <1>2

-----------------------------------------------------------------------------
(* Allocation.                                                             *)

\* What one more demand gets.
Granted(supplies, done, d) ==
  LET left == Total(supplies) - Total(done)
  IN  IF left <= 0 \/ d.price < supplies[1].price THEN done
      ELSE Append(done, Node("allocation", d.who, Least(d.quantity, left), supplies[1].price, 0))

AllocatedBy(f, supplies, s) ==
  /\ Allocate(supplies, s) = f[Len(s)]
  /\ f[0] = <<>>
  /\ \A i \in 1..Len(s) : f[i] = Granted(supplies, f[i - 1], s[i])

LEMMA GrantedType ==
  ASSUME NEW supplies \in Seq(TradeNode), supplies # <<>>,
         NEW done \in Seq(TradeNode), NEW d \in TradeNode
  PROVE  Granted(supplies, done, d) \in Seq(TradeNode)
<1>1. Total(supplies) \in Int /\ Total(done) \in Int
  BY TotalIsInt
<1>2. supplies[1] \in TradeNode
  BY EmptySeq, ElementOfSeq
<1>3. ASSUME NEW left \in Int
      PROVE  Node("allocation", d.who, Least(d.quantity, left), supplies[1].price, 0) \in TradeNode
  BY <1>2 DEF Node, TradeNode, Least
<1> QED BY <1>1, <1>3, AppendProperties DEF Granted

LEMMA AllocatedRecursion ==
  ASSUME NEW supplies \in Seq(TradeNode), supplies # <<>>, NEW s \in Seq(TradeNode)
  PROVE  \E f \in [0..Len(s) -> Seq(TradeNode)] : AllocatedBy(f, supplies, s)
<1> DEFINE Upto(g, i) ==
             IF i = 0 THEN <<>>
             ELSE LET d == s[i]
                      left == Total(supplies) - Total(g[i - 1])
                  IN  IF left <= 0 \/ d.price < supplies[1].price THEN g[i - 1]
                      ELSE Append(g[i - 1], Node("allocation", d.who, Least(d.quantity, left),
                                                 supplies[1].price, 0))
           f == CHOOSE g : g = [i \in 0..Len(s) |-> Upto(g, i)]
           step == [i \in 1..Len(s) |-> [t \in Seq(TradeNode) |-> Granted(supplies, t, s[i])]]
<1>1. Len(s) \in Nat /\ <<>> \in Seq(TradeNode) /\ \A i \in 1..Len(s) : s[i] \in TradeNode
  BY LenProperties, ElementOfSeq, EmptySeq
<1>2. step \in [1..Len(s) -> [Seq(TradeNode) -> Seq(TradeNode)]]
  BY <1>1, GrantedType
<1>3. PICK h \in [0..Len(s) -> Seq(TradeNode)] : Recurs(h, <<>>, Len(s), step)
  <2> HIDE DEF step
  <2> QED BY <1>1, <1>2, Recursion
<1>4. ASSUME NEW g, NEW i
      PROVE  Upto(g, i) = IF i = 0 THEN <<>> ELSE Granted(supplies, g[i - 1], s[i])
  BY DEF Granted
<1>5. Allocate(supplies, s) = f[Len(s)]
  BY DEF Allocate
<1> HIDE DEF Upto
<1>6. ASSUME NEW i \in 0..Len(s) PROVE h[i] = Upto(h, i)
  <2>1. CASE i = 0
    BY <1>3, <1>4, <2>1 DEF Recurs
  <2>2. CASE i # 0
    <3>1. i \in 1..Len(s) /\ h[i - 1] \in Seq(TradeNode)
      BY <1>1, <2>2
    <3>2. h[i] = step[i][h[i - 1]]
      BY <1>3, <3>1 DEF Recurs
    <3> QED BY <1>4, <2>2, <3>1, <3>2
  <2> QED BY <2>1, <2>2
<1>7. h = [i \in 0..Len(s) |-> Upto(h, i)]
  BY <1>6
<1>8. f = [i \in 0..Len(s) |-> Upto(f, i)]
  BY <1>7
<1> HIDE DEF f
<1>9. GoAlike(h, f, Len(s))
  <2>1. \A i \in 0..Len(s) : f[i] = Upto(f, i)
    BY <1>8
  <2>2. ASSUME NEW i \in 1..Len(s), h[i - 1] = f[i - 1] PROVE h[i] = f[i]
    BY <1>4, <1>6, <2>1, <2>2
  <2>3. h[0] = f[0]
    BY <1>1, <1>4, <1>6, <2>1
  <2> QED BY <2>2, <2>3 DEF GoAlike
<1>10. h[Len(s)] = f[Len(s)]
  BY <1>1, <1>9, SameRecursion
<1>11. h[0] = <<>> /\ \A i \in 1..Len(s) : h[i] = Granted(supplies, h[i - 1], s[i])
  BY <1>1, <1>4, <1>6
<1>12. AllocatedBy(h, supplies, s)
  BY <1>5, <1>10, <1>11 DEF AllocatedBy
<1> QED BY <1>12

LEMMA AllocatedShort ==
  ASSUME NEW supplies \in Seq(TradeNode), supplies # <<>>,
         NEW d \in TradeNode, NEW e \in TradeNode
  PROVE  /\ Allocate(supplies, <<d>>) = Granted(supplies, <<>>, d)
         /\ Allocate(supplies, <<d, e>>) = Granted(supplies, Granted(supplies, <<>>, d), e)
<1>1. Allocate(supplies, <<d>>) = Granted(supplies, <<>>, d)
  <2> DEFINE s == <<d>>
  <2>1. s \in Seq(TradeNode) /\ Len(s) = 1 /\ s[1] = d
    OBVIOUS
  <2> HIDE DEF s
  <2>2. PICK f \in [0..Len(s) -> Seq(TradeNode)] : AllocatedBy(f, supplies, s)
    BY <2>1, AllocatedRecursion
  <2>3. Allocate(supplies, s) = f[1] /\ f[1] = Granted(supplies, f[0], d) /\ f[0] = <<>>
    BY <2>1, <2>2 DEF AllocatedBy
  <2> QED BY <2>3 DEF s
<1>2. Allocate(supplies, <<d, e>>) = Granted(supplies, Granted(supplies, <<>>, d), e)
  <2> DEFINE s == <<d, e>>
  <2>1. s \in Seq(TradeNode) /\ Len(s) = 2 /\ s[1] = d /\ s[2] = e
    OBVIOUS
  <2> HIDE DEF s
  <2>2. PICK f \in [0..Len(s) -> Seq(TradeNode)] : AllocatedBy(f, supplies, s)
    BY <2>1, AllocatedRecursion
  <2>3. /\ Allocate(supplies, s) = f[2] /\ f[2] = Granted(supplies, f[1], e)
        /\ f[1] = Granted(supplies, f[0], d) /\ f[0] = <<>>
    BY <2>1, <2>2 DEF AllocatedBy
  <2> QED BY <2>3 DEF s
<1> QED BY <1>1, <1>2

Demand(b) == Node("demand", b, market.demand[b], market.max_price[b], 0)

\* What AllocationsSound says of the allocations to those who have posted a demand.
Fair(given, posted) ==
  /\ given \in Seq(TradeNode)
  /\ \A i \in 1..Len(given) :
       /\ given[i].node_type = "allocation" /\ given[i].who \in Buyers
       /\ given[i].quantity \in 1..market.demand[given[i].who]
       /\ given[i].price \in market.min_price..market.max_price[given[i].who]
       /\ \A b \in posted :
            market.max_price[b] > market.max_price[given[i].who] =>
              \E j \in 1..Len(given) : /\ given[j].who = b
                                       /\ given[j].quantity = market.demand[b]
  /\ Total(given) <= market.supply

LEMMA PostedNodes ==
  ASSUME market \in Markets
  PROVE  /\ SupplyNode \in TradeNode
         /\ \A b \in Buyers : Demand(b) \in TradeNode
         /\ market.supply \in Nat /\ market.min_price \in Nat
         /\ \A b \in Buyers : market.demand[b] \in Nat \ {0} /\ market.max_price[b] \in Nat
BY MarketsAssumption DEF SupplyNode, Demand, Node, TradeNode

LEMMA SupplyTotal ==
  ASSUME market \in Markets
  PROVE  /\ <<SupplyNode>> \in Seq(TradeNode) /\ <<SupplyNode>> # <<>>
         /\ Total(<<SupplyNode>>) = market.supply
         /\ <<SupplyNode>>[1].price = market.min_price
<1>1. SupplyNode \in TradeNode /\ market.supply \in Int
  BY PostedNodes
<1>2. <<>> \in Seq(TradeNode) /\ Append(<<>>, SupplyNode) = <<SupplyNode>>
  BY EmptySeq, ShortLists
<1>3. Total(<<SupplyNode>>) = 0 + SupplyNode.quantity
  BY <1>1, <1>2, TotalAppend, TotalEmpty
<1> QED BY <1>1, <1>3 DEF SupplyNode, Node

LEMMA FairBegins ==
  ASSUME market \in Markets, NEW posted
  PROVE  Fair(<<>>, posted)
BY TotalEmpty, EmptySeq, PostedNodes DEF Fair

\* The first, who pays the most, and the second, if there is one.
LEMMA FairFirst ==
  ASSUME market \in Markets, NEW b \in Buyers
  PROVE  LET g == Granted(<<SupplyNode>>, <<>>, Demand(b))
         IN  /\ Fair(g, {b})
             /\ \/ g = <<>> /\ (market.supply <= 0 \/ market.max_price[b] < market.min_price)
                \/ /\ Len(g) = 1 /\ g[1].who = b /\ Total(g) = g[1].quantity
                   /\ g[1].quantity = Least(market.demand[b], market.supply)
<1> DEFINE n == Node("allocation", b, Least(market.demand[b], market.supply), market.min_price, 0)
           g == Granted(<<SupplyNode>>, <<>>, Demand(b))
<1>1. g = IF market.supply <= 0 \/ market.max_price[b] < market.min_price THEN <<>> ELSE <<n>>
  <2>1. /\ Demand(b).price = market.max_price[b] /\ Demand(b).who = b
        /\ Demand(b).quantity = market.demand[b]
    BY DEF Demand, Node
  <2>2. Total(<<SupplyNode>>) - Total(<<>>) = market.supply
    BY SupplyTotal, TotalEmpty, PostedNodes
  <2> QED BY <2>1, <2>2, SupplyTotal, ShortLists DEF Granted
<1>2. CASE market.supply <= 0 \/ market.max_price[b] < market.min_price
  BY <1>1, <1>2, FairBegins
<1>3. CASE ~(market.supply <= 0 \/ market.max_price[b] < market.min_price)
  <2>1. /\ n \in TradeNode /\ n.quantity \in 1..market.demand[b] /\ n.quantity <= market.supply
        /\ n.who = b /\ n.price = market.min_price /\ n.node_type = "allocation"
        /\ n.quantity = Least(market.demand[b], market.supply)
        /\ market.min_price \in market.min_price..market.max_price[b]
    BY <1>3, PostedNodes DEF Node, TradeNode, Least
  <2> HIDE DEF n
  <2>2. Total(<<n>>) = n.quantity
    <3>1. <<>> \in Seq(TradeNode) /\ Append(<<>>, n) = <<n>> /\ n.quantity \in Int
      BY <2>1, EmptySeq, ShortLists DEF TradeNode
    <3>2. Total(Append(<<>>, n)) = Total(<<>>) + n.quantity
      BY <2>1, <3>1, TotalAppend
    <3> QED BY <3>1, <3>2, TotalEmpty
  <2>3. <<n>> \in Seq(TradeNode) /\ Len(<<n>>) = 1 /\ <<n>>[1] = n
    BY <2>1
  <2>4. \A i \in 1..Len(<<n>>) : <<n>>[i] = n
    BY <2>3
  <2>5. ~(market.max_price[b] > market.max_price[b])
    BY PostedNodes
  <2>6. Fair(<<n>>, {b})
    BY <2>1, <2>2, <2>3, <2>4, <2>5 DEF Fair
  <2> QED BY <1>1, <1>3, <2>1, <2>2, <2>3, <2>6
<1> QED BY <1>2, <1>3

LEMMA FairSecond ==
  ASSUME market \in Markets, NEW b \in Buyers, NEW c \in Buyers, b # c,
         market.max_price[b] >= market.max_price[c]
  PROVE  Fair(Granted(<<SupplyNode>>, Granted(<<SupplyNode>>, <<>>, Demand(b)), Demand(c)), {b, c})
<1> DEFINE g == Granted(<<SupplyNode>>, <<>>, Demand(b))
           left == market.supply - Total(g)
           n == Node("allocation", c, Least(market.demand[c], left), market.min_price, 0)
           h == Granted(<<SupplyNode>>, g, Demand(c))
<1>1. /\ Fair(g, {b}) /\ g \in Seq(TradeNode) /\ Total(g) \in Int /\ Total(g) <= market.supply
      /\ \/ g = <<>> /\ (market.supply <= 0 \/ market.max_price[b] < market.min_price)
         \/ /\ Len(g) = 1 /\ g[1].who = b /\ Total(g) = g[1].quantity
            /\ g[1].quantity = Least(market.demand[b], market.supply)
  BY FairFirst, TotalIsInt DEF Fair
<1>2. h = IF left <= 0 \/ market.max_price[c] < market.min_price THEN g ELSE Append(g, n)
  <2>1. /\ Demand(c).price = market.max_price[c] /\ Demand(c).who = c
        /\ Demand(c).quantity = market.demand[c]
    BY DEF Demand, Node
  <2> QED BY <2>1, SupplyTotal DEF Granted
<1>3. /\ market.supply \in Nat /\ market.min_price \in Nat
      /\ market.demand[b] \in Nat \ {0} /\ market.demand[c] \in Nat \ {0}
      /\ market.max_price[b] \in Nat /\ market.max_price[c] \in Nat
  BY PostedNodes
<1> HIDE DEF g
<1>4. CASE left <= 0 \/ market.max_price[c] < market.min_price
  <2>1. \A i \in 1..Len(g) : g[i].who = b
    <3>1. CASE g = <<>>
      BY <3>1, EmptySeq
    <3>2. CASE Len(g) = 1 /\ g[1].who = b
      BY <3>2
    <3> QED BY <1>1, <3>1, <3>2
  <2>2. ~(market.max_price[c] > market.max_price[b])
    BY <1>3
  <2>3. Fair(g, {b, c})
    BY <1>1, <2>1, <2>2 DEF Fair
  <2> QED BY <1>2, <1>4, <2>3 DEF g
<1>5. CASE ~(left <= 0 \/ market.max_price[c] < market.min_price)
  <2>1. left \in Int
    BY <1>1, <1>3
  <2>2. /\ n \in TradeNode /\ n.quantity \in 1..market.demand[c] /\ n.quantity <= left
        /\ n.who = c /\ n.price = market.min_price /\ n.node_type = "allocation"
        /\ n.quantity \in Int
        /\ market.min_price \in market.min_price..market.max_price[c]
    <3> HIDE DEF left
    <3> QED BY <1>3, <1>5, <2>1 DEF Node, TradeNode, Least
  <2>3. ~(g = <<>>)
    BY <1>1, <1>3, <1>5, TotalEmpty
  <2>4. /\ Len(g) = 1 /\ g[1].who = b /\ Total(g) = g[1].quantity
        /\ g[1].quantity = market.demand[b]
    BY <1>1, <1>3, <1>5, <2>3 DEF Least
  <2> HIDE DEF n
  <2>5. /\ h = Append(g, n) /\ h \in Seq(TradeNode) /\ Len(h) = 2 /\ h[1] = g[1] /\ h[2] = n
        /\ Total(h) = Total(g) + n.quantity
    <3>1. h = Append(g, n)
      BY <1>2, <1>5
    <3>2. /\ Append(g, n) \in Seq(TradeNode) /\ Len(Append(g, n)) = Len(g) + 1
          /\ \A i \in 1..Len(g) : Append(g, n)[i] = g[i]
          /\ Append(g, n)[Len(g) + 1] = n
      BY <1>1, <2>2, AppendProperties
    <3>3. Total(Append(g, n)) = Total(g) + n.quantity
      BY <1>1, <2>2, TotalAppend
    <3>4. 1 \in 1..Len(g) /\ Len(g) + 1 = 2
      BY <2>4
    <3>5. h[1] = g[1] /\ h[2] = n
      BY <3>1, <3>2, <3>4
    <3> QED BY <3>1, <3>2, <3>3, <3>4, <3>5
  <2> HIDE DEF h
  <2>6. Total(h) <= market.supply
    BY <1>1, <1>3, <2>2, <2>5
  <2>7. ASSUME NEW i \in 1..Len(h)
        PROVE  /\ h[i].node_type = "allocation" /\ h[i].who \in Buyers
               /\ h[i].quantity \in 1..market.demand[h[i].who]
               /\ h[i].price \in market.min_price..market.max_price[h[i].who]
               /\ \A d \in {b, c} :
                    market.max_price[d] > market.max_price[h[i].who] =>
                      \E j \in 1..Len(h) : h[j].who = d /\ h[j].quantity = market.demand[d]
    <3>1. 1 \in 1..Len(g) /\ 1 \in 1..Len(h) /\ (i = 1 \/ i = 2)
      BY <2>4, <2>5
    <3>2. /\ g[1].node_type = "allocation" /\ g[1].quantity \in 1..market.demand[b]
          /\ g[1].price \in market.min_price..market.max_price[b]
      BY <1>1, <2>4, <3>1 DEF Fair
    <3>3. \A d \in {b, c} : market.max_price[d] > market.max_price[h[i].who] => d = b
      BY <1>3, <2>2, <2>4, <2>5, <3>1
    <3>4. h[1].who = b /\ h[1].quantity = market.demand[b]
      BY <2>4, <2>5
    <3>5. /\ h[i].node_type = "allocation" /\ h[i].who \in Buyers
          /\ h[i].quantity \in 1..market.demand[h[i].who]
          /\ h[i].price \in market.min_price..market.max_price[h[i].who]
      BY <2>2, <2>4, <2>5, <3>1, <3>2
    <3> QED BY <3>1, <3>3, <3>4, <3>5
  <2>8. Fair(h, {b, c})
    BY <2>5, <2>6, <2>7 DEF Fair
  <2> QED BY <2>8 DEF h, g
<1> QED BY <1>4, <1>5

\* The demands that are posted, in the order in which the buyers run.
Posted(b, list) == list = <<>> \/ list = <<Demand(b)>>
Posters(list) == {b \in Buyers : Demand(b) \in ToSet(list)}

LEMMA PostersOf ==
  ASSUME NEW b \in Buyers, NEW c \in Buyers
  PROVE  /\ Posters(<<Demand(b)>>) = {b}
         /\ Posters(<<Demand(b), Demand(c)>>) = {b, c}
<1>1. \A x, y \in Buyers : Demand(x) = Demand(y) => x = y
  BY DEF Demand, Node
<1>2. ToSet(<<Demand(b)>>) = {Demand(b)} /\ ToSet(<<Demand(b), Demand(c)>>) = {Demand(b), Demand(c)}
  BY DEF ToSet
<1> QED BY <1>1, <1>2 DEF Posters

LEMMA FairOptimum ==
  ASSUME market \in Markets, NEW y, Posted(Head(Buyer), y), NEW z, Posted(Last(Buyer), z),
         y \o z # <<>>
  PROVE  Fair(OptimizeAllocation(<<SupplyNode>>, y \o z), Posters(y \o z))
<1> DEFINE b == Head(Buyer)
           c == Last(Buyer)
           S == <<SupplyNode>>
<1>1. b \in Buyers /\ c \in Buyers /\ b # c
  BY BuyerAssumption DEF Buyers, ToSet
<1>2. Demand(b) \in TradeNode /\ Demand(c) \in TradeNode
  BY <1>1, PostedNodes
<1>3. S \in Seq(TradeNode) /\ S # <<>>
  BY SupplyTotal
<1>4. \/ y \o z = <<Demand(b)>> \/ y \o z = <<Demand(c)>> \/ y \o z = <<Demand(b), Demand(c)>>
  <2>1. /\ <<Demand(b)>> \in Seq(TradeNode) /\ <<Demand(c)>> \in Seq(TradeNode)
        /\ <<>> \in Seq(TradeNode)
    BY <1>2
  <2>2. /\ <<>> \o <<Demand(c)>> = <<Demand(c)>> /\ <<Demand(b)>> \o <<>> = <<Demand(b)>>
        /\ <<>> \o <<>> = <<>>
    BY <2>1, ConcatEmptySeq
  <2> QED BY <2>2, TwoLists DEF Posted
<1> HIDE DEF b, c, S
<1>5. ASSUME NEW d \in Buyers, y \o z = <<Demand(d)>>
      PROVE  Fair(OptimizeAllocation(S, y \o z), Posters(y \o z))
  <2>1. OptimizeAllocation(S, <<Demand(d)>>) = Granted(S, <<>>, Demand(d))
    BY <1>3, PostedNodes, SortedShort, AllocatedShort DEF OptimizeAllocation
  <2> QED BY <1>5, <2>1, FairFirst, PostersOf DEF S
<1>6. CASE y \o z = <<Demand(b), Demand(c)>>
  <2>1. /\ Demand(b).price = market.max_price[b] /\ Demand(c).price = market.max_price[c]
        /\ market.max_price[b] \in Nat /\ market.max_price[c] \in Nat
    BY <1>1, PostedNodes DEF Demand, Node
  <2>2. CASE market.max_price[b] >= market.max_price[c]
    <3>1. OptimizeAllocation(S, <<Demand(b), Demand(c)>>)
            = Granted(S, Granted(S, <<>>, Demand(b)), Demand(c))
      BY <1>2, <1>3, <2>1, <2>2, SortedShort, AllocatedShort DEF OptimizeAllocation
    <3>2. Fair(Granted(S, Granted(S, <<>>, Demand(b)), Demand(c)), {b, c})
      BY <1>1, <2>2, FairSecond DEF S
    <3>3. Posters(y \o z) = {b, c}
      BY <1>1, <1>6, PostersOf
    <3> QED BY <1>6, <3>1, <3>2, <3>3 DEF S
  <2>3. CASE ~(market.max_price[b] >= market.max_price[c])
    <3>1. OptimizeAllocation(S, <<Demand(b), Demand(c)>>)
            = Granted(S, Granted(S, <<>>, Demand(c)), Demand(b))
      BY <1>2, <1>3, <2>1, <2>3, SortedShort, AllocatedShort DEF OptimizeAllocation
    <3>2. market.max_price[c] >= market.max_price[b]
      BY <2>1, <2>3
    <3>3. Fair(Granted(S, Granted(S, <<>>, Demand(c)), Demand(b)), {c, b})
      BY <1>1, <3>2, FairSecond DEF S
    <3>4. {c, b} = {b, c} /\ Posters(y \o z) = {b, c}
      BY <1>1, <1>6, PostersOf
    <3> QED BY <1>6, <3>1, <3>3, <3>4 DEF S
  <2> QED BY <2>2, <2>3
<1> QED BY <1>1, <1>4, <1>5, <1>6 DEF b, c, S

-----------------------------------------------------------------------------
(* Phase 1: what the file may hold.                                        *)

Supplied(list) == list = <<>> \/ list = <<SupplyNode>>
FirstPosts(list) == \E x, y : /\ Supplied(x) /\ Posted(Head(Buyer), y)
                              /\ list = x \o y
Offers(list) == \E x, y, z : /\ Supplied(x) /\ Posted(Head(Buyer), y) /\ Posted(Last(Buyer), z)
                             /\ list = (x \o y) \o z
Settled(list) == \E offers, given : /\ Offers(offers) /\ Fair(given, Posters(offers))
                                    /\ list = offers \o given

LEMMA OneNode ==
  ASSUME market \in Markets, NEW x, Supplied(x), NEW b \in Buyers, NEW y, Posted(b, y)
  PROVE  /\ x \in Seq(TradeNode) /\ y \in Seq(TradeNode)
         /\ \A n \in ToSet(x) : n = SupplyNode
         /\ \A n \in ToSet(y) : n = Demand(b)
<1>1. SupplyNode \in TradeNode /\ Demand(b) \in TradeNode
  BY PostedNodes
<1>2. /\ <<SupplyNode>> \in Seq(TradeNode) /\ <<Demand(b)>> \in Seq(TradeNode)
      /\ <<>> \in Seq(TradeNode)
  BY <1>1
<1>3. /\ ToSet(<<>>) = {} /\ ToSet(<<SupplyNode>>) = {SupplyNode}
      /\ ToSet(<<Demand(b)>>) = {Demand(b)}
  BY DEF ToSet
<1> QED BY <1>2, <1>3 DEF Supplied, Posted

TwoBuyers == /\ Head(Buyer) \in Buyers /\ Last(Buyer) \in Buyers /\ Head(Buyer) # Last(Buyer)
             /\ Buyers = {Head(Buyer), Last(Buyer)}
             /\ "seller" \notin Buyers /\ "optimizer" \notin Buyers

LEMMA BuyersAreTwo == TwoBuyers
<1>1. Buyers = {Head(Buyer), Last(Buyer)}
  BY BuyerAssumption DEF Buyers, ToSet
<1> QED BY <1>1, BuyerAssumption DEF TwoBuyers

\* What the optimizer and a reader find in such a file.
LEMMA OffersRead ==
  ASSUME market \in Markets, NEW x, Supplied(x),
         NEW y, Posted(Head(Buyer), y), NEW z, Posted(Last(Buyer), z)
  PROVE  LET s == (x \o y) \o z
         IN  /\ s \in Seq(TradeNode)
             /\ Get(s, "supply") = x /\ Get(s, "demand") = y \o z
             /\ Posters(s) = Posters(y \o z)
             /\ \A n \in ToSet(s) : n = SupplyNode \/ n \in {Demand(b) : b \in Buyers}
<1> DEFINE b == Head(Buyer)
           c == Last(Buyer)
           s == (x \o y) \o z
           Kind(k) == {n \in ToSet(s) : n.node_type = k}
<1>1. b \in Buyers /\ c \in Buyers
  BY BuyersAreTwo DEF TwoBuyers
<1>2. /\ x \in Seq(TradeNode) /\ y \in Seq(TradeNode) /\ z \in Seq(TradeNode)
      /\ \A n \in ToSet(x) : n = SupplyNode
      /\ \A n \in ToSet(y) : n = Demand(b)
      /\ \A n \in ToSet(z) : n = Demand(c)
  BY <1>1, OneNode
<1>3. /\ x \o y \in Seq(TradeNode) /\ ToSet(x \o y) = ToSet(x) \cup ToSet(y)
      /\ y \o z \in Seq(TradeNode) /\ ToSet(y \o z) = ToSet(y) \cup ToSet(z)
  BY <1>2, ElementsOfConcat
<1>4. s \in Seq(TradeNode) /\ ToSet(s) = ToSet(x) \cup ToSet(y) \cup ToSet(z)
  <2> DEFINE u == x \o y
  <2>1. u \in Seq(TradeNode) /\ ToSet(u) = ToSet(x) \cup ToSet(y) /\ s = u \o z
    BY <1>3
  <2> HIDE DEF u, s
  <2>2. u \o z \in Seq(TradeNode) /\ ToSet(u \o z) = ToSet(u) \cup ToSet(z)
    BY <1>2, <2>1, ElementsOfConcat
  <2> QED BY <2>1, <2>2
<1>5. ASSUME NEW S
      PROVE  Kept(s, S) = (Kept(x, S) \o Kept(y, S)) \o Kept(z, S)
  <2>1. x \in Seq(TradeNode) /\ y \in Seq(TradeNode) /\ z \in Seq(TradeNode)
    BY <1>2
  <2>2. KeptPartwise(x, y, z)
    BY <2>1, KeptConcats
  <2> QED BY <2>2 DEF KeptPartwise
<1> HIDE DEF s
<1>6. SupplyNode.node_type = "supply" /\ \A d : Demand(d).node_type = "demand"
  BY DEF SupplyNode, Demand, Node
<1>7. Get(s, "supply") = x
  <2> DEFINE S == Kind("supply")
  <2>1. ToSet(x) \subseteq S /\ ToSet(y) \cap S = {} /\ ToSet(z) \cap S = {}
    BY <1>2, <1>4, <1>6
  <2> HIDE DEF S
  <2>2. Kept(x, S) = x /\ Kept(y, S) = <<>> /\ Kept(z, S) = <<>>
    BY <1>2, <2>1, KeptAll, KeptNone
  <2>3. Kept(s, S) = x
    BY <1>2, <1>5, <2>2, ConcatEmptySeq
  <2> QED BY <2>3 DEF Get, S
<1>8. Get(s, "demand") = y \o z
  <2> DEFINE S == Kind("demand")
  <2>1. ToSet(x) \cap S = {} /\ ToSet(y) \subseteq S /\ ToSet(z) \subseteq S
    BY <1>2, <1>4, <1>6
  <2> HIDE DEF S
  <2>2. Kept(x, S) = <<>> /\ Kept(y, S) = y /\ Kept(z, S) = z
    BY <1>2, <2>1, KeptAll, KeptNone
  <2>3. Kept(s, S) = y \o z
    BY <1>2, <1>5, <2>2, ConcatEmptySeq
  <2> QED BY <2>3 DEF Get, S
<1>9. Posters(s) = Posters(y \o z)
  <2>1. \A d : Demand(d) \notin ToSet(x)
    BY <1>2, <1>6
  <2> QED BY <1>3, <1>4, <2>1 DEF Posters
<1>10. \A n \in ToSet(s) : n = SupplyNode \/ n \in {Demand(d) : d \in Buyers}
  BY <1>1, <1>2, <1>4
<1> QED BY <1>4, <1>7, <1>8, <1>9, <1>10 DEF s

LEMMA SettledSound ==
  ASSUME market \in Markets, NEW nodes, Settled(nodes)
  PROVE  nodes \in Seq(TradeNode) /\ AllocationsSound(nodes) /\ BidsSound(nodes)
<1>1. PICK offers, given : /\ Offers(offers) /\ Fair(given, Posters(offers))
                           /\ nodes = offers \o given
  BY DEF Settled
<1>2. /\ offers \in Seq(TradeNode)
      /\ \A n \in ToSet(offers) : n = SupplyNode \/ n \in {Demand(b) : b \in Buyers}
  BY <1>1, OffersRead DEF Offers
<1>3. given \in Seq(TradeNode) /\ \A n \in ToSet(given) : n.node_type = "allocation"
  BY <1>1, ElementsOf DEF Fair
<1>4. nodes \in Seq(TradeNode) /\ ToSet(nodes) = ToSet(offers) \cup ToSet(given)
  BY <1>1, <1>2, <1>3, ElementsOfConcat
<1>5. /\ SupplyNode.node_type = "supply"
      /\ \A b : Demand(b).node_type = "demand" /\ Demand(b).who = b
  BY DEF SupplyNode, Demand, Node
<1>6. Get(nodes, "allocation") = given
  <2> DEFINE S == {n \in ToSet(nodes) : n.node_type = "allocation"}
  <2>1. ToSet(offers) \cap S = {} /\ ToSet(given) \subseteq S
    BY <1>2, <1>3, <1>4, <1>5
  <2> HIDE DEF S
  <2>2. Kept(offers, S) = <<>> /\ Kept(given, S) = given
    BY <1>2, <1>3, <2>1, KeptAll, KeptNone
  <2>3. Kept(nodes, S) = Kept(offers, S) \o Kept(given, S)
    BY <1>1, <1>2, <1>3, KeptConcat
  <2>4. Kept(nodes, S) = given
    BY <1>3, <2>2, <2>3, ConcatEmptySeq
  <2> QED BY <2>4 DEF Get, S
<1>7. /\ DOMAIN nodes = 1..Len(nodes) /\ DOMAIN given = 1..Len(given)
      /\ \A i \in 1..Len(nodes) : nodes[i] \in ToSet(nodes)
  BY <1>3, <1>4, LenProperties, ElementsOf
<1>8. \A b \in Buyers :
        (\E j \in DOMAIN nodes : nodes[j].node_type = "demand" /\ nodes[j].who = b)
          => b \in Posters(offers)
  BY <1>2, <1>3, <1>4, <1>5, <1>7 DEF Posters
<1>9. AllocationsSound(nodes)
  <2>1. Total(given) <= market.supply
    BY <1>1 DEF Fair
  <2>2. ASSUME NEW i \in DOMAIN given
        PROVE  /\ given[i].quantity \in 1..market.demand[given[i].who]
               /\ given[i].price \in market.min_price..market.max_price[given[i].who]
               /\ \A b \in Posters(offers) :
                    market.max_price[b] > market.max_price[given[i].who] =>
                      \E j \in DOMAIN given :
                        given[j].who = b /\ given[j].quantity = market.demand[b]
    BY <1>1, <1>7 DEF Fair
  <2> QED BY <1>6, <1>8, <2>1, <2>2 DEF AllocationsSound
<1>10. \A i \in DOMAIN nodes : nodes[i].node_type # "bid"
  BY <1>2, <1>3, <1>4, <1>5, <1>7
<1>11. BidsSound(nodes)
  BY <1>10 DEF BidsSound
<1> QED BY <1>4, <1>9, <1>11

\* Each process finds what one step less may have left, and so on.
LEMMA OffersGrow ==
  ASSUME market \in Markets
  PROVE  /\ Supplied(<<>>)
         /\ \A s : Supplied(s) => FirstPosts(s)
         /\ \A s : FirstPosts(s) => Offers(s)
         /\ \A s : Offers(s) => Settled(s)
<1>1. Supplied(<<>>) /\ \A b : Posted(b, <<>>)
  BY DEF Supplied, Posted
<1>2. ASSUME NEW s, Supplied(s) PROVE FirstPosts(s)
  <2>1. s \in Seq(TradeNode)
    BY <1>1, <1>2, OneNode, BuyersAreTwo DEF TwoBuyers
  <2>2. s = s \o <<>>
    BY <2>1, ConcatEmptySeq
  <2> QED BY <1>1, <1>2, <2>2 DEF FirstPosts
<1>3. ASSUME NEW s, FirstPosts(s) PROVE Offers(s)
  <2>1. PICK x, y : Supplied(x) /\ Posted(Head(Buyer), y) /\ s = x \o y
    BY <1>3 DEF FirstPosts
  <2>2. x \in Seq(TradeNode) /\ y \in Seq(TradeNode)
    BY <2>1, OneNode, BuyersAreTwo DEF TwoBuyers
  <2>3. x \o y = (x \o y) \o <<>>
    BY <2>2, ElementsOfConcat, ConcatEmptySeq
  <2> QED BY <1>1, <2>1, <2>3 DEF Offers
<1>4. ASSUME NEW s, Offers(s) PROVE Settled(s)
  <2>1. s \in Seq(TradeNode)
    BY <1>4, OffersRead DEF Offers
  <2>2. s = s \o <<>>
    BY <2>1, ConcatEmptySeq
  <2> QED BY <1>4, <2>2, FairBegins DEF Settled
<1> QED BY <1>1, <1>2, <1>3, <1>4

-----------------------------------------------------------------------------
(* Phase 2: what the file may hold.                                        *)

\* A bid by what was there before it.
BidSound(n, before) ==
  n.node_type = "bid" =>
    /\ n.quantity <= Need(before, n.who)
    /\ n.quantity <= Available(before)
    /\ n.price <= market.max_price[n.who]
    /\ \A j \in DOMAIN before :
         ~(/\ before[j].node_type = "bid" /\ before[j].who = n.who
           /\ before[j].round = n.round)

\* The bids so far are of earlier rounds, or of this one and by those who have had
\* their turn.
Past(nodes, round, who) ==
  \A n \in ToSet(nodes) :
    n.node_type = "bid" => n.round < round \/ (n.round = round /\ n.who \in who)

Dealt(nodes, round, who) ==
  /\ nodes \in Seq(TradeNode)
  /\ \A n \in ToSet(nodes) : n.node_type # "allocation"
  /\ BidsSound(nodes)
  /\ Past(nodes, round, who)

LEMMA DealtSound ==
  ASSUME market \in Markets, NEW nodes, NEW round, NEW who, Dealt(nodes, round, who)
  PROVE  AllocationsSound(nodes) /\ BidsSound(nodes)
<1>1. nodes \in Seq(TradeNode) /\ Get(nodes, "allocation") = <<>>
  <2> DEFINE S == {n \in ToSet(nodes) : n.node_type = "allocation"}
  <2>1. nodes \in Seq(TradeNode) /\ ToSet(nodes) \cap S = {}
    BY DEF Dealt
  <2> HIDE DEF S
  <2>2. Kept(nodes, S) = <<>>
    BY <2>1, KeptNone
  <2> QED BY <2>1, <2>2 DEF Get, S
<1>2. DOMAIN <<>> = {}
  OBVIOUS
<1>3. AllocationsSound(nodes)
  BY <1>1, <1>2, TotalEmpty, PostedNodes DEF AllocationsSound
<1> QED BY <1>3 DEF Dealt

LEMMA BidsByPlace ==
  ASSUME NEW nodes \in Seq(TradeNode)
  PROVE  BidsSound(nodes) <=>
           \A i \in 1..Len(nodes) : BidSound(nodes[i], SubSeq(nodes, 1, i - 1))
<1>1. DOMAIN nodes = 1..Len(nodes)
  BY LenProperties
<1> QED BY <1>1 DEF BidsSound, BidSound

\* What was there before a node stays what was there before it.
LEMMA BeforeStays ==
  ASSUME NEW X, NEW s \in Seq(X), NEW t \in Seq(X), NEW i \in 1..(Len(s) + 1)
  PROVE  SubSeq(s \o t, 1, i - 1) = SubSeq(s, 1, i - 1)
<1>1. Len(s) \in Nat
  BY LenProperties
<1>2. CASE i = 1
  BY <1>2, SubSeqEmpty
<1>3. CASE i # 1
  <2>1. 1 \in 1..Len(s) /\ i - 1 \in 1..Len(s)
    BY <1>1, <1>3
  <2> QED BY <2>1, SubSeqOfConcat1
<1> QED BY <1>2, <1>3

LEMMA DealtMore ==
  ASSUME NEW s, NEW round \in Nat, NEW who, Dealt(s, round, who), NEW t \in Seq(TradeNode),
         \A n \in ToSet(t) : n.node_type \notin {"bid", "allocation"}
  PROVE  Dealt(s \o t, round, who)
<1> DEFINE u == s \o t
<1>1. s \in Seq(TradeNode) /\ Len(s) \in Nat /\ Len(t) \in Nat
  BY LenProperties DEF Dealt
<1>2. /\ u \in Seq(TradeNode) /\ ToSet(u) = ToSet(s) \cup ToSet(t)
      /\ Len(u) = Len(s) + Len(t)
      /\ \A i \in 1..(Len(s) + Len(t)) : u[i] = IF i <= Len(s) THEN s[i] ELSE t[i - Len(s)]
  BY <1>1, ElementsOfConcat, ConcatProperties
<1>3. \A i \in 1..Len(t) : t[i] \in ToSet(t)
  BY ElementsOf
<1>4. ASSUME NEW i \in 1..Len(u) PROVE BidSound(u[i], SubSeq(u, 1, i - 1))
  <2>1. CASE i <= Len(s)
    <3>1. i \in 1..Len(s) /\ i \in 1..(Len(s) + 1) /\ u[i] = s[i]
      BY <1>1, <1>2, <2>1
    <3>2. SubSeq(u, 1, i - 1) = SubSeq(s, 1, i - 1)
      BY <1>1, <3>1, BeforeStays
    <3>3. BidSound(s[i], SubSeq(s, 1, i - 1))
      BY <1>1, <3>1, BidsByPlace DEF Dealt
    <3> QED BY <3>1, <3>2, <3>3
  <2>2. CASE ~(i <= Len(s))
    <3>1. i - Len(s) \in 1..Len(t) /\ u[i] = t[i - Len(s)]
      BY <1>1, <1>2, <2>2
    <3>2. u[i].node_type # "bid"
      BY <1>3, <3>1
    <3> QED BY <3>2 DEF BidSound
  <2> QED BY <2>1, <2>2
<1> HIDE DEF u
<1>5. BidsSound(u)
  BY <1>2, <1>4, BidsByPlace
<1>6. Past(u, round, who) /\ \A n \in ToSet(u) : n.node_type # "allocation"
  BY <1>2 DEF Dealt, Past
<1>7. Dealt(u, round, who)
  BY <1>2, <1>5, <1>6 DEF Dealt
<1> QED BY <1>7 DEF u

LEMMA DealtBid ==
  ASSUME NEW s, NEW round \in Nat, NEW who, Dealt(s, round, who),
         NEW n \in TradeNode, n.node_type = "bid", n.round = round, n.who \notin who,
         n.quantity <= Need(s, n.who), n.quantity <= Available(s),
         n.price <= market.max_price[n.who]
  PROVE  Dealt(s \o <<n>>, round, who \cup {n.who})
<1> DEFINE t == <<n>>
           u == s \o t
<1>1. s \in Seq(TradeNode) /\ Len(s) \in Nat /\ t \in Seq(TradeNode) /\ Len(t) = 1 /\ t[1] = n
  BY LenProperties DEF Dealt
<1>2. ToSet(t) = {n}
  BY DEF ToSet
<1> HIDE DEF t
<1>3. /\ u \in Seq(TradeNode) /\ ToSet(u) = ToSet(s) \cup ToSet(t)
      /\ Len(u) = Len(s) + Len(t)
      /\ \A i \in 1..(Len(s) + Len(t)) : u[i] = IF i <= Len(s) THEN s[i] ELSE t[i - Len(s)]
  <2>1. u \in Seq(TradeNode) /\ ToSet(u) = ToSet(s) \cup ToSet(t)
    BY <1>1, ElementsOfConcat
  <2>2. /\ Len(u) = Len(s) + Len(t)
        /\ \A i \in 1..(Len(s) + Len(t)) : u[i] = IF i <= Len(s) THEN s[i] ELSE t[i - Len(s)]
    BY <1>1, ConcatProperties
  <2> QED BY <2>1, <2>2
<1>4. ASSUME NEW i \in 1..Len(u) PROVE BidSound(u[i], SubSeq(u, 1, i - 1))
  <2>1. i \in 1..(Len(s) + 1)
    BY <1>1, <1>3
  <2>2. SubSeq(u, 1, i - 1) = SubSeq(s, 1, i - 1)
    BY <1>1, <2>1, BeforeStays
  <2>3. CASE i <= Len(s)
    <3>1. i \in 1..Len(s) /\ u[i] = s[i]
      BY <1>1, <1>3, <2>3
    <3>2. BidSound(s[i], SubSeq(s, 1, i - 1))
      BY <1>1, <3>1, BidsByPlace DEF Dealt
    <3> QED BY <2>2, <3>1, <3>2
  <2>4. CASE ~(i <= Len(s))
    <3>1. i = Len(s) + 1 /\ i - Len(s) = 1 /\ i - 1 = Len(s)
      BY <1>1, <2>1, <2>4
    <3>2. u[i] = n
      BY <1>1, <1>3, <2>4, <3>1
    <3>3. SubSeq(u, 1, i - 1) = s
      BY <1>1, <2>2, <3>1, SubSeqFull
    <3>4. \A j \in DOMAIN s : s[j] \in ToSet(s)
      BY <1>1, LenProperties, ElementsOf
    <3>5. \A m \in ToSet(s) : ~(m.node_type = "bid" /\ m.who = n.who /\ m.round = n.round)
      BY DEF Dealt, Past
    <3> HIDE DEF u
    <3> QED BY <3>2, <3>3, <3>4, <3>5 DEF BidSound
  <2> QED BY <2>3, <2>4
<1> HIDE DEF u
<1>5. BidsSound(u)
  BY <1>3, <1>4, BidsByPlace
<1>6. Past(u, round, who \cup {n.who}) /\ \A m \in ToSet(u) : m.node_type # "allocation"
  BY <1>2, <1>3 DEF Dealt, Past
<1>7. Dealt(u, round, who \cup {n.who})
  BY <1>3, <1>5, <1>6 DEF Dealt
<1> QED BY <1>7 DEF u, t

LEMMA DealtLater ==
  ASSUME NEW s, NEW round \in Nat, NEW who, Dealt(s, round, who)
  PROVE  /\ \A w : who \subseteq w => Dealt(s, round, w)
         /\ Dealt(s, round + 1, {})
<1>1. \A n \in ToSet(s) : n.round \in Nat
  <2>1. ToSet(s) \subseteq TradeNode
    BY ElementsOf DEF Dealt
  <2> QED BY <2>1 DEF TradeNode
<1> QED BY <1>1 DEF Dealt, Past

-----------------------------------------------------------------------------
(* The supply chain.                                                       *)

Earlier(role) == IF role = Head(Buyer) THEN {}
                 ELSE IF role = Last(Buyer) THEN {Head(Buyer)} ELSE Buyers

\* What the nodes of the file may be when a process loads it, and after it.
Found(nodes, role, round) ==
  IF scenario = "phase2" THEN Dealt(nodes, round, Earlier(role))
  ELSE CASE role = "seller" -> nodes = <<>>
         [] role = Head(Buyer) -> Supplied(nodes)
         [] role = Last(Buyer) -> FirstPosts(nodes)
         [] OTHER -> Offers(nodes)

Left(nodes, role, round) ==
  IF scenario = "phase2" THEN Dealt(nodes, round, Earlier(role) \cup ({role} \cap Buyers))
  ELSE CASE role = "seller" -> Supplied(nodes)
         [] role = Head(Buyer) -> FirstPosts(nodes)
         [] role = Last(Buyer) -> Offers(nodes)
         [] OTHER -> Settled(nodes)

TradeInv ==
  /\ FileInv(TradeNode, TradeEdge)
  /\ market \in Markets
  /\ running \in [role : Buyers \cup {"seller", "optimizer"}, round : Nat]
  /\ \/ scenario = "phase1" /\ running.round = 0
     \/ scenario = "phase2" /\ running.role # "optimizer"
  /\ pc \in {"load", "work", "save", "write"} => Found(saved.nodes, running.role, running.round)
  /\ pc \in {"save", "write"} => Left(memory.nodes, running.role, running.round)
  /\ pc \in {"exit", "over"} => Left(saved.nodes, running.role, running.round)

TradeStep == (SharedNext /\ UNCHANGED market) \/ SupplyChainNext

LEMMA FoundIsLeft ==
  ASSUME TradeInv, NEW nodes, Found(nodes, running.role, running.round)
  PROVE  Left(nodes, running.role, running.round)
<1>1. market \in Markets /\ running.round \in Nat
  BY DEF TradeInv
<1>2. CASE scenario = "phase2"
  <2>1. Earlier(running.role) \subseteq Earlier(running.role) \cup ({running.role} \cap Buyers)
    OBVIOUS
  <2> QED BY <1>1, <1>2, <2>1, DealtLater DEF Found, Left
<1>3. CASE scenario # "phase2"
  BY <1>1, <1>3, OffersGrow, BuyersAreTwo DEF Found, Left, TwoBuyers
<1> QED BY <1>2, <1>3

\* Only the scenario and the market matter to what the file may hold.
LEMMA SameMarket ==
  ASSUME UNCHANGED <<scenario, market>>
  PROVE  \A nodes, role, round :
           /\ Found(nodes, role, round)' <=> Found(nodes, role, round)
           /\ Left(nodes, role, round)' <=> Left(nodes, role, round)
<1>1. ASSUME NEW b PROVE Demand(b)' = Demand(b) /\ SupplyNode' = SupplyNode
  BY DEF Demand, SupplyNode
<1>2. \A list : /\ Supplied(list)' <=> Supplied(list)
                /\ Posters(list)' = Posters(list)
                /\ \A b : Posted(b, list)' <=> Posted(b, list)
  BY <1>1 DEF Supplied, Posters, Posted
<1>3. \A list : /\ FirstPosts(list)' <=> FirstPosts(list)
                /\ Offers(list)' <=> Offers(list)
  BY <1>2 DEF FirstPosts, Offers
<1>4. \A given, posted : Fair(given, posted)' <=> Fair(given, posted)
  BY DEF Fair
<1>5. \A list : Settled(list)' <=> Settled(list)
  BY <1>2, <1>3, <1>4 DEF Settled
<1>6. \A nodes, b : Need(nodes, b)' = Need(nodes, b)
  BY DEF Need
<1>7. \A nodes : BidsSound(nodes)' <=> BidsSound(nodes)
  BY <1>6 DEF BidsSound
<1>8. \A nodes, round, who : Dealt(nodes, round, who)' <=> Dealt(nodes, round, who)
  BY <1>7 DEF Dealt
<1> QED BY <1>2, <1>3, <1>5, <1>8 DEF Found, Left

\* What holds of a state carries over when only the copy or the file changes.
LEMMA TradeFrame ==
  ASSUME TradeInv, FileInv(TradeNode, TradeEdge)', UNCHANGED <<scenario, running, market>>,
         pc' \in {"load", "work", "save", "write"} => Found(saved'.nodes, running.role, running.round),
         pc' \in {"save", "write"} => Left(memory'.nodes, running.role, running.round),
         pc' \in {"exit", "over"} => Left(saved'.nodes, running.role, running.round)
  PROVE  TradeInv'
BY SameMarket DEF TradeInv

LEMMA TradeShared ==
  ASSUME TradeInv, SharedNext, UNCHANGED market
  PROVE  TradeInv' /\ Keeps
<1>1. FileInv(TradeNode, TradeEdge)' /\ Keeps
  BY FileSteps, FileAssumption, TradesAssumption DEF TradeInv
<1>2. UNCHANGED <<scenario, running, market>>
  BY DEF SharedNext, Load, OpenForWriting, Write, Dies
<1>3. Found(saved.nodes, running.role, running.round)
        => Left(saved.nodes, running.role, running.round)
  BY FoundIsLeft
<1>4. /\ pc \in {"load", "work", "save", "write"}
      /\ pc' \in {"load", "work", "save", "write"} => UNCHANGED saved
      /\ pc' \in {"save", "write"} => pc \in {"save", "write"} /\ UNCHANGED memory
      /\ pc' \in {"exit", "over"} => \/ UNCHANGED saved
                                     \/ pc = "write" /\ saved' = memory
  BY DEF SharedNext, Load, OpenForWriting, Write, Dies
<1>5. TradeInv'
  BY <1>1, <1>2, <1>3, <1>4, TradeFrame DEF TradeInv
<1> QED BY <1>1, <1>5

LEMMA TradeAdds ==
  ASSUME TradeInv, pc = "work", NEW nodes \in Seq(TradeNode), NEW edges \in Seq(TradeEdge),
         Adds(nodes, edges), UNCHANGED market,
         Left(saved.nodes \o nodes, running.role, running.round)
  PROVE  TradeInv' /\ Keeps
<1>1. /\ FileInv(TradeNode, TradeEdge)' /\ Keeps
      /\ memory' = [nodes |-> saved.nodes \o nodes, edges |-> saved.edges \o edges]
      /\ pc' = "save" /\ UNCHANGED <<scenario, running, file, saved, outcome>>
  BY FileContributes DEF TradeInv
<1>2. memory'.nodes = saved.nodes \o nodes
  BY <1>1
<1>3. TradeInv'
  BY <1>1, <1>2, TradeFrame DEF TradeInv
<1> QED BY <1>1, <1>3

LEMMA TradeExits ==
  ASSUME TradeInv, pc = "work", pc' = "exit",
         UNCHANGED <<scenario, running, memory, file, saved, outcome, market>>
  PROVE  TradeInv' /\ Keeps
<1>1. FileInv(TradeNode, TradeEdge)' /\ Keeps
  BY FileContinues DEF TradeInv
<1>2. Left(saved.nodes, running.role, running.round)
  BY FoundIsLeft DEF TradeInv
<1>3. TradeInv'
  BY <1>1, <1>2, TradeFrame
<1> QED BY <1>1, <1>3

LEMMA TradeRuns ==
  ASSUME TradeInv, NEW role \in Buyers \cup {"seller", "optimizer"}, NEW round \in Nat,
         Runs(Process(role, round)), UNCHANGED market,
         scenario = "phase1" => round = 0, scenario = "phase2" => role # "optimizer",
         Found(saved.nodes, role, round)
  PROVE  TradeInv' /\ Keeps
<1>1. FileInv(TradeNode, TradeEdge)' /\ Keeps
  BY FileContinues DEF TradeInv
<1>2. /\ pc' = "load" /\ UNCHANGED <<scenario, saved, market>>
      /\ running' = [role |-> role, round |-> round]
  BY DEF Runs, Process
<1>3. Found(saved.nodes, role, round)'
  BY <1>2, SameMarket
<1>4. TradeInv'
  BY <1>1, <1>2, <1>3 DEF TradeInv
<1> QED BY <1>1, <1>4

LEMMA TradeFinishes ==
  ASSUME TradeInv, pc = "exit", NEW how, Finishes(how), UNCHANGED market
  PROVE  TradeInv' /\ Keeps
<1>1. FileInv(TradeNode, TradeEdge)' /\ Keeps
  BY FileContinues DEF TradeInv
<1>2. pc' = "over" /\ UNCHANGED <<scenario, running, saved, market>>
  BY DEF Finishes
<1>3. TradeInv'
  BY <1>1, <1>2, TradeFrame DEF TradeInv
<1> QED BY <1>1, <1>3

\* A seller that posts its supply.
LEMMA SupplyPosted ==
  ASSUME TradeInv, PostSupply
  PROVE  TradeInv' /\ Keeps
<1>1. /\ market \in Markets /\ pc = "work" /\ running.role = "seller" /\ running.round = 0
      /\ Found(saved.nodes, "seller", 0)
  BY DEF PostSupply, TradeInv, Process
<1>2. <<SupplyNode>> \in Seq(TradeNode) /\ <<>> \in Seq(TradeEdge)
  BY <1>1, SupplyTotal
<1>3. Left(saved.nodes \o <<SupplyNode>>, "seller", 0)
  <2>1. CASE scenario = "phase2"
    <3>1. \A n \in ToSet(<<SupplyNode>>) : n.node_type \notin {"bid", "allocation"}
      BY DEF ToSet, SupplyNode, Node
    <3>2. Dealt(saved.nodes, 0, Earlier("seller"))
      BY <1>1, <2>1 DEF Found
    <3>3. Dealt(saved.nodes \o <<SupplyNode>>, 0, Earlier("seller"))
      BY <1>2, <3>1, <3>2, DealtMore
    <3> QED BY <2>1, <3>3, DealtLater DEF Left
  <2>2. CASE scenario # "phase2"
    <3>1. saved.nodes = <<>>
      BY <1>1, <2>2, BuyersAreTwo DEF Found, TwoBuyers
    <3>2. <<>> \o <<SupplyNode>> = <<SupplyNode>>
      BY <1>2, ConcatEmptySeq
    <3> QED BY <2>2, <3>1, <3>2, BuyersAreTwo DEF Left, Supplied, TwoBuyers
  <2> QED BY <2>1, <2>2
<1> QED BY <1>1, <1>2, <1>3, TradeAdds DEF PostSupply

\* A buyer that posts its demand.
LEMMA DemandPosted ==
  ASSUME TradeInv, PostDemand
  PROVE  TradeInv' /\ Keeps
<1> DEFINE b == running.role
<1>1. /\ market \in Markets /\ pc = "work" /\ b \in Buyers /\ scenario = "phase1"
      /\ Found(saved.nodes, b, running.round)
      /\ Adds(<<Demand(b)>>, <<>>) /\ UNCHANGED market
  BY DEF PostDemand, TradeInv, Demand
<1>2. <<Demand(b)>> \in Seq(TradeNode) /\ <<>> \in Seq(TradeEdge)
  BY <1>1, PostedNodes
<1>3. Posted(b, <<Demand(b)>>)
  BY DEF Posted
<1>4. CASE b = Head(Buyer)
  <2>1. Supplied(saved.nodes)
    BY <1>1, <1>4, BuyersAreTwo DEF Found, TwoBuyers
  <2>2. FirstPosts(saved.nodes \o <<Demand(b)>>)
    BY <1>3, <1>4, <2>1 DEF FirstPosts
  <2>3. Left(saved.nodes \o <<Demand(b)>>, b, running.round)
    BY <1>1, <1>4, <2>2, BuyersAreTwo DEF Left, TwoBuyers
  <2> QED BY <1>1, <1>2, <2>3, TradeAdds
<1>5. CASE b = Last(Buyer)
  <2>1. FirstPosts(saved.nodes)
    BY <1>1, <1>5, BuyersAreTwo DEF Found, TwoBuyers
  <2>2. Offers(saved.nodes \o <<Demand(b)>>)
    BY <1>3, <1>5, <2>1 DEF FirstPosts, Offers
  <2>3. Left(saved.nodes \o <<Demand(b)>>, b, running.round)
    BY <1>1, <1>5, <2>2, BuyersAreTwo DEF Left, TwoBuyers
  <2> QED BY <1>1, <1>2, <2>3, TradeAdds
<1> QED BY <1>1, <1>4, <1>5, BuyersAreTwo DEF TwoBuyers

\* The optimizer, which finds the offers and adds allocations.
LEMMA Optimized ==
  ASSUME TradeInv, Optimizer
  PROVE  TradeInv' /\ Keeps
<1> DEFINE supplies == Get(memory.nodes, "supply")
           demands == Get(memory.nodes, "demand")
           given == OptimizeAllocation(supplies, demands)
           edges == [i \in DOMAIN given |-> [source |-> "seller", target |-> given[i].who]]
<1>1. /\ market \in Markets /\ pc = "work" /\ memory = saved /\ running.role = "optimizer"
      /\ scenario = "phase1" /\ Found(saved.nodes, "optimizer", running.round)
      /\ UNCHANGED market
  BY DEF Optimizer, TradeInv, FileInv
<1>2. Offers(saved.nodes)
  BY <1>1, BuyersAreTwo DEF Found, TwoBuyers
<1>3. PICK x, y, z : /\ Supplied(x) /\ Posted(Head(Buyer), y) /\ Posted(Last(Buyer), z)
                     /\ saved.nodes = (x \o y) \o z
  BY <1>2 DEF Offers
<1>4. supplies = x /\ demands = y \o z /\ Posters(saved.nodes) = Posters(y \o z)
  BY <1>1, <1>3, OffersRead
<1>5. CASE supplies = <<>> \/ demands = <<>>
  <2>1. pc' = "exit" /\ UNCHANGED <<scenario, running, memory, file, saved, outcome>>
    BY <1>5 DEF Optimizer
  <2> QED BY <1>1, <2>1, TradeExits
<1>6. CASE ~(supplies = <<>> \/ demands = <<>>)
  <2>1. Adds(given, edges)
    BY <1>6 DEF Optimizer
  <2>2. Fair(given, Posters(saved.nodes))
    BY <1>1, <1>3, <1>4, <1>6, FairOptimum DEF Supplied
  <2> HIDE DEF given
  <2>3. given \in Seq(TradeNode)
    BY <2>2 DEF Fair
  <2>4. \A i \in DOMAIN given : given[i].who \in Buyers
    <3>1. DOMAIN given = 1..Len(given)
      BY <2>3, LenProperties
    <3> QED BY <2>2, <3>1 DEF Fair
  <2>5. edges \in Seq(TradeEdge)
    <3>1. DOMAIN given = 1..Len(given) /\ Len(given) \in Nat
      BY <2>3, LenProperties
    <3>2. edges \in [1..Len(given) -> TradeEdge]
      BY <2>4, <3>1 DEF TradeEdge
    <3> HIDE DEF edges
    <3>3. Seq(TradeEdge) = UNION {[1..n -> TradeEdge] : n \in Nat}
      BY SeqDef
    <3> QED BY <3>1, <3>2, <3>3
  <2>6. Left(saved.nodes \o given, "optimizer", running.round)
    BY <1>1, <1>2, <2>2, BuyersAreTwo DEF Left, Settled, TwoBuyers
  <2> QED BY <1>1, <2>1, <2>3, <2>5, <2>6, TradeAdds
<1> QED BY <1>5, <1>6

LEMMA Phase1Runs ==
  ASSUME TradeInv, Phase1Continues
  PROVE  TradeInv' /\ Keeps
<1>1. /\ scenario = "phase1" /\ pc = "exit" /\ UNCHANGED market
      /\ running.role \in Buyers \cup {"seller", "optimizer"}
      /\ Left(saved.nodes, running.role, running.round)
  BY DEF Phase1Continues, TradeInv
<1>2. CASE running.role = "seller"
  <2>1. Runs(Process(Head(Buyer), 0))
    BY <1>2, BuyersAreTwo DEF Phase1Continues, TwoBuyers
  <2>2. Found(saved.nodes, Head(Buyer), 0)
    BY <1>1, <1>2, BuyersAreTwo DEF Left, Found, TwoBuyers
  <2> QED BY <1>1, <2>1, <2>2, TradeRuns, BuyersAreTwo DEF TwoBuyers
<1>3. CASE running.role = Head(Buyer)
  <2>1. Runs(Process(Last(Buyer), 0))
    BY <1>3, BuyersAreTwo DEF Phase1Continues, TwoBuyers
  <2>2. Found(saved.nodes, Last(Buyer), 0)
    BY <1>1, <1>3, BuyersAreTwo DEF Left, Found, TwoBuyers
  <2> QED BY <1>1, <2>1, <2>2, TradeRuns, BuyersAreTwo DEF TwoBuyers
<1>4. CASE running.role = Last(Buyer)
  <2>1. Runs(Process("optimizer", 0))
    BY <1>4, BuyersAreTwo DEF Phase1Continues, TwoBuyers
  <2>2. Found(saved.nodes, "optimizer", 0)
    BY <1>1, <1>4, BuyersAreTwo DEF Left, Found, TwoBuyers
  <2> QED BY <1>1, <2>1, <2>2, TradeRuns, BuyersAreTwo DEF TwoBuyers
<1>5. CASE running.role = "optimizer"
  <2>1. \E how : Finishes(how)
    BY <1>5, BuyersAreTwo DEF Phase1Continues, TwoBuyers
  <2> QED BY <1>1, <2>1, TradeFinishes
<1> QED BY <1>1, <1>2, <1>3, <1>4, <1>5, BuyersAreTwo DEF TwoBuyers

\* A buyer that bids what it may.
LEMMA BidMade ==
  ASSUME TradeInv, BuyerBids
  PROVE  TradeInv' /\ Keeps
<1> DEFINE b == running.role
           r == running.round
<1>1. /\ market \in Markets /\ pc = "work" /\ memory = saved /\ b \in Buyers /\ r \in Nat
      /\ scenario = "phase2" /\ Dealt(saved.nodes, r, Earlier(b)) /\ UNCHANGED market
  BY DEF BuyerBids, TradeInv, FileInv, Found
<1> DEFINE most == Least(Need(saved.nodes, b), Available(saved.nodes))
<1>2. PICK quantity \in Quantity \cup {most}, price \in Price :
        LET q == Least(quantity, most)
        IN  Adds(IF q <= 0 THEN <<>>
                 ELSE <<Node("bid", b, q, Least(price, market.max_price[b]), r)>>, <<>>)
  BY <1>1 DEF BuyerBids, DecideBid
<1> DEFINE q == Least(quantity, most)
           n == Node("bid", b, q, Least(price, market.max_price[b]), r)
<1>3. /\ Need(saved.nodes, b) \in Int /\ Available(saved.nodes) \in Int
      /\ market.max_price[b] \in Int /\ quantity \in Int /\ price \in Int
  <2>1. saved.nodes \in Seq(TradeNode)
    BY <1>1 DEF Dealt
  <2>2. ASSUME NEW S PROVE Total(Kept(saved.nodes, S)) \in Int
    BY <2>1, KeptElements, TotalIsInt
  <2>3. Need(saved.nodes, b) \in Int /\ Available(saved.nodes) \in Int
    BY <1>1, <2>2, PostedNodes DEF Need, Available, Secured, Get
  <2>4. most \in Int
    BY <2>3 DEF Least
  <2>5. quantity \in Int /\ price \in Int
    BY <2>4, AnswersAssumption
  <2> QED BY <1>1, <2>3, <2>5, PostedNodes
<1>4. /\ q \in Int /\ q <= Need(saved.nodes, b) /\ q <= Available(saved.nodes)
      /\ Least(price, market.max_price[b]) \in Int
      /\ Least(price, market.max_price[b]) <= market.max_price[b]
  BY <1>3 DEF Least
<1> HIDE DEF q
<1>5. /\ n \in TradeNode /\ n.node_type = "bid" /\ n.round = r /\ n.who = b
      /\ n.quantity = q /\ n.price <= market.max_price[b]
  BY <1>1, <1>4 DEF Node, TradeNode
<1>6. b \notin Earlier(b) /\ {b} \cap Buyers = {b}
  BY <1>1, BuyersAreTwo DEF Earlier, TwoBuyers
<1>7. <<>> \in Seq(TradeNode) /\ <<>> \in Seq(TradeEdge) /\ <<n>> \in Seq(TradeNode)
  BY <1>5
<1>8. CASE q <= 0
  <2>1. Adds(<<>>, <<>>)
    BY <1>2, <1>8 DEF q
  <2>2. saved.nodes \o <<>> = saved.nodes
    BY <1>1, ConcatEmptySeq DEF Dealt
  <2>3. Left(saved.nodes \o <<>>, b, r)
    BY <2>2, FoundIsLeft, <1>1 DEF TradeInv
  <2> QED BY <1>1, <1>7, <2>1, <2>3, TradeAdds
<1>9. CASE ~(q <= 0)
  <2>1. Adds(<<n>>, <<>>)
    BY <1>2, <1>9 DEF q
  <2> HIDE DEF n
  <2>2. Dealt(saved.nodes \o <<n>>, r, Earlier(b) \cup {b})
    BY <1>1, <1>4, <1>5, <1>6, DealtBid
  <2>3. Left(saved.nodes \o <<n>>, b, r)
    BY <1>1, <1>6, <2>2 DEF Left
  <2> QED BY <1>1, <1>7, <2>1, <2>3, TradeAdds
<1> QED BY <1>8, <1>9

\* Answers to bids are no bids.
Quiet(list) == /\ list \in Seq(TradeNode)
               /\ \A n \in ToSet(list) : n.node_type \notin {"bid", "allocation"}

\* Whatever the decisions, and about whomever.
LEMMA ResponsesAreQuiet ==
  ASSUME NEW answer \in Seq(Decision), NEW round \in Nat
  PROVE  Quiet(Responses(answer, round))
<1> DEFINE given == Kept(answer, {d \in ToSet(answer) : d.action # "REJECT"})
           made(d) == Node(IF d.action = "ACCEPT" THEN "accept" ELSE "counter",
                           d.buyer, d.quantity, d.price, round)
<1>1. given \in Seq(Decision)
  BY KeptElements
<1>2. Responses(answer, round) = [i \in DOMAIN given |-> made(given[i])]
  BY DEF Responses
<1>3. ASSUME NEW d \in Decision
      PROVE  made(d) \in TradeNode /\ made(d).node_type \notin {"bid", "allocation"}
  BY DEF Decision, Node, TradeNode
<1> HIDE DEF given, made
<1>4. /\ DOMAIN given = 1..Len(given) /\ Len(given) \in Nat
      /\ \A i \in DOMAIN given : given[i] \in Decision
  BY <1>1
<1>5. Responses(answer, round) \in Seq(TradeNode)
  BY <1>2, <1>3, <1>4
<1>6. ASSUME NEW n \in ToSet(Responses(answer, round))
      PROVE  n.node_type \notin {"bid", "allocation"}
  <2>1. PICK i \in DOMAIN given : n = made(given[i])
    BY <1>2 DEF ToSet
  <2> QED BY <1>3, <1>4, <2>1
<1> QED BY <1>5, <1>6 DEF Quiet

LEMMA Answered ==
  ASSUME TradeInv, SellerResponds
  PROVE  TradeInv' /\ Keeps
<1> DEFINE r == running.round
<1>1. /\ market \in Markets /\ pc = "work" /\ memory = saved /\ running.role = "seller" /\ r > 0
      /\ r \in Nat /\ scenario = "phase2" /\ Dealt(saved.nodes, r, Earlier("seller"))
      /\ UNCHANGED market
  <2>1. pc = "work" /\ running.role = "seller" /\ r > 0 /\ UNCHANGED market
    BY DEF SellerResponds
  <2> HIDE DEF SellerResponds
  <2>2. /\ market \in Markets /\ memory = saved /\ scenario \in {"phase1", "phase2"}
        /\ r \in Nat /\ Found(saved.nodes, "seller", r) /\ (scenario = "phase1" => r = 0)
    BY <2>1 DEF TradeInv, FileInv
  <2>3. scenario = "phase2" /\ Dealt(saved.nodes, r, Earlier("seller"))
    BY <2>1, <2>2 DEF Found
  <2> QED BY <2>1, <2>2, <2>3
<1>2. \E answer \in Answers \cup {<<>>} :
        Adds(Responses(answer, r), <<>>) \/ Adds(<<>>, <<>>)
  BY DEF SellerResponds
<1>3. PICK answer \in Answers \cup {<<>>} :
        Adds(Responses(answer, r), <<>>) \/ Adds(<<>>, <<>>)
  BY <1>2
<1>4. Quiet(Responses(answer, r)) /\ Quiet(<<>>)
  <2>1. answer \in Seq(Decision)
    <3>1. <<>> \in Seq(Decision) /\ Answers \subseteq Seq(Decision)
      BY EmptySeq, AnswersAssumption
    <3> QED BY <3>1
  <2>2. Quiet(<<>>)
    BY EmptySeq DEF Quiet, ToSet
  <2> QED BY <1>1, <2>1, <2>2, ResponsesAreQuiet
<1>5. \E list : Quiet(list) /\ Adds(list, <<>>)
  BY <1>3, <1>4
<1>6. PICK list : Quiet(list) /\ Adds(list, <<>>)
  BY <1>5
<1>7. list \in Seq(TradeNode) /\ <<>> \in Seq(TradeEdge)
  BY <1>6 DEF Quiet
<1>8. Dealt(saved.nodes \o list, r, Earlier("seller"))
  BY <1>1, <1>6, DealtMore DEF Quiet
<1>9. Left(saved.nodes \o list, "seller", r)
  BY <1>1, <1>8, DealtLater DEF Left
<1> QED BY <1>1, <1>6, <1>7, <1>9, TradeAdds

LEMMA Phase2Runs ==
  ASSUME TradeInv, Phase2Continues
  PROVE  TradeInv' /\ Keeps
<1> DEFINE b == Head(Buyer)
           c == Last(Buyer)
           r == running.round
<1>1. /\ scenario = "phase2" /\ pc = "exit" /\ UNCHANGED market
      /\ running \in [role : Buyers \cup {"seller", "optimizer"}, round : Nat]
      /\ r \in Nat /\ running.role # "optimizer" /\ saved.nodes \in Seq(TradeNode)
      /\ Dealt(saved.nodes, r, Earlier(running.role) \cup ({running.role} \cap Buyers))
  BY DEF Phase2Continues, TradeInv, Left, Dealt
<1>2. /\ Earlier(b) = {} /\ Earlier(c) = {b} /\ Earlier("seller") = Buyers
      /\ b \in Buyers /\ c \in Buyers /\ Buyers = {b, c} /\ "seller" \notin Buyers
      /\ b # "optimizer" /\ c # "optimizer" /\ b # c
  BY BuyersAreTwo DEF Earlier, TwoBuyers
<1> HIDE DEF b, c
<1>3. CASE running.role = "seller" /\ Runs(Process(b, 1)) /\ r = 0
  <2>1. Found(saved.nodes, b, 1)
    <3>1. Dealt(saved.nodes, 0 + 1, {})
      BY <1>1, <1>3, DealtLater
    <3> QED BY <1>1, <1>2, <3>1 DEF Found
  <2> QED BY <1>1, <1>2, <1>3, <2>1, TradeRuns
<1>4. CASE running.role = b /\ Runs(Process(c, r))
  <2>1. Found(saved.nodes, c, r)
    <3>1. Earlier(b) \cup ({b} \cap Buyers) = Earlier(c)
      BY <1>2
    <3> QED BY <1>1, <1>4, <3>1 DEF Found
  <2> QED BY <1>1, <1>2, <1>4, <2>1, TradeRuns
<1>5. CASE running.role = c /\ Runs(Process("seller", r))
  <2>1. Found(saved.nodes, "seller", r)
    <3>1. Earlier(c) \cup ({c} \cap Buyers) = Earlier("seller")
      BY <1>2
    <3> QED BY <1>1, <1>5, <3>1 DEF Found
  <2> QED BY <1>1, <1>2, <1>5, <2>1, TradeRuns
<1>6. CASE running.role = "seller" /\ Runs(Process(b, r + 1))
  <2>1. Found(saved.nodes, b, r + 1)
    <3>1. Dealt(saved.nodes, r + 1, {})
      BY <1>1, DealtLater
    <3> QED BY <1>1, <1>2, <3>1 DEF Found
  <2> QED BY <1>1, <1>2, <1>6, <2>1, TradeRuns
<1>7. CASE \E how : Finishes(how)
  BY <1>1, <1>7, TradeFinishes
<1>8. ASSUME RoundEnds PROVE Runs(Process(b, r + 1)) \/ \E how : Finishes(how)
  BY <1>8 DEF RoundEnds, b
<1> QED BY <1>3, <1>4, <1>5, <1>6, <1>7, <1>8 DEF Phase2Continues, b, c

LEMMA TradeSteps ==
  ASSUME TradeInv, TradeStep \/ UNCHANGED <<sharedVars, market>>
  PROVE  TradeInv' /\ Keeps
<1>1. CASE UNCHANGED <<sharedVars, market>>
  <2>1. FileInv(TradeNode, TradeEdge)' /\ Keeps
    BY <1>1, FileContinues DEF TradeInv, sharedVars
  <2>2. TradeInv'
    BY <1>1, <2>1, TradeFrame DEF TradeInv, sharedVars
  <2> QED BY <2>1, <2>2
<1> QED BY <1>1, TradeShared, SupplyPosted, DemandPosted, Optimized, Phase1Runs, BidMade,
           Answered, Phase2Runs DEF TradeStep, SupplyChainNext

LEMMA TradeBegins == SupplyChainInit => TradeInv
<1> SUFFICES ASSUME SupplyChainInit PROVE TradeInv
  OBVIOUS
<1>1. FileInv(TradeNode, TradeEdge)
  BY FileBegins DEF SupplyChainInit
<1>2. /\ market \in Markets /\ running = Process("seller", 0) /\ pc = "load"
      /\ saved = EmptyGraph /\ scenario \in {"phase1", "phase2"}
  BY DEF SupplyChainInit, SharedInit
<1>3. CASE scenario = "phase1"
  BY <1>1, <1>2, <1>3, BuyersAreTwo DEF TradeInv, Found, Process, EmptyGraph, TwoBuyers
<1>4. CASE scenario = "phase2"
  <2>1. Dealt(<<>>, 0, Earlier("seller"))
    BY EmptySeq DEF Dealt, BidsSound, Past, ToSet
  <2> QED BY <1>1, <1>2, <1>4, <2>1 DEF TradeInv, Found, Process, EmptyGraph
<1> QED BY <1>2, <1>3, <1>4

\* Whatever is left in the file is within the limits.
LEMMA TradesAreSound == TradeInv => TradesWithinLimits
<1> SUFFICES ASSUME TradeInv PROVE AllocationsSound(saved.nodes) /\ BidsSound(saved.nodes)
  BY DEF TradesWithinLimits
<1>1. /\ market \in Markets /\ pc \in {"load", "work", "save", "write", "exit", "over"}
      /\ scenario \in {"phase1", "phase2"}
  BY DEF TradeInv, FileInv
<1>2. Left(saved.nodes, running.role, running.round)
  BY <1>1, FoundIsLeft DEF TradeInv
<1>3. CASE scenario = "phase2"
  BY <1>1, <1>2, <1>3, DealtSound DEF Left
<1>4. CASE scenario = "phase1"
  <2>1. Settled(saved.nodes)
    BY <1>1, <1>2, <1>4, OffersGrow DEF Left
  <2> QED BY <1>1, <2>1, SettledSound
<1> QED BY <1>1, <1>3, <1>4

\* No allocation and no bid that any process leaves in the file exceeds what there
\* is, what is needed and what may be paid, whatever whole numbers the models
\* answer, in lists of decisions of any length about anybody, however many rounds
\* there are, and whichever processes die.
THEOREM TradesStayWithinLimits == SupplyChainSpec => []TradesWithinLimits
<1>1. TradeInv /\ [TradeStep]_<<sharedVars, market>> => TradeInv'
  BY TradeSteps
<1> QED BY <1>1, TradeBegins, TradesAreSound, PTL DEF SupplyChainSpec, TradeStep

\* What a party has saved stays in the file.
THEOREM TradesKeepContributions == SupplyChainSpec => ContributionsKept
<1>1. TradeInv /\ [TradeStep]_<<sharedVars, market>> => TradeInv'
  BY TradeSteps
<1>2. TradeInv /\ [TradeStep]_<<sharedVars, market>>
        => [IsPrefix(saved.nodes, saved'.nodes) /\ IsPrefix(saved.edges, saved'.edges)]_saved
  BY TradeSteps DEF Keeps, Extended
<1> QED BY <1>1, <1>2, TradeBegins, PTL DEF SupplyChainSpec, TradeStep, ContributionsKept
=============================================================================
