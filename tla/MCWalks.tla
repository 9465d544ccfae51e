------------------------------ MODULE MCWalks ------------------------------
(***************************************************************************)
(* The embodiments of STUDY-203 to 208 on small documents: the study's own *)
(* graph_initial.json, the same graph already grown, with the edges of the *)
(* lower branch first, with a dangling edge, and with a cycle that runs    *)
(* into the step limit.  Each embodiment is a walk of its own.             *)
(***************************************************************************)
EXTENDS DecomposedWalk, StorageWalk, RenderWalk, MediatedWalk, BackendWalk

MCNodeId ==
  {"start", "compute", "branch", "grow", "audit", "finalize", "lost",
   "grow_back", "again",
   "begin", "gate", "odd_branch", "even_branch", "mutate", "supersede",
   "compute_v1", "compute_v2", "end"}

InOrder ==
  <<"again", "audit", "begin", "branch", "compute", "compute_v1", "compute_v2",
    "end", "even_branch", "finalize", "gate", "grow", "grow_back", "lost",
    "mutate", "odd_branch", "start", "supersede">>
MCIdOrder == [n \in MCNodeId |-> CHOOSE i \in DOMAIN InOrder : InOrder[i] = n]

MCOp == [n \in MCNodeId |->
  CASE n = "start" -> "init"
    [] n = "begin" -> "set"
    [] n \in {"compute", "odd_branch", "even_branch"} -> "add"
    [] n = "branch" -> "classify"
    [] n = "gate" -> "parity"
    [] n \in {"grow", "grow_back"} -> "self_modify"
    [] n \in {"mutate", "supersede"} -> n
    [] n \in {"finalize", "end"} -> "finalize"
    [] OTHER -> "record"]
MCAmount == [n \in MCNodeId |->
  CASE n \in {"compute", "branch"} -> 5
    [] n = "begin" -> 7
    [] n = "odd_branch" -> 3
    [] n = "even_branch" -> 100
    [] OTHER -> 0]

Then(s, t) == Edge(s, "THEN", t, "none")
Branch(s, t, c) == Edge(s, "BRANCH", t, c)

MCGrowth == [n \in {"grow", "grow_back", "mutate", "supersede"} |->
  CASE n = "grow" ->
         [nodes |-> <<"audit">>, edges |-> <<Then("grow", "audit"), Then("audit", "finalize")>>]
    [] n = "grow_back" ->
         [nodes |-> <<"again">>, edges |-> <<Then("grow_back", "again"), Then("again", "branch")>>]
    [] n = "mutate" ->
         [nodes |-> <<"audit">>, edges |-> <<Branch("mutate", "audit", "audit"), Then("audit", "supersede")>>]
    [] n = "supersede" ->
         [nodes |-> <<"compute_v2">>,
          edges |-> <<Branch("supersede", "compute_v2", "v2"), Then("compute_v2", "end"),
                      Edge("compute_v2", "SUPERSEDES", "compute_v1", "none")>>]]

-----------------------------------------------------------------------------
(* The documents.                                                          *)

Fixture ==
  [nodes |-> <<"start", "compute", "branch", "grow", "finalize">>,
   edges |-> <<Then("start", "compute"), Then("compute", "branch"),
               Branch("branch", "grow", "high"), Branch("branch", "finalize", "low")>>]
Grown == Merge(Fixture, Missing(Fixture, "grow"))
LowFirst ==
  [Fixture EXCEPT !.edges =
    <<Then("start", "branch"), Then("compute", "branch"),
      Branch("branch", "grow", "high"), Branch("branch", "compute", "low")>>]
Looping ==
  [nodes |-> <<"start", "compute", "branch", "grow_back", "finalize">>,
   edges |-> <<Then("start", "compute"), Then("compute", "branch"),
               Branch("branch", "grow_back", "high"), Branch("branch", "finalize", "low")>>]
Dangling ==
  [Fixture EXCEPT !.edges = <<Then("start", "branch"), Branch("branch", "lost", "low")>>]
NoWay ==
  [Fixture EXCEPT !.edges = <<Then("start", "branch"), Branch("branch", "grow", "high")>>]

Corpus ==
  [nodes |-> <<"begin", "gate", "odd_branch", "even_branch", "mutate", "supersede",
               "compute_v1", "end">>,
   edges |-> <<Then("begin", "gate"), Branch("gate", "odd_branch", "odd"),
               Branch("gate", "even_branch", "even"), Then("odd_branch", "mutate"),
               Then("even_branch", "mutate"), Branch("mutate", "end", "done"),
               Branch("supersede", "compute_v1", "v1"), Then("compute_v1", "end")>>]
Spinning ==
  [Corpus EXCEPT !.edges = <<Then("begin", "gate"), Branch("gate", "begin", "odd")>>]
CorpusDangling == [Corpus EXCEPT !.edges = <<Then("begin", "lost")>>]

\* The services of STUDY-206 and the corpus of STUDY-208 add what a growing node
\* adds whether it is there or not, and are only started on graphs without it;
\* the tables of STUDY-206 refuse a node they have.
MCDocuments == [e \in DecomposedEmbodiment \cup StorageEmbodiment \cup RenderEmbodiment
                        \cup MediatedEmbodiment \cup Backend |->
  CASE e \in Backend -> {Corpus, Spinning, CorpusDangling}
    [] e \in MediatedEmbodiment \ {"sqlite_service"} ->
         {Fixture, LowFirst, Looping, Dangling, NoWay}
    [] OTHER -> {Fixture, Grown, LowFirst, Looping, Dangling, NoWay}]
MCEntry == [d \in UNION {MCDocuments[e] : e \in DOMAIN MCDocuments} |-> Head(d.nodes)]

-----------------------------------------------------------------------------
NoProcesses == mail = [q \in Queue |-> <<>>] /\ workers = {} /\ current = "start"
NoService ==
  /\ requests = <<>> /\ responses = <<>>
  /\ waiting = FALSE /\ service = FALSE /\ selfModified = FALSE

Init ==
  \/ DecomposedInit /\ NoService /\ materialized = <<>>
  \/ StorageInit /\ NoProcesses /\ NoService /\ materialized = <<>>
  \/ RenderInit /\ NoProcesses /\ NoService
  \/ MediatedInit /\ NoProcesses /\ materialized = <<>>
  \/ BackendInit /\ NoProcesses /\ NoService /\ materialized = <<>>

vars == <<walkVars, decomposedVars, materialized, mediatedVars>>

Decomposed ==
  embodiment \in DecomposedEmbodiment /\ UNCHANGED <<materialized, mediatedVars>>
Stored ==
  embodiment \in StorageEmbodiment /\ UNCHANGED <<decomposedVars, materialized, mediatedVars>>
Rendered ==
  embodiment \in RenderEmbodiment /\ UNCHANGED <<decomposedVars, mediatedVars>>
Mediated ==
  embodiment \in MediatedEmbodiment /\ UNCHANGED <<decomposedVars, materialized>>
Backed ==
  embodiment \in Backend /\ UNCHANGED <<decomposedVars, materialized, mediatedVars>>

Step ==
  \/ Decomposed /\ DecomposedStep
  \/ Stored /\ StorageStep
  \/ Rendered /\ RenderStep
  \/ Mediated /\ MediatedStep
  \/ Backed /\ BackendStep

Next ==
  \/ Decomposed /\ DecomposedNext
  \/ Stored /\ StorageNext
  \/ Rendered /\ RenderNext
  \/ Mediated /\ MediatedNext
  \/ Backed /\ BackendNext

\* The processes run: some step of the program that can be taken is taken.  No
\* failure is ever due.
Spec == Init /\ [][Next]_vars /\ WF_vars(Step)
=============================================================================
