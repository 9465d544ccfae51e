-------------------------------- MODULE Walk --------------------------------
(***************************************************************************)
(* The state that every embodiment of a walk has, and what all of them     *)
(* promise.  The modules that extend this one say through which processes, *)
(* files and services each study takes the walk's steps.                   *)
(***************************************************************************)
EXTENDS WalkGraph

CONSTANTS
  Entry,         \* document -> where a walk enters it
  Documents,     \* embodiment -> the documents its walks are started on
  Torn           \* a file whose writing was cut short

VARIABLES
  embodiment,    \* the study's condition that walks; constant
  doc,           \* the document the agent reads
  files,         \* the files the run has written, oldest first
  walk,          \* the walk
  pending,       \* what is still to be written of a modification
  visited,       \* the nodes the program reports as visited
  pc             \* where the program is

walkVars == <<embodiment, doc, files, walk, pending, visited, pc>>

ASSUME TornAssumption == Torn \notin Document

\* A graph of control flow only, in which what a growing node adds does not grow.
Flows(d) == \A e \in ToSet(d.edges) : e.relation # "SUPERSEDES"
ControlFlow(d) ==
  /\ Flows(d)
  /\ \A n \in ToSet(d.nodes) : Grows(n) =>
       Flows(Growth[n]) /\ \A m \in ToSet(Growth[n].nodes) : ~Grows(m)

\* What a growing node adds, each part of it once; it does not grow, and no other
\* node adds any of it.
Growers(d) == {n \in ToSet(d.nodes) : Grows(n)}
Apart(d, e) ==
  ToSet(d.nodes) \cap ToSet(e.nodes) = {} /\ ToSet(d.edges) \cap ToSet(e.edges) = {}
GrowsByParts(d) ==
  \A n \in Growers(d) :
    /\ Growth[n].nodes # <<>>
    /\ IsInjective(Growth[n].nodes) /\ IsInjective(Growth[n].edges)
    /\ \A m \in ToSet(Growth[n].nodes) : ~Grows(m)
    /\ \A m \in Growers(d) \ {n} : Apart(Growth[m], Growth[n])

\* It is not there, or all of it is.
Settled(d, n) == Apart(d, Growth[n]) \/ Whole(d, n)

WalkInit(embodiments, inMemory) ==
  /\ embodiment \in embodiments
  /\ doc \in Documents[embodiment]
  /\ files = IF embodiment \in inMemory THEN <<>> ELSE <<doc>>
  /\ walk = Start(Entry[doc])
  /\ pending = Empty
  /\ visited = <<>>
  /\ pc = "visit"

\* What STUDY-203, 204 and 205 select: of the eligible edges, the one whose
\* target id sorts first.  A RESULT node ends the walk before.
Mut_SelectByTargetIgnoresResult(d, w) ==
  IF Terminal(w.at) \/ Outgoing(d, w.at) = <<>> THEN Over(w, "done")
  ELSE MovedTo(w, Head(Outgoing(d, w.at)).target_id)

SelectByTarget(d, w) ==
  LET eligible == ToSet(Eligible(Outgoing(d, w.at), w.result))
      chosen == CHOOSE e \in eligible :
                  \A f \in eligible : IdOrder[e.target_id] <= IdOrder[f.target_id]
  IN  IF Terminal(w.at) \/ eligible = {} THEN Over(w, "done")
      ELSE MovedTo(w, chosen.target_id)

\* What STUDY-206 and 208 select among edges: the first whose condition is the
\* result, else the first without a condition.
FirstMatch(edges, result) ==
  Kept(edges, {e \in ToSet(edges) : e.condition = result})
    \o Kept(edges, {e \in ToSet(edges) : e.condition = "none"})

-----------------------------------------------------------------------------
(* Properties.                                                             *)

Reference == INSTANCE ReferenceWalk

\* Every embodiment walks the way the graph says: each of its steps is a step of
\* the reference walk or leaves it alone.  So whatever processes, files and
\* queues it uses, and wherever one of them fails, an edge is only taken on the
\* result of the node before it, out of a graph that holds the whole modification
\* of that node, and nothing reaches the graph once the walk is over.
WalksAsTheGraphSays == [][Reference!ReferenceNext]_<<doc, walk>>

\* A program that returns reports what was executed, in order, in whichever
\* process the execution took place, and leaves in its file the graph it walked.
ReportsAndKeepsTheWalk ==
  pc = "ended" =>
    /\ walk.stage = "done" /\ visited = walk.executed
    /\ files # <<>> => Last(files) = doc

\* Where a study writes by an atomic rename, by one commit or into a new file, no
\* failure tears a file or leaves a part of a modification in it, and a new file
\* leaves those before it alone.
EarlierFileSurvives ==
  [][/\ embodiment \in {"single_process", "three_processes", "external_dispatch",
                        "relational"}
          => \A i \in DOMAIN files :
               files'[i] # files[i]
                 => files'[i] # Torn /\ Whole(files'[i], walk.at)
     /\ embodiment = "rerender_new_file" => IsPrefix(files, files')]_files

\* Every walk ends: by itself, at its limit, or by the error that a dead process
\* or an unanswered request turns into.
WalkEnds == <>(pc \in {"ended", "raised"})
=============================================================================
