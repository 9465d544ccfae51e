----------------------------- MODULE SharedFile -----------------------------
(***************************************************************************)
(* STUDY-104, 105 and 111: processes that only share a graph file.  An     *)
(* orchestrator runs them one after the other, whatever their exit status. *)
(* Each one loads the graph, adds to its copy and saves it whole, which    *)
(* truncates the file before it is written.                                *)
(***************************************************************************)
EXTENDS Lists

CONSTANTS
  Absent,        \* no file
  Torn           \* a file that was truncated and not written

ASSUME FileAssumption == Absent # Torn

VARIABLES
  scenario,      \* the demonstration that runs; constant
  running,       \* the process that runs: what it is, and in which round
  pc,            \* where it is
  memory,        \* its copy of the graph
  file,          \* the graph file
  saved,         \* the graph that was last saved completely
  outcome        \* of the demonstration: none yet, "ended" or "raised"

sharedVars == <<scenario, running, pc, memory, file, saved, outcome>>

EmptyGraph == [nodes |-> <<>>, edges |-> <<>>]
Graph(N, E) == [nodes : Seq(N), edges : Seq(E)]

Process(role, round) == [role |-> role, round |-> round]

SharedInit(demonstration, first, content) ==
  /\ scenario = demonstration
  /\ running = first
  /\ pc = "load"
  /\ memory = EmptyGraph
  /\ file = content
  /\ saved = EmptyGraph
  /\ outcome = "none"

\* A missing file is an empty graph; a torn one ends the process.
Mut_LoadTornAsEmpty ==
  /\ pc = "load"
  /\ memory' = IF file \in {Absent, Torn} THEN EmptyGraph ELSE file
  /\ pc' = "work"
  /\ UNCHANGED <<scenario, running, file, saved, outcome>>

Load ==
  /\ pc = "load"
  /\ IF file = Torn THEN pc' = "exit" /\ UNCHANGED memory
     ELSE /\ memory' = IF file = Absent THEN EmptyGraph ELSE file
          /\ pc' = "work"
  /\ UNCHANGED <<scenario, running, file, saved, outcome>>

\* What a process makes of its copy; then it saves.
Contributes(graph) ==
  /\ memory' = graph
  /\ pc' = "save"
  /\ UNCHANGED <<scenario, running, file, saved, outcome>>

Adds(nodes, edges) ==
  Contributes([nodes |-> memory.nodes \o nodes, edges |-> memory.edges \o edges])

OpenForWriting ==
  /\ pc = "save"
  /\ file' = Torn
  /\ pc' = "write"
  /\ UNCHANGED <<scenario, running, memory, saved, outcome>>

Write ==
  /\ pc = "write"
  /\ file' = memory
  /\ saved' = memory
  /\ pc' = "exit"
  /\ UNCHANGED <<scenario, running, memory, outcome>>

\* A process may die anywhere: no API key, no answer it can use, a kill.
Dies ==
  /\ pc \in {"load", "work", "save", "write"}
  /\ pc' = "exit"
  /\ UNCHANGED <<scenario, running, memory, file, saved, outcome>>

SharedNext == Load \/ OpenForWriting \/ Write \/ Dies

\* The orchestrator's next step, after a process has exited.
Runs(process) ==
  /\ running' = process
  /\ pc' = "load"
  /\ memory' = EmptyGraph
  /\ UNCHANGED <<scenario, file, saved, outcome>>

Finishes(how) ==
  /\ outcome' = how
  /\ pc' = "over"
  /\ UNCHANGED <<scenario, running, memory, file, saved>>

Readable == file \notin {Absent, Torn}

-----------------------------------------------------------------------------
(* Properties.                                                             *)

\* Whatever process dies, and wherever, the next one that saves the file saves
\* everything that had been saved before: a torn file stops every later process
\* instead of being taken for an empty graph.
ContributionsKept ==
  [][IsPrefix(saved.nodes, saved'.nodes) /\ IsPrefix(saved.edges, saved'.edges)]_saved
=============================================================================
