---------------------------- MODULE MediatedWalk ----------------------------
(***************************************************************************)
(* STUDY-206: the agent decides what to write and an accessor writes it:   *)
(* into the agent's own graph and its file; through requests to a service, *)
(* which holds the graph or keeps it in tables; or through two queues to a *)
(* service in a process of its own, which answers one request at a time.   *)
(***************************************************************************)
EXTENDS Walk

VARIABLES
  requests,      \* to the service process, oldest first
  responses,     \* its answers: the graph as it was when it answered
  waiting,       \* the agent waits for an answer
  service,       \* the process runs
  selfModified   \* the agent has modified the graph

mediatedVars == <<requests, responses, waiting, service, selfModified>>

MediatedEmbodiment ==
  {"direct_write", "write_service", "service_process", "sqlite_service"}

\* The agent modifies its graph once (self_modified), and only the tables refuse
\* what is there.
ASSUME MediatedDocumentsAssumption ==
  \A e \in MediatedEmbodiment : \A d \in Documents[e] :
    /\ d \in Document /\ Entry[d] \in NodeId
    /\ ControlFlow(d) /\ GrowsByParts(d)
    /\ \A m, n \in Growers(d) : m = n
    /\ \A n \in Growers(d) :
         Apart(d, Growth[n]) \/ (e = "sqlite_service" /\ Whole(d, n))

InProcess == embodiment # "service_process"

MediatedInit ==
  /\ WalkInit(MediatedEmbodiment, MediatedEmbodiment \ {"direct_write"})
  /\ requests = <<>> /\ responses = <<>> /\ waiting = FALSE
  /\ service = ~InProcess
  /\ selfModified = FALSE

\* add_node or add_edge, when there is something to write; else get_node,
\* outgoing_edges, and at the end a snapshot.
Request == [op |-> IF pc = "modify" THEN "write" ELSE "read", what |-> pending]
Shutdown == [op |-> "shutdown", what |-> Empty]

Applied(request) ==
  IF request.op = "write" THEN WriteFirst(doc, request.what) ELSE doc

-----------------------------------------------------------------------------
(* What the agent does with the answer, the graph d.                       *)

\* The first time the agent meets a growing node it writes what the node adds;
\* a node that is not there is an error.
Mut_SeeNodeRoutesFirst(d) ==
  /\ IF Has(d, walk.at)
     THEN /\ walk' = Executed(walk)
          /\ visited' = Append(visited, walk.at)
          /\ pending' = IF Grows(walk.at) /\ ~selfModified THEN Growth[walk.at] ELSE Empty
          /\ pc' = IF Terminal(walk.at) THEN "snapshot" ELSE "route"
     ELSE pc' = "abandon" /\ UNCHANGED <<walk, visited, pending>>
  /\ UNCHANGED selfModified

SeeNode(d) ==
  /\ IF Has(d, walk.at)
     THEN /\ walk' = Executed(walk)
          /\ visited' = Append(visited, walk.at)
          /\ pending' = IF Grows(walk.at) /\ ~selfModified THEN Growth[walk.at] ELSE Empty
          /\ pc' = CASE pending' # Empty -> "modify"
                     [] Terminal(walk.at) -> "snapshot"
                     [] OTHER -> "route"
     ELSE pc' = "abandon" /\ UNCHANGED <<walk, visited, pending>>
  /\ UNCHANGED selfModified

SeeWritten ==
  /\ pending' = Rest(pending)
  /\ selfModified' = (pending' = Empty)
  /\ pc' = IF pending' = Empty THEN "route" ELSE "modify"
  /\ UNCHANGED <<walk, visited>>

\* Edges none of which can be taken are an error.
SeeEdges(d) ==
  LET edges == Outgoing(d, walk.at)
      ways == FirstMatch(edges, walk.result)
  IN  /\ pc' = CASE edges = <<>> -> "snapshot"
                 [] ways # <<>> -> "visit"
                 [] OTHER -> "abandon"
      /\ walk' = IF ways # <<>> THEN MovedTo(walk, Head(ways).target_id) ELSE walk
      /\ UNCHANGED <<pending, visited, selfModified>>

SeeSnapshot ==
  /\ pc' = "shutdown"
  /\ walk' = Over(walk, "done")
  /\ UNCHANGED <<pending, visited, selfModified>>

SeeAnswer(d) ==
  \/ pc = "visit" /\ SeeNode(d)
  \/ pc = "modify" /\ SeeWritten
  \/ pc = "route" /\ SeeEdges(d)
  \/ pc = "snapshot" /\ SeeSnapshot

-----------------------------------------------------------------------------
(* The calls.                                                              *)

\* The id of a node is the primary key of its table.
RowExists ==
  /\ embodiment = "sqlite_service" /\ pc = "modify"
  /\ pending.nodes # <<>> /\ Has(doc, Head(pending.nodes))

InsertRefused ==
  /\ RowExists
  /\ pc' = "abandon"
  /\ UNCHANGED <<embodiment, doc, files, walk, pending, visited, mediatedVars>>

\* In the agent's own process, at once; a direct write also saves the file.
CallInProcess ==
  /\ InProcess /\ ~LimitReached(walk) /\ ~RowExists
  /\ doc' = Applied(Request)
  /\ SeeAnswer(doc')
  /\ files' = IF files = <<>> THEN <<>> ELSE <<doc'>>
  /\ UNCHANGED <<embodiment, requests, responses, waiting, service>>

SendRequest ==
  /\ ~InProcess /\ ~waiting /\ ~LimitReached(walk)
  /\ pc \in {"visit", "modify", "route", "snapshot"}
  /\ requests' = Append(requests, Request)
  /\ waiting' = TRUE
  /\ UNCHANGED <<walkVars, responses, service, selfModified>>

\* The service answers in order, also an agent that has given up, until it is
\* told to stop.
ServeRequest ==
  /\ service /\ requests # <<>>
  /\ doc' = Applied(Head(requests))
  /\ requests' = Tail(requests)
  /\ responses' = Append(responses, doc')
  /\ service' = (Head(requests).op # "shutdown")
  /\ UNCHANGED <<embodiment, files, walk, pending, visited, pc, waiting, selfModified>>

TakeAnswer ==
  /\ waiting /\ responses # <<>>
  /\ SeeAnswer(Head(responses))
  /\ responses' = Tail(responses)
  /\ waiting' = FALSE
  /\ UNCHANGED <<embodiment, doc, files, requests, service>>

\* get(timeout=30) raises, whether the service is dead or slow.
Mut_NoAnswerWaitsForService ==
  /\ waiting /\ responses = <<>> /\ service
  /\ waiting' = FALSE
  /\ pc' = "abandon"
  /\ UNCHANGED <<embodiment, doc, files, walk, pending, visited,
                 requests, responses, service, selfModified>>

NoAnswer ==
  /\ waiting /\ responses = <<>>
  /\ waiting' = FALSE
  /\ pc' = "abandon"
  /\ UNCHANGED <<embodiment, doc, files, walk, pending, visited,
                 requests, responses, service, selfModified>>

\* After its last step the walk is an error.
TooManySteps ==
  /\ pc = "visit" /\ LimitReached(walk)
  /\ pc' = "abandon"
  /\ UNCHANGED <<embodiment, doc, files, walk, pending, visited, mediatedVars>>

SendShutdown ==
  /\ ~InProcess /\ pc \in {"shutdown", "abandon"}
  /\ requests' = Append(requests, Shutdown)
  /\ pc' = IF pc = "shutdown" THEN "join" ELSE "join_abandoned"
  /\ UNCHANGED <<embodiment, doc, files, walk, pending, visited,
                 responses, waiting, service, selfModified>>

\* The service has stopped, or is terminated after ten seconds.
AgentReturns ==
  /\ IF InProcess THEN pc \in {"shutdown", "abandon"}
     ELSE pc \in {"join", "join_abandoned"}
  /\ service' = FALSE
  /\ walk' = IF walk.stage = "done" THEN walk ELSE Over(walk, "failed")
  /\ pc' = IF walk.stage = "done" THEN "ended" ELSE "raised"
  /\ UNCHANGED <<embodiment, doc, files, pending, visited,
                 requests, responses, waiting, selfModified>>

ServiceDies ==
  /\ service
  /\ service' = FALSE
  /\ responses' \in {responses, <<>>}
  /\ UNCHANGED <<walkVars, requests, waiting, selfModified>>

\* A direct write that is killed leaves the file torn.
WriterKilled ==
  /\ embodiment = "direct_write" /\ pc = "modify"
  /\ files' \in {files, <<Torn>>}
  /\ walk' = Over(walk, "failed")
  /\ pc' = "raised"
  /\ UNCHANGED <<embodiment, doc, pending, visited, mediatedVars>>

MediatedStep ==
  \/ CallInProcess \/ InsertRefused \/ SendRequest \/ ServeRequest
  \/ TakeAnswer \/ NoAnswer \/ TooManySteps \/ SendShutdown \/ AgentReturns

MediatedNext == MediatedStep \/ ServiceDies \/ WriterKilled

MediatedSpec == MediatedInit /\ [][MediatedNext]_<<walkVars, mediatedVars>>
=============================================================================
