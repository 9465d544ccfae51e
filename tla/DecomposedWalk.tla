--------------------------- MODULE DecomposedWalk ---------------------------
(***************************************************************************)
(* STUDY-203: a walk over a graph file, by one process; by a coordinator   *)
(* with an execution worker and a worker that is the only one to write; or *)
(* by an agent process that a dispatcher calls turn by turn.  The          *)
(* processes share the file and talk through queues; every wait for an     *)
(* answer has a timeout.  The file is replaced by an atomic rename.        *)
(***************************************************************************)
EXTENDS Walk

VARIABLES
  mail,          \* queue -> messages, oldest first
  workers,       \* worker processes that run
  current        \* the dispatcher's node

decomposedVars == <<mail, workers, current>>

DecomposedEmbodiment == {"single_process", "three_processes", "external_dispatch"}

Queue == {"exec", "result", "mod", "ack", "act", "done"}

\* What the processes tell each other besides the ids of nodes.
ASSUME SentinelsAssumption == {"STOP", "MODIFIED", "terminal"} \cap NodeId = {}
ASSUME DecomposedDocumentsAssumption ==
  \A e \in DecomposedEmbodiment : \A d \in Documents[e] :
    d \in Document /\ Entry[d] \in NodeId /\ ControlFlow(d)

document == <<doc, files, pending>>

\* apply_modification adds what is missing, and the file is saved to a temporary
\* file that a rename puts in its place.
Mut_ModifyNodeOnly(n) ==
  /\ doc' = [doc EXCEPT !.nodes = @ \o Missing(doc, n).nodes]
  /\ files' = <<doc'>>
  /\ UNCHANGED pending

Modify(n) ==
  /\ doc' = Merge(doc, Missing(doc, n))
  /\ files' = <<doc'>>
  /\ UNCHANGED pending

Send(queue, message) == mail' = [mail EXCEPT ![queue] = Append(@, message)]
Answer(from, to, message) ==
  mail' = [mail EXCEPT ![from] = Tail(@), ![to] = Append(@, message)]
Take(queue) == mail' = [mail EXCEPT ![queue] = Tail(@)]

DecomposedInit ==
  /\ WalkInit(DecomposedEmbodiment, {})
  /\ mail = [q \in Queue |-> <<>>]
  /\ workers = CASE embodiment = "single_process" -> {}
                 [] embodiment = "three_processes" -> {"execution", "modifier"}
                 [] embodiment = "external_dispatch" -> {"agent"}
  /\ current = walk.at

-----------------------------------------------------------------------------
(* The single process: load, execute, modify and save, reload, select.     *)

SingleVisit ==
  /\ embodiment = "single_process" /\ pc = "visit" /\ ~LimitReached(walk)
  /\ Has(doc, walk.at)
  /\ walk' = Executed(walk)
  /\ visited' = Append(visited, walk.at)
  /\ pc' = IF Grows(walk.at) THEN "modify" ELSE "route"
  /\ UNCHANGED <<embodiment, document, mail, workers, current>>

SingleRaises ==
  /\ embodiment = "single_process" /\ pc = "visit" /\ ~Has(doc, walk.at)
  /\ walk' = Over(walk, "failed")
  /\ pc' = "raised"
  /\ UNCHANGED <<embodiment, document, visited, mail, workers, current>>

SingleModify ==
  /\ embodiment = "single_process" /\ pc = "modify"
  /\ Modify(walk.at)
  /\ pc' = "route"
  /\ UNCHANGED <<embodiment, walk, visited, mail, workers, current>>

SingleRoute ==
  /\ embodiment = "single_process" /\ pc = "route"
  /\ walk' = SelectByTarget(doc, walk)
  /\ pc' = IF walk'.stage = "done" THEN "ended" ELSE "visit"
  /\ UNCHANGED <<embodiment, document, visited, mail, workers, current>>

\* An I/O error or a kill, anywhere: the rename is atomic.
SingleFails ==
  /\ embodiment = "single_process" /\ pc \in {"visit", "modify", "route"}
  /\ walk' = Over(walk, "failed")
  /\ pc' = "raised"
  /\ UNCHANGED <<embodiment, document, visited, mail, workers, current>>

-----------------------------------------------------------------------------
(* The coordinator and its two workers.                                    *)

AskExecution ==
  /\ embodiment = "three_processes" /\ pc = "visit" /\ ~LimitReached(walk)
  /\ Send("exec", walk.at)
  /\ pc' = "wait_result"
  /\ UNCHANGED <<embodiment, document, walk, visited, workers, current>>

\* A node that is not in the file kills the worker.
ExecutionWorker ==
  /\ "execution" \in workers /\ mail["exec"] # <<>>
  /\ IF Head(mail["exec"]) = "STOP" \/ ~Has(doc, Head(mail["exec"]))
       THEN /\ workers' = workers \ {"execution"}
            /\ Take("exec")
            /\ UNCHANGED walk
       ELSE /\ walk' = Executed(walk)
            /\ Answer("exec", "result", walk.at)
            /\ UNCHANGED workers
  /\ UNCHANGED <<embodiment, document, visited, pc, current>>

\* The coordinator records the visit; a modification is passed on and waited for.
Mut_TakeResultWithoutVisit ==
  /\ pc = "wait_result" /\ mail["result"] # <<>>
  /\ IF Grows(walk.at)
       THEN Answer("result", "mod", walk.at) /\ pc' = "wait_ack"
       ELSE Take("result") /\ pc' = "route"
  /\ UNCHANGED <<embodiment, document, walk, visited, workers, current>>

Mut_TakeResultRoutesAtOnce ==
  /\ pc = "wait_result" /\ mail["result"] # <<>>
  /\ visited' = Append(visited, Head(mail["result"]))
  /\ IF Grows(walk.at) THEN Answer("result", "mod", walk.at) ELSE Take("result")
  /\ pc' = "route"
  /\ UNCHANGED <<embodiment, document, walk, workers, current>>

TakeResult ==
  /\ pc = "wait_result" /\ mail["result"] # <<>>
  /\ visited' = Append(visited, Head(mail["result"]))
  /\ IF Grows(walk.at)
       THEN Answer("result", "mod", walk.at) /\ pc' = "wait_ack"
       ELSE Take("result") /\ pc' = "route"
  /\ UNCHANGED <<embodiment, document, walk, workers, current>>

\* It may die between the rename and the acknowledgement.
ModifierWorker ==
  /\ "modifier" \in workers /\ mail["mod"] # <<>>
  /\ IF Head(mail["mod"]) = "STOP"
       THEN Take("mod") /\ workers' = workers \ {"modifier"} /\ UNCHANGED document
       ELSE /\ Modify(Head(mail["mod"]))
            /\ \/ Answer("mod", "ack", "MODIFIED") /\ UNCHANGED workers
               \/ Take("mod") /\ workers' = workers \ {"modifier"}
  /\ UNCHANGED <<embodiment, walk, visited, pc, current>>

TakeAck ==
  /\ pc = "wait_ack" /\ mail["ack"] # <<>>
  /\ Take("ack")
  /\ pc' = "route"
  /\ UNCHANGED <<embodiment, document, walk, visited, workers, current>>

CoordinatorRoutes ==
  /\ embodiment = "three_processes" /\ pc = "route"
  /\ walk' = SelectByTarget(doc, walk)
  /\ pc' = IF walk'.stage = "done" THEN "stop" ELSE "visit"
  /\ UNCHANGED <<embodiment, document, visited, mail, workers, current>>

-----------------------------------------------------------------------------
(* The dispatcher and its agent, which executes, modifies and selects.     *)

Dispatch ==
  /\ embodiment = "external_dispatch" /\ pc = "visit"
  /\ Len(visited) < MaxSteps
  /\ Send("act", current)
  /\ pc' = "wait_done"
  /\ UNCHANGED <<embodiment, document, walk, visited, workers, current>>

\* The message stays at the head of the queue while the agent works on it.
AgentExecutes ==
  /\ "agent" \in workers /\ mail["act"] # <<>>
  /\ walk.stage = "execute" /\ Has(doc, Head(mail["act"]))
  /\ walk' = Executed([walk EXCEPT !.at = Head(mail["act"])])
  /\ UNCHANGED <<embodiment, document, visited, pc, mail, workers, current>>

AgentModifies ==
  /\ "agent" \in workers /\ walk.stage = "route"
  /\ Grows(walk.at) /\ ~Whole(doc, walk.at)
  /\ Modify(walk.at)
  /\ UNCHANGED <<embodiment, walk, visited, pc, mail, workers, current>>

\* The routing decision is the agent's: it tells the dispatcher where to go.
AgentRoutes ==
  /\ "agent" \in workers /\ walk.stage = "route"
  /\ Grows(walk.at) => Whole(doc, walk.at)
  /\ walk' = SelectByTarget(doc, walk)
  /\ Answer("act", "done", IF walk'.stage = "done" THEN "terminal" ELSE walk'.at)
  /\ UNCHANGED <<embodiment, document, visited, pc, workers, current>>

AgentExits ==
  /\ "agent" \in workers /\ mail["act"] # <<>>
  /\ Head(mail["act"]) = "STOP" \/ ~Has(doc, Head(mail["act"]))
  /\ Take("act")
  /\ workers' = workers \ {"agent"}
  /\ UNCHANGED <<embodiment, document, walk, visited, pc, current>>

TakeDone ==
  /\ pc = "wait_done" /\ mail["done"] # <<>>
  /\ Take("done")
  /\ visited' = Append(visited, current)
  /\ IF Head(mail["done"]) = "terminal"
       THEN pc' = "stop" /\ UNCHANGED current
       ELSE pc' = "visit" /\ current' = Head(mail["done"])
  /\ UNCHANGED <<embodiment, document, walk, workers>>

-----------------------------------------------------------------------------
(* The end: the step limit, timeouts, and the clean-up.                    *)

StopAtLimit ==
  /\ pc = "visit" /\ LimitReached(walk) /\ Len(visited) >= MaxSteps
  /\ walk' = Over(walk, "done")
  /\ pc' = IF workers = {} THEN "ended" ELSE "stop"
  /\ UNCHANGED <<embodiment, document, visited, mail, workers, current>>

\* "bounds every blocking queue read so a dead worker surfaces as an error
\* instead of a hang" (decomposed_agents.py:62): also when the worker is only
\* slow, and still at work.
Mut_TimesOutNever ==
  /\ FALSE
  /\ UNCHANGED <<walkVars, decomposedVars>>

TimesOut ==
  /\ \/ pc = "wait_result" /\ mail["result"] = <<>>
     \/ pc = "wait_ack" /\ mail["ack"] = <<>>
     \/ pc = "wait_done" /\ mail["done"] = <<>>
  /\ pc' = "abandon"
  /\ UNCHANGED <<embodiment, document, walk, visited, mail, workers, current>>

Inbox == {"exec", "mod", "act"}

SendStop ==
  /\ pc \in {"stop", "abandon"}
  /\ mail' = [q \in Queue |-> IF q \in Inbox THEN Append(mail[q], "STOP") ELSE mail[q]]
  /\ pc' = IF pc = "stop" THEN "join" ELSE "join_abandoned"
  /\ UNCHANGED <<embodiment, document, walk, visited, workers, current>>

\* The workers have exited, or are terminated after ten seconds.
Join ==
  /\ pc \in {"join", "join_abandoned"}
  /\ workers' = {}
  /\ pc' = IF pc = "join" THEN "ended" ELSE "raised"
  /\ walk' = IF walk.stage = "done" THEN walk ELSE Over(walk, "failed")
  /\ UNCHANGED <<embodiment, document, visited, mail, current>>

\* A worker dies; what it had put into a queue may not have been flushed.
WorkerDies ==
  /\ \E p \in workers : workers' = workers \ {p}
  /\ \E lost \in SUBSET (Queue \ Inbox) :
       mail' = [q \in Queue |-> IF q \in lost THEN <<>> ELSE mail[q]]
  /\ UNCHANGED <<embodiment, document, walk, visited, pc, current>>

DecomposedStep ==
  \/ SingleVisit \/ SingleRaises \/ SingleModify \/ SingleRoute
  \/ AskExecution \/ ExecutionWorker \/ TakeResult
  \/ ModifierWorker \/ TakeAck \/ CoordinatorRoutes
  \/ Dispatch \/ AgentExecutes \/ AgentModifies \/ AgentRoutes
  \/ AgentExits \/ TakeDone
  \/ StopAtLimit \/ TimesOut \/ SendStop \/ Join

DecomposedNext == DecomposedStep \/ SingleFails \/ WorkerDies

DecomposedSpec == DecomposedInit /\ [][DecomposedNext]_<<walkVars, decomposedVars>>
=============================================================================
