--------------------------- MODULE LocalTraversal ---------------------------
(***************************************************************************)
(* Condition A of STUDY-209, the golden reference: Agent.traverse over a   *)
(* LocalStore in the same process.  Once something outside the walk has    *)
(* failed this reference promises nothing more.                            *)
(***************************************************************************)
EXTENDS Traversal

VARIABLES
  nodes, edges,   \* the store
  phase,          \* what the agent does next, or how the walk ended
  current, acc, token,
  sequence,
  failed

localVars == <<nodes, edges, phase, current, acc, token, sequence, failed>>

WalkInit ==
  /\ phase = "read"
  /\ current = "start"
  /\ acc = 0
  /\ token = "next"
  /\ sequence = <<>>

LocalInit ==
  /\ \E g \in Graphs : nodes = g.nodes /\ edges = g.edges
  /\ WalkInit
  /\ failed = FALSE

ReadAndExecute ==
  /\ phase = "read"
  /\ \E node \in nodes :
       /\ node.id = current
       /\ token' = TokenOf(node.op, acc)
       /\ acc' = NewAcc(node.op, acc)
       /\ phase' = IF node.op.kind = "self_modify" THEN "modify" ELSE "select"
  /\ sequence' = Append(sequence, current)
  /\ UNCHANGED <<nodes, edges, current>>

Modify ==
  /\ phase = "modify"
  /\ IF "audit" \in Ids(nodes)
       THEN UNCHANGED <<nodes, edges>>
       ELSE nodes' = nodes \cup AddNodes /\ edges' = edges \cup AddEdges
  /\ phase' = "select"
  /\ UNCHANGED <<current, acc, token, sequence>>

Select ==
  /\ phase = "select"
  /\ LET options == Selected(Outgoing(edges, current), token)
     IN  IF options = {}
           THEN phase' = "returned" /\ UNCHANGED current
           ELSE phase' = "read" /\ \E e \in options : current' = e.target
  /\ UNCHANGED <<nodes, edges, acc, token, sequence>>

LocalNext ==
  \/ ~failed /\ (ReadAndExecute \/ Modify \/ Select) /\ UNCHANGED failed
  \/ failed'

LocalSpec == LocalInit /\ [][LocalNext]_localVars
=============================================================================
