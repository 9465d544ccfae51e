---------------------------- MODULE StorageWalk ----------------------------
(***************************************************************************)
(* STUDY-204: one walk over a store that is a file, a dictionary or        *)
(* tables, the last two also behind a mediator that passes every call on.  *)
(* A modification is written one node and one edge at a time, each into    *)
(* the store that the walk reads.                                          *)
(***************************************************************************)
EXTENDS Walk

StorageEmbodiment ==
  {"serialized_file", "relational_sql", "mediated_memory", "mediated_sql"}

ASSUME StorageDocumentsAssumption ==
  \A e \in StorageEmbodiment : \A d \in Documents[e] :
    /\ d \in Document /\ Entry[d] \in NodeId
    /\ ControlFlow(d) /\ GrowsByParts(d) /\ \A n \in Growers(d) : Settled(d, n)

\* The databases are in memory.
StorageInit == WalkInit(StorageEmbodiment, StorageEmbodiment \ {"serialized_file"})

\* The FileStore with the first of p: a node that is there is taken out.
InFile(d, p) ==
  IF p.nodes = <<>> THEN WriteFirst(d, p)
  ELSE WriteFirst([d EXCEPT !.nodes = Kept(@, ToSet(@) \ {Head(p.nodes)})], p)

\* The SqliteStore: a row that is there is updated; a new one comes after all.
InTables(d, p) ==
  IF p.nodes # <<>> /\ Has(d, Head(p.nodes)) THEN d ELSE WriteFirst(d, p)

\* The DictStore: a key that is there keeps its place.
InMemory(d, p) ==
  [nodes |-> IF p.nodes = <<>> \/ Has(d, Head(p.nodes)) THEN d.nodes
             ELSE Append(d.nodes, Head(p.nodes)),
   edges |-> IF p.nodes = <<>> THEN Append(d.edges, Head(p.edges)) ELSE d.edges]

\* The GraphMediator passes the call on to the store behind it.
Mediate(d, p) == IF embodiment = "mediated_sql" THEN InTables(d, p) ELSE InMemory(d, p)

\* read_node and execute: a modification is made unless its node is there.
StorageVisit ==
  /\ pc = "visit" /\ ~LimitReached(walk) /\ Has(doc, walk.at)
  /\ walk' = Executed(walk)
  /\ pending' = IF Grows(walk.at) /\ ~Has(doc, Head(Growth[walk.at].nodes))
                THEN Growth[walk.at] ELSE Empty
  /\ pc' = "modify"
  /\ UNCHANGED <<embodiment, doc, files, visited>>

StorageStops ==
  /\ pc = "visit"
  /\ LimitReached(walk) \/ ~Has(doc, walk.at)
  /\ walk' = Over(walk, "done")
  /\ pc' = "ended"
  /\ UNCHANGED <<embodiment, doc, files, pending, visited>>

\* write_node, or one add_edge.
Mut_StorageWriteKeepsFile ==
  /\ pc = "modify" /\ pending # Empty
  /\ doc' = WriteFirst(doc, pending)
  /\ pending' = Rest(pending)
  /\ UNCHANGED <<embodiment, files, walk, visited, pc>>

StorageWrite ==
  /\ pc = "modify" /\ pending # Empty
  /\ doc' = CASE embodiment = "serialized_file" -> InFile(doc, pending)
              [] embodiment = "relational_sql" -> InTables(doc, pending)
              [] OTHER -> Mediate(doc, pending)
  /\ files' = IF files = <<>> THEN <<>> ELSE <<doc'>>
  /\ pending' = Rest(pending)
  /\ UNCHANGED <<embodiment, walk, visited, pc>>

StorageRoute ==
  /\ pc = "modify" /\ pending = Empty
  /\ visited' = Append(visited, walk.at)
  /\ walk' = SelectByTarget(doc, walk)
  /\ pc' = IF walk'.stage = "done" THEN "ended" ELSE "visit"
  /\ UNCHANGED <<embodiment, doc, files, pending>>

\* An error or a kill: a file that was being written is left torn.
StorageKilled ==
  /\ pc = "modify"
  /\ walk' = Over(walk, "failed")
  /\ pc' = "raised"
  /\ files' \in {files, IF files = <<>> \/ pending = Empty THEN files ELSE <<Torn>>}
  /\ UNCHANGED <<embodiment, doc, pending, visited>>

StorageStep == StorageVisit \/ StorageStops \/ StorageWrite \/ StorageRoute
StorageNext == StorageStep \/ StorageKilled

StorageSpec == StorageInit /\ [][StorageNext]_walkVars
=============================================================================
