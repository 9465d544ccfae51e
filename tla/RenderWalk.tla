----------------------------- MODULE RenderWalk -----------------------------
(***************************************************************************)
(* STUDY-205: one walk over a graph file, whose modifications are written  *)
(* by an edit in place, by rendering the file anew, by rendering it into a *)
(* new file, or the first one in place and the others by rendering.  Each  *)
(* node and each edge of a modification is written by itself.              *)
(***************************************************************************)
EXTENDS Walk

VARIABLE materialized   \* the strategies used so far

RenderEmbodiment == {"in_place", "rerender", "rerender_new_file", "hybrid"}

ASSUME RenderDocumentsAssumption ==
  \A e \in RenderEmbodiment : \A d \in Documents[e] :
    /\ d \in Document /\ Entry[d] \in NodeId
    /\ ControlFlow(d) /\ GrowsByParts(d) /\ \A n \in Growers(d) : Settled(d, n)

RenderInit ==
  /\ WalkInit(RenderEmbodiment, {})
  /\ materialized = <<>>

\* Nodes in the order of their ids, edges in that of their ends.
Rerender(d) ==
  LET InIds == {p \in ToSet(d.nodes) \X ToSet(d.nodes) : IdOrder[p[1]] < IdOrder[p[2]]}
      InEnds == {p \in ToSet(d.edges) \X ToSet(d.edges) :
        LET e == p[1]
            f == p[2]
        IN  \/ IdOrder[e.source_id] < IdOrder[f.source_id]
            \/ e.source_id = f.source_id /\ IdOrder[e.target_id] < IdOrder[f.target_id]}
  IN  [nodes |-> Sorted(d.nodes, InIds), edges |-> Sorted(d.edges, InEnds)]

NextStrategy ==
  CASE embodiment # "hybrid" -> embodiment
    [] embodiment = "hybrid" /\ materialized = <<>> -> "in_place"
    [] OTHER -> "rerender"

\* A new file becomes the active one and leaves the others as they are.
Mut_FilesWithOverwrites(content) == <<content>>

FilesWith(content) ==
  IF NextStrategy = "rerender_new_file" THEN Append(files, content)
  ELSE [files EXCEPT ![Len(files)] = content]

\* The visit is recorded before the modification is made.
RenderVisit ==
  /\ pc = "visit" /\ ~LimitReached(walk) /\ Has(doc, walk.at)
  /\ walk' = Executed(walk)
  /\ visited' = Append(visited, walk.at)
  /\ pending' = IF Grows(walk.at) /\ ~Has(doc, Head(Growth[walk.at].nodes))
                THEN Growth[walk.at] ELSE Empty
  /\ pc' = "modify"
  /\ UNCHANGED <<embodiment, doc, files, materialized>>

RenderStops ==
  /\ pc = "visit"
  /\ LimitReached(walk) \/ ~Has(doc, walk.at)
  /\ walk' = Over(walk, "done")
  /\ pc' = "ended"
  /\ UNCHANGED <<embodiment, doc, files, pending, visited, materialized>>

\* write_node or add_edge, and _materialize.
RenderWrite ==
  /\ pc = "modify" /\ pending # Empty
  /\ doc' = IF NextStrategy = "in_place" THEN WriteFirst(doc, pending)
            ELSE Rerender(WriteFirst(doc, pending))
  /\ files' = FilesWith(doc')
  /\ materialized' = Append(materialized, NextStrategy)
  /\ pending' = Rest(pending)
  /\ UNCHANGED <<embodiment, walk, visited, pc>>

RenderRoute ==
  /\ pc = "modify" /\ pending = Empty
  /\ walk' = SelectByTarget(doc, walk)
  /\ pc' = IF walk'.stage = "done" THEN "ended" ELSE "visit"
  /\ UNCHANGED <<embodiment, doc, files, pending, visited, materialized>>

\* Killed in write_text: the file that was being written is torn.
RenderKilled ==
  /\ pc = "modify" /\ pending # Empty
  /\ walk' = Over(walk, "failed")
  /\ pc' = "raised"
  /\ files' \in {files, FilesWith(Torn)}
  /\ UNCHANGED <<embodiment, doc, pending, visited, materialized>>

RenderStep == RenderVisit \/ RenderStops \/ RenderWrite \/ RenderRoute
RenderNext == RenderStep \/ RenderKilled

RenderSpec == RenderInit /\ [][RenderNext]_<<walkVars, materialized>>
=============================================================================
