------------------------ MODULE MCCrossFileMutation ------------------------
(* The fixtures' files A and B: a stage in A that refers to a report in B,  *)
(* which is also linked inside B; one more id for a spawned node, one for a *)
(* replacement.                                                             *)
EXTENDS CrossFileMutation
CONSTANTS fileA, fileB, w1, w2, stage, report, new1, new2

MCFile == {fileA, fileB}
OneProcess == {w1}
TwoProcesses == {w1, w2}
MCNodeId == {stage, report, new1, new2}
ThreeNodeId == {stage, report, new1}
AllPairs == {<<fileA, fileB>>, <<fileB, fileA>>, <<fileB, fileB>>}
AtoB == {<<fileA, fileB>>}
MCFailAfter == {"none", "before_rename"}
NoFailure == {"none"}
MCRelation == {"FEEDS", "SUPERSEDED_BY"}

Active(ids) == [n \in NodeId |-> IF n \in ids THEN "active" ELSE NoNode]

MCInitialFiles ==
  [f \in MCFile |->
     IF f = fileA
     THEN [nodes |-> Active({stage}), version |-> 1,
           edges |-> {LinkTo(stage, <<fileB, report>>, "FEEDS")}]
     ELSE [nodes |-> Active({stage, report}), version |-> 1,
           edges |-> {LinkTo(stage, Here(report), "FEEDS")}]]
=============================================================================
