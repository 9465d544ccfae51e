---------------------------- MODULE MCSupersede ----------------------------
(* Three roles, one of which may be vacant; a type that requires a property *)
(* and one that the schema does not allow.                                  *)
EXTENDS Supersede, TLC
CONSTANTS a, b, c, w1, w2

MCNodeId == {a, b, c}
MCWriter == {w1, w2}
MCType == {"proc", "alien"}
MCProperty == {"owner"}
MCRequired == [t \in MCType |-> IF t = "proc" THEN {"owner"} ELSE {}]
MCAllowed == {"proc"}
MCRelation == {"INVOKES", "SUPERSEDED_BY"}
Symmetry == Permutations(MCNodeId) \cup Permutations(MCWriter)
=============================================================================
