---------------------------- MODULE MCProvenance ----------------------------
(* Two agents that share one type and one holder of the graph, over two    *)
(* ids; the ledger's bound allows add, link, remove, re-add under another  *)
(* agent, and re-link of the same id and edge.                             *)
EXTENDS Provenance, TLC
CONSTANTS n1, n2, OPERAND, CONCEPT, FEEDS, buyer, seller, app, k1

MCNodeId == {n1, n2}
MCNodeType == {OPERAND, CONCEPT}
MCRelation == {FEEDS}
MCCreator == {buyer, seller, app}
MCKey == {k1}
MCSymmetry == Permutations(MCNodeId)
MCAllowed == [a \in {buyer, seller} |->
                IF a = buyer THEN {OPERAND} ELSE {OPERAND, CONCEPT}]

\* A small hash that depends on the sequence number, the operation and the
\* previous digest.
MCDigest == 0..12
OperationCode ==
  [add_node |-> 1, remove_node |-> 2, add_edge |-> 3,
   remove_edge |-> 4, update_node |-> 5]
MCHash(content, previous) ==
  (3 * content.sequence + OperationCode[content.operation]
     + (IF previous \in MCDigest THEN 5 * (previous + 1) ELSE 0)) % 13
=============================================================================
