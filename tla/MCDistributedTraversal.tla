---------------------- MODULE MCDistributedTraversal ----------------------
(* graph_initial.json, started with its odd number and with an even one,   *)
(* over two shards.                                                         *)
EXTENDS DistributedTraversal

MCNodeId == {"start", "gate", "odd_branch", "even_branch", "mutate", "end", "audit"}
MCShard == {0, 1}

\* SHA-1 modulo 2.
MCShardOf == [id \in MCNodeId |-> IF id \in {"gate", "mutate"} THEN 0 ELSE 1]

Do(id, kind, n) == [id |-> id, op |-> [kind |-> kind, n |-> n]]
Then(source, target, condition) ==
  [source |-> source, target |-> target, condition |-> condition]

Graph(first) ==
  [nodes |-> {Do("start", "set", first), Do("gate", "parity", 0),
              Do("odd_branch", "add", 3), Do("even_branch", "add", 100),
              Do("mutate", "self_modify", 0), Do("end", "finalize", 0)},
   edges |-> {Then("start", "gate", Default),
              Then("gate", "odd_branch", "odd"), Then("gate", "even_branch", "even"),
              Then("odd_branch", "mutate", Default),
              Then("even_branch", "mutate", Default)}]

MCGraphs == {Graph(7), Graph(8)}
=============================================================================
