# Specifications of the Superseding Graph Substrate

TLA+ modules for the reference implementation (`src/sgs`) and the studies
(`studies/STUDY-*`) of this repository, the TLC configurations that check them
on small instances and TLAPS proofs of what matters most for every instance.

    tlc -config MCProvenance.cfg MCProvenance.tla  a run
    tlapm SGS_proofs.tla                           the proofs of a module

## The system and its parts

| part | state | operations | meets the others by |
|---|---|---|---|
| **SGS** (`sgs/graph.py`, `models/`) | nodes by id, list of edges | add/remove/update node, add/remove edge, queries, save/load | shared object: everyone below holds a reference to it |
| **Agent** (`sgs/agent.py`) | id, allowed node types | add node, add edge, filtered reads | calls the graph (or the provenance wrapper) |
| **ProvenanceGraph** (`sgs/provenance.py`) | ledger, sequence number | the graph's mutations, `verify`, `history`, `who_created` | wraps the graph, is handed to agents in its place |
| **GraphExecutor** (`sgs/executor.py`) | order, outputs, trace | `execute`: sort, then run each node | reads the live graph, applies transforms to it |
| **TransformRegistry** (`sgs/transform.py`) | name -> function | `register`, `get`, two builtins | called by the executor, returns nodes and edges |
| **CrossFileTransaction** (STUDY-207) | staged writes, temporaries, log | `stage`, `commit` with rollback and restoration | the directory's files, shared with other writers |
| **Substrate and cross-file mutations** (STUDY-207) | in-memory copies of several graph files | `mutate_cross_file`, `add_cross_file_edge`, `supersede_cross_file`, `reload` | commits through the transaction |
| **Networked / distributed store** (STUDY-209) | a store process per shard | read and write commands over a socket | one agent walks the graph through the client |
| **Supersede** (STUDY-140) | nodes with status, edges, version, provenance | `supersede`, `apply_llm_proposal` | optimistic version check between writers |
| **Mutation engine** (STUDY-109) | nodes, edges, mutation log | validation, five mutations, batches with rollback | the batches come from a language model |
| **Nested graphs** (STUDY-107) | scopes, context stack, trace, results | hierarchical execution, `flatten` | a node stands for the graph in another file |
| **Decomposed agents** (STUDY-203) | the walk's position, queues, the graph file | visit, modify, route | queues between coordinator and workers, or dispatcher and agent; the file |
| **Storage-independent substrate** (STUDY-204) | a file, a dictionary or tables | read, add node, add edge | one walk over the store, directly or through a mediator |
| **Re-render self-modification** (STUDY-205) | the active graph file and earlier ones | edit in place, render anew, render into a new file | one walk over the file |
| **API-mediated self-modification** (STUDY-206) | the graph, behind an accessor | read and write requests | a write service: in process, in a process behind two queues, or over tables |
| **Substrate genus** (STUDY-208) | five backends | `read_node`, `write_modification`, `persist` | one walk through one contract |
| **Process isolation** (STUDY-104) | one graph file | load, contribute, save; compute | separate processes, the file |
| **Partitions, autonomous decision** (STUDY-105, 111) | one graph file, each party's private data | post, allocate; bid, answer | separate processes, the file; an orchestrator that reads it |
| **Multi-file substrate** (STUDY-202) | graphs in files | resolve references, govern by `SUPERSEDES` | reads what a script wrote |
| **Coordination, value exchange** (STUDY-101, 110), **living graph** (STUDY-180) | | | code that does not run on this `sgs`, tests |

The library itself is sequential Python without threads. What is hard in it are
long sequences of legal calls by several holders of one graph (agents,
executor, transforms, applications), the graph changing under a run that has
fixed its order, failures in the middle of an operation that touches several
things (a transform's result, a batch of files), and, in the studies, several
processes over the same files, or talking through queues that time out. What
has to hold:

- graph: edges join existing nodes, keys stay unique, a node keeps what it is;
- agents: stamps and types agree, at all times and not only when written;
- provenance: the chain verifies, and the ledger accounts for the graph;
- executor: dependencies first, cycles found, values delivered although the
  graph grows, an end to every run, a sound graph after a failed one;
- transaction: all of the files or none, whatever fails, and enough on disk to
  finish after a crash;
- self-modifying walks: the same walk whatever process, queue, service or store
  takes its steps, every modification once and whole before it is routed over;
- shared files: what a process saved is still there after any later one;
- mutation batches: all or nothing, and the results explain the graph;
- nested graphs: a result means what its own scope says, whatever the order.

`PROJECT.json` lists each hazard with its line and the properties that cover it.

## Modules

    SGSGraph <- Agents <- Provenance           EXTENDS, each adds its state
       ^
       +-- TopologicalSort <- Executor
    CrossFileTransaction  --implements-->  AtomicStore
       ^
       +-- CrossFileMutation
    Supersede
    Traversal <- LocalTraversal
       ^              ^ implements
       +-- DistributedTraversal
    Lists
       ^
       +-- WalkGraph <- ReferenceWalk
       |      ^              ^ implements
       |      +-- Walk <- DecomposedWalk, StorageWalk, RenderWalk, MediatedWalk, BackendWalk
       +-- SharedFile <- IsolatedAgents, SupplyChain
    MutationEngine
    NestedExecutor

**SGSGraph** is class `SGS`. `nodes` is the dictionary as a total function with
`NoNode` for a missing key, `edges` the list as a set. One action per mutating
method, with the method's checks as its guard. A call that raises `ValueError`
or returns `None` changes nothing, so it is an action that is not enabled. A
node's payload is reduced to the set of its keys, its metadata to the creator.

**Agents** adds `Agent`: `Allowed` maps agent ids to types, `AgentAddNode` and
`AgentAddEdge` carry the type checks, `VisibleNodes` and `VisibleEdges` are what
the agent reads. `HolderWrites` is all other code with a reference to the graph;
it stamps a name of its own. The type check of `add_edge` needs both ends, the
filter of `get_edges` one, as in the code.

**Provenance** adds `ProvenanceGraph`: each logged operation is the call to the
graph conjoined with `Log`, the append of one entry. `Hash` is a constant
operator of which only its range is assumed.

**TopologicalSort** is `_topological_sort`, one action for the set-up, one per
turn of the loop and one for the final comparison. Ties are broken in any order,
where the code sorts ids, so that the result does not depend on the names.
**Executor** is `execute` around it: one action per executed node, and for a
TRANSFORM node one per node or edge that is added, because the graph can be left
in any of these states by a failure. Values are abstracted to their lineage, the
set of nodes whose outputs went into them: all inputs of a node, the first, the
first two or none (`Uses`, `Taken`), depending on its type and operation. The order
of the inputs is that of the list of edges, which the model has as a set, so any of
the planned edges may come first, before those added since (`Heads`). An operation,
or a transform function, may raise on its inputs (`ComputationRaises`). `planned` is
a history variable that remembers the dependency edges at the time of the sort. The
branch for a node that has vanished since the sort is left out: nothing removes nodes
in a run.

**CrossFileTransaction** is `transaction.py`: one action per file-system call
and loop turn of `commit`, with the deterministic injection points of the code,
I/O errors (`WalFails`, `TempFails`, `RenameFails`, `RestoreFails`, `CleanUpFails`,
`CompleteFails`) and crashes that may leave the file being written torn. A log is
the set of (file, content) pairs whose digests the code writes. The unlinks of a
clean-up are one step, which an error may cut short anywhere (`CleanUpFails`). An
error while the pre-images are written back (`RestoreFails`) leaves `commit()` with
the files mixed; the phase "unrestored" marks it. **AtomicStore** is the promise: a
batch of files replaced at once, or not at all; `Settled` maps the protocol's state to
it.

**CrossFileMutation** composes the transaction with `substrate.py` and
`cross_file_mutation.py`. `graphs[w]` is the `Substrate` of process `w`: checks
and new graphs are computed from it, never from `disk`. An operation is three
kinds of steps: its checks and `stage` calls (`Begin`), the transaction's steps
(`Proceed`), and `Reload` after a commit; between them another process may act.
A node is its status, an edge keeps the difference between `n` and `file:n` as
target, because `supersede_cross_file` redirects the two in different files.
`AddCrossFileEdge` always names a file, `Local` targets come from the fixtures
and from lineage. Callers choose the source file, the target file and the
expected version freely, also the same file twice, and any relation: a
`SUPERSEDED_BY` reference that a caller draws is redirected like any other, and is
no part of the lineage that `supersede_cross_file` writes (`LineageOf`).

**Supersede** is STUDY-140's graph with its version and log. `supersede` is two
steps, `Apply` (checks, snapshot, all changes down to the lineage edge) and then
`Commit` or `Restore`, whichever validation calls for; everything else waits for
`Quiet`, because Python code runs on between them. `reads[w]` remembers what a
writer saw when it took the version that it passes as `expected_version`; one
that never read passes none. A proposal by a language model is such a writer:
`apply_llm_proposal` only parses. Callers draw no `SUPERSEDED_BY` edges of their
own with `add_edge`, which would not stop them.

**Traversal** is what all conditions of STUDY-209 share: how a node executes,
which edge its result selects, and the modification the agent makes. Where the
code takes the first matching edge the model takes any. **LocalTraversal** is the
agent over a store in its own memory (condition A), a step each for reading and
executing a node, modifying the graph and selecting the next edge; it is the
abstract specification, and promises nothing once something has failed.
**DistributedTraversal** is the same agent over services (conditions B and C): a
`Call*` action sends a request to the shard that owns the node, `Serve` answers
it, a `Take*` action is the rest of the client's method and of the agent's turn.
There is one connection per shard and one request at a time, so `call` holds at
most one. A modification is written part by part (`toWrite`). Services die with
what they hold (`Die`), which the client sees as a closed connection, and the
client's timeout may pass while the request is still on its way: it is served
all the same. `ShardOf` is a constant, SHA-1 modulo 2 in the run.

**Lists** holds `Kept`, what a list comprehension selects, and `Sorted`, a stable sort.

**WalkGraph** is what STUDY-203 to 208 share: an agent executes the node it is
at, takes an outgoing edge that fits the result, and some nodes extend the graph
when they are executed. A *document* is the list of nodes and of edges that a
file, a store or a process holds; what a node does and adds is determined by its
id, so a list of ids is enough. **ReferenceWalk** is the walk the graph
prescribes, without processes, files or a storage format: execute, let the graph
grow piece by piece, route when all of the growth is there, and never add
anything twice. It promises nothing once the program has raised, and lets the
agent give up (`Stop`) where there is no node or the limit is reached.
**Walk** is the common state of the programs: the document, the files, the walk,
what is still to be written (`pending`) and what the program reports (`visited`).
The five modules that extend it have the actions:

- **DecomposedWalk** (203): one process; a coordinator that sends each node to an
  execution worker and each modification to a modifier; a dispatcher that calls
  an agent process turn by turn. `mail` holds the queues. A wait ends with the
  answer or with its timeout, after which the answer may still arrive; a worker
  may die and takes its queue's reader with it. The file is replaced by a rename.
- **StorageWalk** (204): file, tables, and both a dictionary and tables behind the
  mediator. The stores differ in what they do with a node they have.
- **RenderWalk** (205): in place, rendered anew, rendered into a new file, hybrid.
  A rendering sorts nodes and edges, which is why the reference ignores order.
- **MediatedWalk** (206): the agent's own file, an in-process service, a service
  process behind two queues, a service over tables. A request may time out while
  it is under way, and be served all the same.
- **BackendWalk** (208): staging and `persist` of the five backends, file by file
  or flush by flush where the code writes several times.

A program may be killed in the middle of a write; where the code truncates the
file first, that leaves it `Torn`. `self_modified` of STUDY-206 makes the agent
write only at the first growing node, so its documents have one; its accessors
(all but the tables, which refuse the insert) and the corpus of STUDY-208 add
without looking, so there a walk over a graph that has the addition already
would add it again, and the studies start on ungrown graphs only.

**SharedFile** is what the demonstrations of STUDY-104, 105 and 111 are made of: a
process loads the file, works on its copy and saves it whole, and the orchestrator
starts the next one whatever became of it. Saving truncates; a process may die
anywhere. **IsolatedAgents** (104) adds the two agents, the orchestrator's reads and
the executor's computation; **SupplyChain** (105, 111) seller, buyers, optimizer and
both orchestrators. `Compute` recurses over the edges as the code does, by depth:
`Value` is the value of a node from the values of what it uses. A buyer's model
answers with any quantity and price, which the code cuts down (`DecideBid`); the
seller's with any list of decisions, about anybody, with any quantity and price
(`Answers`), which the code checks in no way (`Responses`; the rule "Total accepted
quantity cannot exceed" of `seller_llm.py:128` is part of a prompt), so nothing is
stated of its acceptances themselves. Quantities and prices are whole numbers. An
answer that makes the process raise is one of its deaths, as nothing is saved
either way; one whose quantity is saved without being a number is left out. `seller_llm.py` and `buyer_llm.py` import a package that is not
in the repository under that name; they are modelled as if it were their own
`graph.py`.

**MutationEngine** (109) is `validate_mutation`, `apply_mutation` and
`apply_mutations_atomic`, one action per mutation. An answer of the model may be any
JSON: a list or an object as id or type (`Unhashable`) or a payload that is none
(`NoDict`) raises while the mutation is validated, outside any `try`, and ends the
call (`ValidationRaises`); an update whose payload is no dictionary raises inside the
`try` and fails (`UpdateRaises`), perhaps after it has set the type. Edges are counted, because
the code's list may hold one twice; the order of the list is left out. The mutation log only grows by the results of
each call, `succeeded` is the current call's part of it.

**NestedExecutor** (107) has one frame per active `_execute_graph`. The recursive
visit that orders its nodes is three actions over the visits that are open:
`VisitNode` takes the next node of the file, `VisitDependency` any dependency that
is neither open nor done, since they are a Python set of strings, and `Visited`
appends a node whose dependencies all are. `Handle` is the dispatch on the node
type; an exception pops the frame, and the root's ends the run. A value is a number,
a string or neither (`Times` multiplies the first two as Python does). `Scopes` are the
graphs below a root, level by level, each under the path of its SUBGRAPH nodes.

Definitions named `Mut_*` are faulty variants of the definition below them. No
specification uses them; they show that each property can be broken.

## Runs

| run | instance | shows |
|---|---|---|
| `provenance` | 2 agents that share a type, 1 holder, 2 ids, ledger of at most 5 entries | integrity, scope and stable identities under every order of calls; own edges stay readable; chain, ledger against graph |
| `provenance_cascade` | the same | *violated*: edges removed in cascade have no entry of their own |
| `executor` | 4 executable nodes, 5 optional FEEDS edges (one closing a cycle), every transform kind in two of them; 4 with an OPERATION, BRANCH or MERGE and a RESULT that takes all, one, two or none of its inputs; every graph over 3 nodes; 2 runs | order, cycles found exactly, plan followed, each node computes with what its kind takes, sound graph after failures, runs end |
| `transaction` | 2 files, 2 contents, 1 writer, at most 2 I/O errors per transaction, kills and restarts | clean-up, all or nothing but where a restoration fails, recoverable from disk after a kill, implementation of the atomic store by every step but deaths, restarts and failed restorations |
| `transaction_half` | the same, no errors | *violated*: a state with half of the mutation is observable |
| `crossfile` | 1 process, 2 files with a reference across and one inside, 4 ids, 2 relations of which one is `SUPERSEDED_BY`, versions up to 3, injected failures at "before_rename" or none | references resolve, lineages are chains beside callers' own `SUPERSEDED_BY` references, versions identify contents |
| `crossfile_lost_update` | 2 processes, 3 ids, versions up to 2 | *violated*: the version check passes on a stale copy |
| `supersede` | 2 writers, 3 ids, 1 allowed type and 1 other, 5 operations | one holder per role, log and lineage agree, failures leave no trace, versions stand for contents |
| `distributed` | the study's graph with its odd start and an even one, 2 shards, at most 2 faults | without faults the walk is the local one; with faults it raises rather than return early, and ends |
| `walks` | 20 programs, each over up to 6 documents: the study's, the same already grown, one with the lower branch, one that loops through its growing node, one with a dangling edge, one without a way on; limit of 8 steps | every program's walk implements the reference walk, is reported as it went and kept on disk; earlier renderings and the document before a torn write survive; every walk ends |
| `shared_file` | STUDY-104 with 2 agents; the supply chain with 2 buyers, 3 markets (supply short, demand above the price limit, price limits crossed), 2 rounds, bids from {1, 3}; the seller answers one of 8 lists: one bid or both accepted, one buyer twice, one that does not exist, more than there is, a negative quantity, a counter, rejections, or nothing | nothing saved is lost; no partial result; allocations and bids within limits |
| `engines` | batches of up to 3 out of 8 mutations over 2 ids, among them one that raises when it is validated and one when it is applied, 2 calls; 6 root graphs with subgraphs that share ids, fail, are missing or cyclic, and strings multiplied | batches all or nothing and explained; results mean what the graphs say, completed scopes ran |

Why the bounds suffice. Two ids give self loops, both directions, cascades and
re-use of an id under another type or creator; a property of the graph mentions
at most two edges and their ends, and the proofs cover all sizes. Five entries
are the longest interesting history: add, add, link, remove with cascade, add
again. Four nodes give chains, forks, joins, cycles and a tail behind a cycle.
Two runs of `execute` let the second meet what the first one's transforms added.
A caller stages one file or two, so two files with
two contents are every batch the code builds, a file staged twice included. Two
errors per transaction let one strike in the restoration or the clean-up that the
other has caused; both also run without an error before them, after an injected
failure or for a file staged twice.
Versions up to 3 allow two operations on each file, enough for a supersede of a
replacement, a reference to what is superseded afterwards, and a batch that is
refused or rolled back in between. I/O errors are left to the transaction's own
run (`MaxFaults = 0` here): one at the last step leaves the files replaced and
the process with its old copies, which the lost update shows the effect of.

Three ids and five operations in Supersede allow a chain of two supersedes with
edges drawn before and in between, and a writer that decides on an old version.

Two shards are what the study runs; the modification has a part on each. Two
faults are a timeout and a death, or the death of both services, at any step.

The walks' limit of 8 steps stands for the code's 100 (203, 205), 1000 (204, 206)
and 64 (208). The longest walk that ends by itself fits it exactly, so only the
looping documents run into it, as they would run into the code's. Kills, deaths and
timeouts are not bounded: each ends the process or the wait it befalls.

Injection points before the renames all end in the same rollback, so one of them
stands for them in the crossfile run; the transaction's own run has them all.

In the supply chain a quantity of 1 leaves a need open and 3 exceeds one, and
with two of the three rounds a bid meets acceptances of an earlier round. Three
mutations are add, link, delete and any of them before a failure; two calls let
the second start from a graph that the first one rolled back or left half done,
with edges to nodes that are not there.

`CHECK_DEADLOCK FALSE` stands where the modelled code may stop: runs, walks,
demonstrations and calls end, and the ledger's length and the versions are bounded.

Fairness. `ExecSpec` assumes weak fairness of the steps of a call
that has begun: a Python call runs on until it returns or raises. Nobody is
assumed to call `execute`. `DistSpec` assumes it of the agent's own steps and of
each service that is alive, a process that serves until it is killed; a dead one
never answers, and then the closed connection is a step of the agent. The walks
assume it of `Step`, the steps of the program that runs, among which are the
timeouts of its waits; kills and deaths are in `Next` only, so none is ever due.
`WalkEnds` therefore says that neither a dead worker nor a lost answer keeps a
walk waiting for ever. The other specifications state safety only and have
no fairness.

## Divergences found

Three sentences of the repository's docs do not hold of its code; each has a run
of its own and an entry under `findings`:

- edges removed in cascade are not recorded (`provenance.py:3`);
- half a cross-file mutation can be observed, and stays after a crash
  (`transaction.py:14`);
- the expected version is compared with a copy that other processes' commits do not
  reach (`cross_file_mutation.py:172`).

Others have no run of their own:

- STUDY-207: "On a failure during the renames, the WAL replay restores each touched
  file from its pre-image" (`transaction.py:11-13`), unless writing the pre-image
  (`:145`) fails in turn. `AllOrNothing` says what is left then.
- STUDY-109: "If rollback_on_failure is True and any mutation fails, the entire batch
  is rolled back" (`mutation_engine.py:228-229`), unless the validation raises, which
  no `try` encloses (`:170`). `BatchAllOrNothing` says what is left then.
- "The executor does not modify the graph" (`executor.py:215`) overlooks TRANSFORM
  nodes, whose results `_execute_transform` adds (`ApplyNode`, `ApplyEdge`).
- STUDY-107: `hierarchy_executor.py:112` pops the context stack only when a scope
  ends without an exception (`NodeRaises` leaves `contexts` alone), where the
  study's README speaks of a scope that is pushed and popped; and the data flow
  across scopes that the docstring (`:10`) announces does not exist: a subgraph's
  values never reach its parent (`Handle` sees the scope's own results only).
- STUDY-202: `active_graph_id` (`multi_file_substrate.py:109-125`) follows the first
  registered of several superseding graphs.
- STUDY-109: the log and `get_graph_summary` still count the successes of a batch
  that was rolled back.
- STUDY-101: `protocol.py` was written for an earlier `sgs`; with `src/sgs` every
  `Node` and `Edge` it builds fails validation.

## Proofs

| module | theorem | argument |
|---|---|---|
| `SGS_proofs`: SGSGraph | `GraphTyped`, `GraphIsIntact` | the type invariant is inductive; together with it so is integrity, action by action: only `RemoveNode` can make an edge dangle and it takes the incident edges along, only `AddEdge` can repeat a key and it checks |
| | `NodesKeepIdentity` | the only actions that touch an existing node are `RemoveNode` and `UpdateNode` |
| Agents | `AgentsImplementGraph` | every action of an agent or holder is an action of the graph, so the theorems above carry over |
| | `AgentsStayInScope` | inductive with the graph's integrity: a scoped edge needs its ends to exist, and an end cannot change type while it exists |
| | `AgentsReadOwnEdges` | from scope: both ends of an own edge are visible |
| Provenance | `ChainVerifies` | inductive: an append does not disturb the entries before it; holds for any hash function |
| | `LedgerDeterminesGraph` | inductive with the chain and the graph's invariants: each action is compared with the entry it appends, the cascade of `RemoveNode` with `LastLinked`'s clauses for the ends |
| | `ChangesHaveEntries` | each action is a call whose entry names what it changes, or an end of the edges that go along with a node (`Accounts`); an append keeps what is before it |
| TopologicalSort | `SortTyped`, `SortRespectsDependencies` | inductive: an in-degree counts exactly the edges from nodes not yet visited, so a node that reaches zero has all its dependencies in front of it |
| | `SortDetectsCycles` | a set of nodes each of which depends on one of the set never gets a member listed; if the sort ends with nodes left over, those nodes are such a set, and in a finite graph that is a cycle |
| Executor | `ExecutorTyped`, `RunsRespectDependencies`, `RunsDetectCycles`, `RunsLeaveSoundGraphs` | the sort's invariant while it plans; afterwards the graph only grows, by nodes and edges that pass the checks of `SGSGraph`, and what was planned stays in it |
| | `TraceIsThePlan`, `EveryValueArrives` | inductive: exactly the nodes that have run have an output, and the output of a node holds those of the inputs it took; these are planned ones wherever there are planned ones, since edges added meanwhile come after them |
| `Supersede_proofs` | `SupersedeTyped`, `OneHolderPerRole` | inductive with three facts that the property does not mention: edges have both ends (so a new id has no lineage), the snapshot kept for `Restore` is sound as well, and the changed graph's lineage is the snapshot's plus one edge |
| | `LogTellsLineage` | the records' ends are nodes of the settled graph, so a replacement, being new, is the original of no earlier record |
| | `FailuresLeaveNoTrace` | step by step: the snapshot holds the version and the log as they are |
| | `VersionStandsForGraph` | every step that changes the settled graph moves its version, so a version that is still current was read from the current graph |
| | `ReplacementsAreComplete` | inductive over the settled graph: edges are only taken away by `Restore`, which brings the snapshot back, so what a replacement has it keeps; the one a supersede is about is checked before it becomes part of the settled graph |
| `Engines_proofs`: MutationEngine | `BatchesAllOrNothing` | inductive: of each node and each edge, the latest successful mutation of the call that touches it decides what the graph holds, and without one it is what it was before the call; a mutation that raises when it is applied touches neither, and one that raises when it is validated ends the call with that true |
| NestedExecutor | `NestedInvariant` | inductive (`NestedInv`): a path shows one scope (`OneFile`, by induction over the levels of the hierarchy), so what runs in one scope leaves the others alone; each call on the stack has run exactly the nodes of its scope that are in the trace, and its local results are those of its scope (`Runs`); the visits of a graph with a ranking put each node after all that leads to it (`Plans`), since a node whose visit is open ranks above the one that is visited from it; a result, once stored, is new or belongs to a SUBGRAPH node, which feeds nobody (`MeaningsStay`) |
| | `NestedExecution` | from the invariant; when the root has returned and every scope that was entered is completed, induction over the levels shows that all scopes have run |
| `CrossFile_proofs`: CrossFileTransaction | `TransactionTyped` | inductive for any number of writers: where the loops of `commit()` are in each phase |
| | `TransactionAllOrNothing`, `TransactionEndsClean`, `TransactionRecoverable` | for one writer whose batch is, as everywhere in the code, at most two writes; inductive phase by phase: before the renames the files are the pre-images and the temporaries hold what was staged last for their file; during them every file has its temporary or its new content; a file staged twice always ends in the restoration, whose pre-images agree; until a process dies, or a restoration or clean-up fails, the transaction knows every complete temporary; while a restoration runs, and after it failed, the log names the batch and each file holds its latest staged content, its pre-image or a torn one (`Held`) |
| | `TransactionsAreAtomic` | step by step under the mapping of `ImplementsAtomicStore`: `Open` begins, `Stage` puts, the last rename replaces, everything else stutters; deaths, restarts and failed restorations are the steps of which nothing is claimed, and the mapping is sound again after each |
| CrossFileMutation | `ReferencesAlwaysResolve`, `LineagesStayUnbranched` | on top of the transaction's invariant: a process that works alone has copies equal to the files until it commits, so the batch is what the operation makes of the directory; a lemma per operation shows that it makes a good directory of a good one, and between transactions the directory is the copies or that result |
| | `ExpectedVersionHolds` | the version was compared with a copy, and when the renames start the copies still are the files |
| | `VersionsCountChanges` | only the last rename changes `Settled`, to the result, each graph of which is one version on |
| `DistributedTraversal_proofs` | `DistInvariant` | inductive: what is on its way between agent and services in each phase of a call, which parts of the modification the shards hold, and that the shards together are the local store's graph before it, between its parts or after it |
| | `WalksReturnComplete`, `PartsInShardOrder` | from the invariant: an edge is missing only on a shard that was not written or died, and both raise; a shard is written after those before it have answered |
| | `DistributionIsLocal` | step by step: taking a reply is the local step, or for the modification the last reply; sending and serving stutter; a failure is the end of the mapped behaviour's obligations |
| `Walk_proofs`: DecomposedWalk | `DecomposedInvariant` | inductive, embodiment by embodiment and phase by phase: what each queue may hold while the coordinator or dispatcher waits, whether the visit is recorded yet, and what a worker that was given up may still do; a queue holds a request or its answer, never both, and messages may be lost with the process that sent them |
| | `DecomposedWalks` | step by step: execution, modification and selection are steps of the reference walk wherever they are taken, a give-up or the clean-up is a failed or finished walk, the rest stutters |
| | `DecomposedReports`, `DecomposedFileSurvives` | from the invariant and from what it says of each step |
| StorageWalk | `StorageInvariant` | inductive: between two operations, what each growing node adds is in the store whole or not at all; while a modification is under way, exactly what is still to be inserted is missing (`Missing`) |
| | `StorageWalks`, `StorageReports` | step by step: an insert before the last stutters, the last one is the reference's modification; what `get_edges` returns is what the graph has, since the rows of a query are the rows that `Kept` selects |
| RenderWalk | `RenderInvariant` | inductive: as in STUDY-204, and until the walk fails the file written last is the graph; sorting keeps the elements of a list (`SortedElements`) |
| | `RenderWalks`, `RenderReports`, `RenderFileSurvives` | step by step; a version is only ever written under a new name |
| MediatedWalk | `MediatedInvariant` | inductive: one request or its answer is under way, and an answer is about the graph as it is; a request that is served after its client has given up only adds what was missing |
| | `MediatedWalks`, `MediatedReports` | step by step: the service's write is the reference's modification, sending and receiving stutter |
| BackendWalk | `BackendInvariant` | inductive: until the walk executes a growing node nothing of what it adds is in the backend, afterwards all of it; the walk cannot come back to the node, because the nodes ahead of it are a set closed under its edges (`Ahead`) |
| | `BackendWalks`, `BackendReports`, `BackendFileSurvives` | step by step, for each of the backends |
| `SharedFile_proofs`: IsolatedAgents | `IsolatedKeeps` | inductive (`FileInv`): a file that is there and whole is the graph saved last, and so is the copy of a process that loaded it, which it only extends; a torn file is never loaded |
| | `IsolatedResult` | whatever is saved are nodes of the two agents and B's edges, once, or no edge; by induction on the depth of the recursion every node is then worth what it stands for or nothing (`Honest`) |
| SupplyChain | `TradesKeepContributions` | from `FileInv`, as above |
| | `TradesStayWithinLimits` | inductive (`TradeInv`), stage by stage: what the party that runs has found in the file (`Found`) and what is there when it has exited (`Left`), whether it saved or died. Phase 1: an optional supply and one optional demand of each buyer; sorted by price and allotted, for no, one or two demands, they satisfy the limits (`Fair`). Phase 2: every bid is within what was needed and to be had in the list before it, which later nodes do not change, and is of an earlier round or of a buyer that has had its turn (`Dealt`, `Past`) |

Assumptions: those on the constants (`NoNodeAssumption`, `AllowedAssumption`,
`HashAssumption`, `MaxEntriesAssumption`, `SchemaAssumption`,
`LineageAssumption`, `NoOperationAssumption`, `MaxVersionAssumption`,
`InitialGraphsAssumption`, `ExecutorAssumption`, `MutationAssumption`,
`MaxBatchAssumption`, `ContentAssumption`, `MaxFaultsAssumption`,
`RelationAssumption`, `FailAfterAssumption`, `PairsAssumption`, `LocalAssumption`,
`VersionAssumption`, `FixturesAssumption`, `GraphsAssumption`, `NamesAssumption`,
`DefaultAssumption`, `StartAssumption`, `RoutesAssumption`, `ShardAssumption`,
`GrowthAssumption`, `MaxStepsAssumption`, `AmountAssumption`, `IdOrderAssumption`,
`TornAssumption`, `SentinelsAssumption`, `DecomposedDocumentsAssumption`,
`StorageDocumentsAssumption`, `RenderDocumentsAssumption`,
`MediatedDocumentsAssumption`, `BackendDocumentsAssumption`,
`FileAssumption`, `AgentsAssumption`, `BuyerAssumption`, `MarketsAssumption`,
`AnswersAssumption`, `TradesAssumption`, `HierarchyAssumption`),
which TLC evaluates in every run of the modules that declare them.

`DecomposedDocumentsAssumption` is about the documents of STUDY-203: edges of
control flow only (no SUPERSEDES edge, which the study's agents would follow like
any other), and what a node adds does not grow itself.  Those of the other studies
say of their documents what their agents rely on. STUDY-204 and 205: control flow
only; what growing nodes add is not empty, has no repetition, is disjoint from what
others add, does not grow itself, and is in the initial document whole or not at
all. STUDY-206: one node grows (`self_modified`), and its addition is not there, or
it is the database of `sqlite_service`, whose tables refuse it. STUDY-208: the corpus
has none of the additions, from a grown node there is no way back to it, and RESULT
nodes have SUPERSEDES edges only.

Those of the shared file say that no file, a torn file and a graph are different
things, that there are two buyers, which are neither the seller nor the optimizer,
as in both orchestrators (`BuyerAssumption`), that supply, demand and prices are
natural numbers and a demand is not zero, as in the parties' databases
(`MarketsAssumption`), and that the models answer with integers, positive or not, the
seller's in lists of decisions of any length about anybody (`AnswersAssumption`; the
code's prices may have a fraction, and are only compared).
Figures, the number of rounds and the number of deaths are not restricted at all.

`HierarchyAssumption` says that there are finitely many graphs and that none is
nested in itself: `flatten` would end in a `RecursionError`, and the executor would
swallow that of the innermost scope at `hierarchy_executor.py:147` and go on there.
How deep the graphs are nested, how often one is used, cycles of edges inside one
and SUBGRAPH nodes without a file are not restricted.

What `Kept` selects from a list is a recursive function on the list's indices, not
`SelectSeq`, of which the provers know nothing. That it keeps exactly the elements
asked for is proved by induction: the least-element principle follows from the
library's theorem that the natural numbers are well founded, induction over a set of
numbers from that, and a set is what a proof can name where an operator cannot be.
`Lists_proofs` has these lemmas; the sums, the sort by price, the allocation and the
recursion of `Compute` are recursive functions on indices for the same reason.

The theorems of CrossFileMutation have four hypotheses of their own.
`Writer = {w}`: with two processes on one directory they are false, which
MCCrossFileLostUpdate and the finding about it show. `MaxFaults = 0`: no I/O error;
after one while the log is marked, `commit()` raises although every file has its
new content, and the process goes on with copies from before. The failures the
study injects (`FailAfter`) are included. `Content = Graph` says what the
transaction writes, and `LogsAreTold` that an absent or torn log is no batch.

Only model-checked:
- liveness (`ExecutionEnds`, `TraversalEnds`, `WalkEnds`);
- the cross-file operations of two writers or under I/O errors, where the theorems
  are false (`crossfile_lost_update`) or would need a weaker statement.

The sums and products of `Handle` are folds, about which nothing is proved and
nothing has to be: `NestedExecution` says that an operation was given the right
values, whatever it makes of them.

## Not modelled

- Arithmetic of OPERATION nodes of `GraphExecutor` beyond the choice of its inputs, edge weights, constraints and
  graph metadata; formatting and serialization; the answers of language models,
  which the code treats as input; measurements, reports, demos and tests.
- `save` and `load` of `SGS`: they serialize two collections whole. What several
  processes do to each other by loading and saving is in SharedFile.
- In-place changes of a node obtained from `get_node`, possible in Python and made
  nowhere in the repository. Agents that bypass the wrapper are not in Provenance.
- STUDY-202: pure functions over files that one script writes once and then
  reads. STUDY-101: it does not run on this `sgs`. STUDY-110 and 180: tests.
- Operations of the stores and services that no walk calls (`remove_node`,
  `remove_edge`, counts); `discovery.py` of STUDY-207, which only reads; start-up,
  ping and final-state collection of STUDY-209.
- The databases of STUDY-204 and 206 are in memory: no file of theirs is written.

## Order of work

Done, in this order: SGSGraph, Agents, Provenance, TopologicalSort, Executor,
AtomicStore, CrossFileTransaction, CrossFileMutation, Supersede, Traversal,
LocalTraversal, DistributedTraversal, the walks, SharedFile with its two
compositions, MutationEngine, NestedExecutor.

Every safety property that a passing run checks, invariants and action properties, is
also proved, under the assumptions above. What is left to theorem proving would be the
liveness properties, which are out of this prover's reach.
