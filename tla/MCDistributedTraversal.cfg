SPECIFICATION DistSpec
CONSTANTS
  Default = Default
  NoCall = NoCall
  NoAnswer = NoAnswer
  MaxFaults = 2
  NodeId <- MCNodeId
  Graphs <- MCGraphs
  Shard <- MCShard
  ShardOf <- MCShardOf
INVARIANTS
  ReturnsComplete
  WrittenInShardOrder
PROPERTIES
  ImplementsLocal
  TraversalEnds
CHECK_DEADLOCK FALSE
