SPECIFICATION ExecSpec
CONSTANTS
  op = op
  t1 = t1
  t2 = t2
  res = res
  op_copy = op_copy
  t1_copy = t1_copy
  t2_copy = t2_copy
  res_copy = res_copy
  summary = summary
  extra = extra
  NoNode = NoNode
  NodeId <- MCNodeId
  NodeType <- MCNodeType
  Relation <- MCRelation
  Creator <- MCCreator
  Key <- MCKey
  InitialGraphs <- MCInitialGraphs
  Registered <- MCRegistered
  Copy <- MCCopy
  SummaryId = summary
  CustomResults <- MCCustomResults
  MaxRuns <- MCMaxRuns
INVARIANTS
  OrderRespectsDependencies
  TraceFollowsPlan
  ResultsComplete
  RunsKeepIntegrity
PROPERTIES
  CycleDetectedExactly
  ExecutionEnds
CHECK_DEADLOCK FALSE
