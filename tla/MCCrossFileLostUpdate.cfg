SPECIFICATION MutationSpec
CONSTANTS
  fileA = fileA
  fileB = fileB
  w1 = w1
  w2 = w2
  stage = stage
  report = report
  new1 = new1
  new2 = new2
  Absent = Absent
  Torn = Torn
  Local = Local
  SUPERSEDED_BY = "SUPERSEDED_BY"
  MaxFaults = 0
  MaxVersion = 2
  File <- MCFile
  Content <- Graph
  Writer <- TwoProcesses
  NodeId <- ThreeNodeId
  Relation <- MCRelation
  Pairs <- AtoB
  FailAfter <- NoFailure
  InitialFiles <- MCInitialFiles
INVARIANTS
  VersionGuards
CHECK_DEADLOCK FALSE
