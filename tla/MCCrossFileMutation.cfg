SPECIFICATION MutationSpec
CONSTANTS
  fileA = fileA
  fileB = fileB
  w1 = w1
  w2 = w2
  stage = stage
  report = report
  new1 = new1
  new2 = new2
  Absent = Absent
  Torn = Torn
  Local = Local
  SUPERSEDED_BY = "SUPERSEDED_BY"
  MaxFaults = 0
  MaxVersion = 3
  File <- MCFile
  Content <- Graph
  Writer <- OneProcess
  NodeId <- MCNodeId
  Relation <- MCRelation
  Pairs <- AllPairs
  FailAfter <- MCFailAfter
  InitialFiles <- MCInitialFiles
INVARIANTS
  ReferencesResolve
  LineageUnbranched
  VersionGuards
PROPERTIES
  VersionCountsChanges
CHECK_DEADLOCK FALSE
