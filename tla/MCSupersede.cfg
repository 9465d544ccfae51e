SPECIFICATION Spec
CONSTANTS
  a = a
  b = b
  c = c
  w1 = w1
  w2 = w2
  NoNode = NoNode
  NotRead = NotRead
  NoOperation = NoOperation
  SUPERSEDED_BY = "SUPERSEDED_BY"
  MaxVersion = 5
  NodeId <- MCNodeId
  Writer <- MCWriter
  Type <- MCType
  Property <- MCProperty
  Required <- MCRequired
  AllowedTypes <- MCAllowed
  Relation <- MCRelation
INVARIANTS
  LineageUnbranched
  LineageFollowsLog
  ReplacementsComplete
  ActsOnWhatWasRead
PROPERTIES
  WholeOperations
SYMMETRY Symmetry
CHECK_DEADLOCK FALSE
