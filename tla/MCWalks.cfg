SPECIFICATION Spec
CONSTANTS
  MaxSteps = 8
  Torn = Torn
  NodeId <- MCNodeId
  Op <- MCOp
  Amount <- MCAmount
  Growth <- MCGrowth
  IdOrder <- MCIdOrder
  Relation = {"THEN", "BRANCH", "SUPERSEDES"}
  Condition = {"none", "high", "low", "odd", "even", "audit", "done", "v1", "v2"}
  Documents <- MCDocuments
  Entry <- MCEntry
INVARIANTS
  ReportsAndKeepsTheWalk
PROPERTIES
  WalksAsTheGraphSays
  EarlierFileSurvives
  WalkEnds
CHECK_DEADLOCK FALSE
