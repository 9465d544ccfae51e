SPECIFICATION Spec
CONSTANTS
  Absent = Absent
  Torn = Torn
  Figure <- MCFigure
  Buyer <- MCBuyer
  Markets <- MCMarkets
  Quantity = {1, 3}
  Price = {1, 3}
  Addressee <- MCAddressee
  Answers <- MCAnswers
  MaxRounds = 2
INVARIANTS
  ResultNeedsEveryAgent
  TradesWithinLimits
PROPERTIES
  ContributionsKept
CHECK_DEADLOCK FALSE
