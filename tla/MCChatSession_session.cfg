CONSTANTS
  n1 = n1
  Messages <- TwoMessages
  Nodes <- OneNode
  MaxExpiries = 2
CHECK_DEADLOCK FALSE
SPECIFICATION FairSpec
INVARIANTS UnauthorizedMeansNoUser VerdictIsItsNodes
PROPERTIES LinesGoToOwnBox EveryMessageIsAnswered
