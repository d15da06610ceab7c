CONSTANTS
  w1 = w1  a = a  b = b  c = c
  NoSync = NoSync
  Scheduled <- OneWorker
  ByHand <- Nobody
  Documents <- ThreeDocuments
  MaxCopies = 2
  MaxChanges = 1
  MaxFaults = 0
  Candidates = 3
  Results = 2
  RrfK = 60
  Unit = 238266
  EvalK = 2
  Discount <- ThreeDiscounts
CHECK_DEADLOCK FALSE
SPECIFICATION Spec
INVARIANTS FusionAsDocumented MetricsAgree
