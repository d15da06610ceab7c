CONSTANTS
  w1 = w1  w2 = w2  op = op  a = a
  NoSync = NoSync
  Scheduled <- TwoWorkers
  ByHand <- OneOperator
  Documents <- OneDocument
  MaxCopies = 1
  MaxChanges = 2
  MaxFaults = 1
CHECK_DEADLOCK FALSE
SPECIFICATION SyncSpec
INVARIANTS TableIsTheLastScan
PROPERTIES LeaseSpec LexicalCatchesUp
