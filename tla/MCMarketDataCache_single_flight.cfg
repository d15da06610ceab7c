CONSTANTS
  m1 = m1  m2 = m2
  NoCaller = NoCaller
  Callers <- TwoCallers
  AttemptTimeout = 3
  MaxAttempts = 4
  RetryBudget = 4
  MaxBackoff = 1
  LockTTL = 6
  EntryTTL = 2
  WaitAttempts = 2
  WaitInterval = 1
SPECIFICATION FairSpec
INVARIANTS LeaseCoversCall SingleFlight RefetchMissedBeforeStore ReturnsInTime
PROPERTIES LeaseSpec EveryMissReturns
