CONSTANTS
  j1 = j1  q1 = q1  q2 = q2  c1 = c1  c2 = c2
  t1 = t1  t2 = t2  w1 = w1  w2 = w2
  NoJob = NoJob  NoQuery = NoQuery  NoTask = NoTask
  Jobs <- OneJob
  Queries <- OneQuery
  Callers <- OneCaller
  Tasks <- TwoTasks
  Workers <- TwoWorkers
  MaxRetries = 1
  FailureInjectionCount = 0
  FaultPoints <- NothingStrands
  MaxCrashes = 1
  MaxRedeliveries = 1
CHECK_DEADLOCK FALSE
SPECIFICATION FairSpec
INVARIANTS RunningHasRunner NoSilentLoss LapseNeedsDuplicate DeadLetteredWasRetried
PROPERTIES FailedIsFinal EventuallyTerminal
