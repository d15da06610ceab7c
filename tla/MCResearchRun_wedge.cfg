CONSTANTS
  b1 = b1  b2 = b2  b3 = b3
  Callers <- OneCaller
  FailureThreshold = 1
  RecursionLimit = 4
  Mockable <- NoMock
SPECIFICATION Spec
INVARIANT ProbesReportBack
