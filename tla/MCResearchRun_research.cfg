CONSTANTS
  b1 = b1  b2 = b2  b3 = b3
  Callers <- ThreeCallers
  FailureThreshold = 3
  RecursionLimit = 4
  Mockable <- OneMock
SPECIFICATION FairSpec
INVARIANTS BreakerSafety LateFailuresKeepTheClock
INVARIANTS NoStrayCalls ProbeIsLostByCancellation RecordedIsReal
PROPERTIES BreakerSpec VendorIsRetried RunEnds
