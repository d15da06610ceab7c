CONSTANTS
  Capacity = 8
  Cost = 4
  Second = 3
  HalfGrain = 1
  Ttl = 9
  MaxTime = 14
  MaxCalls = 6
SPECIFICATION Spec
INVARIANTS ServesNoMoreThanTheRate RetryAfterSuffices
PROPERTY FlowSpec
CHECK_DEADLOCK FALSE
