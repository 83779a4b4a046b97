CONSTANTS
  BrokenThreshold = 2
  DeadDuration = 7
  ProbeInterval = 6
  ClaimTTL = 3
  BaseInterval = 2
  MaxBackoff = 5
  Week = 12
  FrequencyMin = 2
  FrequencyMax = 5
  FrequencyFactor = 1
  Jitters <- MCJitters
  WeeklyCounts = {0, 4}
  Hints = {0, 4}
  Skew = 0
  MaxClock = 13
  MaxReactivations = 1
SPECIFICATION Spec
INVARIANTS TypeOK BreakerConsistent
PROPERTIES LifecycleEdges ClaimsAreSpaced
CHECK_DEADLOCK FALSE
