CONSTANTS
  BrokenThreshold = 2
  DeadDuration = 2
  ProbeInterval = 2
  ClaimTTL = 2
  BaseInterval = 1
  MaxBackoff = 2
  Week = 4
  FrequencyMin = 1
  FrequencyMax = 4
  FrequencyFactor = 1
  Jitters = {0}
  WeeklyCounts = {0}
  Hints = {0}
  Workers = {w1, w2}
  Feeds = {f1}
  InitialFeeds = {}
  BatchSize = 1
  Concurrency = 1
  TickBudget = 1
  Skew = 0
  MaxClock = 4
  MaxReactivations = 1
  MaxFaults = 1
SPECIFICATION Spec
INVARIANTS TypeOK LeaseExclusive SnapshotCurrent
PROPERTIES StepsAreAtomic
SYMMETRY Symmetry
CHECK_DEADLOCK FALSE
