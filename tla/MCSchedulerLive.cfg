CONSTANTS
  BrokenThreshold = 1
  DeadDuration = 2
  ProbeInterval = 2
  ClaimTTL = 2
  BaseInterval = 1
  MaxBackoff = 2
  Week = 4
  FrequencyMin = 1
  FrequencyMax = 4
  FrequencyFactor = 1
  Jitters = {0}
  WeeklyCounts = {0}
  Hints = {0}
  Workers = {w1}
  Feeds = {f1, f2}
  InitialFeeds = {f1, f2}
  BatchSize = 2
  Concurrency = 1
  TickBudget = 1
  Skew = 0
  MaxClock = 3
  MaxReactivations = 0
  MaxFaults = 1
SPECIFICATION FairSpec
PROPERTIES DueIsFetched ClaimIsReleased
CHECK_DEADLOCK FALSE
