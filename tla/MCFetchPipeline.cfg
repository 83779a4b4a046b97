CONSTANTS
  BrokenThreshold = 1
  DeadDuration = 1
  ProbeInterval = 1
  ClaimTTL = 1
  BaseInterval = 1
  MaxBackoff = 2
  Week = 4
  FrequencyMin = 1
  FrequencyMax = 4
  FrequencyFactor = 1
  Jitters = {0}
  WeeklyCounts = {0}
  Hints = {0, 1, 2, 99}
  f1 = f1
  f2 = f2
  u1 = u1
  u2 = u2
  Feeds = {f1, f2}
  Urls = {u1, u2}
  HostOf <- MCHostOf
  HomeOf <- MCHomeOf
  Headers <- MCHeaders
  Ttls = {0}
  MaxInstant = 50
  MaxClock = 1
  MaxFaults = 1
SPECIFICATION Spec
INVARIANT TypeOK
PROPERTIES   BlindOnlyAfterRefusal
CHECK_DEADLOCK FALSE
