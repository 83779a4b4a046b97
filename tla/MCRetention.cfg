CONSTANTS
  Feeds = {f1, f2}
  NoFeed = NoFeed
  g1 = g1
  g2 = g2
  a = a
  b = b
  Guids = {g1, g2}
  Contents = {a, b}
  Documents <- MCOneDocument
  NoDocument = NoDocument
  Sessions = {s1}
  Sweepers = {p1, p2}
  RetentionDays = 0
  MinPerFeed = 1
  BatchSize = 1
  MaxPerFetch = 3
  MaxInitial = 3
  TickBudget = 1
  MaxClock = 0
  MaxId = 4
  MaxFaults = 1
SPECIFICATION FairSpec
PROPERTIES MostRecentSurvive WindowSurvives ExpiredAreSwept
CHECK_DEADLOCK FALSE
