CONSTANTS
  Feeds = {f1}
  NoFeed = NoFeed
  g1 = g1
  g2 = g2
  a = a
  b = b
  Guids = {g1, g2}
  Contents = {a, b}
  Documents <- MCDocuments
  NoDocument = NoDocument
  Sessions = {s1, s2}
  Sweepers = {p1}
  RetentionDays = 0
  MinPerFeed = 1
  BatchSize = 0
  MaxPerFetch = 2
  MaxInitial = 1
  TickBudget = 0
  MaxClock = 1
  MaxId = 3
  MaxFaults = 0
SPECIFICATION Spec
INVARIANTS TypeOK OneRowPerGuid ETagIsBacked
PROPERTY AgeIsKept
SYMMETRY Symmetry
CHECK_DEADLOCK FALSE
