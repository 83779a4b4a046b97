CONSTANTS
  Enabled = {"scheduler", "retention", "collector"}
  Batch = 3
  Concurrency = 2
  FetchTime = 1
  ClaimTime = 1
  SweepTime = 1
  CollectTime = 2
  FetchInterval = 1
  SweepInterval = 3
  CollectInterval = 1
  BackoffCap = 2
  Drain = 4
  CollectorDrain = 1
  MaxErrors = 2
  MaxFaults = 1
SPECIFICATION FairSpec
INVARIANTS TypeOK HealthyTickIsDrained TickIsBounded ClosedLast GaugeIsExact
PROPERTIES ShutdownEnds LoopsGoOn
CHECK_DEADLOCK FALSE
