\* A crash during a partition, then quiet ticks; agent 1 runs with a higher
\* generation than its peers start from, so that SettleTicks = 6.
SPECIFICATION Spec
CONSTANTS
  t1 = t1
  t2 = t2
  NoOwner = NoOwner
  N = 3
  Tasks = {t1}
  ExpiresAt <- Never
  InjectAt <- Never
  TimeoutTicks = 1
  GossipInterval = 2
  Generation <- RestartedFirst
  Delays = {0, 1}
  PromptDelay = 0
  MaxFaults = 0
  MaxLost = 0
  MaxCrashes = 1
  MaxPartitions = 1
  MaxExhausted = 0
  MaxReleases = 0
  MaxTick = 8
INVARIANT OwnerBelievedAlive
INVARIANT ViewsSettle
PROPERTY CrashRedetected
\* The run ends at max_ticks.
CHECK_DEADLOCK FALSE
