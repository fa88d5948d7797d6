\* One task that is injected and expires; a crash, a cut, battery exhaustion,
\* a release, late messages and a lost one.
SPECIFICATION Spec
CONSTANTS
  t1 = t1
  t2 = t2
  NoOwner = NoOwner
  N = 2
  Tasks = {t2}
  ExpiresAt <- ExpireSecond
  InjectAt <- InjectSecond
  TimeoutTicks = 2
  GossipInterval = 2
  Generation <- FirstGeneration
  Delays = {0, 1, 2}
  PromptDelay = 0
  MaxFaults = 2
  MaxLost = 1
  MaxCrashes = 1
  MaxPartitions = 1
  MaxExhausted = 1
  MaxReleases = 1
  MaxTick = 6
INVARIANT TypeOK
INVARIANT CrashDetected
INVARIANT TasksRecovered
INVARIANT NoFalseSuspicion
PROPERTY CompletedIsFinal
\* The run ends at max_ticks.
CHECK_DEADLOCK FALSE
