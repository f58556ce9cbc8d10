SPECIFICATION FairSpec
CONSTANTS
  w1 = w1
  w2 = w2
  Warmer = warm
  Nobody = nobody
  Workers <- MCWorkers
  MaxId = 2
  BootCount = 2
  BootstrapBatch = 1
  WarmBatch = 1
  WarmAttempts = 1
  MaxCalls = 2
  MaxFaults = 0
  MaxRotations = 1
  Ops = {"reload", "enable", "remove"}

INVARIANTS
  SettingsMatchKey
PROPERTIES
  EveryCallReturns
CHECK_DEADLOCK FALSE
