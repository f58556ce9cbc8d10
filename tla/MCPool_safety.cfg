SPECIFICATION Spec
CONSTANTS
  w1 = w1
  w2 = w2
  Warmer = warm
  Nobody = nobody
  Workers <- MCWorkers
  MaxId = 3
  BootCount = 2
  BootstrapBatch = 1
  WarmBatch = 1
  WarmAttempts = 2
  MaxCalls = 2
  MaxFaults = 1
  MaxRotations = 0
  Ops = {"reload", "enable", "disable", "delete", "remove", "refresh"}
SYMMETRY Symmetry
INVARIANTS
  TypeOK
  OneSlotEach
  ClaimsExclusive
  PoolFollowsStore
PROPERTIES
  ImplementsRoster
CHECK_DEADLOCK FALSE
