SPECIFICATION Spec
CONSTANTS
  w1 = w1
  w2 = w2
  Warmer = warm
  Nobody = nobody
  Workers <- MCWorkers
  MaxId = 1
  BootCount = 1
  BootstrapBatch = 1
  WarmBatch = 1
  WarmAttempts = 2
  MaxCalls = 2
  MaxFaults = 0
  MaxRotations = 0
  Ops = {"reload", "remove"}
SYMMETRY Symmetry
INVARIANTS
  ExhaustedStaysOut

CHECK_DEADLOCK FALSE
