SPECIFICATION Spec
CONSTANTS
  a1 = a1
  a2 = a2
  q1 = q1
  q2 = q2
  Ids <- TwoAccounts
  Requests <- TwoRequests
  MaxAttempts = 2
  Streaming <- OneRequest
  Strategy = "least_busy"
  Failures = {"empty", "paid", "other"}
  MaxChanges = 1
  MaxFaults = 1
SYMMETRY AccountSymmetry
INVARIANTS
  GatewayTypeOK
  InflightBalanced
  OneVisibleTodo
  SessionsNameOwner
PROPERTIES
  TriesDistinct
  CooldownsOnlyExtend
  EveryRequestAnswers
CHECK_DEADLOCK FALSE
