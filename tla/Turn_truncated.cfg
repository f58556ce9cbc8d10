SPECIFICATION Spec
CONSTANTS
  Capacity = 1
  MaxText = 2
  MaxAsks = 0
  MaxFaults = 1
INVARIANTS
  AuthoritativeText
CHECK_DEADLOCK FALSE
