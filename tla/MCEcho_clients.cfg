SPECIFICATION Spec
CONSTANTS
  Bodies = {"compact", "spaced", "empty"}
  Clients <- Everyone
INVARIANTS
  EchoTypeOK
  FilterAgrees
  EchoResumes
CHECK_DEADLOCK FALSE
