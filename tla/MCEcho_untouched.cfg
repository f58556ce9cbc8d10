SPECIFICATION Spec
CONSTANTS
  Bodies = {"compact"}
  Clients <- ChatClient
INVARIANT UntouchedHistoryResumes
CHECK_DEADLOCK FALSE
