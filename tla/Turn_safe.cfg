SPECIFICATION FairSpec
CONSTANTS
  Capacity = 1
  MaxText = 2
  MaxAsks = 1
  MaxFaults = 1
INVARIANTS
  TurnTypeOK
  StreamAgrees
  NeverPreviousAnswer
  WholeText
PROPERTIES
  TurnEnds
CHECK_DEADLOCK FALSE
