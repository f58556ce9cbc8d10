SPECIFICATION Spec
CONSTANTS
  a1 = a1
  a2 = a2
  t1 = t1
  t2 = t2
  s1 = s1
  Accounts <- TwoAccounts
  Tasks <- TwoTasks
  Workers = 2
  Subscribers <- OneSubscriber
  Capacity = 1
  MaxEdits = 1
  MaxFaults = 1
INVARIANTS
  RefreshTypeOK
  ProgressTrue
  ChecksAtomic
  LastEventKnown
SYMMETRY Symmetric
CHECK_DEADLOCK FALSE
