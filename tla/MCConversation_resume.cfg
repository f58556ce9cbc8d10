SPECIFICATION Spec
CONSTANTS
  c1 = c1
  c2 = c2
  x = x
  Clients <- TwoClients
  Words <- OneWord
  Calls = {"call"}
  TTL = 1
  MaxTime = 2
  MaxRequests = 4
  MaxPartial = 1
  MaxEdits = 1
  MaxFailures = 1
SYMMETRY Symmetry
INVARIANTS
  ConversationTypeOK
  HistoryHeard
  TranscriptComplete
  SessionsLive
CHECK_DEADLOCK FALSE
