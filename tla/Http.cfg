SPECIFICATION FairSpec
CONSTANTS
  c1 = c1
  c2 = c2
  Clients = {c1, c2}
  Requests <- MCRequests
  MaxRequests <- MCMaxRequests
  MaxFailures = 1
CHECK_DEADLOCK FALSE
INVARIANT NothingCutShort
PROPERTIES
  KeepsContract
  SessionsEnd
  EveryoneIsAccepted
