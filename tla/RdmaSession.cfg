SPECIFICATION FairSpec
CONSTANTS
  Clients = {"c1", "c2"}
  Faults = {"server_call", "client_call", "errno_zero"}
CHECK_DEADLOCK FALSE
INVARIANTS
  ReadsItsOwnData
  BufferOutlivesAccess
PROPERTIES
  ServerFollowsClient
