SPECIFICATION FairSpec
CONSTANTS
  NumCores = 2
  NumSubsys = 2
  Migrate = TRUE
  MaxMsgs = 1
  Faults = {"reactor_alloc", "launch", "thread_create", "pg_create",
            "rpc", "tgt_create", "discovery", "start", "stop"}
CHECK_DEADLOCK FALSE
INVARIANTS
  GroupAccounting
  TargetOutlivesUsers
  NoMessageToExitedThread
  OneHome
PROPERTIES
  NoStarvation
  ShutdownCompletes
  ReactorsReturn
