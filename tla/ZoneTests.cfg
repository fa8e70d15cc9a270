SPECIFICATION FairSpec
CONSTANTS
  ResetZones = 2
  Zones = 2
  Times = 2
  MaxFailures = 2
  Faults = {"enomem", "enomem_read", "submit", "io", "zmalloc", "append", "read",
            "env", "malloc", "probe", "connect", "qpair",
            "opts", "enumerate", "derive_geo", "fill_dbuf", "fill_mbuf", "dbuf",
            "mbuf", "send", "fetch", "dump"}
  NumNs = 2
  Zoned = {1}
  Nsids = {1, 257}
CHECK_DEADLOCK FALSE
INVARIANTS
  PhasesInOrder
  PassIsEarned
  
PROPERTIES
  NoCommandAfterRelease
  EndsIfDefined
