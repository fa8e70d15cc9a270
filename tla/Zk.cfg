SPECIFICATION FairSpec
CONSTANTS
  Participants = {"a", "b", "c"}
  Processes = {"a", "b"}
  FirstSeqs = {0, 1}
  Faults = {"crash", "expire", "call", "slow_main"}
CHECK_DEADLOCK FALSE
INVARIANTS
  SoleLeader
  DeletesOnlyItsOwn
PROPERTIES
  FirstBecomesLeader
  EveryoneGetsTheLock
