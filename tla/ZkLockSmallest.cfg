SPECIFICATION Spec
CONSTANTS
  Processes = {"a", "b"}
  FirstSeqs = {1}
  Faults = {}
CHECK_DEADLOCK FALSE
INVARIANT AcquirerIsSmallest
