SPECIFICATION FairSpec
CONSTANTS
  Faults = {}
  MaxFailures = 0
CHECK_DEADLOCK FALSE
PROPERTY TestStartReturns
