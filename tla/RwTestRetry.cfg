SPECIFICATION Spec
CONSTANTS
  ResetZones = 3
  Zones = 2
  Times = 2
  MaxFailures = 1
  Faults = {"enomem"}
CHECK_DEADLOCK FALSE
INVARIANT CompleteMeansComplete
