SPECIFICATION FairSpec
CHECK_DEADLOCK FALSE
INVARIANTS
  
  CounterIsExact
  TrackingRestored
  DetachedAfterDrain
PROPERTIES
  EndsUnlessRefused
