SPECIFICATION FairSpec
CHECK_DEADLOCK FALSE
INVARIANT
  DefaultMeansDefault
