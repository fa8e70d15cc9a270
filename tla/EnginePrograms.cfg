SPECIFICATION Spec
CHECK_DEADLOCK FALSE
INVARIANTS
  
  PayloadsInWindow
  EveryAddressOnce
  SequentialWritesLand
  NoFalseAlarm
  VerificationKeepsUp
  AppendsAccounted
