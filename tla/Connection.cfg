SPECIFICATION Spec
CONSTANTS
  QueueSize = 3
  NumMessages = 7
CHECK_DEADLOCK FALSE
INVARIANTS TypeOK InOrder NothingVanishes AlertYieldsOnlyToAlert
