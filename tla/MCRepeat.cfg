CONSTANTS
  POLL_INTERVAL = 50
  SIGFREE_MIN = 10000
  Behind <- Anything
  Messages <- None
  Frames <- SonyFrames
  Phases <- Coarse
  Lost <- None
  Earlier <- None
  MaxHops = 1
SPECIFICATION Spec
CHECK_DEADLOCK FALSE
INVARIANTS
  RepeatedAsReceived
