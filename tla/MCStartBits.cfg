CONSTANTS
  POLL_INTERVAL = 50
  SIGFREE_MIN = 10000
  Behind <- Anything
  Messages <- None
  Frames <- RC5Frames
  Phases <- Coarse
  Lost <- None
  Earlier <- None
  MaxHops = 0
SPECIFICATION Spec
CHECK_DEADLOCK FALSE
INVARIANTS
  RC5StartBits
