CONSTANTS
  POLL_INTERVAL = 1
  SIGFREE_MIN = 1
  ACCUM_THRESH = 2
  MAXINT16 = 7
  BYTE = 4
  PKTSYMB_MAX = 4
  NumDecoders = 1
  invSig = TRUE
  Optimised = FALSE
  QuietCap = 3
SPECIFICATION FairSniffSpec
INVARIANTS
  SniffTypeOK
  NeverOverruns
  SilentLinePrintsFrame
PROPERTIES
  PrintEnds
