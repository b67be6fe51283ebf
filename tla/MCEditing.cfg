CONSTANTS
  POLL_INTERVAL = 1
  SIGFREE_MIN = 2
  ACCUM_THRESH = 4
  MAXINT16 = 7
  BYTE = 4
  PKTSYMB_MAX = 4
  NumDecoders = 1
  invSig = TRUE
  Optimised = TRUE
  QuietCap = 4
SPECIFICATION Spec
PROPERTIES
  IsrDisabledWhileEditing
