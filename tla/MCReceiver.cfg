CONSTANTS
  POLL_INTERVAL = 1
  SIGFREE_MIN = 2
  ACCUM_THRESH = 4
  MAXINT16 = 7
  BYTE = 4
  PKTSYMB_MAX = 4
  NumDecoders = 2
  invSig = TRUE
  Optimised = FALSE
  QuietCap = 4
SPECIFICATION FairSpec
INVARIANTS
  TypeOK
  ReadsStayInBuffer
  RunsAlternate
  CompletesPromptly
  SuccessIsOneFrame
PROPERTIES
  SpaceBeforeComplete
  ImplementsMailbox
  FrameCompletes
  FrameIsTaken
