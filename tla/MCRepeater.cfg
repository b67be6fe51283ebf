CONSTANTS
  POLL_INTERVAL = 1
  SIGFREE_MIN = 2
  ACCUM_THRESH = 4
  MAXINT16 = 7
  BYTE = 4
  PKTSYMB_MAX = 8
  NumDecoders = 1
  invSig = TRUE
  Optimised = FALSE
  QuietCap = 4
  Msgs <- TwoMsgs
  SETUPTIME = 1
  BUTTONINVALID_PERIOD = 10
  CLOCK = 13
SPECIFICATION FairRoomSpec
INVARIANTS
  RoomTypeOK
  NothingLost
PROPERTIES
  MessagesSeparated
  RelayedInOrder
  EveryMessageRelayed
  ButtonAnswers
