CONSTANTS
  POLL_INTERVAL = 50
  SIGFREE_MIN = 10000
  Behind <- Anything
  Messages <- GoodMessages
  Frames <- AllFrames
  Phases <- Fine
  Lost <- Tails
  Earlier <- Long
  MaxHops = 2
SPECIFICATION Spec
CHECK_DEADLOCK FALSE
INVARIANTS
  TypeOK
  TableAsWritten
  SentAsMeant
  ReceivedAsMeant
  OneDecoder
  OnlyBitsSent
  FullMessagesRepeat
