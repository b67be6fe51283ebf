CONSTANTS
  REFCLK = 20
  BYTE = 8
  WORD = 40
  DefaultCarrier = 4
  Carriers <- SomeCarriers
  PollCycles = 9
  PollLatency = 3
  SetupClocks = 32
SPECIFICATION Spec
INVARIANTS
  HwTypeOK
  MarkHasCarrier
PROPERTIES
  PollsOnTime
