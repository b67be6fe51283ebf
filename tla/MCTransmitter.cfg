CONSTANTS
  PKTSYMB_MAX = 4
  Packets <- SomePackets
  SETUPTIME = 3
  COUNTER = 16
  CLOCK = 8
  MaxLatency = 1
  AgeCap = 14
SPECIFICATION FairSpec
INVARIANTS
  TypeOK
  OffWhenReturned
  NoDrift
PROPERTIES
  ImplementsWaveform
  SymbolLasts
  SendReturns
