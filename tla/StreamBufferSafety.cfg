SPECIFICATION Spec
CONSTANTS
  Packets <- MCPackets
  MaxLen = 3
  Delays = {1, 2}
  KeyInterval = 2
  ClockMayStepBack = TRUE
  MaxChunks = 4
  PushHorizon = 2
  MaxTime = 3
INVARIANTS TypeOK StoredInOrder TotalLengthIsBytes
PROPERTY ImplementsStreamLog
