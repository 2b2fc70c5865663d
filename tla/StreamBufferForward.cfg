SPECIFICATION Spec
CONSTANTS
  Packets <- MCPackets
  MaxLen = 3
  Delays = {1, 2}
  KeyInterval = 2
  ClockMayStepBack = FALSE
  MaxChunks = 4
  PushHorizon = 2
  MaxTime = 3
PROPERTY ForwardKeepsMostRecentGroup
