SPECIFICATION RegularSpec
CONSTANTS
  Packets <- MCPackets
  MaxLen = 3
  Delays = {2, 3}
  KeyInterval = 2
  ClockMayStepBack = FALSE
  MaxChunks = 6
  PushHorizon = 4
  MaxTime = 4
INVARIANT WindowStartsAtKeyFrame
PROPERTIES RewindResumesAtKeyFrame WindowIsExact
