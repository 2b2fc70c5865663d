SPECIFICATION FairSpec
CONSTANTS
  Clients = {c1, c2}
  Kinds = {"rtmp", "simple"}
  Packets <- MCPackets
  MaxLen = 0
  Delays = {1, 2}
  PushHorizon = 1
  RequestHorizon = 2
  MaxTime = 4
INVARIANTS EveryStreamInOrder FlagNeedsRemote
PROPERTIES RequestServed QueueDrains NothingAfterLoss
CHECK_DEADLOCK FALSE
