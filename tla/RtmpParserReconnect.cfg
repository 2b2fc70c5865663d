SPECIFICATION FairSpec
CONSTANTS
  B = 32
  Messages <- MCLongMessages
  HandshakeSize = 2
  DefaultChunkSize = 3
  FourCCs <- MCFourCCs
  UnreadableCommands <- MCUnreadableCommands
  MaxMessages = 2
  WireBound = 25
  LostAnywhere = TRUE
INVARIANT ReadsWhatWasSent
CHECK_DEADLOCK FALSE
