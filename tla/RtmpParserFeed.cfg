SPECIFICATION FairSpec
CONSTANTS
  B = 32
  Messages <- MCMessages
  HandshakeSize = 2
  DefaultChunkSize = 3
  FourCCs <- MCFourCCs
  UnreadableCommands <- MCUnreadableCommands
  MaxMessages = 3
  WireBound = 25
  LostAnywhere = FALSE
INVARIANTS TypeOK ReadsWhatWasSent NothingHeldBack ChunkSizesAgree
PROPERTY FeedReturns
CHECK_DEADLOCK FALSE
