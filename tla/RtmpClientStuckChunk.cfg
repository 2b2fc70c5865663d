SPECIFICATION FairSpec
CONSTANTS
  Script <- MCShortScript
  StreamIds = {1, 2}
  MinDelay = 2
  MaxDelay = 5
  Remotes = {"prompt"}
  MaxData = 5
PROPERTY ChunkRelayed
