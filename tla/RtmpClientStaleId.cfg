SPECIFICATION Spec
CONSTANTS
  Script <- MCShortScript
  StreamIds = {1, 2}
  MinDelay = 2
  MaxDelay = 5
  Remotes = {"unreliable"}
  MaxData = 4
INVARIANT PublishUsesReturnedStreamId
