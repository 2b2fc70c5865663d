SPECIFICATION MultiFairSpec
CONSTANTS
  Script <- MCScript
  StreamIds = {5, 6}
  MinDelay = 2
  MaxDelay = 5
  Remotes = {"prompt", "unreliable"}
  MaxData = 9
  TidStride = 2
INVARIANTS MultiTypeOK SettledOnce CommandsOnceInOrder CommandsAwaitAnswers EndedStaysDown OneAttemptAtATime ObsAnsweredInOrder StreamIdsKeptApart
PROPERTIES RemoteRetried TransactionSettles ObsIsServed
