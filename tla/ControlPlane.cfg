SPECIFICATION ControlFairSpec
CONSTANTS
  Socket = {s1, s2, s3}
  Requested = {"API_PORT", "LOCAL_PORT"}
  Value = {0, 1, 2, 3}
  Edit <- MCEdit
  Default <- MCDefault
  PortLimit = 3
INVARIANTS ControlTypeOK StatusIsHonest StopReachesEverySocket NoOrphanedRemote SettingsInRange
PROPERTIES RestartKeepsSettings StopEnds
