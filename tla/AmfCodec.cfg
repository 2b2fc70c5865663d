SPECIFICATION Spec
CONSTANTS
  Sent <- MCSent
  Depth <- MCDepth
  TransId <- MCTransId
  Url <- MCUrl
INVARIANTS FieldsAsSent RelayedAsSent
CHECK_DEADLOCK FALSE
