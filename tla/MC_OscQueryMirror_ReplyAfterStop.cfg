CONSTANTS
  MaxInits = 2
  MaxUpdates = 1
  MaxValues = 1
  Transports <- MC_Transports
SPECIFICATION Spec
PROPERTY RepliesOnlyWhileRunning
CHECK_DEADLOCK FALSE
