CONSTANTS
  MaxInits = 2
  MaxUpdates = 2
  MaxValues = 1
  Transports <- MC_Transports
SPECIFICATION Spec
INVARIANT NoStreamAfterStop
CHECK_DEADLOCK FALSE
