CONSTANTS
  MaxInits = 3
  MaxUpdates = 3
  MaxValues = 1
  Transports <- MC_Transports
SPECIFICATION Spec
INVARIANT TypeOK
CHECK_DEADLOCK FALSE
