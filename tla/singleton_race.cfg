\* A notification while Configure is in instance().
SPECIFICATION SingletonSpec
CONSTANTS
  RevokeWaits = TRUE
  UnregisterWaits = TRUE
  MaxQueue = 1
  MaxActivations = 1
INVARIANTS OneObject
