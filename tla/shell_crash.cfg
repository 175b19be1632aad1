\* The process of an activated plugin crashes.
SPECIFICATION Spec
CONSTANTS
  RevokeWaits = TRUE
  UnregisterWaits = TRUE
  Drains = TRUE
  MaxQueue = 1
  MaxActivations = 1
PROPERTIES CrashNoticed
