\* The plugin's life, in one process and in two, with crashes.
SPECIFICATION Spec
CONSTANTS
  RevokeWaits = TRUE
  UnregisterWaits = TRUE
  Drains = TRUE
  MaxQueue = 2
  MaxActivations = 2
INVARIANTS TypeOK NoDeadUse PowerSettled OnIsKnown LastRequestWins NothingLeft Working SafeInv OnceInv
PROPERTIES SettlesDown FollowsPower RevokeNears UsesTimer
