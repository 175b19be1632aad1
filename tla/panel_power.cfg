\* Power and lights: each activation in a process of its own, device settings
\* does not fail, PowerManager may be out of reach.
SPECIFICATION Spec
CONSTANTS
  Indicators <- ThreeLeds
  Levels <- OneLevel
  Colours <- TwoColours
  InProcess = FALSE
  IsTV = FALSE
  Faults <- PowerFaults
  MaxQueue = 2
INVARIANTS TypeOK FlagsAgree
PROPERTIES FollowsPower SavedByRequest
