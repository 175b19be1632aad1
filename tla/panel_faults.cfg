\* A call to the Power LED, or the start of device settings, may throw halfway
\* through a handler, PowerManager may be out of reach.
SPECIFICATION Spec
CONSTANTS
  Indicators <- TwoLeds
  Levels <- TwoLevels
  Colours <- OneColour
  InProcess = FALSE
  IsTV = FALSE
  Faults <- SomeFaults
  MaxQueue = 1
INVARIANTS HonestAnswers PowerKnown
PROPERTIES SavedByRequest LightsNeedPower
