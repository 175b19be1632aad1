\* A setLED whose colour device settings refuses.
SPECIFICATION Spec
CONSTANTS
  Indicators <- TwoLeds
  Levels <- OneLevel
  Colours <- TwoColours
  InProcess = FALSE
  IsTV = FALSE
  Faults <- SomeFaults
  MaxQueue = 1
INVARIANTS ColourHonest
