\* Activations that follow each other in one process.
SPECIFICATION Spec
CONSTANTS
  Indicators <- TwoLeds
  Levels <- OneLevel
  Colours <- OneColour
  InProcess = TRUE
  IsTV = FALSE
  Faults <- NoFaults
  MaxQueue = 1
INVARIANTS PowerKnown
