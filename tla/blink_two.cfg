\* Two requests at a time, on two threads of the worker pool; every call to
\* device settings may throw.
SPECIFICATION Spec
CONSTANTS
  Clients = {c1, c2}
  Shades <- Colours
  Steady <- Off
  Patterns <- TwoPatterns
  Iterations <- FewIterations
  IntMax = 3
  RevokeWaits = TRUE
  DsFaults = TRUE
INVARIANTS TicksBounded
PROPERTIES FiniteBlinkEnds RunsOut
CHECK_DEADLOCK FALSE
