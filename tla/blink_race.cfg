\* Two requests again at a time, on two threads of the worker pool.
SPECIFICATION Spec
CONSTANTS
  Clients = {c1, c2}
  Shades <- Colours
  Steady <- Off
  Patterns <- TwoPatterns
  Iterations <- FewIterations
  IntMax = 3
  RevokeWaits = TRUE
  DsFaults = FALSE
INVARIANTS NoOutOfRange
CHECK_DEADLOCK FALSE
