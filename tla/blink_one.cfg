\* One client at a time: the promise of BlinkShow and every safety property.
SPECIFICATION Spec
CONSTANTS
  Clients = {c1}
  Shades <- Colours
  Steady <- Off
  Patterns <- SomePatterns
  Iterations <- SomeIterations
  IntMax = 5
  RevokeWaits = TRUE
  DsFaults = FALSE
INVARIANTS TypeOK TicksBounded NoOutOfRange StaysOnLast StoppedIsStopped NeverStalls ChainInv LedInv
PROPERTIES SteadyStays KeepsPromise RequestReturns RevokeComes UsesTimer
