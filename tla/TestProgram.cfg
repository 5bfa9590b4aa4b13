SPECIFICATION Spec
CONSTANTS
  TestCount <- MCTestCount
  Environments = 2
  Flags <- MCFlags
  Outcomes <- MCOutcomes
  Before <- MCBefore
  MaxTrouble = 2
INVARIANTS
  StatusTellsFailures
  LifetimesNest
  ChargedWhereItBelongs
  IterationsSound
PROPERTIES
  ComesToAnEnd
CHECK_DEADLOCK FALSE
