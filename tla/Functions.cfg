SPECIFICATION MCSpec
CONSTANTS
  MaxElements = 3
  MaxMatchers = 3
  Fold <- MCFold
  kExponentBitCount = 3
  kFractionBitCount = 2
  kMaxUlps = 4
  IntMin <- MCIntMin
  IntMax = 7
INVARIANTS
  PairingIsMaximum
  VerdictsExplained
  TextsSurvive
  ShownTruthfully
  DiffsSound
  PatternsExact
  FloatsClose
  FlagsParsed
  FactorialExact
CHECK_DEADLOCK FALSE
