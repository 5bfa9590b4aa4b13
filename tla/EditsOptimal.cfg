SPECIFICATION MCSpec
CONSTANTS
  MaxElements = 3
  MaxMatchers = 3
  Fold <- MCFold
  kExponentBitCount = 3
  kFractionBitCount = 2
  kMaxUlps = 4
  IntMin <- MCIntMin
  IntMax = 7
INVARIANT
  EditsOptimal
CHECK_DEADLOCK FALSE
