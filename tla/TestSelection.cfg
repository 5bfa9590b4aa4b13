SPECIFICATION Spec
CONSTANTS
  a1 = a1  a2 = a2  a3 = a3  b = b  d = d  e = e
  A = A  B = B  D = D  E = E
  Tests = {a1, a2, a3, b, d, e}
  SuiteOf <- MCSuiteOf
  DeathSuites = {D, E}
  Disabled = {a3}
  Location <- MCLocation
  Filters <- MCFilters
  Environments <- MCEnvironments
  Seeds = {0, 9}
  Repeat = 3
  MaxShards = 3
  MaxRandomSeed = 9
  Word = 64
  Factor = 13
  Increment = 5
  MaxRange = 31
INVARIANTS
  SelectionSound
  OrdersRepeat
CHECK_DEADLOCK FALSE
