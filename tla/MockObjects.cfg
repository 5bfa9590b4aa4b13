SPECIFICATION MCSpec
CONSTANTS
  f = f  g = g
  None = None
  Addresses = {a1, a2}
  Functions <- MCFunctions
  Args <- MCArgs
  Defaults <- MCDefaults
  PerformAction <- Perform
  Wrappers = {"nice", "strict", "raw"}
  World0 <- MCWorld0
  MaxObjects = 2
  MaxUses = 4
  IntMax = 9
  MaxClauses = 4
  MaxCalls = 4
  Bounds <- MCBounds
SYMMETRY MCSymmetry
INVARIANTS
  RegistriesTrue
  NothingPassedOver
  ActionsSound
  StatementJudged
  ActionsSuffice
CHECK_DEADLOCK FALSE
