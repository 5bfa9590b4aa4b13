SPECIFICATION MCSpec
CONSTANTS
  a = a  f = f  g = g  s = s
  IntMax = 3
  Mockers = {f, g}
  StrictMockers = {g}
  Args = {a}
  ArgMatchers = {{a}}
  Cardinalities <- MCCardinalities
  Handles = {1, 2}
  Sequences = {s}
  Implicit = implicit
  MaxExp = 3
  MaxScope = 1
  MaxCalls = 2
INVARIANTS
  TypeOK
  PrerequisitesFrozen
  UnsatisfiedPrerequisitesExact
  ViolationsReportedOnce
  SequencesInOrder
PROPERTIES
  ImplementsCallOrder
CHECK_DEADLOCK FALSE
