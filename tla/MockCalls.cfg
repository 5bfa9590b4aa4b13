SPECIFICATION Spec
CONSTANTS
  main = main  t1 = t1  t2 = t2
  A = A  B = B  C = C  D = D
  f = f  g = g  h = h  k = k  p = p  q = q
  Nobody = Nobody
  Threads = {main, t1, t2}
  Mockers = {f, g, h, k, p, q}
  Objects = {A, B, C, D}
  Raced = {A}
  Exps = {1, 2, 3, 4, 5, 6}
  ObjectOf <- MCObjectOf
  MockerOf <- CallsMockerOf
  Min <- CallsMin
  Max <- CallsMax
  Action <- CallsAction
  DefaultAction <- CallsDefault
  Owns <- CallsOwns
  Programs <- CallsPrograms
INVARIANTS
  ExcessReportedOnce
  VerifiedInTheEnd
  NoDanglingUse
PROPERTIES
  ProgramsFinish
