SPECIFICATION Spec
CONSTANTS
  main = main  t1 = t1  t2 = t2
  A = A  B = B  C = C  D = D
  f = f  g = g  h = h  k = k  p = p  q = q
  Nobody = Nobody
  Threads = {main}
  Mockers = {f}
  Objects = {A}
  Raced = {}
  Exps = {1}
  ObjectOf <- MCObjectOf
  MockerOf <- ExceedMockerOf
  Min <- ExceedBound
  Max <- ExceedBound
  Action <- ExceedAction
  DefaultAction <- ExceedDefault
  Owns <- ExceedOwns
  Programs <- ExceedPrograms
INVARIANTS
  NoDanglingUse
