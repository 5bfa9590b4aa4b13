SPECIFICATION Spec
CONSTANTS
  Threads = {main, worker}
  Main = main
  Listeners = {l1, l2}
  None = None
  MaxParts = 2
  MaxObjects = 2
  MaxChanges = 1
INVARIANTS
  NothingDangles
  ListenersSound
PROPERTIES
  ResultsTaken
  ReportsReturn
CHECK_DEADLOCK FALSE
