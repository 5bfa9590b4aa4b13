SPECIFICATION Spec
CONSTANTS
  Programs <- MCPrograms
  Styles = {"fast", "threadsafe", "unknown"}
  Repeat = 2
  Faults = {"check_in_parent", "exec", "other_path", "check_in_child"}
INVARIANTS
  JudgedTruly
PROPERTIES
  ParentGoesOn
CHECK_DEADLOCK FALSE
