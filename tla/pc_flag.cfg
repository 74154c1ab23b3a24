SPECIFICATION Spec
CONSTANTS
  Capacity = 2
  LIMIT = 3
  Value = {1}
  Programs = {FALSE}
INVARIANTS
  FlagIsEnough
CHECK_DEADLOCK FALSE
