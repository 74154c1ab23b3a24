SPECIFICATION Spec
CONSTANTS
  Capacity = 2
  LIMIT = 4
  Value = {1, 2}
INVARIANTS
  NothingLost
  TestStaysTrue
  LimitIsLength
CHECK_DEADLOCK FALSE
