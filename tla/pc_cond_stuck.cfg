SPECIFICATION Spec
CONSTANTS
  Capacity = 1
  Producers = {p1, p2}
  Consumers = {c1, c2}
  p1 = p1
  p2 = p2
  c1 = c1
  c2 = c2
  LIMIT = 1
INVARIANTS
  NeverAllBlocked
CHECK_DEADLOCK FALSE
