SPECIFICATION Spec
CONSTANTS
  Capacity = 2
  Producers = {p1, p2}
  Consumers = {c1, c2}
  p1 = p1
  p2 = p2
  c1 = c1
  c2 = c2
  LIMIT = 2
INVARIANTS
  WithinCapacity
  MutexesAreReturned
SYMMETRY Symmetry
CHECK_DEADLOCK FALSE
