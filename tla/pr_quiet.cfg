SPECIFICATION Spec
CONSTANTS
  N = 3
  MaxIO = 1
  Overlap = FALSE
  Slots = 3
  Level = {5, 7}
INVARIANTS
  TypeOK
  OwnedOnce
  OnlyCurrentRuns
  DoneMeansAllExited
  Heartbeat
PROPERTIES
  BestIsPicked
  OnlyIOLeavesBounds
CHECK_DEADLOCK FALSE
