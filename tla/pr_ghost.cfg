SPECIFICATION FairSpec
CONSTANTS
  N = 2
  MaxIO = 1
  Overlap = FALSE
  Slots = 2
  Level = {7}
PROPERTIES
  Finishes
CHECK_DEADLOCK FALSE
