SPECIFICATION Spec
CONSTANTS
  N = 2
  MaxIO = 0
  Overlap = TRUE
PROPERTIES
  ExitsAreReal
CHECK_DEADLOCK FALSE
