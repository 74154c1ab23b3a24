SPECIFICATION ViewSpec
CONSTANTS
  N = 3
  MaxIO = 1
  Overlap = FALSE
INVARIANTS
  TypeOK
  Heartbeat
  OnlyCurrentRuns
  DoneMeansAllExited
PROPERTIES
  ExitReport
  Finishes
  ImplementsRoundRobin
CHECK_DEADLOCK FALSE
