SPECIFICATION Spec
CONSTANTS
  Process <- MCProcess
  Scenarios <- MCScenarios
  Restarts = 1
  SemMax = 3
  Rounds = 2
  Size = 2
  Messages = 4
  Additions = 2
INVARIANTS
  Conserved
  Exclusive
  NothingLost
  Fresh
  LimitNeedsMessages
PROPERTIES
  Ends
  Delivered
CHECK_DEADLOCK FALSE
