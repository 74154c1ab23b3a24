SPECIFICATION Spec
CONSTANTS
  c1 = c1
  c2 = c2
  Clients <- MCClients
  Commands <- MCCommands
  Input <- MCInput
  Descriptors = 2
  Faults = {"lose", "double", "kill", "unnamed"}
  MaxFaults = 1
INVARIANTS
  TypeOK
  Signed
  ProtectedBytes
  ProtectedDirectories
  AnswersMatch
  
CHECK_DEADLOCK FALSE
