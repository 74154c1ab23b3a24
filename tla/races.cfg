SPECIFICATION Spec
CONSTANTS
  NUM_THREADS = 3
  PULO_MAXIMO = 2
  DISTANCIA_PARA_CORRER = 0
  Rounds <- MCRounds
INVARIANTS
  NoPlaceTooLate
  Outcome
PROPERTIES
  ImplementsFinishLine
  MainEnds
CHECK_DEADLOCK FALSE
