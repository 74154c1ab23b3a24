SPECIFICATION FairSpec
CONSTANTS
  Capacity = 2
  LIMIT = 4
  Value = {1, 2}
  Programs = {TRUE, FALSE}
INVARIANTS
  ListIsWhole
  EatenOnceInOrder
PROPERTIES
  BothFinish
  ImplementsProducerConsumer
CHECK_DEADLOCK FALSE
