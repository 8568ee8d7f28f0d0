SPECIFICATION Spec
CONSTANTS
  Vectors <- MCVectors
  Value = {none, x}
  Default = none
  Destroyed = Destroyed
  MaxCapacity <- MCMaxCapacity
  MaxInserted = 2
INVARIANTS
  LifetimesRespected
PROPERTIES
  VectorIsSequence
CHECK_DEADLOCK FALSE
