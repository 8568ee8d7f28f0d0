SPECIFICATION Spec
CONSTANTS
  Lists = {a, b}
  Heap = {n1, n2, n3, n4}
  Value = {x, y}
  Assigned <- MCAssigned
  Null = Null
SYMMETRY MCSymmetry
INVARIANTS
  WellLinked
PROPERTIES
  ListIsSequence
  CallsReturn
