CONSTANTS
  Tensors = {t1, t2, t3}
  Blocks = {b1, b2, b3}
  Null = Null
  Shapes <- MCShapes
  MaxValue = 0

SPECIFICATION DataSpec

SYMMETRY MCSymmetry

INVARIANTS
  MemoryMatchesShape

PROPERTIES
  KeepsValues
