CONSTANTS
  Tensors = {t1, t2, t3}
  Blocks = {b1, b2, b3}
  Null = Null

SPECIFICATION Spec

SYMMETRY MCSymmetry

INVARIANTS
  TypeOK
  OwnedIsAllocated
  OwnersAreExclusive
  NothingLeaks
