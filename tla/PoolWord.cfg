CONSTANTS
  Word = 32
  MaxAlign = 4
  PoolSizes = {12}
  Sizes = {3, 29}
  Alignments = {1, 4}
  HeapAddresses = {4, 16}
  MaxBlocks = 2

SPECIFICATION Spec

INVARIANTS
  BlocksAreBacked
