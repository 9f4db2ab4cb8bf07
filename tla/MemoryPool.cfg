CONSTANTS
  Word = 32
  MaxAlign = 4
  PoolSizes = {0, 7, 12}
  Sizes = {0, 1, 3, 9}
  Alignments = {1, 4}
  HeapAddresses = {4, 16}
  MaxBlocks = 3

SPECIFICATION Spec

INVARIANTS
  TypeOK
  BlocksAreBacked
  NothingElseLeaks

PROPERTIES
  KeepsContract
