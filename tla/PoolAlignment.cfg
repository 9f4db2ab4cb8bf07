CONSTANTS
  Word = 32
  MaxAlign = 4
  PoolSizes = {12}
  Sizes = {1, 3}
  Alignments = {1, 8}
  HeapAddresses = {4, 16}
  MaxBlocks = 2

SPECIFICATION Spec

PROPERTIES
  KeepsContract
