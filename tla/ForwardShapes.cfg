CONSTANTS
  Layers = 2
  Hidden = 3
  QueryHeads = 4
  KvHeads = 2
  HeadDim = 2
  Intermediate = 5
  Vocab = 7
  MaxPositions = 4
  MaxPrompt = 5

SPECIFICATION Spec

INVARIANTS
  TypeOK
  OnlyLengthsAreRejected
  CachesCoverTheContext

PROPERTIES
  ImplementsContextLength
