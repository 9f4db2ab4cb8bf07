CONSTANTS
  NUM_LAYERS = 1
  HIDDEN = 2
  QUERY_HEADS = 1
  KV_HEADS = 1
  HEAD_DIM = 2
  INTERMEDIATE = 1
  VOCAB = 2
  MAX_POS = 1
  MaxExports = 2

SPECIFICATION Spec

CHECK_DEADLOCK FALSE

INVARIANTS
  TypeOK
  WeightsInPlace
  LoadNeedsAFinishedExport
  QuietLoadsAreAccepted
  QuietLoadsAreWhole
