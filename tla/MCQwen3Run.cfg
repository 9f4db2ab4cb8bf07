CONSTANTS
  a = a
  b = b
  Tokens = {a, b}
  Layers = 1
  QueryHeads = 1
  KvHeads = 1
  MaxPositions = 3
  MaxPrompt = 4
  MaxNew = 3
  Blank = Blank
  Junk = Junk
  OutOfRange = OutOfRange
  Hidden <- MCHidden
  Argmax <- MCArgmax

SPECIFICATION FairSpec

CHECK_DEADLOCK FALSE

INVARIANTS
  TypeOK
  GeneratedIsGreedy
  UndisturbedRunsSucceedIfTheyFit
  OutputsAreComplete

PROPERTIES
  StartedRunsEnd
