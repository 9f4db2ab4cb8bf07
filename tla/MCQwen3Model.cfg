CONSTANTS
  Tokens = {a, b}
  Layers = 2
  QueryHeads = 4
  KvHeads = 2
  MaxPositions = 3
  MaxPrompt = 4
  Hidden <- MCHidden

SPECIFICATION FairSpec

INVARIANTS
  CacheMirrorsHistory
  LogitsFollowHistory
  OnlyFirstLayerRejects
  IInv

PROPERTIES
  ImplementsTokenHistory
  ServableCallsAreServed
