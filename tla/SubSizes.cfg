CONSTANTS
  Inputs <- MCInputs
  Operands <- MCOperands
  IndexMatrices <- MCIndexMatrices
  Axes <- MCAxes
  NewDims <- MCNewDims
  MaxSize = 4
  Values <- MCValues

SPECIFICATION Spec

INVARIANTS
  SubBroadcastsToAnySize
