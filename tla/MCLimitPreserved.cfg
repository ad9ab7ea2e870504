SPECIFICATION Spec
CONSTANTS
  Specs = {6}
  Kinds <- MCComputeGrowth
  TxLimit <- MCLimits
  U64Max = 1000
  Original <- MCOneSlot
  GasLimit = 8
  IntrinsicCosts = {1}
  TxSize = 1
  OpCosts = {1, 2}
  ForwardGas = {3, 6}
  VolatileCap = 1
  LogSizes = {1}
  CodeSizes = {0, 1}
  CodeDepositCost = 1
  CodeStorageCost = 1
  PrecompileCosts = {2}
INVARIANT RemainingGasIsPreserved
