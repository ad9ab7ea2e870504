SPECIFICATION FairSpec
CONSTANTS
  Specs = {5, 6}
  Kinds <- MCAll
  TxLimit <- MCLimits
  U64Max = 1000
  Original <- MCTwoSlots
  GasLimit = 10
  IntrinsicCosts = {1, 8}
  TxSize = 1
  OpCosts = {2}
  ForwardGas = {3, 7}
  VolatileCap = 1
  LogSizes = {1}
  CodeSizes = {0, 1}
  CodeDepositCost = 1
  CodeStorageCost = 1
  PrecompileCosts = {0, 2}
INVARIANTS StacksAligned GasIsAccountedFor BudgetsNest ExceedHasCause
INVARIANTS FailureMeansRevertedUnlessLate  SuccessWithinLimits
PROPERTIES TxExceedIsFinal TransactionEnds
