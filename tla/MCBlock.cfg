SPECIFICATION Spec
CONSTANTS
  Tx <- MCTx
  Usages <- MCUsages
  Limits <- MCLimits
  U64 = 16
  MaxOutcomes = 2
INVARIANT HardLimitsHold
INVARIANT ReceiptsAddUp
PROPERTY FullBlockIsClosed
PROPERTY FillsAtomically
CHECK_DEADLOCK FALSE
