SPECIFICATION FairSpec
CONSTANTS
  Specs = {4, 6}
  None = None
  MaxDepth = 3
  OpCosts <- MCOpCosts
  TxComputeLimit = 6
  BlockEnvCap = 3
  OracleCap = 2
INVARIANTS TypeOK RunsWithinLimit AnswersAreHonest DetainedByOwnReads CapIsOrderIndependent OracleRunsDetained
PROPERTIES RestrictionIsScoped OnlyTightens TransactionEnds
