SPECIFICATION Spec
CONSTANTS
  SPEC <- REX4
  Funds = 7
  MaxNonce = 3
  TxGasLimit = 1
  Overrides = {0, 2, 3}
  Value = 1
  AccessLists <- MCAnyList
INVARIANT SignerPays
