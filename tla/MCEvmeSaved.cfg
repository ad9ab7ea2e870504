SPECIFICATION Spec
CONSTANTS
    Slots = {1}
    Files <- MCFiles
    Remote <- MCRemote
    Invocations <- MCInvocations
    MaxInvocations = 3
    Allocs <- MCAllocs
    TxLists <- MCTxLists
    GasUsed = {1, 2}
    MaxTransitions = 3
    Txs = {"t1", "t2", "target"}
    Target = "target"
    MaxBlocks = 4
INVARIANT SavedStateLoads
CHECK_DEADLOCK FALSE
