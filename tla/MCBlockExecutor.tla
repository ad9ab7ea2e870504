--------------------------- MODULE MCBlockExecutor ---------------------------
(* Small instances of BlockExecutor for TLC. *)
EXTENDS BlockExecutor

\* Two transactions, one whose gas limit makes the sum with the counter wrap around,
\* and a deposit over the data availability limits.
MCTx == {[gas_limit |-> 2, tx_size |-> 1, da_size |-> 1, deposit |-> FALSE],
         [gas_limit |-> 3, tx_size |-> 2, da_size |-> 2, deposit |-> FALSE],
         [gas_limit |-> 15, tx_size |-> 1, da_size |-> 1, deposit |-> FALSE],
         [gas_limit |-> 1, tx_size |-> 1, da_size |-> 3, deposit |-> TRUE]}

MCUsage(g, d, k) == [r \in {"gas"} \cup Soft |->
                       CASE r = "gas" -> g [] r = "data" -> d [] r = "kv_updates" -> k
                         [] r = "compute_gas" -> g [] r = "state_growth" -> 0]

MCUsages == {MCUsage(1, 1, 0), MCUsage(2, 3, 1), MCUsage(0, 0, 2)}

MCLimits == [tx    |-> [r \in Hard |-> IF r = "gas" THEN 3 ELSE 2],
             block |-> [r \in Resource |-> CASE r = "gas" -> 5 [] r = "tx_size" -> 4
                                             [] r = "da_size" -> 3 [] r = "data" -> 4
                                             [] r = "kv_updates" -> 3
                                             [] r = "compute_gas" -> 4
                                             [] r = "state_growth" -> 1]]
=============================================================================
