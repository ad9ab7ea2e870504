---------------------------- MODULE MCStorageGas ----------------------------
(* A contract beside an empty account, one that delegates to it, or a cycle of *)
(* delegations; accounts and slots fall into two buckets.                      *)
EXTENDS StorageGas
CONSTANTS a, b, low, high

MCAccounts == {a, b}
World(of_a, of_b) == [x \in MCAccounts |-> IF x = a THEN of_a ELSE of_b]
MCWorlds == {World("contract", "none"), World("contract", a), World("contract", b), World(b, a)}
MCSaltEnvs == {[x \in {low, high} |-> 512], [x \in {low, high} |-> IF x = low THEN 256 ELSE 1000]}
MCBucketOfAccount == [x \in Accounts \union (Accounts \X Nonces) |-> IF x = b THEN high ELSE low]
MCBucketOfSlot == [x \in Accounts \X Keys |-> IF x[1] = a THEN high ELSE low]

=============================================================================
