---------------------------- MODULE BlockExecutor ----------------------------
(***************************************************************************)
(* MegaBlockExecutor (block/executor.rs) and its BlockLimiter              *)
(* (block/limit.rs): transactions are run against the block, possibly many *)
(* before the first is committed, and committed or dropped one by one.     *)
(* The EVM is a choice of what a transaction uses; its state changes and   *)
(* the system calls before and after the block are left out.               *)
(***************************************************************************)
EXTENDS Integers, Sequences, FiniteSets

CONSTANTS
  Tx,           \* transactions: [gas_limit, tx_size, da_size : Nat, deposit : BOOLEAN]
  Usages,       \* what an execution may use: [gas : Nat, and each soft resource : Nat]
  Limits,       \* BlockLimits: tx and block limits of each resource
  U64,          \* 2^64: u64 additions wrap around in release builds
  MaxOutcomes   \* bound: outcomes that wait for their commit

Hard == {"gas", "tx_size", "da_size"}
Soft == {"data", "kv_updates", "compute_gas", "state_growth"}
Resource == Hard \cup Soft

ASSUME BlockAssumption ==
  /\ Tx \subseteq [gas_limit : Nat, tx_size : Nat, da_size : Nat, deposit : BOOLEAN]
  /\ Usages \subseteq [{"gas"} \cup Soft -> Nat]
  /\ Limits \in [tx : [Hard -> Nat], block : [Resource -> Nat]]
  /\ U64 \in Nat /\ MaxOutcomes \in Nat
  \* the limits leave room for the sum of a counter and what one transaction declares,
  \* which may be anything
  /\ \A r \in Hard : Limits.block[r] + Limits.tx[r] < U64

\* The EVM uses at most the gas limit of a transaction.
Outcome == {o \in [tx : Tx, usage : Usages] : o.usage["gas"] <= o.tx.gas_limit}

VARIABLES
  used,       \* BlockLimiter: the block_*_used counters
  outcomes,   \* outcomes of run_transaction the caller has not committed yet
  receipts,   \* the receipts, each with the outcome it was built from
  finished    \* finish was called; its result is the gas used by the block

vars == <<used, outcomes, receipts, finished>>

TypeOK ==
  /\ used \in [Resource -> Nat]
  /\ outcomes \subseteq Outcome
  /\ receipts \in Seq([outcome : Outcome, cumulative : Nat])
  /\ finished \in BOOLEAN
-----------------------------------------------------------------------------
(* BlockLimiter *)

Add(a, b) == (a + b) % U64

\* What a transaction declares to take of a hard resource
Declared(t, r) ==
  IF r = "gas" THEN t.gas_limit ELSE IF r = "tx_size" THEN t.tx_size ELSE t.da_size

\* Deposits are exempt from the data availability limits.
Checked(t) == IF t.deposit THEN Hard \ {"da_size"} ELSE Hard

Mut_pre_execution_check_used_only(t) ==
  /\ \A r \in Checked(t) : Declared(t, r) <= Limits.tx[r] /\ used[r] <= Limits.block[r]
  /\ \A r \in Soft : used[r] < Limits.block[r]

\* pre_execution_check, without the order in which the errors are found
pre_execution_check(t) ==
  /\ \A r \in Checked(t) : /\ Declared(t, r) <= Limits.tx[r]
                           /\ Add(used[r], Declared(t, r)) <= Limits.block[r]
  /\ \A r \in Soft : used[r] < Limits.block[r]

\* post_execution_update_raw: hard and soft counters, no data availability for deposits
post_execution_update_raw(o) ==
  [r \in Resource |->
     IF r = "gas" \/ r \in Soft THEN used[r] + o.usage[r]
     ELSE IF r \in Checked(o.tx) THEN used[r] + Declared(o.tx, r) ELSE used[r]]

is_block_limit_reached == \E r \in Resource : used[r] >= Limits.block[r]
-----------------------------------------------------------------------------
(* MegaBlockExecutor *)

Init ==
  /\ used = [r \in Resource |-> 0]
  /\ outcomes = {}
  /\ receipts = <<>>
  /\ finished = FALSE

\* run_transaction: the counters are looked at, the block stays as it is
RunTransaction(o) ==
  /\ ~finished
  /\ pre_execution_check(o.tx)
  /\ Cardinality(outcomes) < MaxOutcomes
  /\ outcomes' = outcomes \cup {o}
  /\ UNCHANGED <<used, receipts, finished>>

Mut_Committed_cumulative_before(o) ==
  /\ used' = post_execution_update_raw(o)
  /\ receipts' = Append(receipts, [outcome |-> o, cumulative |-> used["gas"]])

\* The part of commit_transaction_outcome behind the check: counters, then receipt
Committed(o) ==
  /\ used' = post_execution_update_raw(o)
  /\ receipts' = Append(receipts, [outcome |-> o, cumulative |-> used'["gas"]])

Mut_Recheck_skipped(o) == TRUE

\* commit_transaction_outcome checks the limits again: others may have been
\* committed since the transaction ran
Recheck(o) == pre_execution_check(o.tx)

\* commit_transaction_outcome; an outcome that fails the check is gone
CommitTransactionOutcome(o) ==
  /\ ~finished /\ o \in outcomes
  /\ outcomes' = outcomes \ {o}
  /\ IF Recheck(o) THEN Committed(o) ELSE UNCHANGED <<used, receipts>>
  /\ UNCHANGED finished

\* The caller drops an outcome.
DropOutcome(o) ==
  /\ o \in outcomes
  /\ outcomes' = outcomes \ {o}
  /\ UNCHANGED <<used, receipts, finished>>

\* execute_transaction_with_commit_condition when the condition holds
ExecuteTransaction(o) ==
  /\ ~finished
  /\ pre_execution_check(o.tx) /\ Recheck(o)
  /\ Committed(o)
  /\ UNCHANGED <<outcomes, finished>>

Finish ==
  /\ ~finished
  /\ finished' = TRUE
  /\ UNCHANGED <<used, outcomes, receipts>>

Next ==
  \/ \E o \in Outcome : RunTransaction(o)
  \/ \E o \in outcomes : CommitTransactionOutcome(o)
  \/ \E o \in outcomes : DropOutcome(o)
  \/ \E o \in Outcome : ExecuteTransaction(o)
  \/ Finish

Spec == Init /\ [][Next]_vars

\* gas_used of the BlockExecutionResult of finish
BlockGasUsed == IF receipts = <<>> THEN 0 ELSE receipts[Len(receipts)].cumulative
-----------------------------------------------------------------------------
(* Properties *)

\* No interleaving of runs and commits takes the block over a limit that is checked by
\* what a transaction declares (and block_gas_limit - block_gas_used does not underflow).
HardLimitsHold == \A r \in Hard : used[r] <= Limits.block[r]

\* Amount of gas or of a soft resource r the first n receipts stand for
Taken(r, n) ==
  LET sum[i \in 0 .. Len(receipts)] ==
        IF i = 0 THEN 0 ELSE sum[i - 1] + receipts[i].outcome.usage[r]
  IN sum[n]

\* The receipts add up: cumulative gas is that of all transactions up to the receipt,
\* whatever order they ran in, and the block reports what the limiter counted.
ReceiptsAddUp ==
  /\ \A i \in DOMAIN receipts : receipts[i].cumulative = Taken("gas", i)
  /\ BlockGasUsed = used["gas"]

\* A block that has reached a limit takes no more transactions, pending outcomes
\* included, except deposits when only the data availability is used up.
FullBlockIsClosed ==
  [][is_block_limit_reached /\ receipts' # receipts =>
       /\ \A r \in Resource \ {"da_size"} : used[r] < Limits.block[r]
       /\ receipts'[Len(receipts')].outcome.tx.deposit]_vars

\* An outcome as the abstract block sees it
EntryOf(o) ==
  [demand |-> [r \in Hard |-> IF r \in Checked(o.tx) THEN Declared(o.tx, r) ELSE 0],
   use    |-> [r \in Resource |->
                 IF r = "gas" \/ r \in Soft THEN o.usage[r]
                 ELSE IF r \in Checked(o.tx) THEN Declared(o.tx, r) ELSE 0]]

Capacity == INSTANCE BlockCapacity
              WITH Cap <- Limits.block, Entries <- {EntryOf(o) : o \in Outcome},
                   total <- used

\* Whatever the caller interleaves, the block fills as if every transaction had been
\* checked, executed and included in one step.
FillsAtomically == Capacity!Spec
=============================================================================
