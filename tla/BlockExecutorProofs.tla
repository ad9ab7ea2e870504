------------------------- MODULE BlockExecutorProofs -------------------------
(* Proofs about BlockExecutor, for any transactions, usages and limits. *)
EXTENDS BlockExecutor, SequenceTheorems, WellFoundedInduction, TLAPS

\* u64 addition is addition when it does not wrap around.
LEMMA AddIsPlus ==
  ASSUME NEW a \in Nat, NEW b \in Nat, a + b < U64
  PROVE  Add(a, b) = a + b
BY BlockAssumption DEF Add

\* The types of what an outcome holds
LEMMA OutcomeFields ==
  ASSUME NEW o \in Outcome
  PROVE  /\ o.tx \in Tx
         /\ o.usage \in [{"gas"} \cup Soft -> Nat]
         /\ o.usage["gas"] <= o.tx.gas_limit
         /\ o.tx.gas_limit \in Nat /\ o.tx.tx_size \in Nat /\ o.tx.da_size \in Nat
         /\ o.tx.deposit \in BOOLEAN
BY BlockAssumption DEF Outcome

\* What a transaction declares and what limits it are natural numbers.
LEMMA DeclaredIsNat ==
  ASSUME NEW o \in Outcome, NEW r \in Hard
  PROVE  /\ Declared(o.tx, r) \in Nat
         /\ Limits.block[r] \in Nat /\ Limits.tx[r] \in Nat
<1>1. Limits.block[r] \in Nat /\ Limits.tx[r] \in Nat
  BY BlockAssumption DEF Resource
<1>2. CASE r = "gas"
  BY <1>1, <1>2, OutcomeFields DEF Declared
<1>3. CASE r = "tx_size"
  BY <1>1, <1>3, OutcomeFields DEF Declared
<1>4. CASE r = "da_size"
  BY <1>1, <1>4, OutcomeFields DEF Declared
<1> QED BY <1>2, <1>3, <1>4 DEF Hard

IInv == TypeOK /\ HardLimitsHold

\* What an outcome uses of a resource, as EntryOf gives it, is a natural number.
LEMMA UseIsNat ==
  ASSUME NEW o \in Outcome, NEW r \in Resource
  PROVE  /\ EntryOf(o).use[r] \in Nat
         /\ EntryOf(o).use[r] = IF r = "gas" \/ r \in Soft THEN o.usage[r]
                                ELSE IF r \in Checked(o.tx) THEN Declared(o.tx, r) ELSE 0
<1>1. CASE r = "gas" \/ r \in Soft
  BY <1>1, OutcomeFields DEF EntryOf
<1>2. CASE ~(r = "gas" \/ r \in Soft)
  <2>1. r \in Hard
    BY <1>2 DEF Resource
  <2> QED BY <1>2, <2>1, DeclaredIsNat DEF EntryOf
<1> QED BY <1>1, <1>2

\* A commit behind the check is a step of the abstract block: post_execution_update_raw
\* adds what pre_execution_check made room for.
LEMMA CommitIncludes ==
  ASSUME IInv, NEW o \in Outcome, pre_execution_check(o.tx)
  PROVE  /\ \A r \in Hard : /\ EntryOf(o).use[r] <= EntryOf(o).demand[r]
                            /\ used[r] + EntryOf(o).demand[r] <= Limits.block[r]
         /\ \A r \in Soft : used[r] < Limits.block[r]
         /\ post_execution_update_raw(o) = [r \in Hard \cup Soft |-> used[r] + EntryOf(o).use[r]]
<1>1. ASSUME NEW r \in Hard
      PROVE  /\ EntryOf(o).use[r] <= EntryOf(o).demand[r]
             /\ used[r] + EntryOf(o).demand[r] <= Limits.block[r]
  <2>1. /\ used[r] \in Nat /\ used[r] <= Limits.block[r]
        /\ r \in Resource
    BY <1>1 DEF IInv, TypeOK, HardLimitsHold, Resource
  <2>2. /\ Declared(o.tx, r) \in Nat /\ Limits.block[r] \in Nat
        /\ Limits.tx[r] \in Nat /\ Limits.block[r] + Limits.tx[r] < U64 /\ U64 \in Nat
    BY <1>1, DeclaredIsNat, BlockAssumption
  <2>3. ASSUME r \in Checked(o.tx) PROVE used[r] + Declared(o.tx, r) < U64
    BY <2>1, <2>2, <2>3 DEF pre_execution_check
  <2>4. ASSUME r \in Checked(o.tx)
        PROVE  Add(used[r], Declared(o.tx, r)) = used[r] + Declared(o.tx, r)
    BY <2>1, <2>2, <2>3, <2>4, AddIsPlus
  <2>5. EntryOf(o).demand[r] = IF r \in Checked(o.tx) THEN Declared(o.tx, r) ELSE 0
    BY <1>1 DEF EntryOf
  <2>6. used[r] + EntryOf(o).demand[r] <= Limits.block[r]
    BY <1>1, <2>1, <2>2, <2>4, <2>5 DEF pre_execution_check
  <2>7. EntryOf(o).use[r] <= EntryOf(o).demand[r]
    <3>1. CASE r = "gas"
      <4>1. r \in Checked(o.tx) /\ Declared(o.tx, r) = o.tx.gas_limit
        BY <1>1, <3>1 DEF Checked, Declared
      <4>2. EntryOf(o).use[r] = o.usage["gas"]
        BY <3>1, <2>1, UseIsNat
      <4> QED BY <4>1, <4>2, <2>5, OutcomeFields
    <3>2. CASE r # "gas"
      <4>1. r \notin Soft
        BY <1>1 DEF Hard, Soft
      <4>2. EntryOf(o).use[r] = EntryOf(o).demand[r]
        BY <3>2, <4>1, <2>1, <2>5, UseIsNat
      <4> QED BY <4>2, <2>1, UseIsNat
    <3> QED BY <3>1, <3>2
  <2> QED BY <2>6, <2>7
<1>2. \A r \in Soft : used[r] < Limits.block[r]
  BY DEF pre_execution_check
<1>3. ASSUME NEW r \in Resource
      PROVE  post_execution_update_raw(o)[r] = used[r] + EntryOf(o).use[r]
  <2>1. used[r] \in Nat
    BY <1>3 DEF IInv, TypeOK
  <2> QED BY <1>3, <2>1, UseIsNat DEF post_execution_update_raw
<1>4. post_execution_update_raw(o) = [r \in Hard \cup Soft |-> used[r] + EntryOf(o).use[r]]
  BY <1>3 DEF post_execution_update_raw, Resource
<1> QED BY <1>1, <1>2, <1>4

\* The invariant survives a commit.
LEMMA CommittedInv ==
  ASSUME IInv, NEW o \in Outcome, pre_execution_check(o.tx), Committed(o)
  PROVE  /\ used' \in [Resource -> Nat]
         /\ receipts' \in Seq([outcome : Outcome, cumulative : Nat])
         /\ HardLimitsHold'
<1> DEFINE use(r) == EntryOf(o).use[r]
<1>1. used' = [r \in Resource |-> used[r] + use(r)]
  BY CommitIncludes DEF Committed, Resource
<1>2. \A r \in Resource : used[r] \in Nat /\ use(r) \in Nat
  BY UseIsNat DEF IInv, TypeOK
<1>3. used' \in [Resource -> Nat]
  <2> HIDE DEF use
  <2> QED BY <1>1, <1>2
<1>4. "gas" \in Resource
  BY DEF Resource, Hard
<1>5. receipts' \in Seq([outcome : Outcome, cumulative : Nat])
  <2>1. used'["gas"] \in Nat
    BY <1>3, <1>4
  <2> QED BY <2>1 DEF Committed, IInv, TypeOK
<1>6. ASSUME NEW r \in Hard
      PROVE  used'[r] <= Limits.block[r]
  <2>1. r \in Resource
    BY DEF Resource
  <2>2. used'[r] = used[r] + use(r)
    BY <1>1, <2>1
  <2>3. EntryOf(o).demand[r] \in Nat
    BY DeclaredIsNat DEF EntryOf
  <2>4. use(r) <= EntryOf(o).demand[r] /\ used[r] + EntryOf(o).demand[r] <= Limits.block[r]
    BY CommitIncludes
  <2>5. Limits.block[r] \in Nat /\ used[r] \in Nat /\ use(r) \in Nat
    BY DeclaredIsNat, <1>2, <2>1
  <2> HIDE DEF use
  <2> QED BY <2>2, <2>3, <2>4, <2>5
<1> QED BY <1>3, <1>5, <1>6 DEF HardLimitsHold

\* The invariant holds at the start.
LEMMA InitInv == Init => IInv
<1> SUFFICES ASSUME Init PROVE IInv
  OBVIOUS
<1>1. \A r \in Hard : used[r] = 0 /\ Limits.block[r] \in Nat
  BY BlockAssumption DEF Init, Resource
<1>2. HardLimitsHold
  BY <1>1 DEF HardLimitsHold
<1>3. used \in [Resource -> Nat] /\ outcomes \subseteq Outcome
  BY DEF Init
<1>4. receipts \in Seq([outcome : Outcome, cumulative : Nat])
  BY EmptySeq DEF Init
<1>5. finished \in BOOLEAN
  BY DEF Init
<1> QED BY <1>2, <1>3, <1>4, <1>5 DEF IInv, TypeOK

\* Every step of the executor preserves the invariant.
LEMMA NextInv == IInv /\ [Next]_vars => IInv'
<1> SUFFICES ASSUME IInv, [Next]_vars PROVE IInv'
  OBVIOUS
<1>1. ASSUME NEW o \in Outcome, RunTransaction(o)
      PROVE  IInv'
  BY <1>1 DEF RunTransaction, IInv, TypeOK, HardLimitsHold
<1>2. ASSUME NEW o \in outcomes, CommitTransactionOutcome(o)
      PROVE  IInv'
  <2>1. o \in Outcome
    BY <1>2 DEF IInv, TypeOK
  <2>2. outcomes' \subseteq Outcome /\ finished' \in BOOLEAN
    BY <1>2 DEF CommitTransactionOutcome, IInv, TypeOK
  <2>3. CASE Recheck(o)
    <3>1. pre_execution_check(o.tx) /\ Committed(o)
      BY <1>2, <2>3 DEF CommitTransactionOutcome, Recheck
    <3> QED BY <2>1, <2>2, <3>1, CommittedInv DEF IInv, TypeOK
  <2>4. CASE ~Recheck(o)
    BY <1>2, <2>2, <2>4 DEF CommitTransactionOutcome, IInv, TypeOK, HardLimitsHold
  <2> QED BY <2>3, <2>4
<1>3. ASSUME NEW o \in outcomes, DropOutcome(o)
      PROVE  IInv'
  BY <1>3 DEF DropOutcome, IInv, TypeOK, HardLimitsHold
<1>4. ASSUME NEW o \in Outcome, ExecuteTransaction(o)
      PROVE  IInv'
  <2>1. pre_execution_check(o.tx) /\ Committed(o)
    BY <1>4 DEF ExecuteTransaction
  <2>2. outcomes' \subseteq Outcome /\ finished' \in BOOLEAN
    BY <1>4 DEF ExecuteTransaction, IInv, TypeOK
  <2> QED BY <2>1, <2>2, CommittedInv DEF IInv, TypeOK
<1>5. ASSUME Finish PROVE IInv'
  BY <1>5 DEF Finish, IInv, TypeOK, HardLimitsHold
<1>6. CASE UNCHANGED vars
  BY <1>6 DEF vars, IInv, TypeOK, HardLimitsHold
<1> QED BY <1>1, <1>2, <1>3, <1>4, <1>5, <1>6 DEF Next

\* The counters, the pending outcomes and the receipts keep their types, and no
\* interleaving of run_transaction and commit_transaction_outcome passes a hard limit.
THEOREM Invariance == Spec => []IInv
BY InitInv, NextInv, PTL DEF Spec

\* Every state of the executor is of its type.
THEOREM TypeCorrect == Spec => []TypeOK
<1>1. IInv => TypeOK
  BY DEF IInv
<1> QED BY Invariance, <1>1, PTL

\* BlockLimiter never lets the block pass a limit that pre_execution_check reserves by
\* what a transaction declares, for any number of pending outcomes and any order.
THEOREM HardLimits == Spec => []HardLimitsHold
<1>1. IInv => HardLimitsHold
  BY DEF IInv
<1> QED BY Invariance, <1>1, PTL

\* A commit is an Include of the abstract block.
LEMMA CommitSimulates ==
  ASSUME IInv, NEW o \in Outcome, pre_execution_check(o.tx), Committed(o)
  PROVE  Capacity!Next
<1>1. EntryOf(o) \in {EntryOf(x) : x \in Outcome}
  OBVIOUS
<1>2. Capacity!Include(EntryOf(o))
  BY CommitIncludes DEF Committed, Capacity!Include
<1> QED BY <1>1, <1>2 DEF Capacity!Next

\* The executor implements BlockCapacity: a commit includes a transaction, everything
\* else (runs, rejected commits, drops, finish) is invisible.
THEOREM ImplementsCapacity == Spec => FillsAtomically
<1>1. Init => Capacity!Init
  BY DEF Init, Capacity!Init, Resource
<1>2. IInv /\ [Next]_vars => [Capacity!Next]_used
  <2> SUFFICES ASSUME IInv, [Next]_vars PROVE Capacity!Next \/ UNCHANGED used
    OBVIOUS
  <2>1. ASSUME NEW o \in Outcome, RunTransaction(o)
        PROVE  UNCHANGED used
    BY <2>1 DEF RunTransaction
  <2>2. ASSUME NEW o \in outcomes, CommitTransactionOutcome(o)
        PROVE  Capacity!Next \/ UNCHANGED used
    <3>1. o \in Outcome
      BY <2>2 DEF IInv, TypeOK
    <3>2. CASE Recheck(o)
      BY <2>2, <3>1, <3>2, CommitSimulates DEF CommitTransactionOutcome, Recheck
    <3>3. CASE ~Recheck(o)
      BY <2>2, <3>3 DEF CommitTransactionOutcome
    <3> QED BY <3>2, <3>3
  <2>3. ASSUME NEW o \in outcomes, DropOutcome(o)
        PROVE  UNCHANGED used
    BY <2>3 DEF DropOutcome
  <2>4. ASSUME NEW o \in Outcome, ExecuteTransaction(o)
        PROVE  Capacity!Next
    BY <2>4, CommitSimulates DEF ExecuteTransaction
  <2>5. CASE Finish
    BY <2>5 DEF Finish
  <2>6. CASE UNCHANGED vars
    BY <2>6 DEF vars
  <2> QED BY <2>1, <2>2, <2>3, <2>4, <2>5, <2>6 DEF Next
<1> QED BY <1>1, <1>2, Invariance, PTL DEF Spec, FillsAtomically, Capacity!Spec

-----------------------------------------------------------------------------
\* Every set of naturals that is not empty has a least element.
LEMMA LeastNat ==
  ASSUME NEW T \in SUBSET Nat, T # {}
  PROVE \E n \in T : \A m \in T : n <= m
<1>1. PICK x \in T : \A y \in T : ~(<<y, x>> \in OpToRel(<, Nat))
  BY NatLessThanWellFounded, WFMin, Zenon
<1>2. \A y \in T : ~ (y < x)
  BY <1>1, Zenon DEF OpToRel
<1> QED BY <1>2

\* g goes from one sum to the next by adding an element of a.
Adds(N, g, a) == \A i \in 1 .. N : g[i] = g[i - 1] + a[i]

\* Two functions that start alike and add the same elements are equal.
LEMMA SumsAgree ==
  ASSUME NEW N \in Nat, NEW g, NEW h, NEW a, g[0] = h[0], Adds(N, g, a), Adds(N, h, a)
  PROVE  \A i \in 0 .. N : g[i] = h[i]
<1> USE DEF Adds
<1> DEFINE T == {i \in 0 .. N : g[i] # h[i]}
<1> SUFFICES ASSUME T # {} PROVE FALSE
  OBVIOUS
<1>1. PICK n \in T : \A m \in T : n <= m
  <2>1. T \in SUBSET Nat
    OBVIOUS
  <2> HIDE DEF T
  <2> QED BY <2>1, LeastNat
<1>2. n \in 1 .. N /\ n - 1 \in 0 .. N /\ ~(n <= n - 1) /\ g[n] # h[n]
  BY <1>1
<1>3. g[n - 1] = h[n - 1]
  BY <1>1, <1>2
<1> QED BY <1>2, <1>3

\* The gas of a transaction that is committed, and the gas before the i-th receipt
GasOf(i) == receipts[i].outcome.usage["gas"]
GasBefore(i) == IF i = 1 THEN 0 ELSE receipts[i - 1].cumulative

\* Each receipt continues the one before it, and the limiter is where the last one is: the
\* inductive form of ReceiptsAddUp, without a sum over all receipts.
ReceiptsChain ==
  /\ \A i \in 1 .. Len(receipts) : receipts[i].cumulative = GasBefore(i) + GasOf(i)
  /\ BlockGasUsed = used["gas"]

\* The parts of a receipt have their types.
LEMMA ReceiptTyped ==
  ASSUME TypeOK, NEW i \in 1 .. Len(receipts)
  PROVE  receipts[i].cumulative \in Nat /\ GasOf(i) \in Nat /\ GasBefore(i) \in Nat
<1>1. \A j \in 1 .. Len(receipts) : receipts[j].outcome \in Outcome /\ receipts[j].cumulative \in Nat
  <2>1. receipts \in Seq([outcome : Outcome, cumulative : Nat])
    BY DEF TypeOK
  <2>2. \A j \in 1 .. Len(receipts) : receipts[j] \in [outcome : Outcome, cumulative : Nat]
    BY <2>1, ElementOfSeq, Zenon
  <2> QED BY <2>2
<1>2. Len(receipts) \in Nat
  BY DEF TypeOK
<1>3. GasOf(i) \in Nat
  BY <1>1, OutcomeFields DEF GasOf
<1>4. GasBefore(i) \in Nat
  BY <1>1, <1>2 DEF GasBefore
<1> QED BY <1>1, <1>3, <1>4

\* A chain of receipts adds up to the gas of all transactions.
LEMMA ChainAddsUp ==
  ASSUME TypeOK, ReceiptsChain
  PROVE  ReceiptsAddUp
<1> DEFINE N == Len(receipts)
           F(g) == [i \in 0 .. N |-> IF i = 0 THEN 0 ELSE g[i - 1] + receipts[i].outcome.usage["gas"]]
           f == [i \in 0 .. N |-> IF i = 0 THEN 0 ELSE receipts[i].cumulative]
           a == [i \in 1 .. N |-> GasOf(i)]
           s == CHOOSE g : g = F(g)
<1>1. N \in Nat /\ DOMAIN receipts = 1 .. N
  BY DEF TypeOK
<1>2. \A i \in 1 .. N : /\ receipts[i].cumulative = GasBefore(i) + GasOf(i)
                        /\ a[i] = GasOf(i)
  BY DEF ReceiptsChain
<1>4. \A i \in 0 .. N : Taken("gas", i) = s[i]
  BY DEF Taken
<1> HIDE DEF N
<1>5. f[0] = 0 /\ \A i \in 1 .. N : f[i] = f[i - 1] + a[i]
  <2>1. f[0] = 0
    BY <1>1
  <2>2. ASSUME NEW i \in 1 .. N PROVE f[i] = f[i - 1] + a[i]
    <3>1. f[i] = receipts[i].cumulative /\ i - 1 \in 0 .. N
      BY <1>1, <2>2
    <3>2. f[i - 1] = GasBefore(i)
      BY <1>1, <2>2, <3>1 DEF GasBefore
    <3> QED BY <1>2, <3>1, <3>2
  <2> QED BY <2>1, <2>2
<1>6. f = F(f)
  <2>1. \A i \in 0 .. N : f[i] = F(f)[i]
    <3> SUFFICES ASSUME NEW i \in 0 .. N PROVE f[i] = F(f)[i]
      OBVIOUS
    <3>1. CASE i = 0
      BY <1>5, <3>1
    <3>2. CASE i # 0
      <4>1. i \in 1 .. N
        BY <1>1, <3>2
      <4>2. F(f)[i] = f[i - 1] + receipts[i].outcome.usage["gas"]
        BY <3>2
      <4> HIDE DEF f, F
      <4> QED BY <1>2, <1>5, <4>1, <4>2 DEF GasOf
    <3> QED BY <3>1, <3>2
  <2> DEFINE FF == F(f)
  <2>2. FF = [i \in 0 .. N |-> FF[i]] /\ f = [i \in 0 .. N |-> f[i]]
    OBVIOUS
  <2>3. \A i \in 0 .. N : f[i] = FF[i]
    BY <2>1
  <2> HIDE DEF f, FF
  <2>4. f = FF
    BY <2>2, <2>3
  <2> QED BY <2>4 DEF FF
<1>7. s = F(s)
  <2> HIDE DEF F, f
  <2> QED BY <1>6
<1> HIDE DEF s
<1>8. s[0] = 0 /\ \A i \in 1 .. N : s[i] = s[i - 1] + a[i]
  <2>1. s[0] = F(s)[0] /\ \A i \in 1 .. N : s[i] = F(s)[i]
    BY <1>7
  <2>2. F(s)[0] = 0 /\ \A i \in 1 .. N : F(s)[i] = s[i - 1] + receipts[i].outcome.usage["gas"]
    BY <1>1
  <2> HIDE DEF F
  <2> QED BY <1>2, <2>1, <2>2 DEF GasOf
<1>9. \A i \in 0 .. N : f[i] = s[i]
  <2> HIDE DEF F, f, a
  <2>1. f[0] = s[0] /\ Adds(N, f, a) /\ Adds(N, s, a)
    BY <1>5, <1>8 DEF Adds
  <2> QED BY <1>1, <2>1, SumsAgree
<1>10. \A i \in 1 .. N : i \in 0 .. N /\ f[i] = receipts[i].cumulative
  BY <1>1
<1>11. \A i \in 1 .. N : receipts[i].cumulative = Taken("gas", i)
  <2> HIDE DEF F, f, a
  <2> QED BY <1>4, <1>9, <1>10
<1> QED BY <1>1, <1>11 DEF ReceiptsAddUp, ReceiptsChain

\* A commit continues the chain: its receipt has the counter behind the update.
LEMMA CommitChains ==
  ASSUME IInv, ReceiptsChain, NEW o \in Outcome, pre_execution_check(o.tx), Committed(o)
  PROVE  ReceiptsChain'
<1> DEFINE n == Len(receipts)
           u == o.usage["gas"]
           x == [outcome |-> o, cumulative |-> used'["gas"]]
<1>1. used["gas"] \in Nat /\ u \in Nat /\ used'["gas"] = used["gas"] + u
  <2>1. "gas" \in Resource
    BY DEF Resource, Hard
  <2> QED BY <2>1, OutcomeFields DEF Committed, post_execution_update_raw, IInv, TypeOK
<1>2. /\ n \in Nat /\ receipts' = Append(receipts, x)
      /\ receipts \in Seq([outcome : Outcome, cumulative : Nat])
      /\ x \in [outcome : Outcome, cumulative : Nat]
  BY <1>1 DEF Committed, IInv, TypeOK
<1>3. /\ Len(receipts') = n + 1 /\ receipts'[n + 1] = x /\ receipts' # <<>>
      /\ \A i \in 1 .. n : receipts'[i] = receipts[i]
  BY <1>2
<1>4. x.cumulative = used["gas"] + u /\ x.outcome.usage["gas"] = u
  BY <1>1
<1>5. used["gas"] = IF n = 0 THEN 0 ELSE receipts[n].cumulative
  BY <1>2 DEF ReceiptsChain, BlockGasUsed
<1> HIDE DEF x, u, n
<1>6. BlockGasUsed' = used'["gas"]
  BY <1>1, <1>3, <1>4 DEF BlockGasUsed
<1>7. ASSUME NEW i \in 1 .. n + 1
      PROVE  receipts'[i].cumulative = (GasBefore(i) + GasOf(i))'
  <2>1. CASE i = n + 1
    <3>1. GasBefore(i)' = used["gas"]
      BY <1>2, <1>3, <1>5, <2>1 DEF GasBefore
    <3> QED BY <1>3, <1>4, <2>1, <3>1 DEF GasOf
  <2>2. CASE i # n + 1
    <3>1. i \in 1 .. n /\ (i # 1 => i - 1 \in 1 .. n)
      BY <1>2, <1>7, <2>2
    <3>2. receipts[i].cumulative = GasBefore(i) + GasOf(i)
      BY <3>1 DEF ReceiptsChain, n
    <3>3. GasBefore(i)' = GasBefore(i) /\ GasOf(i)' = GasOf(i) /\ receipts'[i] = receipts[i]
      BY <1>3, <3>1 DEF GasBefore, GasOf
    <3> QED BY <3>2, <3>3
  <2> QED BY <2>1, <2>2
<1> QED BY <1>3, <1>6, <1>7 DEF ReceiptsChain

\* A step commits an outcome behind the check, or leaves counters and receipts alone.
LEMMA StepCommits ==
  ASSUME IInv, [Next]_vars
  PROVE  \/ UNCHANGED <<used, receipts>>
         \/ \E o \in Outcome : pre_execution_check(o.tx) /\ Committed(o)
<1>1. ASSUME NEW o \in outcomes, CommitTransactionOutcome(o)
      PROVE  \/ UNCHANGED <<used, receipts>>
             \/ \E x \in Outcome : pre_execution_check(x.tx) /\ Committed(x)
  <2>1. o \in Outcome
    BY <1>1 DEF IInv, TypeOK
  <2> QED BY <1>1, <2>1 DEF CommitTransactionOutcome, Recheck
<1>2. ASSUME NEW o \in Outcome, ExecuteTransaction(o)
      PROVE  pre_execution_check(o.tx) /\ Committed(o)
  BY <1>2 DEF ExecuteTransaction
<1>3. CASE (\E o \in Outcome : RunTransaction(o)) \/ (\E o \in outcomes : DropOutcome(o)) \/ Finish
  BY <1>3 DEF RunTransaction, DropOutcome, Finish
<1>4. CASE UNCHANGED vars
  BY <1>4 DEF vars
<1> QED BY <1>1, <1>2, <1>3, <1>4 DEF Next

\* However runs and commits are interleaved, the cumulative gas of a receipt is the gas of all
\* transactions committed so far, and the block reports what the limiter counted.
THEOREM ReceiptsAreExact == Spec => []ReceiptsAddUp
<1>1. Init => ReceiptsChain
  BY DEF Init, ReceiptsChain, BlockGasUsed, Resource, Hard
<1>2. ASSUME IInv, ReceiptsChain, [Next]_vars PROVE ReceiptsChain'
  <2>1. CASE UNCHANGED <<used, receipts>>
    BY <1>2, <2>1 DEF ReceiptsChain, BlockGasUsed, GasBefore, GasOf
  <2>2. CASE \E o \in Outcome : pre_execution_check(o.tx) /\ Committed(o)
    BY <1>2, <2>2, CommitChains
  <2> QED BY <1>2, <2>1, <2>2, StepCommits
<1>3. IInv /\ ReceiptsChain => ReceiptsAddUp
  BY ChainAddsUp DEF IInv
<1> QED BY <1>1, <1>2, <1>3, Invariance, PTL DEF Spec

\* A block at a limit is closed for pending outcomes too: only a deposit gets in, and only when
\* nothing but the data availability is used up.  For the hard limits this needs that a
\* transaction declares something of each, as every transaction with a gas limit does.
THEOREM ClosedWhenFull ==
  ASSUME \A t \in Tx, r \in Hard : Declared(t, r) > 0
  PROVE  Spec => FullBlockIsClosed
<1> DEFINE Closed ==
      is_block_limit_reached /\ receipts' # receipts =>
        /\ \A r \in Resource \ {"da_size"} : used[r] < Limits.block[r]
        /\ receipts'[Len(receipts')].outcome.tx.deposit
<1>1. ASSUME IInv, NEW o \in Outcome, pre_execution_check(o.tx), Committed(o)
      PROVE  Closed
  <2>1. \A r \in Soft : used[r] < Limits.block[r]
    BY <1>1 DEF pre_execution_check
  <2>2. ASSUME NEW r \in Checked(o.tx) PROVE used[r] < Limits.block[r]
    <3>1. r \in Hard /\ r \in Resource
      BY <2>2 DEF Checked, Resource
    <3>2. EntryOf(o).demand[r] = Declared(o.tx, r)
      BY <2>2, <3>1 DEF EntryOf
    <3>3. used[r] + Declared(o.tx, r) <= Limits.block[r]
      BY <1>1, <3>1, <3>2, CommitIncludes
    <3>4. used[r] \in Nat /\ Limits.block[r] \in Nat /\ Declared(o.tx, r) \in Nat
      BY <1>1, <3>1, DeclaredIsNat DEF IInv, TypeOK
    <3>5. Declared(o.tx, r) > 0
      BY <3>1, OutcomeFields
    <3> QED BY <3>3, <3>4, <3>5
  <2>3. \A r \in Resource \ {"da_size"} : used[r] < Limits.block[r]
    BY <2>1, <2>2 DEF Resource, Hard, Checked
  <2>4. CASE o.tx.deposit
    <3>1. receipts'[Len(receipts')].outcome = o
      BY <1>1 DEF Committed, IInv, TypeOK
    <3> QED BY <2>3, <2>4, <3>1
  <2>5. CASE ~o.tx.deposit
    <3>1. \A r \in Resource : used[r] < Limits.block[r]
      BY <2>1, <2>2, <2>5 DEF Resource, Hard, Checked
    <3>2. \A r \in Resource : used[r] \in Nat /\ Limits.block[r] \in Nat
      BY <1>1, BlockAssumption DEF IInv, TypeOK
    <3>3. ~is_block_limit_reached
      BY <3>1, <3>2 DEF is_block_limit_reached
    <3> QED BY <3>3
  <2> QED BY <2>4, <2>5
<1>2. IInv /\ [Next]_vars => [Closed]_vars
  BY <1>1, StepCommits
<1> QED BY <1>2, Invariance, PTL DEF Spec, FullBlockIsClosed
=============================================================================
