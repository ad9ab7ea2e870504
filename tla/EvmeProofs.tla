----------------------------- MODULE EvmeProofs -----------------------------
(***************************************************************************)
(* The commands of mega-evme: sessions of t8n add up, replay gives what    *)
(* the chain did, and run and tx see what the files and the command line   *)
(* say, for any number of transitions, blocks, transactions and            *)
(* invocations.                                                            *)
(***************************************************************************)
EXTENDS Evme, SequenceTheorems, FiniteSetTheorems, WellFoundedInduction, TLAPS

-----------------------------------------------------------------------------
(* t8n: the accounts *)

\* An allocation: a function to accounts with the four fields of a file.
Allocation(f) == f = [a \in DOMAIN f |-> f[a]] /\ \A a \in DOMAIN f : T8nAccount(f[a])

\* The file is the ledger between two transitions and the ledger of the last one while a
\* transition runs; the state that runs is the ledger as the EVM has it.
Accounts ==
    /\ t8n_phase \in {"idle", "running"}
    /\ Allocation(ledger) /\ Allocation(ledger_before)
    /\ t8n_phase = "idle" => alloc = ledger
    /\ t8n_phase = "running" => alloc = ledger_before /\ t8n_state = create_initial_state(ledger)

\* What is written to the file is what was read from it.
LEMMA WritesWhatItRead ==
    ASSUME NEW l, Allocation(l)
    PROVE  extract_post_state_alloc_from_state(create_initial_state(l)) = l
<1> DEFINE c == create_initial_state(l)
<1>1. DOMAIN c = DOMAIN l
    BY DEF create_initial_state
<1>2. \A a \in DOMAIN l : [nonce |-> c[a].nonce, balance |-> c[a].balance, code |-> c[a].code, slot |-> c[a].slot] = l[a]
    BY DEF create_initial_state, Allocation, T8nAccount
<1> HIDE DEF c
<1>3. [a \in DOMAIN c |-> [nonce |-> c[a].nonce, balance |-> c[a].balance, code |-> c[a].code, slot |-> c[a].slot]]
          = [a \in DOMAIN l |-> l[a]]
    BY <1>1, <1>2
<1>4. l = [a \in DOMAIN l |-> l[a]]
    BY Zenon DEF Allocation
<1> QED BY <1>3, <1>4, Zenon DEF extract_post_state_alloc_from_state, c

\* A transaction does the same to the ledger and to the state of the EVM.
LEMMA AppliesAlike ==
    ASSUME NEW l, Allocation(l), NEW tx, NEW s \in BOOLEAN
    PROVE  /\ Applied(create_initial_state(l), tx, s) = create_initial_state(Applied(l, tx, s))
           /\ Allocation(Applied(l, tx, s))
<1> DEFINE pays(a) == IF s /\ a = tx.from THEN tx.value ELSE 0
           gets(a) == IF s /\ a = tx.to THEN tx.value ELSE 0
           runs(a, code) == s /\ a = tx.to /\ code # ""
           Nonce(a, n) == IF a = tx.from THEN n + 1 ELSE n
           Balance(a, b) == (b - pays(a)) + gets(a)
           Slot(a, code, v) == IF runs(a, code) THEN v + 1 ELSE v
           Changed(a, r) == [r EXCEPT !.nonce = Nonce(a, @), !.balance = Balance(a, @), !.slot = Slot(a, r.code, @)]
           Evm(r) == [nonce |-> r.nonce, balance |-> r.balance, code |-> r.code, code_hash |-> r.code, slot |-> r.slot]
<1>1. \A f : Applied(f, tx, s) = [a \in DOMAIN f |-> Changed(a, f[a])]
    BY Zenon DEF Applied
<1> HIDE DEF pays, gets, runs, Nonce, Balance, Slot
<1>2. ASSUME NEW a, NEW r, T8nAccount(r)
      PROVE  T8nAccount(Changed(a, r)) /\ Evm(Changed(a, r)) = Changed(a, Evm(r))
    <2>1. Changed(a, r) = [nonce |-> Nonce(a, r.nonce), balance |-> Balance(a, r.balance), code |-> r.code,
                           slot |-> Slot(a, r.code, r.slot)]
        <3>1. r = [nonce |-> r.nonce, balance |-> r.balance, code |-> r.code, slot |-> r.slot]
            BY <1>2, Zenon DEF T8nAccount
        <3>2. Changed(a, r) \in [nonce : {Nonce(a, r.nonce)}, balance : {Balance(a, r.balance)}, code : {r.code},
                                 slot : {Slot(a, r.code, r.slot)}]
            BY <3>1
        <3> HIDE DEF Changed
        <3> QED BY <3>2
    <2>2. Changed(a, Evm(r)) = [nonce |-> Nonce(a, r.nonce), balance |-> Balance(a, r.balance), code |-> r.code,
                                code_hash |-> r.code, slot |-> Slot(a, r.code, r.slot)]
        <3>1. Changed(a, Evm(r)) \in [nonce : {Nonce(a, r.nonce)}, balance : {Balance(a, r.balance)}, code : {r.code},
                                      code_hash : {r.code}, slot : {Slot(a, r.code, r.slot)}]
            OBVIOUS
        <3> HIDE DEF Changed, Evm
        <3> QED BY <3>1
    <2> HIDE DEF Changed
    <2> QED BY <2>1, <2>2 DEF T8nAccount
<1> HIDE DEF Changed
<1>3. create_initial_state(l) = [a \in DOMAIN l |-> Evm(l[a])]
    BY DEF create_initial_state
<1>4. \A a \in DOMAIN l : T8nAccount(l[a])
    BY Zenon DEF Allocation
<1>5. Applied(l, tx, s) = [a \in DOMAIN l |-> Changed(a, l[a])]
    BY <1>1, Zenon
<1>6. Applied(create_initial_state(l), tx, s) = [a \in DOMAIN l |-> Changed(a, Evm(l[a]))]
    <2> DEFINE c == create_initial_state(l)
    <2>1. Applied(c, tx, s) = [a \in DOMAIN c |-> Changed(a, c[a])]
        BY <1>1, Zenon
    <2>2. DOMAIN c = DOMAIN l /\ \A a \in DOMAIN l : c[a] = Evm(l[a])
        BY <1>3
    <2> HIDE DEF c, Evm
    <2>3. [a \in DOMAIN c |-> Changed(a, c[a])] = [a \in DOMAIN l |-> Changed(a, Evm(l[a]))]
        BY <2>2
    <2> QED BY <2>1, <2>3, Zenon DEF c
<1>7. create_initial_state(Applied(l, tx, s)) = [a \in DOMAIN l |-> Evm(Changed(a, l[a]))]
    BY <1>5 DEF create_initial_state
<1>8. \A a \in DOMAIN l : T8nAccount(Changed(a, l[a])) /\ Evm(Changed(a, l[a])) = Changed(a, Evm(l[a]))
    BY <1>2, <1>4, Zenon
<1> HIDE DEF Evm
<1>9. [a \in DOMAIN l |-> Evm(Changed(a, l[a]))] = [a \in DOMAIN l |-> Changed(a, Evm(l[a]))]
    BY <1>8
<1>10. Allocation(Applied(l, tx, s))
    BY <1>5, <1>8 DEF Allocation
<1> QED BY <1>6, <1>7, <1>9, <1>10, Zenon

LEMMA AccountsStep ==
    ASSUME Accounts, T8nNext
    PROVE  Accounts'
<1>1. CASE LoadInputs
    <2>1. /\ t8n_phase = "idle" /\ t8n_phase' = "running" /\ t8n_state' = create_initial_state(alloc)
          /\ ledger_before' = ledger /\ alloc' = alloc /\ ledger' = ledger
        BY <1>1, Zenon DEF LoadInputs
    <2>2. Allocation(ledger)' /\ Allocation(ledger_before)'
        BY <2>1, Zenon DEF Accounts
    <2> QED BY <2>1, <2>2 DEF Accounts, create_initial_state
<1>2. CASE Reject
    <2>1. UNCHANGED <<alloc, t8n_state, t8n_phase, ledger, ledger_before>>
        BY <1>2, Zenon DEF Reject
    <2> QED BY <2>1, Zenon DEF Accounts
<1>3. CASE Commit
    <2>1. t8n_phase = "running" /\ UNCHANGED <<alloc, t8n_phase, ledger_before>>
        BY <1>3, Zenon DEF Commit, Pending
    <2>2. PICK s \in BOOLEAN : t8n_state' = Applied(t8n_state, Current, s) /\ ledger' = Applied(ledger, Current, s)
        BY <1>3, Zenon DEF Commit
    <2>3. t8n_state = create_initial_state(ledger) /\ Allocation(ledger)
        BY <2>1, Zenon DEF Accounts
    <2>4. t8n_state' = create_initial_state(Applied(ledger, Current, s)) /\ Allocation(Applied(ledger, Current, s))
        BY <2>2, <2>3, AppliesAlike, Zenon
    <2>5. t8n_state' = create_initial_state(ledger') /\ Allocation(ledger')
        BY <2>2, <2>4, Zenon
    <2>6. t8n_phase' # "idle"
        BY <2>1
    <2> QED BY <2>1, <2>5, <2>6, Zenon DEF Accounts
<1>4. CASE Abort
    <2>1. /\ t8n_phase = "running" /\ t8n_phase' = "idle" /\ ledger' = ledger_before
          /\ UNCHANGED <<alloc, ledger_before>>
        BY <1>4, Zenon DEF Abort, Pending
    <2>2. Allocation(ledger)' /\ Allocation(ledger_before)' /\ alloc = ledger_before
        BY <2>1, Zenon DEF Accounts
    <2> QED BY <2>1, <2>2 DEF Accounts
<1>5. CASE OutputResults
    <2>1. /\ t8n_phase = "running" /\ t8n_phase' = "idle" /\ alloc' = extract_post_state_alloc_from_state(t8n_state)
          /\ UNCHANGED <<ledger, ledger_before>>
        BY <1>5, Zenon DEF OutputResults
    <2>2. t8n_state = create_initial_state(ledger) /\ Allocation(ledger) /\ Allocation(ledger_before)
        BY <2>1, Zenon DEF Accounts
    <2>3. alloc' = ledger
        BY <2>1, <2>2, WritesWhatItRead, Zenon
    <2>4. Allocation(ledger)' /\ Allocation(ledger_before)'
        BY <2>1, <2>2, Zenon
    <2> QED BY <2>1, <2>3, <2>4 DEF Accounts
<1> QED BY <1>1, <1>2, <1>3, <1>4, <1>5, Zenon DEF T8nNext, Unconvertible, NotAccepted

-----------------------------------------------------------------------------
(* t8n: the receipts *)

ReceiptType == [status : {0, 1}, cumulative_gas_used : Nat, gas_used : Nat, logs : {0, 1}]
GasBefore(rs, i) == IF i = 1 THEN 0 ELSE rs[i - 1].cumulative_gas_used
LogsIn(ls, i) == {k \in DOMAIN ls : ls[k] = i}

\* Each of the receipts rs continues the one before it, and is among the rejected rej or has its
\* gas and its logs in ls.
Book(rs, rej, ls, total) ==
    /\ rs \in Seq(ReceiptType) /\ rej \in Seq(Nat) /\ ls \in Seq(Nat) /\ total \in Nat
    /\ \A i \in 1 .. Len(rs) : rs[i].cumulative_gas_used = GasBefore(rs, i) + rs[i].gas_used
    /\ total = GasBefore(rs, Len(rs) + 1)
    /\ \A i \in 1 .. Len(rs) : rs[i].gas_used = 0 <=> i \in Range(rej)
    /\ \A i \in 1 .. Len(rs) : rs[i].logs = Cardinality(LogsIn(ls, i))
    /\ Range(rej) \subseteq 1 .. Len(rs) /\ Range(ls) \subseteq 1 .. Len(rs)

Booked == Book(receipts, rejected, all_logs, total_gas_used)

LEMMA EmptyBook == Book(<<>>, <<>>, <<>>, 0)
<1>1. Len(<<>>) = 0 /\ 1 .. Len(<<>>) = {} /\ Len(<<>>) + 1 = 1 /\ \A S : <<>> \in Seq(S)
    OBVIOUS
<1>2. Range(<<>>) = {}
    BY DEF Range
<1>3. GasBefore(<<>>, 1) = 0
    BY DEF GasBefore
<1> QED BY <1>1, <1>2, <1>3 DEF Book

\* The range of a sequence with one more element
LEMMA RangeAppend ==
    ASSUME NEW q \in Seq(Nat), NEW x \in Nat
    PROVE  /\ Append(q, x) \in Seq(Nat) /\ Len(Append(q, x)) = Len(q) + 1 /\ Len(q) \in Nat
           /\ DOMAIN Append(q, x) = DOMAIN q \cup {Len(q) + 1} /\ Len(q) + 1 \notin DOMAIN q
           /\ Append(q, x)[Len(q) + 1] = x /\ \A i \in DOMAIN q : Append(q, x)[i] = q[i]
           /\ Range(Append(q, x)) = Range(q) \cup {x}
<1>1. /\ Append(q, x) \in Seq(Nat) /\ Len(Append(q, x)) = Len(q) + 1 /\ Len(q) \in Nat
      /\ DOMAIN Append(q, x) = DOMAIN q \cup {Len(q) + 1} /\ Len(q) + 1 \notin DOMAIN q
      /\ Append(q, x)[Len(q) + 1] = x /\ \A i \in DOMAIN q : Append(q, x)[i] = q[i]
    OBVIOUS
<1> DEFINE a == Append(q, x)
<1> HIDE DEF a
<1>2. Range(a) = Range(q) \cup {x}
    BY <1>1 DEF Range, a
<1> QED BY <1>1, <1>2 DEF a

\* A receipt is added: what its transaction used, and its logs, or its place among the rejected.
LEMMA ReceiptAdded ==
    ASSUME NEW rs, NEW rej, NEW ls, NEW total, Book(rs, rej, ls, total),
           NEW r \in ReceiptType, r.cumulative_gas_used = total + r.gas_used, NEW rej2, NEW ls2,
           \/ r.gas_used = 0 /\ rej2 = Append(rej, Len(rs) + 1)
           \/ r.gas_used # 0 /\ rej2 = rej,
           \/ r.logs = 0 /\ ls2 = ls
           \/ r.logs = 1 /\ ls2 = Append(ls, Len(rs) + 1)
    PROVE  Book(Append(rs, r), rej2, ls2, r.cumulative_gas_used)
<1> DEFINE n == Len(rs)
           rs2 == Append(rs, r)
<1>1. /\ rs \in Seq(ReceiptType) /\ rej \in Seq(Nat) /\ ls \in Seq(Nat) /\ total \in Nat
      /\ Range(rej) \subseteq 1 .. n /\ Range(ls) \subseteq 1 .. n
    BY Zenon DEF Book
<1>2. /\ n \in Nat /\ n + 1 \in Nat /\ Len(rs2) = n + 1 /\ rs2 \in Seq(ReceiptType)
      /\ rs2[n + 1] = r /\ \A i \in 1 .. n : rs2[i] = rs[i]
      /\ 1 .. n + 1 = (1 .. n) \cup {n + 1} /\ n + 1 \notin 1 .. n
    BY <1>1
<1> HIDE DEF rs2, n
<1>3. r.cumulative_gas_used \in Nat /\ r.gas_used \in Nat
    BY DEF ReceiptType
<1>4. /\ \A i \in 1 .. n + 1 : GasBefore(rs2, i) = GasBefore(rs, i)
      /\ GasBefore(rs2, (n + 1) + 1) = r.cumulative_gas_used
    BY <1>2 DEF GasBefore
<1>5. \A i \in 1 .. n + 1 : rs2[i].cumulative_gas_used = GasBefore(rs2, i) + rs2[i].gas_used
    <2>1. rs2[n + 1].cumulative_gas_used = GasBefore(rs2, n + 1) + rs2[n + 1].gas_used
        <3>1. total = GasBefore(rs, n + 1)
            BY Zenon DEF Book, n
        <3> QED BY <1>2, <1>4, <3>1
    <2>2. \A i \in 1 .. n : rs[i].cumulative_gas_used = GasBefore(rs, i) + rs[i].gas_used
        BY Zenon DEF Book, n
    <2> QED BY <1>2, <1>4, <2>1, <2>2
<1>6. /\ rej2 \in Seq(Nat) /\ Range(rej2) \subseteq 1 .. n + 1
      /\ \A i \in 1 .. n + 1 : rs2[i].gas_used = 0 <=> i \in Range(rej2)
    <2>1. \A i \in 1 .. n : rs[i].gas_used = 0 <=> i \in Range(rej)
        BY Zenon DEF Book, n
    <2>2. CASE r.gas_used = 0 /\ rej2 = Append(rej, n + 1)
        <3>1. Range(rej2) = Range(rej) \cup {n + 1} /\ rej2 \in Seq(Nat)
            <4>1. Range(Append(rej, n + 1)) = Range(rej) \cup {n + 1} /\ Append(rej, n + 1) \in Seq(Nat)
                BY ONLY <1>1, <1>2, RangeAppend, Zenon
            <4> QED BY <2>2, <4>1, Zenon
        <3> QED BY <1>1, <1>2, <2>1, <2>2, <3>1
    <2>3. CASE r.gas_used # 0 /\ rej2 = rej
        BY <1>1, <1>2, <2>1, <2>3
    <2> QED BY <2>2, <2>3, Zenon DEF n
<1>7. /\ ls2 \in Seq(Nat) /\ Range(ls2) \subseteq 1 .. n + 1
      /\ \A i \in 1 .. n : LogsIn(ls2, i) = LogsIn(ls, i)
      /\ r.logs = Cardinality(LogsIn(ls2, n + 1))
    <2>1. LogsIn(ls, n + 1) = {}
        <3>1. \A k \in DOMAIN ls : ls[k] \in Range(ls)
            BY DEF Range
        <3> QED BY <1>1, <1>2, <3>1 DEF LogsIn
    <2>2. CASE r.logs = 0 /\ ls2 = ls
        <3>1. Cardinality({}) = 0
            BY FS_EmptySet
        <3> QED BY <1>1, <1>2, <2>1, <2>2, <3>1
    <2>3. CASE r.logs = 1 /\ ls2 = Append(ls, n + 1)
        <3> DEFINE m == Len(ls) + 1
        <3>1. /\ ls2 \in Seq(Nat) /\ DOMAIN ls2 = DOMAIN ls \cup {m} /\ m \notin DOMAIN ls
              /\ ls2[m] = n + 1 /\ (\A k \in DOMAIN ls : ls2[k] = ls[k])
              /\ Range(ls2) = Range(ls) \cup {n + 1}
            <4> DEFINE a == Append(ls, n + 1)
            <4>1. /\ a \in Seq(Nat) /\ DOMAIN a = DOMAIN ls \cup {m} /\ m \notin DOMAIN ls
                  /\ a[m] = n + 1 /\ (\A k \in DOMAIN ls : a[k] = ls[k])
                  /\ Range(a) = Range(ls) \cup {n + 1}
                BY ONLY <1>1, <1>2, RangeAppend, Zenon
            <4> HIDE DEF m
            <4> QED BY <2>3, <4>1, Zenon
        <3> HIDE DEF m
        <3>2. LogsIn(ls2, n + 1) = {m}
            <4>1. \A k \in DOMAIN ls : ls[k] # n + 1
                BY <2>1 DEF LogsIn
            <4> QED BY <3>1, <4>1 DEF LogsIn
        <3>3. \A i \in 1 .. n : LogsIn(ls2, i) = LogsIn(ls, i)
            BY <1>2, <3>1 DEF LogsIn
        <3>4. Cardinality({m}) = 1
            BY FS_Singleton
        <3> QED BY <1>1, <1>2, <2>3, <3>1, <3>2, <3>3, <3>4
    <2> QED BY <2>2, <2>3, Zenon DEF n
<1>8. \A i \in 1 .. n + 1 : rs2[i].logs = Cardinality(LogsIn(ls2, i))
    <2>1. \A i \in 1 .. n : rs[i].logs = Cardinality(LogsIn(ls, i))
        BY Zenon DEF Book, n
    <2> QED BY <1>2, <1>7, <2>1
<1> QED BY <1>2, <1>3, <1>4, <1>5, <1>6, <1>7, <1>8, Zenon DEF Book, rs2

LEMMA BookedStep ==
    ASSUME Booked, T8nNext
    PROVE  Booked'
<1>1. CASE receipts' = <<>> /\ rejected' = <<>> /\ all_logs' = <<>> /\ total_gas_used' = 0
    BY <1>1, EmptyBook, Zenon DEF Booked
<1>2. CASE Reject
    <2> DEFINE r == [status |-> 0, cumulative_gas_used |-> total_gas_used, gas_used |-> 0, logs |-> 0]
    <2>1. /\ rejected' = Append(rejected, Len(receipts) + 1) /\ receipts' = Append(receipts, r)
          /\ all_logs' = all_logs /\ total_gas_used' = total_gas_used
        BY <1>2, Zenon DEF Reject
    <2>2. total_gas_used \in Nat
        BY Zenon DEF Booked, Book
    <2>3. /\ r \in ReceiptType /\ r.gas_used = 0 /\ r.logs = 0
          /\ r.cumulative_gas_used = total_gas_used + r.gas_used /\ r.cumulative_gas_used = total_gas_used
        BY <2>2 DEF ReceiptType
    <2> HIDE DEF r
    <2> QED BY <2>1, <2>3, ReceiptAdded, Zenon DEF Booked
<1>3. CASE Commit
    <2>1. PICK success \in BOOLEAN, gas \in GasUsed, log \in {0, 1} :
              /\ total_gas_used' = total_gas_used + gas
              /\ receipts' = Append(receipts, Receipt(success, gas, IF success THEN log ELSE 0))
              /\ all_logs' = all_logs \o [i \in 1 .. (IF success THEN log ELSE 0) |-> Len(receipts) + 1]
        BY <1>3, Zenon DEF Commit
    <2>2. rejected' = rejected
        BY <1>3, Zenon DEF Commit
    <2> DEFINE logs == IF success THEN log ELSE 0
               r == Receipt(success, gas, logs)
    <2>3. logs \in {0, 1} /\ gas \in Nat /\ gas # 0 /\ total_gas_used \in Nat /\ all_logs \in Seq(Nat)
        BY T8nAssumption DEF Booked, Book
    <2>4. \/ logs = 0 /\ all_logs' = all_logs
          \/ logs = 1 /\ all_logs' = Append(all_logs, Len(receipts) + 1)
        <3>1. all_logs' = all_logs \o [i \in 1 .. logs |-> Len(receipts) + 1]
            BY <2>1, Zenon
        <3> HIDE DEF logs
        <3>2. CASE logs = 0
            BY <2>3, <3>1, <3>2
        <3>3. CASE logs = 1
            <4>1. Len(receipts) \in Nat
                BY DEF Booked, Book
            <4>2. [i \in 1 .. logs |-> Len(receipts) + 1] = <<Len(receipts) + 1>>
                BY <3>3
            <4> QED BY <2>3, <3>1, <3>3, <4>1, <4>2
        <3> QED BY <2>3, <3>2, <3>3
    <2>5. receipts' = Append(receipts, r)
        BY <2>1, Zenon
    <2> HIDE DEF logs
    <2>6. /\ r \in ReceiptType /\ r.gas_used = gas /\ r.logs = logs
          /\ r.cumulative_gas_used = total_gas_used + r.gas_used /\ r.cumulative_gas_used = total_gas_used'
        BY <2>1, <2>3 DEF ReceiptType, Receipt
    <2> HIDE DEF r
    <2>7. \/ r.logs = 0 /\ all_logs' = all_logs
          \/ r.logs = 1 /\ all_logs' = Append(all_logs, Len(receipts) + 1)
        BY <2>4, <2>6
    <2>8. r.gas_used # 0
        BY <2>3, <2>6
    <2> QED BY <2>2, <2>5, <2>6, <2>7, <2>8, ReceiptAdded, Zenon DEF Booked
<1> QED BY <1>1, <1>2, <1>3, Zenon DEF T8nNext, Unconvertible, NotAccepted, LoadInputs, Abort, OutputResults

\* Every set of naturals that is not empty has a least element.
LEMMA LeastNat ==
    ASSUME NEW T \in SUBSET Nat, T # {}
    PROVE  \E n \in T : \A m \in T : n <= m
<1>1. PICK x \in T : \A y \in T : ~(<<y, x>> \in OpToRel(<, Nat))
    BY NatLessThanWellFounded, WFMin, Zenon
<1>2. \A y \in T : ~(y < x)
    BY <1>1, Zenon DEF OpToRel
<1> QED BY <1>2

\* Two functions that start alike and add the same elements are equal.
Adds(N, g, a) == \A i \in 1 .. N : g[i] = g[i - 1] + a[i]
LEMMA SumsAgree ==
    ASSUME NEW N \in Nat, NEW g, NEW h, NEW a, g[0] = h[0], Adds(N, g, a), Adds(N, h, a)
    PROVE  \A i \in 0 .. N : g[i] = h[i]
<1> DEFINE T == {i \in 0 .. N : g[i] # h[i]}
<1> SUFFICES ASSUME T # {} PROVE FALSE
    OBVIOUS
<1>1. PICK n \in T : \A m \in T : n <= m
    <2>1. T \in SUBSET Nat
        OBVIOUS
    <2> HIDE DEF T
    <2> QED BY <2>1, LeastNat
<1>2. n \in 1 .. N /\ n - 1 \in 0 .. N /\ ~(n <= n - 1) /\ g[n] # h[n]
    BY <1>1
<1>3. g[n - 1] = h[n - 1]
    BY <1>1, <1>2
<1> QED BY <1>2, <1>3 DEF Adds

\* A function that adds up the gas from receipt to receipt is the sum over the receipts.
LEMMA GasSum ==
    ASSUME Len(receipts) \in Nat,
           NEW f, f = [i \in 0 .. Len(receipts) |-> f[i]], f[0] = 0,
           \A i \in 1 .. Len(receipts) : f[i] = f[i - 1] + receipts[i].gas_used
    PROVE  \A i \in 0 .. Len(receipts) : GasUpTo[i] = f[i]
<1> DEFINE N == Len(receipts)
           F(g) == [i \in 0 .. N |-> IF i = 0 THEN 0 ELSE g[i - 1] + receipts[i].gas_used]
           a == [i \in 1 .. N |-> receipts[i].gas_used]
           s == CHOOSE g : g = F(g)
<1>1. GasUpTo = s
    BY DEF GasUpTo
<1>2. N \in Nat
    OBVIOUS
<1> HIDE DEF N
<1>3. f = F(f)
    <2> DEFINE FF == F(f)
    <2>1. FF = [i \in 0 .. N |-> FF[i]] /\ f = [i \in 0 .. N |-> f[i]]
        BY DEF N
    <2>2. \A i \in 0 .. N : FF[i] = IF i = 0 THEN 0 ELSE f[i - 1] + receipts[i].gas_used
        OBVIOUS
    <2>3. \A i \in 0 .. N : i = 0 \/ i \in 1 .. N
        BY <1>2
    <2>4. \A i \in 0 .. N : f[i] = FF[i]
        <3> HIDE DEF FF
        <3> QED BY <2>2, <2>3 DEF N
    <2> HIDE DEF FF
    <2>5. f = FF
        BY <2>1, <2>4
    <2> QED BY <2>5 DEF FF
<1>4. s = F(s)
    <2> HIDE DEF F
    <2> QED BY <1>3
<1> HIDE DEF s
<1>5. s[0] = 0 /\ \A i \in 1 .. N : s[i] = s[i - 1] + receipts[i].gas_used
    <2>1. 0 \in 0 .. N /\ \A i \in 1 .. N : i \in 0 .. N /\ i # 0
        BY <1>2
    <2>2. s[0] = F(s)[0] /\ \A i \in 1 .. N : s[i] = F(s)[i]
        BY <1>4
    <2>3. F(s)[0] = 0 /\ \A i \in 1 .. N : F(s)[i] = s[i - 1] + receipts[i].gas_used
        BY <2>1
    <2> HIDE DEF F
    <2> QED BY <2>2, <2>3
<1>6. Adds(N, f, a) /\ Adds(N, s, a)
    <2>1. \A i \in 1 .. N : a[i] = receipts[i].gas_used
        OBVIOUS
    <2> HIDE DEF a, F
    <2> QED BY <1>5, <2>1 DEF Adds, N
<1>7. \A i \in 0 .. N : f[i] = s[i]
    <2> HIDE DEF F, a
    <2> QED BY <1>2, <1>5, <1>6, SumsAgree
<1> HIDE DEF F, a
<1> QED BY <1>1, <1>7 DEF N

\* Books that are in order add up.
LEMMA BooksAddUp ==
    ASSUME Accounts, Booked
    PROVE  TransitionsAddUp
<1> DEFINE n == Len(receipts)
           f == [i \in 0 .. n |-> IF i = 0 THEN 0 ELSE receipts[i].cumulative_gas_used]
<1>1. receipts \in Seq(ReceiptType) /\ n \in Nat /\ DOMAIN receipts = 1 .. n
    BY DEF Booked, Book
<1>2. \A i \in 1 .. n : receipts[i].cumulative_gas_used = GasBefore(receipts, i) + receipts[i].gas_used
    BY Zenon DEF Booked, Book
<1>3. /\ f = [i \in 0 .. n |-> f[i]] /\ f[0] = 0
      /\ \A i \in 1 .. n : f[i] = receipts[i].cumulative_gas_used /\ f[i - 1] = GasBefore(receipts, i)
    BY <1>1 DEF GasBefore
<1> HIDE DEF f
<1>4. \A i \in 1 .. n : f[i] = f[i - 1] + receipts[i].gas_used
    BY <1>2, <1>3
<1>5. \A i \in 0 .. n : GasUpTo[i] = f[i]
    BY <1>1, <1>3, <1>4, GasSum, Zenon
<1>6. \A i \in 1 .. n : receipts[i].cumulative_gas_used = GasUpTo[i]
    <2>1. \A i \in 1 .. n : i \in 0 .. n
        BY <1>1
    <2> HIDE DEF n
    <2> QED BY <1>3, <1>5, <2>1
<1>7. total_gas_used = GasUpTo[n]
    <2>1. total_gas_used = GasBefore(receipts, n + 1)
        BY Zenon DEF Booked, Book
    <2>2. GasBefore(receipts, n + 1) = f[n]
        <3>1. CASE n = 0
            BY <1>3, <3>1 DEF GasBefore
        <3>2. CASE n # 0
            <4>1. n \in 1 .. n /\ n + 1 # 1 /\ (n + 1) - 1 = n
                BY <1>1, <3>2
            <4> QED BY <1>3, <4>1 DEF GasBefore
        <3> QED BY <3>1, <3>2
    <2>3. n \in 0 .. n
        BY <1>1
    <2> HIDE DEF n
    <2> QED BY <1>5, <2>1, <2>2, <2>3
<1>8. \A i \in 1 .. n : /\ receipts[i].gas_used = 0 <=> i \in Range(rejected)
                        /\ receipts[i].logs = Cardinality(LogsOf(i))
    BY Zenon DEF Booked, Book, LogsOf, LogsIn
<1> QED BY <1>1, <1>6, <1>7, <1>8, Zenon DEF TransitionsAddUp, Accounts

\* A session of t8n ends with the accounts of one long transition of all that was committed,
\* whichever transitions are aborted, and the receipts of each account for its transactions:
\* for any files, any lists of transactions and any number of transitions (t8n/cmd.rs).
THEOREM SessionsAddUp == Spec => []TransitionsAddUp
<1>1. Init => Accounts /\ Booked
    <2> SUFFICES ASSUME Init PROVE Accounts /\ Booked
        OBVIOUS
    <2>1. /\ alloc \in Allocs /\ ledger = alloc /\ ledger_before = alloc /\ t8n_phase = "idle"
          /\ receipts = <<>> /\ rejected = <<>> /\ all_logs = <<>> /\ total_gas_used = 0
        BY Zenon DEF Init, T8nInit
    <2>2. Allocation(alloc)
        BY <2>1, T8nAssumption, Zenon DEF Allocation
    <2>3. Accounts
        BY <2>1, <2>2 DEF Accounts
    <2> QED BY <2>1, <2>3, EmptyBook, Zenon DEF Booked
<1>2. Accounts /\ Booked /\ [Next]_vars => Accounts' /\ Booked'
    <2> SUFFICES ASSUME Accounts, Booked, [Next]_vars PROVE Accounts' /\ Booked'
        OBVIOUS
    <2>1. CASE T8nNext
        BY <2>1, AccountsStep, BookedStep, Zenon
    <2>2. CASE UNCHANGED t8nVars
        <3>1. UNCHANGED <<alloc, txs, t8n_state, receipts, rejected, total_gas_used, all_logs, t8n_phase, ledger,
                          ledger_before>>
            BY <2>2, Zenon DEF t8nVars
        <3> QED BY <3>1, Zenon DEF Accounts, Booked
    <2>3. T8nNext \/ UNCHANGED t8nVars
        BY Zenon DEF Next, RunOrTx, Transition, ReplayTransaction, vars
    <2> QED BY <2>1, <2>2, <2>3, Zenon
<1>3. Accounts /\ Booked => TransitionsAddUp
    BY BooksAddUp, Zenon
<1> QED BY <1>1, <1>2, <1>3, PTL DEF Spec

-----------------------------------------------------------------------------
(* replay: the chain *)

Entries == [tx : Txs \cup {"pre-execution changes"}, block : Nat, overridden : BOOLEAN,
            spec : {"of the block", "override"}]

\* What the chain applies
PreBlock(n) == Entry("pre-execution changes", n, FALSE, "of the block")
Executed(tx, n) == Entry(tx, n, FALSE, "of the block")

\* An entry of the replay, had it run under the spec of the block
Back(e) == [e EXCEPT !.spec = "of the block"]

LEMMA BackFacts ==
    /\ \A e \in Entries : Back(e) \in Entries /\ (e.spec = "of the block" => Back(e) = e)
    /\ \A n \in Nat, spec \in {"of the block", "override"} :
          /\ Entry("pre-execution changes", n, FALSE, spec) \in Entries
          /\ Back(Entry("pre-execution changes", n, FALSE, spec)) = PreBlock(n)
    /\ \A tx \in Txs, n \in Nat, spec \in {"of the block", "override"} :
          /\ Entry(tx, n, FALSE, spec) \in Entries
          /\ Back(Entry(tx, n, FALSE, spec)) = Executed(tx, n)
<1>a. ASSUME NEW e \in Entries
      PROVE  Back(e) = [tx |-> e.tx, block |-> e.block, overridden |-> e.overridden, spec |-> "of the block"]
    <2> DEFINE d == Back(e)
    <2>1. /\ d \in Entries /\ d.tx = e.tx /\ d.block = e.block /\ d.overridden = e.overridden
          /\ d.spec = "of the block"
        BY DEF Back, Entries
    <2> HIDE DEF d
    <2>2. d = [tx |-> d.tx, block |-> d.block, overridden |-> d.overridden, spec |-> d.spec]
        BY <2>1 DEF Entries
    <2> QED BY <2>1, <2>2 DEF d
<1>1. \A e \in Entries : Back(e) \in Entries /\ (e.spec = "of the block" => Back(e) = e)
    BY DEF Back, Entries
<1>2. ASSUME NEW a \in Txs \cup {"pre-execution changes"}, NEW n \in Nat, NEW spec \in {"of the block", "override"}
      PROVE  /\ Entry(a, n, FALSE, spec) \in Entries
             /\ Back(Entry(a, n, FALSE, spec)) = Entry(a, n, FALSE, "of the block")
    <2> DEFINE e == Entry(a, n, FALSE, spec)
    <2>1. e \in Entries /\ e.tx = a /\ e.block = n /\ e.overridden = FALSE
        BY DEF Entry, Entries
    <2> HIDE DEF e
    <2>2. Back(e) = [tx |-> a, block |-> n, overridden |-> FALSE, spec |-> "of the block"]
        BY <1>a, <2>1
    <2> QED BY <2>1, <2>2 DEF e, Entry
<1>3. \A n \in Nat, spec \in {"of the block", "override"} :
          /\ Entry("pre-execution changes", n, FALSE, spec) \in Entries
          /\ Back(Entry("pre-execution changes", n, FALSE, spec)) = PreBlock(n)
    BY <1>2 DEF PreBlock
<1>4. \A tx \in Txs, n \in Nat, spec \in {"of the block", "override"} :
          /\ Entry(tx, n, FALSE, spec) \in Entries
          /\ Back(Entry(tx, n, FALSE, spec)) = Executed(tx, n)
    BY <1>2 DEF Executed
<1> QED BY <1>1, <1>3, <1>4

\* The state v is the state u behind block n with the transactions b.
Follows(u, n, b, v) ==
    /\ Len(v) = Len(u) + 1 + Len(b)
    /\ \A i \in 1 .. Len(u) : v[i] = u[i]
    /\ v[Len(u) + 1] = PreBlock(n)
    /\ \A i \in 1 .. Len(b) : v[Len(u) + 1 + i] = Executed(b[i], n)

Plain(e) == e.overridden = FALSE /\ e.spec = "of the block"
Unchanged(state) == \A i \in 1 .. Len(state) : Plain(state[i])

\* What the replay has run before the target: the spec of the executor behind the state it
\* began with, and no overrides.
Mark(e, i, base) == e.overridden = FALSE /\ (e.spec = "override" <=> spec_override /\ i > base)
Run_of(run, base) == run \in Seq(Entries) /\ \A i \in 1 .. Len(run) : Mark(run[i], i, base)

\* The states of the chain, one for each block
Chain(bs, ss) ==
    /\ bs \in Seq(Seq(Txs)) /\ ss \in Seq(Seq(Entries))
    /\ Len(ss) = Len(bs) /\ Len(bs) > 0 /\ bs[1] = <<>>
    /\ \A n \in 2 .. Len(bs) : Follows(ss[n - 1], n, bs[n], ss[n])
    /\ \A n \in 1 .. Len(bs) : Unchanged(ss[n])

LEMMA BlockFollows ==
    ASSUME NEW u \in Seq(Entries), NEW n \in Nat, NEW b \in Seq(Txs), Unchanged(u)
    PROVE  /\ u \o Block(n, b) \in Seq(Entries) /\ Follows(u, n, b, u \o Block(n, b)) /\ Unchanged(u \o Block(n, b))
<1> DEFINE e == [i \in DOMAIN b |-> Executed(b[i], n)]
           v == u \o Block(n, b)
<1>1. e \in Seq(Entries) /\ Len(e) = Len(b) /\ \A i \in 1 .. Len(b) : e[i] = Executed(b[i], n)
    <2>1. DOMAIN b = 1 .. Len(b) /\ Len(b) \in Nat /\ \A i \in 1 .. Len(b) : b[i] \in Txs
        OBVIOUS
    <2>2. \A i \in 1 .. Len(b) : Executed(b[i], n) \in Entries
        BY <2>1 DEF Executed, Entry, Entries
    <2>3. DOMAIN e = 1 .. Len(b) /\ \A i \in 1 .. Len(b) : e[i] = Executed(b[i], n)
        BY <2>1
    <2>4. e = [i \in 1 .. Len(b) |-> e[i]]
        BY <2>1
    <2> HIDE DEF e
    <2>5. e \in [1 .. Len(b) -> Entries]
        BY <2>2, <2>3, <2>4
    <2>6. e \in Seq(Entries) /\ Len(e) = Len(b)
        BY <2>1, <2>5
    <2> QED BY <2>3, <2>6
<1>2. PreBlock(n) \in Entries
    BY DEF PreBlock, Entry, Entries
<1>3. Plain(PreBlock(n)) /\ \A x : Plain(Executed(x, n))
    BY DEF PreBlock, Executed, Entry, Plain
<1> DEFINE w == <<PreBlock(n)>> \o e
<1>4. v = u \o w
    BY Zenon DEF Block, PreBlock, Executed
<1> HIDE DEF e, v
<1> DEFINE p == PreBlock(n)
<1> HIDE DEF p
<1>5. Len(u) \in Nat /\ Len(b) \in Nat /\ Len(e) \in Nat
    BY <1>1
<1>6. w \in Seq(Entries) /\ Len(w) = 1 + Len(b) /\ w[1] = PreBlock(n) /\ \A i \in 1 .. Len(b) : w[1 + i] = e[i]
    <2>1. p \in Entries /\ w = <<p>> \o e
        BY <1>2 DEF p
    <2> HIDE DEF w
    <2>2. w \in Seq(Entries) /\ Len(w) = 1 + Len(b) /\ w[1] = p
        BY <1>1, <1>5, <2>1
    <2>3. \A i \in 1 .. Len(b) : w[1 + i] = e[i]
        BY <1>1, <1>5, <2>1
    <2> QED BY <2>2, <2>3 DEF p
<1> HIDE DEF w
<1>7. v \in Seq(Entries) /\ Len(v) = Len(u) + 1 + Len(b) /\ \A i \in 1 .. Len(u) : v[i] = u[i]
    <2>1. v \in Seq(Entries) /\ Len(v) = Len(u) + Len(w) /\ \A i \in 1 .. Len(u) : v[i] = u[i]
        <3>1. u \in Seq(Entries) /\ w \in Seq(Entries) /\ Len(w) \in Nat
            BY <1>5, <1>6
        <3>2. /\ v \in Seq(Entries) /\ Len(v) = Len(u) + Len(w)
              /\ \A i \in 1 .. Len(u) + Len(w) : v[i] = IF i <= Len(u) THEN u[i] ELSE w[i - Len(u)]
            BY ONLY <1>4, <3>1, ConcatProperties, Zenon
        <3>3. \A i \in 1 .. Len(u) : i \in 1 .. Len(u) + Len(w) /\ i <= Len(u)
            BY <1>5, <3>1
        <3> QED BY <3>2, <3>3, Zenon
    <2>2. Len(u) + Len(w) = Len(u) + 1 + Len(b)
        BY <1>5, <1>6
    <2> QED BY <2>1, <2>2
<1>8. /\ v[Len(u) + 1] = PreBlock(n)
      /\ \A i \in 1 .. Len(b) : v[Len(u) + 1 + i] = Executed(b[i], n)
    <2>1. \A j \in 1 .. 1 + Len(b) : v[Len(u) + j] = w[j]
        BY <1>4, <1>5, <1>6
    <2>2. 1 \in 1 .. 1 + Len(b)
        BY <1>5
    <2>3. \A i \in 1 .. Len(b) : 1 + i \in 1 .. 1 + Len(b) /\ Len(u) + 1 + i = Len(u) + (1 + i)
        BY <1>5
    <2> QED BY <1>1, <1>6, <2>1, <2>2, <2>3
<1>9. Unchanged(v)
    <2> SUFFICES ASSUME NEW i \in 1 .. Len(v) PROVE Plain(v[i])
        BY DEF Unchanged
    <2>1. CASE i \in 1 .. Len(u)
        BY <1>7, <2>1 DEF Unchanged
    <2>2. CASE i = Len(u) + 1
        BY <1>3, <1>8, <2>2
    <2>3. CASE i > Len(u) + 1
        <3>1. i - (Len(u) + 1) \in 1 .. Len(b) /\ Len(u) + 1 + (i - (Len(u) + 1)) = i
            BY <1>5, <1>7, <2>3
        <3>2. v[Len(u) + 1 + (i - (Len(u) + 1))] = Executed(b[i - (Len(u) + 1)], n)
            BY <1>8, <3>1
        <3> QED BY <1>3, <3>1, <3>2
    <2>4. i \in 1 .. Len(u) \/ i = Len(u) + 1 \/ i > Len(u) + 1
        <3>1. i \in Nat /\ i > 0
            OBVIOUS
        <3> QED BY <1>5, <3>1
    <2> QED BY <2>1, <2>2, <2>3, <2>4
<1>10. Follows(u, n, b, v)
    BY <1>7, <1>8 DEF Follows
<1> QED BY <1>7, <1>9, <1>10, Zenon DEF v

\* A block has transactions, and the chain goes on.
LEMMA MineChains ==
    ASSUME Chain(blocks, states), Mine
    PROVE  /\ Chain(blocks', states') /\ Len(blocks') = Len(blocks) + 1 /\ Len(blocks) \in Nat
           /\ \A n \in 1 .. Len(blocks) : blocks'[n] = blocks[n] /\ states'[n] = states[n]
<1> DEFINE m == Len(blocks)
<1>1. PICK b \in SetToAllKPermutations(Txs \ Mined) :
          blocks' = Append(blocks, b) /\ states' = Append(states, states[m] \o Block(m + 1, b))
    BY Zenon DEF Mine, Latest
<1>2. b \in Seq(Txs)
    <2>1. PICK s \in SUBSET (Txs \ Mined) : b \in SetToSeqs(s)
        BY <1>1, Zenon DEF SetToAllKPermutations
    <2>2. b \in [1 .. Cardinality(s) -> s]
        BY <2>1 DEF SetToSeqs
    <2>3. s \subseteq Txs
        BY <2>1
    <2>4. Cardinality(s) \in Nat
        BY <2>3, ReplayAssumption, FS_Subset, FS_CardinalityType
    <2> QED BY <2>2, <2>3, <2>4
<1>3. /\ blocks \in Seq(Seq(Txs)) /\ states \in Seq(Seq(Entries)) /\ Len(states) = m /\ m > 0 /\ m \in Nat
      /\ blocks[1] = <<>>
    BY DEF Chain
<1>4. states[m] \in Seq(Entries) /\ Unchanged(states[m])
    BY <1>3 DEF Chain
<1> DEFINE v == states[m] \o Block(m + 1, b)
<1>5. v \in Seq(Entries) /\ Follows(states[m], m + 1, b, v) /\ Unchanged(v)
    <2>1. m + 1 \in Nat
        BY <1>3
    <2> QED BY <1>2, <1>4, <2>1, BlockFollows, Zenon
<1> HIDE DEF v
<1>6. /\ blocks' \in Seq(Seq(Txs)) /\ states' \in Seq(Seq(Entries)) /\ Len(blocks') = m + 1 /\ Len(states') = m + 1
      /\ blocks'[m + 1] = b /\ states'[m + 1] = v
      /\ \A n \in 1 .. m : blocks'[n] = blocks[n] /\ states'[n] = states[n]
    <2>1. v \in Seq(Entries) /\ blocks' = Append(blocks, b) /\ states' = Append(states, v)
        BY <1>1, <1>5, Zenon DEF v
    <2>2. /\ blocks' \in Seq(Seq(Txs)) /\ Len(blocks') = m + 1 /\ blocks'[m + 1] = b
          /\ \A n \in 1 .. m : blocks'[n] = blocks[n]
        BY <1>2, <1>3, <2>1
    <2>3. /\ states' \in Seq(Seq(Entries)) /\ Len(states') = m + 1 /\ states'[m + 1] = v
          /\ \A n \in 1 .. m : states'[n] = states[n]
        <3> DEFINE S == Seq(Entries)
        <3>1. states \in Seq(S) /\ v \in S
            BY <1>3, <2>1
        <3> HIDE DEF S
        <3>2. Append(states, v) \in Seq(S) /\ Len(Append(states, v)) = m + 1 /\ Append(states, v)[m + 1] = v
            BY <1>3, <3>1
        <3>3. \A n \in 1 .. m : Append(states, v)[n] = states[n]
            BY <1>3, <3>1
        <3> QED BY <2>1, <3>2, <3>3 DEF S
    <2> QED BY <2>2, <2>3, Zenon
<1> HIDE DEF m
<1>7. \A n \in 2 .. m + 1 : Follows(states'[n - 1], n, blocks'[n], states'[n])
    <2> SUFFICES ASSUME NEW n \in 2 .. m + 1 PROVE Follows(states'[n - 1], n, blocks'[n], states'[n])
        OBVIOUS
    <2>1. CASE n = m + 1
        <3>1. n - 1 = m /\ m \in 1 .. m
            BY <1>3, <2>1
        <3> QED BY <1>5, <1>6, <2>1, <3>1, Zenon
    <2>2. CASE n # m + 1
        <3>1. n \in 2 .. m /\ n \in 1 .. m /\ n - 1 \in 1 .. m
            BY <1>3, <2>2
        <3>2. Follows(states[n - 1], n, blocks[n], states[n])
            BY <3>1, Zenon DEF Chain, m
        <3> QED BY <1>6, <3>1, <3>2, Zenon
    <2> QED BY <2>1, <2>2
<1>8. \A n \in 1 .. m + 1 : Unchanged(states'[n])
    <2>1. \A n \in 1 .. m + 1 : n = m + 1 \/ n \in 1 .. m
        BY <1>3
    <2>2. \A n \in 1 .. m : Unchanged(states[n])
        BY Zenon DEF Chain, m
    <2> QED BY <1>5, <1>6, <2>1, <2>2, Zenon
<1>9. m + 1 > 0 /\ 1 \in 1 .. m
    BY <1>3
<1>10. Chain(blocks', states')
    BY <1>3, <1>6, <1>7, <1>8, <1>9, Zenon DEF Chain
<1> QED BY <1>3, <1>6, <1>10, Zenon DEF m

-----------------------------------------------------------------------------
(* replay: the answers of the chain *)

Place(b) == CHOOSE i \in DOMAIN b : b[i] = Target

\* Where the target is: a pending one runs on a block there is, and another one is in a block
\* behind the state it runs on.
Located ==
    stage \in {"fork", "preceding", "done"} =>
        /\ block_number \in 1 .. Len(blocks) /\ state_base_block_number \in 1 .. Len(blocks)
        /\ ~is_pending => /\ block_number \in 2 .. Len(blocks) /\ state_base_block_number = block_number - 1
                          /\ Target \in Range(blocks[block_number])

\* The state of the executor is what the chain had in the same place.
Replaying ==
    stage = "preceding" =>
        /\ Run_of(replayed, Len(states[state_base_block_number]))
        /\ Len(replayed) >= Len(states[state_base_block_number])
        /\ is_pending => transaction_index = 0
        /\ ~is_pending =>
              /\ transaction_index \in 0 .. Place(blocks[block_number]) - 1
              /\ Len(replayed) = Len(states[state_base_block_number]) + 1 + transaction_index
              /\ \A i \in 1 .. Len(replayed) : Back(replayed[i]) = states[block_number][i]

Asked ==
    /\ stage \in {"fetch", "latest", "fork", "preceding", "done", "failed"}
    /\ stage = "latest" => is_pending
    /\ Located /\ Replaying /\ ReplayIsFaithful

\* Sequences that agree element by element
LEMMA PrefixByElements ==
    ASSUME NEW s \in Seq(Entries), NEW t \in Seq(Entries), Len(s) <= Len(t), \A i \in 1 .. Len(s) : s[i] = t[i]
    PROVE  IsPrefix(s, t)
<1>1. Len(s) \in Nat /\ Len(t) \in Nat
    OBVIOUS
<1>2. SubSeq(s, 1, Len(s)) = s
    OBVIOUS
<1> DEFINE u == SubSeq(t, 1, Len(s))
<1>3. u \in Seq(Entries) /\ Len(u) = Len(s) /\ \A i \in 1 .. Len(s) : u[i] = t[i]
    BY <1>1
<1> HIDE DEF u
<1>4. u = s
    BY <1>3, SeqEqual
<1> QED BY <1>2, <1>4, Zenon DEF IsPrefix, u

\* The block of the target and the place of the target in it
LEMMA PlaceFacts ==
    ASSUME NEW b \in Seq(Txs), Target \in Range(b)
    PROVE  Place(b) \in 1 .. Len(b) /\ b[Place(b)] = Target /\ Len(b) \in Nat
<1>1. \E i \in DOMAIN b : b[i] = Target
    BY DEF Range
<1> QED BY <1>1 DEF Place

\* What is executed next is what the block has there.
LEMMA NextTxFacts ==
    ASSUME Chain(blocks, states), Asked, stage = "preceding"
    PROVE  /\ is_pending => NextTx = Target
           /\ ~is_pending => /\ blocks[block_number] \in Seq(Txs) /\ NextTx = blocks[block_number][transaction_index + 1]
                             /\ transaction_index + 1 \in 1 .. Len(blocks[block_number])
                             /\ NextTx # Target => transaction_index + 1 \in 0 .. Place(blocks[block_number]) - 1
<1>1. Located /\ Replaying
    BY Zenon DEF Asked
<1>2. CASE is_pending
    <2>1. transaction_index = 0 /\ preceding_transactions = <<>>
        BY <1>1, <1>2, Zenon DEF Replaying, preceding_transactions
    <2> QED BY <1>2, <2>1 DEF NextTx
<1>3. CASE ~is_pending
    <2> DEFINE b == blocks[block_number]
               k == Place(b)
               pre == SubSeq(b, 1, k - 1)
    <2>1. block_number \in 2 .. Len(blocks) /\ Target \in Range(b)
        BY <1>1, <1>3 DEF Located
    <2>2. b \in Seq(Txs)
        BY <2>1 DEF Chain
    <2>3. k \in 1 .. Len(b) /\ b[k] = Target /\ Len(b) \in Nat
        BY <2>1, <2>2, PlaceFacts
    <2>4. transaction_index \in 0 .. k - 1
        BY <1>1, <1>3, Zenon DEF Replaying
    <2>5. preceding_transactions = pre
        BY <1>3, Zenon DEF preceding_transactions, Place
    <2> HIDE DEF k, b
    <2>6. pre \in Seq(Txs) /\ Len(pre) = k - 1 /\ \A i \in 1 .. k - 1 : pre[i] = b[i]
        BY <2>2, <2>3
    <2> HIDE DEF pre
    <2>7. Append(pre, Target)[transaction_index + 1] = b[transaction_index + 1]
        <3>1. CASE transaction_index + 1 = k
            BY <2>3, <2>6, <3>1, ReplayAssumption
        <3>2. CASE transaction_index + 1 # k
            <4>1. transaction_index + 1 \in 1 .. k - 1
                BY <2>3, <2>4, <3>2
            <4> QED BY <2>6, <4>1, ReplayAssumption
        <3> QED BY <3>1, <3>2
    <2>8. NextTx = b[transaction_index + 1]
        BY <2>5, <2>7, Zenon DEF NextTx
    <2>9. transaction_index + 1 \in 1 .. Len(b)
        BY <2>3, <2>4
    <2>10. NextTx # Target => transaction_index + 1 \in 0 .. k - 1
        BY <2>3, <2>4, <2>8
    <2> QED BY <1>3, <2>2, <2>8, <2>9, <2>10 DEF b, k
<1> QED BY <1>2, <1>3

\* The chain grows, and what was asked stays true of it.
LEMMA MineAsked ==
    ASSUME Chain(blocks, states), Asked, Mine
    PROVE  Asked'
<1>1. /\ Len(blocks') = Len(blocks) + 1 /\ Len(blocks) \in Nat
      /\ \A n \in 1 .. Len(blocks) : blocks'[n] = blocks[n] /\ states'[n] = states[n]
    BY MineChains, Zenon
<1>2. UNCHANGED <<stage, overridden, spec_override, block_number, state_base_block_number, is_pending, replayed, transaction_index>>
    BY Zenon DEF Mine
<1>3. Located /\ Replaying /\ ReplayIsFaithful
    BY Zenon DEF Asked
<1>4. /\ \A n \in 1 .. Len(blocks) : n \in 1 .. Len(blocks')
      /\ \A n \in 2 .. Len(blocks) : n \in 2 .. Len(blocks')
    BY <1>1
<1>5. stage \in {"fork", "preceding", "done"} =>
          /\ block_number \in 1 .. Len(blocks) /\ state_base_block_number \in 1 .. Len(blocks)
          /\ blocks'[block_number] = blocks[block_number] /\ states'[block_number] = states[block_number]
          /\ states'[state_base_block_number] = states[state_base_block_number]
    BY <1>1, <1>3, Zenon DEF Located
<1>6. Located'
    BY <1>2, <1>3, <1>4, <1>5, Zenon DEF Located
<1>7. Replaying'
    <2> SUFFICES ASSUME stage = "preceding" PROVE Replaying'
        BY <1>2, Zenon DEF Replaying
    <2>1. stage \in {"fork", "preceding", "done"}
        OBVIOUS
    <2> QED BY <1>2, <1>3, <1>5, <2>1, Zenon DEF Replaying, Run_of, Mark
<1>8. ReplayIsFaithful'
    <2> SUFFICES ASSUME stage = "done" PROVE ReplayIsFaithful'
        BY <1>2, Zenon DEF ReplayIsFaithful
    <2>1. stage \in {"fork", "preceding", "done"}
        OBVIOUS
    <2> QED BY <1>2, <1>3, <1>5, <2>1, Zenon DEF ReplayIsFaithful
<1> QED BY <1>2, <1>6, <1>7, <1>8, Zenon DEF Asked

\* Outside its three last stages the command has promised nothing.
LEMMA NothingPromised ==
    ASSUME stage' \in {"fetch", "latest", "failed"}, stage' = "latest" => is_pending'
    PROVE  Asked'
BY DEF Asked, Located, Replaying, ReplayIsFaithful

LEMMA FetchTargetAsked ==
    ASSUME Chain(blocks, states), FetchTarget
    PROVE  Asked'
<1>1. CASE Target \in Mined
    <2>1. /\ block_number' = BlockOf(Target) /\ state_base_block_number' = block_number' - 1
          /\ is_pending' = FALSE /\ stage' = "fork" /\ blocks' = blocks
        BY <1>1, Zenon DEF FetchTarget
    <2>2. \E n \in DOMAIN blocks : Target \in Range(blocks[n])
        BY <1>1 DEF Mined
    <2>3. block_number' \in DOMAIN blocks /\ Target \in Range(blocks[block_number'])
        BY <2>1, <2>2 DEF BlockOf
    <2>4. DOMAIN blocks = 1 .. Len(blocks) /\ Len(blocks) \in Nat /\ blocks[1] = <<>>
        BY DEF Chain
    <2>5. Range(<<>>) = {}
        BY DEF Range
    <2>6. block_number' # 1
        BY <2>3, <2>4, <2>5
    <2>7. /\ block_number' \in 1 .. Len(blocks) /\ block_number' \in 2 .. Len(blocks)
          /\ state_base_block_number' \in 1 .. Len(blocks)
        BY <2>1, <2>3, <2>4, <2>6
    <2>8. Located'
        BY <2>1, <2>3, <2>7, Zenon DEF Located
    <2> QED BY <2>1, <2>8 DEF Asked, Replaying, ReplayIsFaithful
<1>2. CASE Target \notin Mined
    <2>1. is_pending' = TRUE /\ stage' = "latest"
        BY <1>2, Zenon DEF FetchTarget
    <2> QED BY <2>1, NothingPromised
<1> QED BY <1>1, <1>2

LEMMA FetchLatestAsked ==
    ASSUME Chain(blocks, states), Asked, FetchLatest
    PROVE  Asked'
<1>1. /\ stage = "latest" /\ stage' = "fork" /\ is_pending' = is_pending /\ blocks' = blocks
      /\ block_number' = Len(blocks) /\ state_base_block_number' = Len(blocks)
    BY Zenon DEF FetchLatest, Latest
<1>2. is_pending
    BY <1>1, Zenon DEF Asked
<1>3. Len(blocks) \in 1 .. Len(blocks)
    BY DEF Chain
<1>4. Located'
    BY <1>1, <1>2, <1>3, Zenon DEF Located
<1> QED BY <1>1, <1>4 DEF Asked, Replaying, ReplayIsFaithful

LEMMA ForkAsked ==
    ASSUME Chain(blocks, states), Asked, Fork
    PROVE  Asked'
<1> DEFINE u == states[state_base_block_number]
           p == Entry("pre-execution changes", block_number, FALSE, executor_spec)
<1>1. /\ stage = "fork" /\ stage' = "preceding" /\ replayed' = Append(u, p) /\ transaction_index' = 0
      /\ UNCHANGED <<blocks, states, overridden, spec_override, block_number, state_base_block_number, is_pending>>
    BY Zenon DEF Fork
<1>2. Located
    BY Zenon DEF Asked
<1>3. stage \in {"fork", "preceding", "done"} /\ stage' \in {"fork", "preceding", "done"}
    BY <1>1
<1>4. Located'
    BY <1>1, <1>2, <1>3, Zenon DEF Located
<1>5. block_number \in 1 .. Len(blocks) /\ state_base_block_number \in 1 .. Len(blocks)
    BY <1>2, <1>3, Zenon DEF Located
<1>6. /\ blocks \in Seq(Seq(Txs)) /\ states \in Seq(Seq(Entries)) /\ Len(states) = Len(blocks)
      /\ \A n \in 1 .. Len(blocks) : Unchanged(states[n])
    BY Zenon DEF Chain
<1>7. u \in Seq(Entries) /\ Unchanged(u) /\ block_number \in Nat
    BY <1>5, <1>6
<1>8. p \in Entries /\ Mark(p, Len(u) + 1, Len(u)) /\ Back(p) = PreBlock(block_number)
    <2>1. executor_spec \in {"of the block", "override"} /\ (executor_spec = "override" <=> spec_override)
        BY DEF executor_spec
    <2>2. p \in Entries /\ Back(p) = PreBlock(block_number)
        BY <1>7, <2>1, BackFacts
    <2>3. p.overridden = FALSE /\ p.spec = executor_spec
        BY DEF Entry
    <2>4. Len(u) + 1 > Len(u)
        BY <1>7
    <2> HIDE DEF p, u
    <2> QED BY <2>1, <2>2, <2>3, <2>4, Zenon DEF Mark
<1> HIDE DEF u, p
<1>9. /\ replayed' \in Seq(Entries) /\ Len(replayed') = Len(u) + 1 /\ Len(u) \in Nat
      /\ replayed'[Len(u) + 1] = p /\ \A i \in 1 .. Len(u) : replayed'[i] = u[i]
    BY <1>1, <1>7, <1>8
<1>10. \A i \in 1 .. Len(replayed') : i \in 1 .. Len(u) \/ i = Len(u) + 1
    BY <1>9
<1>11. \A i \in 1 .. Len(replayed') : Mark(replayed'[i], i, Len(u))
    <2>1. ASSUME NEW i \in 1 .. Len(u) PROVE Mark(u[i], i, Len(u)) /\ Back(u[i]) = u[i]
        <3>1. u[i] \in Entries /\ Plain(u[i]) /\ ~(i > Len(u))
            BY <1>7, <1>9 DEF Unchanged
        <3>2. Back(u[i]) = u[i]
            BY <3>1, BackFacts DEF Plain
        <3> QED BY <3>1, <3>2 DEF Mark, Plain
    <2> QED BY <1>8, <1>9, <1>10, <2>1, Zenon
<1>12. ASSUME ~is_pending
       PROVE  /\ 0 \in 0 .. Place(blocks[block_number]) - 1
              /\ Len(replayed') = Len(u) + 1 + 0
              /\ \A i \in 1 .. Len(replayed') : Back(replayed'[i]) = states[block_number][i]
    <2>1. /\ block_number \in 2 .. Len(blocks) /\ state_base_block_number = block_number - 1
          /\ Target \in Range(blocks[block_number])
        BY <1>2, <1>3, <1>12, Zenon DEF Located
    <2>2. blocks[block_number] \in Seq(Txs)
        BY <1>5, <1>6
    <2>3. Place(blocks[block_number]) \in 1 .. Len(blocks[block_number]) /\ Len(blocks[block_number]) \in Nat
        BY <2>1, <2>2, PlaceFacts, Zenon
    <2>4. Follows(u, block_number, blocks[block_number], states[block_number])
        BY <2>1, Zenon DEF Chain, u
    <2>5. \A i \in 1 .. Len(replayed') : Back(replayed'[i]) = states[block_number][i]
        <3>1. ASSUME NEW i \in 1 .. Len(u) PROVE Back(u[i]) = u[i]
            <4>1. u[i] \in Entries /\ Plain(u[i])
                BY <1>7, <1>9 DEF Unchanged
            <4> QED BY <4>1, BackFacts DEF Plain
        <3> QED BY <1>8, <1>9, <1>10, <2>4, <3>1, Zenon DEF Follows
    <2>6. 0 \in 0 .. Place(blocks[block_number]) - 1 /\ Len(replayed') = Len(u) + 1 + 0
        BY <1>9, <2>3
    <2> QED BY <2>5, <2>6, Zenon
<1>13. Replaying'
    <2>1. Len(replayed') >= Len(u)
        BY <1>9
    <2>2. Run_of(replayed, Len(states[state_base_block_number]))'
        BY <1>1, <1>9, <1>11, Zenon DEF Run_of, Mark, u
    <2> QED BY <1>1, <1>12, <2>1, <2>2, Zenon DEF Replaying, u
<1>14. ReplayIsFaithful'
    BY <1>1 DEF ReplayIsFaithful
<1>15. stage' \in {"fetch", "latest", "fork", "preceding", "done", "failed"} /\ stage' # "latest"
    BY <1>1
<1> QED BY <1>4, <1>13, <1>14, <1>15, Zenon DEF Asked

LEMMA ReplayPrecedingAsked ==
    ASSUME Chain(blocks, states), Asked, ReplayPreceding
    PROVE  Asked'
<1> DEFINE b == blocks[block_number]
           x == Run(NextTx)
           v == states[block_number]
           u == states[state_base_block_number]
<1>1. /\ stage = "preceding" /\ NextTx # Target /\ replayed' = Append(replayed, x)
      /\ transaction_index' = transaction_index + 1
      /\ UNCHANGED <<blocks, states, stage, overridden, spec_override, block_number, state_base_block_number, is_pending>>
    BY Zenon DEF ReplayPreceding
<1>2. Located /\ Replaying /\ stage \in {"fork", "preceding", "done"}
    BY <1>1 DEF Asked
<1>3. ~is_pending
    BY <1>1, NextTxFacts, Zenon
<1>4. /\ b \in Seq(Txs) /\ NextTx = b[transaction_index + 1] /\ transaction_index + 1 \in 1 .. Len(b)
      /\ transaction_index + 1 \in 0 .. Place(b) - 1
    BY <1>1, <1>3, NextTxFacts, Zenon
<1>5. /\ block_number \in 2 .. Len(blocks) /\ state_base_block_number = block_number - 1
    BY <1>2, <1>3, Zenon DEF Located
<1>6. /\ Run_of(replayed, Len(u)) /\ Len(replayed) = Len(u) + 1 + transaction_index
      /\ \A i \in 1 .. Len(replayed) : Back(replayed[i]) = v[i]
    BY <1>1, <1>2, <1>3, Zenon DEF Replaying
<1>7. /\ blocks \in Seq(Seq(Txs)) /\ states \in Seq(Seq(Entries)) /\ Len(states) = Len(blocks)
      /\ Follows(u, block_number, b, v)
    BY <1>5, Zenon DEF Chain
<1>8. u \in Seq(Entries) /\ block_number \in Nat /\ Len(u) \in Nat /\ transaction_index \in Nat
    <2>1. state_base_block_number \in 1 .. Len(states)
        BY <1>2, <1>7, Zenon DEF Located
    <2>2. transaction_index \in 0 .. Place(blocks[block_number]) - 1
        BY <1>1, <1>2, <1>3, Zenon DEF Replaying
    <2> QED BY <1>5, <1>7, <2>1, <2>2
<1>9. x = Entry(NextTx, block_number, FALSE, executor_spec)
    <2>1. (NextTx = Target /\ overridden) = FALSE
        BY <1>1
    <2> QED BY <2>1, Zenon DEF Run
<1>10. NextTx \in Txs
    BY <1>4
<1>11. x \in Entries /\ Back(x) = Executed(NextTx, block_number)
       /\ \A i : i > Len(u) => Mark(x, i, Len(u))
    <2>1. executor_spec \in {"of the block", "override"} /\ (executor_spec = "override" <=> spec_override)
        BY DEF executor_spec
    <2>2. x \in Entries /\ Back(x) = Executed(NextTx, block_number)
        BY <1>8, <1>9, <1>10, <2>1, BackFacts
    <2>3. x.overridden = FALSE /\ x.spec = executor_spec
        BY <1>9 DEF Entry
    <2> HIDE DEF x, u
    <2> QED BY <2>1, <2>2, <2>3, Zenon DEF Mark
<1>12. v[Len(u) + 1 + (transaction_index + 1)] = Back(x)
    BY <1>4, <1>7, <1>11, Zenon DEF Follows
<1> HIDE DEF x, b, u, v
<1>13. /\ replayed' \in Seq(Entries) /\ Len(replayed') = Len(replayed) + 1 /\ Len(replayed) \in Nat
       /\ replayed'[Len(replayed) + 1] = x /\ \A i \in 1 .. Len(replayed) : replayed'[i] = replayed[i]
    BY <1>1, <1>6, <1>11 DEF Run_of
<1>14. \A i \in 1 .. Len(replayed') : i \in 1 .. Len(replayed) \/ i = Len(replayed) + 1
    BY <1>13
<1>15. Len(replayed) + 1 = Len(u) + 1 + (transaction_index + 1)
    BY <1>6, <1>8
<1>16. /\ \A i \in 1 .. Len(replayed') : Mark(replayed'[i], i, Len(u))
       /\ Len(replayed') >= Len(u)
    <2>1. Len(replayed) + 1 > Len(u) /\ Len(replayed') >= Len(u)
        BY <1>6, <1>8, <1>13, <1>15
    <2> QED BY <1>6, <1>11, <1>13, <1>14, <2>1, Zenon DEF Run_of
<1>17. \A i \in 1 .. Len(replayed') : Back(replayed'[i]) = v[i]
    BY <1>6, <1>12, <1>13, <1>14, <1>15, Zenon
<1>18. Located'
    BY <1>1, <1>2, Zenon DEF Located
<1>19. Replaying'
    BY <1>1, <1>3, <1>4, <1>13, <1>15, <1>16, <1>17, Zenon DEF Replaying, Run_of, Mark, u, v, b
<1>20. stage' \in {"fetch", "latest", "fork", "preceding", "done", "failed"} /\ stage' # "latest" /\ stage' # "done"
    BY <1>1
<1> QED BY <1>18, <1>19, <1>20, Zenon DEF Asked, ReplayIsFaithful

LEMMA ReplayTargetAsked ==
    ASSUME Chain(blocks, states), Asked, ReplayTarget
    PROVE  Asked'
<1> DEFINE b == blocks[block_number]
           x == Run(Target)
           v == states[block_number]
           u == states[state_base_block_number]
<1>1. /\ stage = "preceding" /\ stage' = "done" /\ NextTx = Target /\ ~AlreadyApplied(Target)
      /\ replayed' = Append(replayed, x)
      /\ UNCHANGED <<blocks, states, overridden, spec_override, block_number, state_base_block_number, is_pending, transaction_index>>
    BY Zenon DEF ReplayTarget
<1>2. Located /\ Replaying /\ stage \in {"fork", "preceding", "done"} /\ stage' \in {"fork", "preceding", "done"}
    BY <1>1 DEF Asked
<1>3. replayed \in Seq(Entries) /\ Run_of(replayed, Len(u)) /\ Len(replayed) >= Len(u)
    BY <1>1, <1>2, Zenon DEF Replaying, Run_of
<1>a. Len(u) \in Nat
    <2>1. state_base_block_number \in 1 .. Len(states) /\ states \in Seq(Seq(Entries))
        BY <1>2, Zenon DEF Located, Chain
    <2> QED BY <2>1
<1>4. x.tx = Target /\ (x.spec = "override" <=> spec_override)
    BY DEF Run, Entry, executor_spec
<1> HIDE DEF x
<1>5. /\ Len(replayed') = Len(replayed) + 1 /\ Len(replayed) \in Nat /\ DOMAIN replayed' = 1 .. Len(replayed')
      /\ replayed'[Len(replayed) + 1] = x /\ \A i \in 1 .. Len(replayed) : replayed'[i] = replayed[i]
    BY <1>1, <1>3
<1>6. \A i \in DOMAIN replayed' : \/ i \in 1 .. Len(replayed) /\ i # Len(replayed') /\ i < Len(replayed')
                                  \/ i = Len(replayed) + 1 /\ i = Len(replayed') /\ ~(i < Len(replayed'))
    BY <1>5
<1>7. \A i \in 1 .. Len(replayed) : replayed[i].tx # Target /\ ~replayed[i].overridden
    <2>1. DOMAIN replayed = 1 .. Len(replayed)
        BY <1>3
    <2> QED BY <1>1, <1>3, <2>1, Zenon DEF AlreadyApplied, Run_of, Mark
<1>8. \A i \in DOMAIN replayed' : replayed'[i].tx = Target <=> i = Len(replayed')
    BY <1>4, <1>5, <1>6, <1>7, Zenon
<1>9. \A i \in DOMAIN replayed' : i < Len(replayed') => ~replayed'[i].overridden
    BY <1>5, <1>6, <1>7, Zenon
<1>b. \A i \in DOMAIN replayed' : replayed'[i].spec = "override" <=> spec_override /\ i > Len(u)
    <2> HIDE DEF u
    <2>1. Len(replayed) + 1 > Len(u)
        BY <1>3, <1>5, <1>a
    <2>2. ASSUME NEW i \in 1 .. Len(replayed)
          PROVE  replayed'[i].spec = "override" <=> spec_override /\ i > Len(u)
        BY <1>3, <1>5, <2>2, Zenon DEF Run_of, Mark
    <2>3. x.spec = "override" <=> spec_override /\ Len(replayed) + 1 > Len(u)
        BY <1>4, <2>1
    <2> QED BY <1>5, <1>6, <2>2, <2>3, Zenon
<1>10. ASSUME ~is_pending
       PROVE  b[transaction_index + 1] = Target /\ IsPrefix(OfTheBlock(Front(replayed')), v)
    <2>1. b \in Seq(Txs) /\ NextTx = b[transaction_index + 1] /\ transaction_index + 1 \in 1 .. Len(b)
        BY <1>1, <1>10, NextTxFacts, Zenon
    <2>2. block_number \in 2 .. Len(blocks) /\ state_base_block_number = block_number - 1
        BY <1>2, <1>10, Zenon DEF Located
    <2>3. /\ states \in Seq(Seq(Entries)) /\ Len(states) = Len(blocks) /\ Follows(u, block_number, b, v)
        BY <2>2, Zenon DEF Chain
    <2>4. u \in Seq(Entries) /\ v \in Seq(Entries) /\ block_number \in Nat
        <3>1. state_base_block_number \in 1 .. Len(states) /\ block_number \in 1 .. Len(states)
            BY <1>2, <2>3, Zenon DEF Located
        <3> QED BY <2>3, <3>1
    <2>5. Len(replayed) = Len(u) + 1 + transaction_index /\ \A i \in 1 .. Len(replayed) : Back(replayed[i]) = v[i]
        BY <1>1, <1>2, <1>10, Zenon DEF Replaying
    <2>6. Len(v) = Len(u) + 1 + Len(b)
        BY <2>3, Zenon DEF Follows
    <2> HIDE DEF u, v, b
    <2>7. Len(replayed) <= Len(v)
        <3>1. Len(u) \in Nat /\ Len(b) \in Nat /\ transaction_index \in Int
            BY <1>1, <1>2, <1>10, <2>1, <2>4 DEF Replaying
        <3> QED BY <2>1, <2>5, <2>6, <3>1
    <2>8. IsPrefix(OfTheBlock(replayed), v)
        <3> DEFINE w == OfTheBlock(replayed)
        <3>1. DOMAIN replayed = 1 .. Len(replayed) /\ Len(replayed) \in Nat
            BY <1>3
        <3>2. w = [i \in 1 .. Len(replayed) |-> Back(replayed[i])]
            BY <3>1, Zenon DEF OfTheBlock, Back
        <3>3. \A i \in 1 .. Len(replayed) : Back(replayed[i]) \in Entries
            <4>1. \A i \in 1 .. Len(replayed) : replayed[i] \in Entries
                BY <1>3
            <4> QED BY <4>1, BackFacts, Zenon
        <3> HIDE DEF w
        <3>4. /\ w \in Seq(Entries) /\ Len(w) = Len(replayed)
              /\ \A i \in 1 .. Len(w) : w[i] = Back(replayed[i])
            BY <3>1, <3>2, <3>3
        <3>5. Len(w) <= Len(v) /\ \A i \in 1 .. Len(w) : w[i] = v[i]
            BY <2>5, <2>7, <3>4
        <3>6. IsPrefix(w, v)
            BY <2>4, <3>4, <3>5, PrefixByElements
        <3> QED BY <3>6 DEF w
    <2>9. Front(replayed') = replayed
        <3> DEFINE w == SubSeq(replayed', 1, Len(replayed))
        <3>1. Len(replayed') - 1 = Len(replayed)
            BY <1>5
        <3>2. w \in Seq(Entries) /\ Len(w) = Len(replayed) /\ \A i \in 1 .. Len(replayed) : w[i] = replayed[i]
            BY <1>3, <1>5
        <3>3. Front(replayed') = w
            BY <3>1 DEF Front
        <3> HIDE DEF w
        <3>4. w = replayed
            BY <1>3, <3>2, SeqEqual
        <3> QED BY <3>3, <3>4
    <2> QED BY <1>1, <2>1, <2>8, <2>9
<1>11. ReplayIsFaithful'
    BY <1>1, <1>8, <1>9, <1>b, <1>10, Zenon DEF ReplayIsFaithful, OfTheBlock
<1>12. Located'
    BY <1>1, <1>2, Zenon DEF Located
<1>13. stage' \in {"fetch", "latest", "fork", "preceding", "done", "failed"} /\ stage' # "latest" /\ stage' # "preceding"
    BY <1>1
<1> QED BY <1>11, <1>12, <1>13, Zenon DEF Asked, Replaying

\* The result of replay is that of the chain, however the chain grew between the calls and
\* wherever a call failed: the target ran once and last, the overrides of the transaction
\* changed nothing else, the override of the spec everything the replay ran and no more, and
\* a target that is in a block ran after what the chain has at its place, but for the spec
\* (replay/cmd.rs).
THEOREM ReplaysAreFaithful == Spec => []ReplayIsFaithful
<1> DEFINE Inv == Chain(blocks, states) /\ Asked
<1>1. Init => Inv
    <2> SUFFICES ASSUME Init PROVE Inv
        OBVIOUS
    <2>1. blocks = <<<<>>>> /\ states = <<Block(1, <<>>)>> /\ stage = "fetch"
        BY Zenon DEF Init, ReplayInit
    <2> DEFINE s == Block(1, <<>>)
    <2>2. s = <<PreBlock(1)>>
        <3> DEFINE p == PreBlock(1)
        <3>1. s = <<p>> \o [i \in DOMAIN <<>> |-> Executed(<<>>[i], 1)]
            BY Zenon DEF Block, PreBlock, Executed
        <3> HIDE DEF s, p
        <3>2. [i \in DOMAIN <<>> |-> Executed(<<>>[i], 1)] = <<>>
            OBVIOUS
        <3>3. <<p>> \o <<>> = <<p>>
            OBVIOUS
        <3>4. s = <<p>>
            BY <3>1, <3>2, <3>3, Zenon
        <3> QED BY <3>4 DEF p
    <2>3. PreBlock(1) \in Entries /\ Plain(PreBlock(1))
        BY DEF PreBlock, Entry, Entries, Plain
    <2>4. s \in Seq(Entries) /\ Unchanged(s)
        <3> DEFINE p == PreBlock(1)
        <3> HIDE DEF p
        <3>1. s = <<p>> /\ p \in Entries /\ Plain(p)
            BY <2>2, <2>3, Zenon DEF p
        <3> HIDE DEF s
        <3>2. s \in Seq(Entries) /\ Len(s) = 1 /\ s[1] = p
            BY <3>1
        <3> QED BY <3>1, <3>2 DEF Unchanged
    <2> HIDE DEF s
    <2>5. /\ blocks \in Seq(Seq(Txs)) /\ states \in Seq(Seq(Entries)) /\ Len(states) = 1 /\ Len(blocks) = 1
          /\ blocks[1] = <<>> /\ states[1] = s
        BY <2>1, <2>4 DEF s
    <2>6. Chain(blocks, states)
        BY <2>4, <2>5 DEF Chain
    <2>7. Asked
        BY <2>1 DEF Asked, Located, Replaying, ReplayIsFaithful
    <2> QED BY <2>6, <2>7
<1>2. Inv /\ [Next]_vars => Inv'
    <2> SUFFICES ASSUME Inv, [Next]_vars PROVE Inv'
        OBVIOUS
    <2>1. CASE Mine
        BY <2>1, MineChains, MineAsked, Zenon
    <2>2. CASE UNCHANGED <<blocks, states>> /\ Asked'
        BY <2>2, Zenon
    <2>3. CASE Submit
        <3>1. UNCHANGED <<blocks, states, stage, overridden, spec_override, block_number, state_base_block_number, is_pending, replayed,
                          transaction_index>>
            BY <2>3, Zenon DEF Submit
        <3> QED BY <3>1, Zenon DEF Asked, Located, Replaying, ReplayIsFaithful, Run_of, Mark
    <2>4. CASE Fails
        <3>1. UNCHANGED <<blocks, states>> /\ stage' = "failed"
            BY <2>4, Zenon DEF Fails
        <3>2. Asked'
            BY <3>1, NothingPromised
        <3> QED BY <2>2, <3>1, <3>2, Zenon
    <2>5. CASE FetchTarget
        BY <2>2, <2>5, FetchTargetAsked, Zenon DEF FetchTarget
    <2>6. CASE FetchLatest
        BY <2>2, <2>6, FetchLatestAsked, Zenon DEF FetchLatest
    <2>7. CASE Fork
        BY <2>2, <2>7, ForkAsked, Zenon DEF Fork
    <2>8. CASE ReplayPreceding
        BY <2>2, <2>8, ReplayPrecedingAsked, Zenon DEF ReplayPreceding
    <2>9. CASE ReplayTarget
        BY <2>2, <2>9, ReplayTargetAsked, Zenon DEF ReplayTarget
    <2>10. CASE UNCHANGED replayVars
        <3>1. UNCHANGED <<blocks, states, stage, overridden, spec_override, block_number, state_base_block_number, is_pending, replayed,
                          transaction_index>>
            BY <2>10, Zenon DEF replayVars
        <3> QED BY <3>1, Zenon DEF Asked, Located, Replaying, ReplayIsFaithful, Run_of, Mark
    <2>11. ReplayNext \/ UNCHANGED replayVars
        BY Zenon DEF Next, RunOrTx, Transition, ReplayTransaction, vars
    <2> QED BY <2>1, <2>3, <2>4, <2>5, <2>6, <2>7, <2>8, <2>9, <2>10, <2>11, Zenon
        DEF ReplayNext, RpcFails, NotFound, StaleNonce
<1>3. Inv => ReplayIsFaithful
    BY Zenon DEF Asked
<1> QED BY <1>1, <1>2, <1>3, PTL DEF Spec

-----------------------------------------------------------------------------
(* run and tx: the accounts of a state *)

\* Accounts have their fields; a state that is asked for an account it does not have answers
\* with a default one.
Acc(r) == DOMAIN r = Fields
State(s) == \A a \in DOMAIN s : Acc(s[a])

LEMMA DefaultAcc == Acc(default_account)
BY DEF Acc, default_account, Fields

LEMMA EntryAcc ==
    ASSUME NEW s, State(s), NEW a
    PROVE  Acc(entry(s, a))
BY DefaultAcc DEF State, entry

\* A field of one account is set, and t is s otherwise.
IsSet(s, t, a, field, v) ==
    /\ State(t) /\ DOMAIN t = DOMAIN s \union {a}
    /\ \A b : b # a => entry(t, b) = entry(s, b)
    /\ entry(t, a)[field] = v
    /\ \A f \in Fields : f # field => entry(t, a)[f] = entry(s, a)[f]

LEMMA FieldSet ==
    ASSUME NEW s, State(s), NEW a, NEW field \in Fields, NEW v
    PROVE  IsSet(s, with_field(s, a, field, v), a, field, v)
<1> DEFINE t == with_field(s, a, field, v)
           old == entry(s, a)
           new == [old EXCEPT ![field] = v]
<1>1. Acc(old)
    BY EntryAcc
<1>2. t = [k \in DOMAIN s \union {a} |-> IF k = a THEN new ELSE s[k]]
    BY DEF with_field, insert
<1> HIDE DEF old
<1> HIDE DEF t
<1>3. Acc(new) /\ new[field] = v /\ \A f \in Fields : f # field => new[f] = old[f]
    BY <1>1 DEF Acc
<1> HIDE DEF new
<1>4. /\ DOMAIN t = DOMAIN s \union {a} /\ t[a] = new
      /\ \A b \in DOMAIN s : b # a => t[b] = s[b]
    BY <1>2
<1>5. State(t)
    BY <1>3, <1>4 DEF State
<1>6. entry(t, a) = new /\ \A b : b # a => entry(t, b) = entry(s, b)
    BY <1>4 DEF entry
<1> QED BY <1>3, <1>4, <1>5, <1>6 DEF old, t, IsSet

-----------------------------------------------------------------------------
(* The overrides, one after the other *)

\* g holds the states after the first n overrides.
Steps(g, n, s, kind, list) == g = [i \in 0 .. n |-> IF i = 0 THEN s ELSE override(g[i - 1], kind, list[i])]

\* Induction on the naturals, with a set in place of a predicate
LEMMA Induct ==
    ASSUME NEW T, 0 \in T, \A n \in Nat : n \in T => n + 1 \in T
    PROVE  Nat \subseteq T
<1> SUFFICES ASSUME Nat \ T # {} PROVE FALSE
    OBVIOUS
<1>1. PICK n \in Nat \ T : \A m \in Nat \ T : n <= m
    BY LeastNat
<1>2. n # 0 /\ n - 1 \in Nat /\ n - 1 \in T
    BY <1>1
<1> QED BY <1>2

LEMMA StepsExist ==
    ASSUME NEW N \in Nat, NEW s, NEW kind, NEW list
    PROVE  \E g : Steps(g, N, s, kind, list)
<1> DEFINE T == {n \in Nat : \E g : Steps(g, n, s, kind, list)}
           F(f, i) == IF i = 0 THEN s ELSE override(f[i - 1], kind, list[i])
<1>1. 0 \in T
    <2> DEFINE g == [i \in 0 .. 0 |-> s]
    <2>1. Steps(g, 0, s, kind, list)
        BY DEF Steps
    <2> HIDE DEF g
    <2> QED BY <2>1
<1>2. ASSUME NEW n \in Nat, n \in T PROVE n + 1 \in T
    <2>1. PICK g : Steps(g, n, s, kind, list)
        BY <1>2
    <2> DEFINE next == override(g[n], kind, list[n + 1])
               h == [i \in 0 .. n + 1 |-> IF i = n + 1 THEN next ELSE g[i]]
    <2>2. \A i \in 0 .. n : g[i] = F(g, i)
        <3>1. g = [i \in 0 .. n |-> F(g, i)]
            BY <2>1 DEF Steps
        <3> HIDE DEF F
        <3> QED BY <3>1
    <2>3. ASSUME NEW i \in 0 .. n + 1 PROVE h[i] = F(h, i)
        <3>1. CASE i = n + 1
            <4>1. h[i] = next /\ h[n] = g[n] /\ i - 1 = n /\ i # 0
                BY <3>1
            <4> HIDE DEF h
            <4> QED BY <3>1, <4>1
        <3>2. CASE i # n + 1 /\ i # 0
            <4>1. i \in 0 .. n /\ i - 1 \in 0 .. n + 1 /\ i - 1 # n + 1
                BY <3>2
            <4>2. h[i] = g[i] /\ h[i - 1] = g[i - 1]
                BY <3>2, <4>1
            <4> HIDE DEF h
            <4> QED BY <2>2, <3>2, <4>1, <4>2
        <3>3. CASE i = 0
            <4>1. h[0] = g[0] /\ g[0] = s
                BY <2>2
            <4> HIDE DEF h
            <4> QED BY <3>3, <4>1
        <3> QED BY <3>1, <3>2, <3>3
    <2>4. h = [i \in 0 .. n + 1 |-> h[i]]
        OBVIOUS
    <2>5. h = [i \in 0 .. n + 1 |-> F(h, i)]
        <3> HIDE DEF h, F
        <3> QED BY <2>3, <2>4
    <2>6. Steps(h, n + 1, s, kind, list)
        <3> HIDE DEF h
        <3> QED BY <2>5 DEF Steps
    <2> HIDE DEF h
    <2> QED BY <2>6
<1>3. Nat \subseteq T
    <2> HIDE DEF T
    <2> QED BY <1>1, <1>2, Induct
<1> QED BY <1>3

\* What one override changes.
Kinds == {"balance", "storage", "faucet"}

IsOverridden(s, t, kind, e) ==
    LET old == entry(s, e.address)
        new == entry(t, e.address)
    IN /\ State(t) /\ DOMAIN t = DOMAIN s \union {e.address}
       /\ \A b : b # e.address => entry(t, b) = entry(s, b)
       /\ \A f \in {"nonce", "code", "code_hash"} : new[f] = old[f]
       /\ kind # "storage" => new["storage"] = old["storage"]
       /\ kind = "storage" => /\ new["balance"] = old["balance"]
                              /\ new["storage"] = insert(old.storage, e.slot, EvmStorageSlot(e.value))
       /\ kind = "balance" => new["balance"] = e.value
       /\ kind = "faucet" => new["balance"] = old.balance + e.value

LEMMA Overridden ==
    ASSUME NEW s, State(s), NEW kind \in Kinds, NEW e
    PROVE  IsOverridden(s, override(s, kind, e), kind, e)
<1> DEFINE a == e.address
           t == override(s, kind, e)
<1>0. /\ "balance" \in Fields /\ "storage" \in Fields /\ "balance" # "storage"
      /\ \A f \in {"nonce", "code", "code_hash"} : f \in Fields /\ f # "balance" /\ f # "storage"
    BY DEF Fields
<1>1. CASE kind = "balance"
    <2>1. t = with_field(s, a, "balance", e.value)
        BY <1>1 DEF override
    <2> HIDE DEF t
    <2>2. IsSet(s, t, a, "balance", e.value)
        BY <1>0, <2>1, FieldSet, Zenon
    <2> QED BY <1>0, <1>1, <2>2, Zenon DEF IsSet, IsOverridden, t
<1>2. CASE kind = "storage"
    <2> DEFINE v == insert(entry(s, a).storage, e.slot, EvmStorageSlot(e.value))
    <2>1. t = with_field(s, a, "storage", v)
        BY <1>2 DEF override, with_slot
    <2> HIDE DEF v, t
    <2>2. IsSet(s, t, a, "storage", v)
        BY <1>0, <2>1, FieldSet, Zenon
    <2> QED BY <1>0, <1>2, <2>2, Zenon DEF IsSet, IsOverridden, t, v
<1>3. CASE kind = "faucet"
    <2> DEFINE v == entry(s, a).balance + e.value
    <2>1. t = with_field(s, a, "balance", v)
        BY <1>3 DEF override
    <2> HIDE DEF v, t
    <2>2. IsSet(s, t, a, "balance", v)
        BY <1>0, <2>1, FieldSet, Zenon
    <2> QED BY <1>0, <1>3, <2>2, Zenon DEF IsSet, IsOverridden, t, v
<1> QED BY <1>1, <1>2, <1>3 DEF Kinds

-----------------------------------------------------------------------------
(* What the first n entries of a list ask for *)

\* The entries among the first n that name an account, and a slot of it.
First(list, n, a) == {m \in 1 .. n : list[m].address = a}
FirstSlot(list, n, a, slot) == {m \in 1 .. n : list[m].address = a /\ list[m].slot = slot}

LEMMA LastIsLast ==
    ASSUME NEW n \in Nat, NEW S \in SUBSET (1 .. n)
    PROVE  Max(S \union {n + 1}) = n + 1
<1> DEFINE T == S \union {n + 1}
<1>1. n + 1 \in T /\ \A y \in T : n + 1 >= y
    OBVIOUS
<1>2. \A x \in T : (\A y \in T : x >= y) => x = n + 1
    BY <1>1
<1> HIDE DEF T
<1>3. \A y \in T : Max(T) >= y
    BY <1>1 DEF Max
<1>4. Max(T) \in T
    BY <1>1 DEF Max
<1> QED BY <1>2, <1>3, <1>4 DEF T

LEMMA OneMore ==
    ASSUME NEW list, NEW n \in Nat, NEW a
    PROVE  /\ First(list, 0, a) = {} /\ First(list, n, a) \in SUBSET (1 .. n)
           /\ list[n + 1].address # a => First(list, n + 1, a) = First(list, n, a)
           /\ list[n + 1].address = a => \A d : LastOf(list, First(list, n + 1, a), d) = list[n + 1].value
<1>1. /\ First(list, 0, a) = {} /\ First(list, n, a) \in SUBSET (1 .. n)
      /\ list[n + 1].address # a => First(list, n + 1, a) = First(list, n, a)
    BY DEF First
<1>2. ASSUME list[n + 1].address = a
      PROVE  \A d : LastOf(list, First(list, n + 1, a), d) = list[n + 1].value
    <2>1. First(list, n + 1, a) = First(list, n, a) \union {n + 1}
        BY <1>2 DEF First
    <2>2. Max(First(list, n + 1, a)) = n + 1
        BY ONLY n \in Nat, <1>1, <2>1, LastIsLast
    <2>3. First(list, n + 1, a) # {}
        BY <2>1
    <2> QED BY <2>2, <2>3, Zenon DEF LastOf
<1> QED BY <1>1, <1>2

LEMMA OneMoreSlot ==
    ASSUME NEW list, NEW n \in Nat, NEW a, NEW slot
    PROVE  /\ FirstSlot(list, 0, a, slot) = {} /\ FirstSlot(list, n, a, slot) \in SUBSET (1 .. n)
           /\ ~(list[n + 1].address = a /\ list[n + 1].slot = slot) => FirstSlot(list, n + 1, a, slot) = FirstSlot(list, n, a, slot)
           /\ list[n + 1].address = a /\ list[n + 1].slot = slot =>
                 \A d : LastOf(list, FirstSlot(list, n + 1, a, slot), d) = list[n + 1].value
<1>1. /\ FirstSlot(list, 0, a, slot) = {} /\ FirstSlot(list, n, a, slot) \in SUBSET (1 .. n)
      /\ ~(list[n + 1].address = a /\ list[n + 1].slot = slot) => FirstSlot(list, n + 1, a, slot) = FirstSlot(list, n, a, slot)
    BY DEF FirstSlot
<1>2. ASSUME list[n + 1].address = a, list[n + 1].slot = slot
      PROVE  \A d : LastOf(list, FirstSlot(list, n + 1, a, slot), d) = list[n + 1].value
    <2>1. FirstSlot(list, n + 1, a, slot) = FirstSlot(list, n, a, slot) \union {n + 1}
        BY <1>2 DEF FirstSlot
    <2>2. Max(FirstSlot(list, n + 1, a, slot)) = n + 1
        BY ONLY n \in Nat, <1>1, <2>1, LastIsLast
    <2>3. FirstSlot(list, n + 1, a, slot) # {}
        BY <2>1
    <2> QED BY <2>2, <2>3, Zenon DEF LastOf
<1> QED BY <1>1, <1>2

-----------------------------------------------------------------------------
(* The overrides of one kind *)

\* The states after the overrides of a list, up to the last one.
LEMMA OverridesSteps ==
    ASSUME NEW s, NEW kind, NEW list, Len(list) \in Nat
    PROVE  \E g : Steps(g, Len(list), s, kind, list) /\ overrides(s, kind, list) = g[Len(list)]
<1> DEFINE N == Len(list)
           S(g) == Steps(g, N, s, kind, list)
           c == CHOOSE g : g = [n \in 0 .. Len(list) |-> IF n = 0 THEN s ELSE override(g[n - 1], kind, list[n])]
<1>1. overrides(s, kind, list) = c[Len(list)]
    BY DEF overrides
<1>2. c = CHOOSE g : S(g)
    BY Zenon DEF Steps
<1> HIDE DEF c
<1>3. \E g : S(g)
    BY StepsExist, Zenon
<1>4. S(c)
    <2> HIDE DEF S
    <2> QED BY <1>2, <1>3
<1> QED BY <1>1, <1>4

\* f holds the balance of a after the first n entries of a list are added to it.
Totals(f, n, list, a, own) ==
    f = [i \in 0 .. n |-> IF i = 0 THEN own ELSE IF list[i].address = a THEN f[i - 1] + list[i].value ELSE f[i - 1]]

LEMMA TotalsExist ==
    ASSUME NEW N \in Nat, NEW list, NEW a, NEW own
    PROVE  \E g : Totals(g, N, list, a, own)
<1> DEFINE T == {n \in Nat : \E g : Totals(g, n, list, a, own)}
           F(f, i) == IF i = 0 THEN own ELSE IF list[i].address = a THEN f[i - 1] + list[i].value ELSE f[i - 1]
<1>1. 0 \in T
    <2> DEFINE g == [i \in 0 .. 0 |-> own]
    <2>1. Totals(g, 0, list, a, own)
        BY DEF Totals
    <2> HIDE DEF g
    <2> QED BY <2>1
<1>2. ASSUME NEW n \in Nat, n \in T PROVE n + 1 \in T
    <2>1. PICK g : Totals(g, n, list, a, own)
        BY <1>2
    <2> DEFINE next == IF list[n + 1].address = a THEN g[n] + list[n + 1].value ELSE g[n]
               h == [i \in 0 .. n + 1 |-> IF i = n + 1 THEN next ELSE g[i]]
    <2>2. \A i \in 0 .. n : g[i] = F(g, i)
        <3>1. g = [i \in 0 .. n |-> F(g, i)]
            BY <2>1 DEF Totals
        <3> HIDE DEF F
        <3> QED BY <3>1
    <2>3. ASSUME NEW i \in 0 .. n + 1 PROVE h[i] = F(h, i)
        <3>1. CASE i = n + 1
            <4>1. h[i] = next /\ h[n] = g[n] /\ i - 1 = n /\ i # 0
                BY <3>1
            <4> HIDE DEF h
            <4> QED BY <3>1, <4>1
        <3>2. CASE i # n + 1 /\ i # 0
            <4>1. i \in 0 .. n /\ i - 1 \in 0 .. n + 1 /\ i - 1 # n + 1
                BY <3>2
            <4>2. h[i] = g[i] /\ h[i - 1] = g[i - 1]
                BY <3>2, <4>1
            <4> HIDE DEF h
            <4> QED BY <2>2, <3>2, <4>1, <4>2
        <3>3. CASE i = 0
            <4>1. h[0] = g[0] /\ g[0] = own
                BY <2>2
            <4> HIDE DEF h
            <4> QED BY <3>3, <4>1
        <3> QED BY <3>1, <3>2, <3>3
    <2>4. h = [i \in 0 .. n + 1 |-> h[i]]
        OBVIOUS
    <2>5. h = [i \in 0 .. n + 1 |-> F(h, i)]
        <3> HIDE DEF h, F
        <3> QED BY <2>3, <2>4
    <2>6. Totals(h, n + 1, list, a, own)
        <3> HIDE DEF h
        <3> QED BY <2>5 DEF Totals
    <2> HIDE DEF h
    <2> QED BY <2>6
<1>3. Nat \subseteq T
    <2> HIDE DEF T
    <2> QED BY <1>1, <1>2, Induct
<1> QED BY <1>3

LEMMA AddedTotals ==
    ASSUME NEW list, Len(list) \in Nat, NEW a, NEW own
    PROVE  \E f : Totals(f, Len(list), list, a, own) /\ with_added(list, a, own) = f[Len(list)]
<1> DEFINE N == Len(list)
           S(f) == Totals(f, N, list, a, own)
           c == CHOOSE f : f = [n \in 0 .. Len(list) |-> IF n = 0 THEN own ELSE IF list[n].address = a THEN f[n - 1] + list[n].value ELSE f[n - 1]]
<1>1. with_added(list, a, own) = c[Len(list)]
    BY DEF with_added
<1>2. c = CHOOSE f : S(f)
    BY Zenon DEF Totals
<1> HIDE DEF c
<1>3. \E f : S(f)
    BY TotalsExist, Zenon
<1>4. S(c)
    <2> HIDE DEF S
    <2> QED BY <1>2, <1>3
<1> QED BY <1>1, <1>4

\* What one entry does to one account.
LEMMA StepOf ==
    ASSUME NEW g, NEW N \in Nat, NEW s, NEW kind, NEW list, Steps(g, N, s, kind, list)
    PROVE  g[0] = s /\ \A n \in Nat : n + 1 <= N => g[n + 1] = override(g[n], kind, list[n + 1])
<1>1. 0 \in 0 .. N /\ \A n \in Nat : n + 1 <= N => n + 1 \in 0 .. N /\ n + 1 # 0 /\ (n + 1) - 1 = n
    OBVIOUS
<1>2. g = [i \in 0 .. N |-> IF i = 0 THEN s ELSE override(g[i - 1], kind, list[i])]
    BY Zenon DEF Steps
<1> DEFINE F(i) == IF i = 0 THEN s ELSE override(g[i - 1], kind, list[i])
<1>3. g = [i \in 0 .. N |-> F(i)]
    BY <1>2, Zenon
<1> HIDE DEF F
<1>4. \A i \in 0 .. N : g[i] = F(i)
    BY <1>3
<1> USE DEF F
<1>5. g[0] = s
    BY <1>1, <1>4, Zenon
<1>6. ASSUME NEW n \in Nat, n + 1 <= N
      PROVE  g[n + 1] = override(g[n], kind, list[n + 1])
    <2>1. n + 1 \in 0 .. N /\ n + 1 # 0 /\ (n + 1) - 1 = n
        BY <1>6
    <2> QED BY <1>4, <2>1
<1> QED BY <1>5, <1>6, Zenon

Total(f, n, list, a) == f[n + 1] = IF list[n + 1].address = a THEN f[n] + list[n + 1].value ELSE f[n]

LEMMA TotalOf ==
    ASSUME NEW list, Len(list) \in Nat, NEW f, NEW a, NEW own, Totals(f, Len(list), list, a, own)
    PROVE  f[0] = own /\ \A n \in Nat : n + 1 <= Len(list) => Total(f, n, list, a)
<1> DEFINE N == Len(list)
<1>1. N \in Nat
    OBVIOUS
<1> DEFINE F(i) == IF i = 0 THEN own ELSE IF list[i].address = a THEN f[i - 1] + list[i].value ELSE f[i - 1]
<1>3. f = [i \in 0 .. N |-> F(i)]
    BY Zenon DEF Totals
<1> HIDE DEF F, N
<1>4. \A i \in 0 .. N : f[i] = F(i)
    BY <1>3
<1> USE DEF F
<1>5. f[0] = own
    <2>1. 0 \in 0 .. N
        BY <1>1
    <2> QED BY <2>1, <1>4, Zenon
<1>6. ASSUME NEW n \in Nat, n + 1 <= N
      PROVE  f[n + 1] = IF list[n + 1].address = a THEN f[n] + list[n + 1].value ELSE f[n]
    <2>1. n + 1 \in 0 .. N /\ n + 1 # 0 /\ (n + 1) - 1 = n
        BY <1>1, <1>6
    <2> QED BY <1>4, <2>1
<1> QED BY <1>5, <1>6, Zenon DEF Total, N

-----------------------------------------------------------------------------
(* What a list of overrides leaves *)

\* The value of a slot, with the one of the backend in the place of a slot that is not there
valueAt(slots, slot, d) == IF slot \in DOMAIN slots THEN slots[slot].present ELSE d

\* An account before and after the first n overrides of a list
IsAsked(list, n, kind, a, old, new) ==
    /\ \A f \in {"nonce", "code", "code_hash"} : new[f] = old[f]
    /\ kind # "storage" => new["storage"] = old["storage"]
    /\ kind = "storage" =>
         /\ new["balance"] = old["balance"]
         /\ \A slot, d : valueAt(new.storage, slot, d) =
                         LastOf(list, FirstSlot(list, n, a, slot), valueAt(old.storage, slot, d))
    /\ kind = "balance" => new["balance"] = LastOf(list, First(list, n, a), old["balance"])
    /\ kind = "faucet" => \A f : Totals(f, Len(list), list, a, old["balance"]) => new["balance"] = f[n]

\* A state before and after the first n overrides of a list
AreAsked(s, t, list, n, kind) ==
    /\ State(t)
    /\ DOMAIN t = DOMAIN s \union {list[m].address : m \in 1 .. n}
    /\ \A a : IsAsked(list, n, kind, a, entry(s, a), entry(t, a))

LEMMA Inserted ==
    ASSUME NEW slots, NEW slot, NEW v, NEW at, NEW d
    PROVE  valueAt(insert(slots, slot, EvmStorageSlot(v)), at, d) = IF at = slot THEN v ELSE valueAt(slots, at, d)
BY DEF valueAt, insert, EvmStorageSlot

LEMMA AskedNothing ==
    ASSUME NEW s, State(s), NEW list, Len(list) \in Nat, NEW kind \in Kinds
    PROVE  AreAsked(s, s, list, 0, kind)
<1>1. DOMAIN s = DOMAIN s \union {list[m].address : m \in 1 .. 0}
    <2>1. 1 .. 0 = {}
        OBVIOUS
    <2>2. {list[m].address : m \in 1 .. 0} = {}
        BY <2>1, Zenon
    <2> QED BY <2>2
<1>2. ASSUME NEW a, NEW old PROVE IsAsked(list, 0, kind, a, old, old)
    <2>1. First(list, 0, a) = {} /\ \A slot : FirstSlot(list, 0, a, slot) = {}
        BY OneMore, OneMoreSlot, 0 \in Nat, Zenon
    <2>2. \A d : LastOf(list, {}, d) = d
        BY DEF LastOf
    <2>3. ASSUME NEW f, Totals(f, Len(list), list, a, old["balance"])
          PROVE  f[0] = old["balance"]
        BY <2>3, TotalOf, Zenon
    <2> QED BY <2>1, <2>2, <2>3, Zenon DEF IsAsked
<1> QED BY <1>1, <1>2, Zenon DEF AreAsked

LEMMA AskedOneMore ==
    ASSUME NEW s, NEW t, NEW list, Len(list) \in Nat, NEW n \in Nat, n + 1 <= Len(list), NEW kind \in Kinds,
           AreAsked(s, t, list, n, kind)
    PROVE  AreAsked(s, override(t, kind, list[n + 1]), list, n + 1, kind)
<1> DEFINE e == list[n + 1]
           u == override(t, kind, e)
<1>1. State(t) /\ DOMAIN t = DOMAIN s \union {list[m].address : m \in 1 .. n}
    BY Zenon DEF AreAsked
<1>2. IsOverridden(t, u, kind, e)
    BY <1>1, Overridden, Zenon
<1> HIDE DEF u
<1>3. /\ State(u) /\ DOMAIN u = DOMAIN t \union {e.address}
      /\ \A b : b # e.address => entry(u, b) = entry(t, b)
    BY <1>2, Zenon DEF IsOverridden
<1>4. DOMAIN u = DOMAIN s \union {list[m].address : m \in 1 .. n + 1}
    <2>1. 1 .. n + 1 = (1 .. n) \union {n + 1}
        OBVIOUS
    <2>2. {list[m].address : m \in 1 .. n + 1} = {list[m].address : m \in 1 .. n} \union {e.address}
        BY <2>1, Zenon
    <2> QED BY <1>1, <1>3, <2>2
<1>5. ASSUME NEW a
      PROVE  IsAsked(list, n + 1, kind, a, entry(s, a), entry(u, a))
    <2> DEFINE old == entry(s, a)
               mid == entry(t, a)
               new == entry(u, a)
    <2>1. IsAsked(list, n, kind, a, old, mid)
        BY Zenon DEF AreAsked
    <2>2. CASE e.address # a
        <3>1. new = mid
            BY <1>3, <2>2, Zenon
        <3> HIDE DEF old, mid, new, e
        <3>2. First(list, n + 1, a) = First(list, n, a) /\ \A slot : FirstSlot(list, n + 1, a, slot) = FirstSlot(list, n, a, slot)
            <4>1. list[n + 1].address # a
                BY <2>2 DEF e
            <4> QED BY ONLY n \in Nat, <4>1, OneMore, OneMoreSlot
        <3>3. ASSUME NEW f, Totals(f, Len(list), list, a, old["balance"])
              PROVE  f[n + 1] = f[n]
            <4>0. \A m \in Nat : m + 1 <= Len(list) => Total(f, m, list, a)
                BY <3>3, TotalOf, Zenon
            <4>1. f[n + 1] = IF list[n + 1].address = a THEN f[n] + list[n + 1].value ELSE f[n]
                BY <4>0, Zenon DEF Total
            <4> QED BY <2>2, <4>1, Zenon DEF e
        <3>4. IsAsked(list, n + 1, kind, a, old, mid)
            BY <2>1, <3>2, <3>3, Zenon DEF IsAsked
        <3> QED BY <3>1, <3>4, Zenon DEF old, new
    <2>3. CASE e.address = a
        <3>1. /\ \A f \in {"nonce", "code", "code_hash"} : new[f] = mid[f]
              /\ kind # "storage" => new["storage"] = mid["storage"]
              /\ kind = "storage" => /\ new["balance"] = mid["balance"]
                                     /\ new["storage"] = insert(mid.storage, e.slot, EvmStorageSlot(e.value))
              /\ kind = "balance" => new["balance"] = e.value
              /\ kind = "faucet" => new["balance"] = mid.balance + e.value
            BY <1>2, <2>3, Zenon DEF IsOverridden
        <3> HIDE DEF old, mid, new
        <3>2. kind = "balance" => new["balance"] = LastOf(list, First(list, n + 1, a), old["balance"])
            <4>1. \A d : LastOf(list, First(list, n + 1, a), d) = e.value
                BY ONLY n \in Nat, <2>3, OneMore
            <4> QED BY <3>1, <4>1, Zenon
        <3>3. ASSUME kind = "storage", NEW slot, NEW d
              PROVE  valueAt(new.storage, slot, d) = LastOf(list, FirstSlot(list, n + 1, a, slot), valueAt(old.storage, slot, d))
            <4>1. valueAt(mid.storage, slot, d) = LastOf(list, FirstSlot(list, n, a, slot), valueAt(old.storage, slot, d))
                BY <2>1, <3>3, Zenon DEF IsAsked
            <4>2. valueAt(new.storage, slot, d) = IF slot = e.slot THEN e.value ELSE valueAt(mid.storage, slot, d)
                <5>1. new.storage = insert(mid.storage, e.slot, EvmStorageSlot(e.value))
                    BY <3>1, <3>3
                <5> HIDE DEF e
                <5> QED BY ONLY <5>1, Inserted
            <4>3. CASE slot = e.slot
                <5>1. \A c : LastOf(list, FirstSlot(list, n + 1, a, slot), c) = e.value
                    BY ONLY n \in Nat, <2>3, <4>3, OneMoreSlot
                <5> QED BY <4>2, <4>3, <5>1, Zenon
            <4>4. CASE slot # e.slot
                <5>1. FirstSlot(list, n + 1, a, slot) = FirstSlot(list, n, a, slot)
                    BY ONLY n \in Nat, <4>4, OneMoreSlot
                <5> QED BY <4>1, <4>2, <4>4, <5>1, Zenon
            <4> QED BY <4>3, <4>4, Zenon
        <3>4. ASSUME kind = "faucet", NEW f, Totals(f, Len(list), list, a, old["balance"])
              PROVE  new["balance"] = f[n + 1]
            <4>0. \A m \in Nat : m + 1 <= Len(list) => Total(f, m, list, a)
                BY <3>4, TotalOf, Zenon
            <4>1. f[n + 1] = IF list[n + 1].address = a THEN f[n] + list[n + 1].value ELSE f[n]
                BY <4>0, Zenon DEF Total
            <4>2. mid["balance"] = f[n]
                BY <2>1, <3>4, Zenon DEF IsAsked
            <4>3. new["balance"] = mid["balance"] + e.value
                BY <3>1, <3>4
            <4> QED BY <2>3, <4>1, <4>2, <4>3, Zenon
        <3>5. /\ \A f \in {"nonce", "code", "code_hash"} : new[f] = old[f]
              /\ kind # "storage" => new["storage"] = old["storage"]
              /\ kind = "storage" => new["balance"] = old["balance"]
            BY <2>1, <3>1, Zenon DEF IsAsked
        <3>6. IsAsked(list, n + 1, kind, a, old, new)
            BY <3>2, <3>3, <3>4, <3>5, Zenon DEF IsAsked
        <3> QED BY <3>6, Zenon DEF old, new
    <2> QED BY <2>2, <2>3, Zenon
<1>6. AreAsked(s, u, list, n + 1, kind)
    BY <1>3, <1>4, <1>5, Zenon DEF AreAsked
<1> QED BY <1>6, Zenon DEF u

LEMMA OverridesAsked ==
    ASSUME NEW s, State(s), NEW list, Len(list) \in Nat, NEW kind \in Kinds
    PROVE  AreAsked(s, overrides(s, kind, list), list, Len(list), kind)
<1> DEFINE N == Len(list)
<1>1. PICK g : Steps(g, N, s, kind, list) /\ overrides(s, kind, list) = g[N]
    BY OverridesSteps, Zenon
<1>2. g[0] = s /\ \A n \in Nat : n + 1 <= N => g[n + 1] = override(g[n], kind, list[n + 1])
    BY ONLY N \in Nat, <1>1, StepOf
<1> DEFINE T == {n \in Nat : n <= N => AreAsked(s, g[n], list, n, kind)}
<1>3. 0 \in T
    BY <1>2, AskedNothing
<1>4. ASSUME NEW n \in Nat, n \in T PROVE n + 1 \in T
    <2> SUFFICES ASSUME n + 1 <= N PROVE AreAsked(s, g[n + 1], list, n + 1, kind)
        OBVIOUS
    <2>1. AreAsked(s, g[n], list, n, kind)
        BY <1>4
    <2>2. g[n + 1] = override(g[n], kind, list[n + 1])
        BY <1>2
    <2> QED BY <2>1, <2>2, AskedOneMore, Zenon
<1>5. N \in T
    <2>1. Nat \subseteq T
        <3> HIDE DEF T
        <3> QED BY <1>3, <1>4, Induct
    <2> HIDE DEF T
    <2> QED BY <2>1
<1>6. AreAsked(s, g[N], list, N, kind)
    BY <1>5
<1> QED BY <1>1, <1>6, Zenon

-----------------------------------------------------------------------------
(* The initial state of an invocation *)

\* The lists of a command line, and the addresses they name
OptionLists(opts) ==
    /\ Len(opts.balance) \in Nat /\ Len(opts.storage) \in Nat
    /\ Len(opts.sender_balance) \in Nat /\ Len(opts.faucet) \in Nat

Mentioned(list) == {list[m].address : m \in 1 .. Len(list)}

All(list, a) == First(list, Len(list), a)
AllSlot(list, a, slot) == FirstSlot(list, Len(list), a, slot)

\* An account of the file and the account that the command line makes of it
IsPrepared(opts, a, old, new) ==
    /\ \A f \in {"nonce", "code", "code_hash"} : new[f] = old[f]
    /\ new["balance"] = with_added(opts.faucet, a, LastOf(opts.sender_balance, All(opts.sender_balance, a),
                                                          LastOf(opts.balance, All(opts.balance, a), old["balance"])))
    /\ \A slot, d : valueAt(new.storage, slot, d) =
                    LastOf(opts.storage, AllSlot(opts.storage, a, slot), valueAt(old.storage, slot, d))

ArePrepared(s, t, opts) ==
    /\ State(t)
    /\ DOMAIN t = DOMAIN s \union Mentioned(opts.balance) \union Mentioned(opts.storage)
                           \union Mentioned(opts.sender_balance) \union Mentioned(opts.faucet)
    /\ \A a : IsPrepared(opts, a, entry(s, a), entry(t, a))

LEMMA FaucetAdds ==
    ASSUME NEW list, Len(list) \in Nat, NEW a, NEW old, NEW new, IsAsked(list, Len(list), "faucet", a, old, new)
    PROVE  new["balance"] = with_added(list, a, old["balance"])
<1>1. PICK f : Totals(f, Len(list), list, a, old["balance"]) /\ with_added(list, a, old["balance"]) = f[Len(list)]
    BY AddedTotals, Zenon
<1>2. new["balance"] = f[Len(list)]
    BY <1>1, Zenon DEF IsAsked
<1> QED BY <1>1, <1>2, Zenon

LEMMA Prepared ==
    ASSUME NEW s, State(s), NEW opts, OptionLists(opts)
    PROVE  ArePrepared(s, load_prestate(s, opts), opts)
<1> DEFINE b == overrides(s, "balance", opts.balance)
           c == overrides(b, "storage", opts.storage)
           d == overrides(c, "balance", opts.sender_balance)
           t == overrides(d, "faucet", opts.faucet)
<1>0. load_prestate(s, opts) = t
    BY Zenon DEF load_prestate
<1> HIDE DEF b, c, d, t
<1>1. AreAsked(s, b, opts.balance, Len(opts.balance), "balance") /\ State(b)
    BY OverridesAsked, Zenon DEF b, OptionLists, Kinds, AreAsked
<1>2. AreAsked(b, c, opts.storage, Len(opts.storage), "storage") /\ State(c)
    BY <1>1, OverridesAsked, Zenon DEF c, OptionLists, Kinds, AreAsked
<1>3. AreAsked(c, d, opts.sender_balance, Len(opts.sender_balance), "balance") /\ State(d)
    BY <1>2, OverridesAsked, Zenon DEF d, OptionLists, Kinds, AreAsked
<1>4. AreAsked(d, t, opts.faucet, Len(opts.faucet), "faucet") /\ State(t)
    BY <1>3, OverridesAsked, Zenon DEF t, OptionLists, Kinds, AreAsked
<1>5. DOMAIN t = DOMAIN s \union Mentioned(opts.balance) \union Mentioned(opts.storage)
                           \union Mentioned(opts.sender_balance) \union Mentioned(opts.faucet)
    <2>1. /\ DOMAIN b = DOMAIN s \union Mentioned(opts.balance) /\ DOMAIN c = DOMAIN b \union Mentioned(opts.storage)
          /\ DOMAIN d = DOMAIN c \union Mentioned(opts.sender_balance) /\ DOMAIN t = DOMAIN d \union Mentioned(opts.faucet)
        BY <1>1, <1>2, <1>3, <1>4, Zenon DEF AreAsked, Mentioned
    <2> QED BY <2>1, Zenon
<1>6. ASSUME NEW a
      PROVE  IsPrepared(opts, a, entry(s, a), entry(t, a))
    <2> DEFINE ra == entry(s, a)
               rb == entry(b, a)
               rc == entry(c, a)
               rd == entry(d, a)
               rt == entry(t, a)
    <2>1. /\ IsAsked(opts.balance, Len(opts.balance), "balance", a, ra, rb)
          /\ IsAsked(opts.storage, Len(opts.storage), "storage", a, rb, rc)
          /\ IsAsked(opts.sender_balance, Len(opts.sender_balance), "balance", a, rc, rd)
          /\ IsAsked(opts.faucet, Len(opts.faucet), "faucet", a, rd, rt)
        BY <1>1, <1>2, <1>3, <1>4, Zenon DEF AreAsked
    <2> HIDE DEF ra, rb, rc, rd, rt
    <2>2. \A f \in {"nonce", "code", "code_hash"} : rt[f] = ra[f]
        BY <2>1, Zenon DEF IsAsked
    <2>3. rt["balance"] = with_added(opts.faucet, a, rd["balance"])
        BY <2>1, FaucetAdds, Zenon DEF OptionLists
    <2>4. rd["balance"] = LastOf(opts.sender_balance, All(opts.sender_balance, a), rc["balance"])
        BY <2>1, Zenon DEF IsAsked, All
    <2>5. rc["balance"] = rb["balance"] /\ rb["balance"] = LastOf(opts.balance, All(opts.balance, a), ra["balance"])
        BY <2>1, Zenon DEF IsAsked, All
    <2>6. rt["storage"] = rd["storage"] /\ rd["storage"] = rc["storage"] /\ rb["storage"] = ra["storage"]
        BY <2>1, Zenon DEF IsAsked
    <2>7. \A slot, e : valueAt(rc.storage, slot, e) = LastOf(opts.storage, AllSlot(opts.storage, a, slot), valueAt(rb.storage, slot, e))
        BY <2>1, Zenon DEF IsAsked, AllSlot
    <2>8. rt.storage = rc.storage /\ rb.storage = ra.storage
        BY <2>6
    <2>9. IsPrepared(opts, a, ra, rt)
        BY <2>2, <2>3, <2>4, <2>5, <2>7, <2>8, Zenon DEF IsPrepared
    <2> QED BY <2>9, Zenon DEF ra, rt
<1>7. ArePrepared(s, t, opts)
    BY <1>4, <1>5, <1>6, Zenon DEF ArePrepared
<1> QED BY <1>0, <1>7, Zenon

\* The state with the codes of the system contracts and of `run`
Coded(state, spec, invocation) == run_code(deploy_system_contracts(state, spec), invocation)

\* Where they are
Codes(spec, invocation) ==
    DOMAIN system_contracts(spec) \union (IF places_code(invocation) THEN {"receiver"} ELSE {})

codeOf(spec, invocation, a, own) ==
    IF places_code(invocation) /\ a = "receiver" THEN invocation.code
    ELSE IF a \in DOMAIN system_contracts(spec) THEN system_contracts(spec)[a] ELSE own

AreCoded(s, t, spec, invocation) ==
    /\ State(t) /\ DOMAIN t = DOMAIN s \union Codes(spec, invocation)
    /\ \A a : /\ \A f \in Fields : f # "code" => entry(t, a)[f] = entry(s, a)[f]
              /\ entry(t, a)["code"] = codeOf(spec, invocation, a, entry(s, a)["code"])

LEMMA Deployed ==
    ASSUME NEW s, State(s), NEW spec
    PROVE  LET t == deploy_system_contracts(s, spec)
               codes == system_contracts(spec)
           IN /\ State(t) /\ DOMAIN t = DOMAIN s \union DOMAIN codes
              /\ \A a : /\ \A f \in Fields : f # "code" => entry(t, a)[f] = entry(s, a)[f]
                        /\ entry(t, a)["code"] = IF a \in DOMAIN codes THEN codes[a] ELSE entry(s, a)["code"]
<1> DEFINE codes == system_contracts(spec)
           t == deploy_system_contracts(s, spec)
<1>1. t = [a \in DOMAIN s \union DOMAIN codes |->
              IF a \in DOMAIN codes THEN set_account_code(s, a, codes[a])[a] ELSE s[a]]
    BY Zenon DEF deploy_system_contracts
<1> HIDE DEF t, codes
<1>2. DOMAIN t = DOMAIN s \union DOMAIN codes /\ \A a \in DOMAIN s : a \notin DOMAIN codes => t[a] = s[a]
    BY <1>1
<1>3. ASSUME NEW a \in DOMAIN codes
      PROVE  /\ Acc(t[a]) /\ t[a]["code"] = codes[a]
             /\ \A f \in Fields : f # "code" => t[a][f] = entry(s, a)[f]
    <2> DEFINE u == set_account_code(s, a, codes[a])
    <2>1. t[a] = u[a]
        BY <1>1, Zenon
    <2>2. u = with_field(s, a, "code", codes[a]) /\ "code" \in Fields
        BY Zenon DEF set_account_code, Fields
    <2> HIDE DEF u
    <2>3. IsSet(s, u, a, "code", codes[a])
        BY <2>2, FieldSet, Zenon
    <2>4. a \in DOMAIN u /\ entry(u, a) = u[a] /\ Acc(u[a])
        BY <2>3 DEF IsSet, State, entry
    <2> QED BY <2>1, <2>3, <2>4, Zenon DEF IsSet
<1>4. \A a \in DOMAIN t : entry(t, a) = t[a]
    BY DEF entry
<1>5. State(t)
    BY <1>2, <1>3 DEF State
<1>6. ASSUME NEW a
      PROVE  /\ \A f \in Fields : f # "code" => entry(t, a)[f] = entry(s, a)[f]
             /\ entry(t, a)["code"] = IF a \in DOMAIN codes THEN codes[a] ELSE entry(s, a)["code"]
    <2>1. CASE a \in DOMAIN codes
        BY <1>2, <1>3, <1>4, <2>1, Zenon
    <2>2. CASE a \notin DOMAIN codes
        <3>1. entry(t, a) = entry(s, a)
            BY <1>2, <2>2 DEF entry
        <3> QED BY <2>2, <3>1, Zenon
    <2> QED BY <2>1, <2>2, Zenon
<1> QED BY <1>2, <1>5, <1>6, Zenon DEF t, codes

LEMMA CodesSet ==
    ASSUME NEW s, State(s), NEW spec, NEW invocation
    PROVE  AreCoded(s, Coded(s, spec, invocation), spec, invocation)
<1> DEFINE codes == system_contracts(spec)
           t == deploy_system_contracts(s, spec)
           u == Coded(s, spec, invocation)
<1>1. /\ State(t) /\ DOMAIN t = DOMAIN s \union DOMAIN codes
      /\ \A a : /\ \A f \in Fields : f # "code" => entry(t, a)[f] = entry(s, a)[f]
                /\ entry(t, a)["code"] = IF a \in DOMAIN codes THEN codes[a] ELSE entry(s, a)["code"]
    BY Deployed, Zenon
<1>2. CASE places_code(invocation)
    <2>1. u = with_field(t, "receiver", "code", invocation.code)
        BY <1>2, Zenon DEF Coded, run_code, set_account_code
    <2> HIDE DEF u, t
    <2>2. "code" \in Fields
        BY DEF Fields
    <2>3. IsSet(t, u, "receiver", "code", invocation.code)
        BY <1>1, <2>1, <2>2, FieldSet, Zenon
    <2>4. Codes(spec, invocation) = DOMAIN codes \union {"receiver"}
        BY <1>2, Zenon DEF Codes
    <2>5. ASSUME NEW a
          PROVE  /\ \A f \in Fields : f # "code" => entry(u, a)[f] = entry(s, a)[f]
                 /\ entry(u, a)["code"] = codeOf(spec, invocation, a, entry(s, a)["code"])
        <3>1. CASE a = "receiver"
            <4>1. codeOf(spec, invocation, a, entry(s, a)["code"]) = invocation.code
                BY <1>2, <3>1, Zenon DEF codeOf
            <4> QED BY <1>1, <2>3, <3>1, <4>1, Zenon DEF IsSet
        <3>2. CASE a # "receiver"
            <4>1. codeOf(spec, invocation, a, entry(s, a)["code"]) = IF a \in DOMAIN codes THEN codes[a] ELSE entry(s, a)["code"]
                BY <3>2, Zenon DEF codeOf
            <4>2. entry(u, a) = entry(t, a)
                BY <2>3, <3>2, Zenon DEF IsSet
            <4> QED BY <1>1, <4>1, <4>2, Zenon
        <3> QED BY <3>1, <3>2, Zenon
    <2>6. State(u) /\ DOMAIN u = DOMAIN s \union Codes(spec, invocation)
        <3>1. State(u) /\ DOMAIN u = DOMAIN t \union {"receiver"}
            BY <2>3, Zenon DEF IsSet
        <3>2. DOMAIN u = DOMAIN s \union (DOMAIN codes \union {"receiver"})
            BY <1>1, <3>1, Zenon
        <3> QED BY <2>4, <3>1, <3>2, Zenon
    <2> QED BY <2>5, <2>6, Zenon DEF AreCoded, u
<1>3. CASE ~places_code(invocation)
    <2>1. u = t
        BY <1>3, Zenon DEF Coded, run_code
    <2>2. Codes(spec, invocation) = DOMAIN codes
        <3>1. Codes(spec, invocation) = DOMAIN codes \union {}
            BY <1>3, Zenon DEF Codes
        <3> QED BY <3>1
    <2>3. \A a, own : codeOf(spec, invocation, a, own) = IF a \in DOMAIN codes THEN codes[a] ELSE own
        BY <1>3, Zenon DEF codeOf
    <2> HIDE DEF u, t
    <2> QED BY <1>1, <2>1, <2>2, <2>3, Zenon DEF AreCoded, u
<1> QED BY <1>2, <1>3, Zenon

-----------------------------------------------------------------------------
(* What the transaction sees *)

\* The code of an account is the one its hash is of.
Hashed(s) == \A a \in DOMAIN s : s[a].code_hash = s[a].code

\* What was meant is what the file says.
FileIsLeft ==
    /\ State(file)
    /\ DOMAIN left = DOMAIN file
    /\ \A a \in DOMAIN file :
         \A f \in {"balance", "nonce", "code", "storage"} : left[a][f] = into_account(file[a])[f]

LEMMA IntoAccount ==
    ASSUME NEW r, Acc(r)
    PROVE  Acc(into_account(r)) /\ into_account(r).code_hash = into_account(r).code
BY DEF Acc, into_account, hash_slow, Fields

LEMMA Loads ==
    ASSUME State(file), NEW invocation
    PROVE  LET s == loaded_of(invocation)
           IN /\ State(s) /\ Hashed(s)
              /\ invocation.prestate => s = [a \in DOMAIN file |-> into_account(file[a])]
              /\ ~invocation.prestate => DOMAIN s = {}
<1>1. CASE invocation.prestate
    <2> DEFINE s == loaded_of(invocation)
    <2>1. s = [a \in DOMAIN file |-> into_account(file[a])]
        BY <1>1, Zenon DEF loaded_of
    <2> HIDE DEF s
    <2>2. DOMAIN s = DOMAIN file /\ \A a \in DOMAIN file : s[a] = into_account(file[a]) /\ Acc(file[a])
        BY <2>1 DEF State
    <2>3. ASSUME NEW a \in DOMAIN s
          PROVE  Acc(s[a]) /\ s[a].code_hash = s[a].code
        <3>1. s[a] = into_account(file[a]) /\ Acc(file[a])
            BY <2>2, Zenon
        <3>2. Acc(into_account(file[a])) /\ into_account(file[a]).code_hash = into_account(file[a]).code
            BY <3>1, IntoAccount, Zenon
        <3> QED BY <3>1, <3>2
    <2>4. State(s) /\ Hashed(s)
        BY <2>3, Zenon DEF State, Hashed
    <2> QED BY <1>1, <2>1, <2>4, Zenon DEF s
<1>2. CASE ~invocation.prestate
    <2>1. loaded_of(invocation) = <<>>
        BY <1>2, Zenon DEF loaded_of
    <2>2. DOMAIN <<>> = {}
        OBVIOUS
    <2> QED BY <1>2, <2>1, <2>2 DEF State, Hashed
<1> QED BY <1>1, <1>2, Zenon

LEMMA HashedEntry ==
    ASSUME NEW s, Hashed(s), NEW a
    PROVE  entry(s, a)["code_hash"] = entry(s, a)["code"]
BY DEF Hashed, entry, default_account

LEMMA StaysHashed ==
    ASSUME NEW s, Hashed(s), NEW t, NEW opts, ArePrepared(s, t, opts)
    PROVE  Hashed(t)
<1> SUFFICES ASSUME NEW a \in DOMAIN t PROVE t[a].code_hash = t[a].code
    BY DEF Hashed
<1>1. entry(t, a) = t[a]
    BY DEF entry
<1>2. entry(t, a)["code_hash"] = entry(s, a)["code_hash"] /\ entry(t, a)["code"] = entry(s, a)["code"]
    BY Zenon DEF ArePrepared, IsPrepared
<1>3. entry(t, a)["code_hash"] = entry(t, a)["code"]
    BY <1>2, HashedEntry, Zenon
<1> QED BY <1>1, <1>3

\* Every code is at its own hash.
LEMMA CodesAtHashes ==
    ASSUME NEW s, Hashed(s), NEW invocation, NEW h \in DOMAIN codes_of(s, invocation)
    PROVE  codes_of(s, invocation)[h] = h
<1> DEFINE given == {s[a].code_hash : a \in DOMAIN s}
           set   == Range(system_contracts(invocation.spec)) \cup
                    (IF places_code(invocation) THEN {invocation.code} ELSE {})
           F(k)  == IF \E code \in set : hash_slow(code) = k THEN CHOOSE code \in set : hash_slow(code) = k
                    ELSE s[CHOOSE a \in DOMAIN s : s[a].code_hash = k].code
           c == codes_of(s, invocation)
<1>1. c = [k \in {hash_slow(code) : code \in set} \cup given |-> F(k)]
    BY Zenon DEF codes_of
<1> HIDE DEF c, F
<1>2. h \in {hash_slow(code) : code \in set} \cup given /\ c[h] = F(h)
    <2> HIDE DEF set, given
    <2>1. h \in DOMAIN c
        BY DEF c
    <2> QED BY <1>1, <2>1
<1>3. CASE \E code \in set : hash_slow(code) = h
    <2> HIDE DEF set
    <2> DEFINE p == CHOOSE code \in set : hash_slow(code) = h
    <2>1. hash_slow(p) = h
        BY <1>3
    <2>2. F(h) = p
        BY <1>3, Zenon DEF F
    <2> HIDE DEF p
    <2> QED BY <1>2, <2>1, <2>2, Zenon DEF c, hash_slow
<1>4. CASE ~\E code \in set : hash_slow(code) = h
    <2>1. h \in given
        <3> HIDE DEF set, given
        <3> QED BY <1>2, <1>4, Zenon
    <2> DEFINE p == CHOOSE a \in DOMAIN s : s[a].code_hash = h
    <2>2. p \in DOMAIN s /\ s[p].code_hash = h
        BY <2>1
    <2>3. F(h) = s[p].code
        <3> HIDE DEF set
        <3> QED BY <1>4, Zenon DEF F
    <2> HIDE DEF p
    <2>4. s[p].code = h
        BY <2>2, Zenon DEF Hashed
    <2> QED BY <1>2, <2>3, <2>4, Zenon DEF c
<1> QED BY <1>3, <1>4, Zenon

\* The lists of a command line are what the assumption says.
LEMMA ListsOf ==
    ASSUME NEW invocation \in Invocations
    PROVE  LET opts == invocation.opts
           IN /\ OptionLists(opts)
              /\ DOMAIN opts.balance = 1 .. Len(opts.balance)
              /\ DOMAIN opts.sender_balance = 1 .. Len(opts.sender_balance)
              /\ DOMAIN opts.faucet = 1 .. Len(opts.faucet)
              /\ DOMAIN opts.storage = 1 .. Len(opts.storage)
<1> DEFINE opts == invocation.opts
           Value == [address : Addresses, value : Nat]
           Slot == [address : Addresses, slot : Slots, value : Nat]
<1>1. /\ opts.balance \in Seq(Value) /\ opts.sender_balance \in Seq(Value) /\ opts.faucet \in Seq(Value)
      /\ opts.storage \in Seq(Slot)
    BY EvmeStateAssumption, Zenon
<1> HIDE DEF Value, Slot, opts
<1>2. /\ OptionLists(opts)
      /\ DOMAIN opts.balance = 1 .. Len(opts.balance)
      /\ DOMAIN opts.sender_balance = 1 .. Len(opts.sender_balance)
      /\ DOMAIN opts.faucet = 1 .. Len(opts.faucet)
      /\ DOMAIN opts.storage = 1 .. Len(opts.storage)
    BY <1>1 DEF OptionLists
<1> QED BY <1>2, Zenon DEF opts

\* The state of the invocation is made of the file and the command line.
loaded == load_prestate(loaded_of(args), args.opts)

IsReady ==
    /\ args \in Invocations
    /\ prestate = Coded(loaded, args.spec, args)
    /\ code_map = codes_of(loaded, args)

LEMMA NobodyAdds ==
    ASSUME NEW list, Len(list) \in Nat, NEW a, NEW own, All(list, a) = {}
    PROVE  with_added(list, a, own) = own
<1> DEFINE N == Len(list)
<1>1. PICK f : Totals(f, N, list, a, own) /\ with_added(list, a, own) = f[N]
    BY AddedTotals, Zenon
<1>2. f[0] = own /\ \A n \in Nat : n + 1 <= N => Total(f, n, list, a)
    BY <1>1, TotalOf, Zenon
<1>3. \A m \in 1 .. N : list[m].address # a
    BY Zenon DEF All, First
<1> HIDE DEF N
<1> DEFINE T == {n \in Nat : n <= N => f[n] = own}
<1>4. 0 \in T
    BY <1>2
<1>5. ASSUME NEW n \in Nat, n \in T PROVE n + 1 \in T
    <2> SUFFICES ASSUME n + 1 <= N PROVE f[n + 1] = own
        OBVIOUS
    <2>1. N \in Nat
        BY DEF N
    <2>2. n + 1 \in 1 .. N /\ f[n] = own
        BY <1>5, <2>1
    <2>3. list[n + 1].address # a
        BY <1>3, <2>2, Zenon
    <2>4. f[n + 1] = IF list[n + 1].address = a THEN f[n] + list[n + 1].value ELSE f[n]
        BY <1>2, Zenon DEF Total
    <2> QED BY <2>2, <2>3, <2>4, Zenon
<1>6. N \in T
    <2>1. Nat \subseteq T
        <3> HIDE DEF T
        <3> QED BY <1>4, <1>5, Induct
    <2>2. N \in Nat
        BY DEF N
    <2> HIDE DEF T
    <2> QED BY <2>1, <2>2
<1> QED BY <1>1, <1>6

LEMMA NotMentioned ==
    ASSUME NEW list, NEW a, a \notin Mentioned(list)
    PROVE  All(list, a) = {} /\ \A slot : AllSlot(list, a, slot) = {}
BY DEF Mentioned, All, AllSlot, First, FirstSlot

\* What is asked for, in the terms of the lemmas
LEMMA AskedInLists ==
    ASSUME args \in Invocations, NEW a
    PROVE  LET opts == args.opts
           IN /\ AskedBalance(a) = with_added(opts.faucet, a,
                                     LastOf(opts.sender_balance, All(opts.sender_balance, a),
                                            LastOf(opts.balance, All(opts.balance, a), Base(a)["balance"])))
              /\ AskedCode(a) = codeOf(args.spec, args, a, Base(a)["code"])
              /\ \A slot : AskedSlot(a, slot) = LastOf(opts.storage, AllSlot(opts.storage, a, slot),
                                                      valueAt(Base(a).storage, slot, 0))
<1> DEFINE opts == args.opts
           own == Base(a)
<1>1. /\ DOMAIN opts.balance = 1 .. Len(opts.balance)
      /\ DOMAIN opts.sender_balance = 1 .. Len(opts.sender_balance)
      /\ DOMAIN opts.faucet = 1 .. Len(opts.faucet)
      /\ DOMAIN opts.storage = 1 .. Len(opts.storage)
    BY ListsOf, Zenon
<1>2. /\ naming(opts.balance, a) = All(opts.balance, a)
      /\ naming(opts.sender_balance, a) = All(opts.sender_balance, a)
      /\ \A slot : {n \in naming(opts.storage, a) : opts.storage[n].slot = slot} = AllSlot(opts.storage, a, slot)
    <2>1. /\ naming(opts.balance, a) = All(opts.balance, a)
          /\ naming(opts.sender_balance, a) = All(opts.sender_balance, a)
        BY <1>1, Zenon DEF naming, All, First
    <2>2. ASSUME NEW slot
          PROVE  {n \in naming(opts.storage, a) : opts.storage[n].slot = slot} = AllSlot(opts.storage, a, slot)
        <3> DEFINE list == opts.storage
        <3>1. DOMAIN list = 1 .. Len(list)
            BY <1>1
        <3> HIDE DEF list
        <3>2. {n \in naming(list, a) : list[n].slot = slot} = AllSlot(list, a, slot)
            BY <3>1 DEF naming, AllSlot, FirstSlot
        <3> QED BY <3>2, Zenon DEF list
    <2> QED BY <2>1, <2>2, Zenon
<1>3. AskedCode(a) = codeOf(args.spec, args, a, own["code"])
    <2>1. own.code = own["code"]
        OBVIOUS
    <2> QED BY <2>1, Zenon DEF AskedCode, codeOf
<1>4. AskedBalance(a) = with_added(opts.faucet, a,
                            LastOf(opts.sender_balance, All(opts.sender_balance, a),
                                   LastOf(opts.balance, All(opts.balance, a), own["balance"])))
    <2>1. own.balance = own["balance"]
        OBVIOUS
    <2> QED BY <1>2, <2>1, Zenon DEF AskedBalance
<1>5. ASSUME NEW slot
      PROVE  AskedSlot(a, slot) = LastOf(opts.storage, AllSlot(opts.storage, a, slot), valueAt(own.storage, slot, 0))
    BY <1>2, Zenon DEF AskedSlot, valueAt
<1> QED BY <1>3, <1>4, <1>5, Zenon

\* An account that the command line does not name and the files do not have comes from the chain.
LEMMA SeesRemote ==
    ASSUME FileIsLeft, IsReady, NEW a, a \notin DOMAIN prestate
    PROVE  /\ basic(a) = Base(a)
           /\ basic(a).balance = AskedBalance(a)
           /\ basic(a).code = AskedCode(a)
           /\ \A slot : storage(a, slot) = AskedSlot(a, slot)
<1> DEFINE s == loaded_of(args)
           opts == args.opts
           own == Base(a)
<1>1. State(s) /\ OptionLists(opts)
    BY Loads, ListsOf, Zenon DEF FileIsLeft, IsReady
<1>2. ArePrepared(s, loaded, opts)
    BY <1>1, Prepared, Zenon DEF loaded
<1>3. AreCoded(loaded, prestate, args.spec, args)
    BY <1>2, CodesSet, Zenon DEF ArePrepared, IsReady
<1>4. /\ DOMAIN prestate = DOMAIN loaded \union Codes(args.spec, args)
      /\ DOMAIN loaded = DOMAIN s \union Mentioned(opts.balance) \union Mentioned(opts.storage)
                                  \union Mentioned(opts.sender_balance) \union Mentioned(opts.faucet)
    BY <1>2, <1>3, Zenon DEF ArePrepared, AreCoded
<1>5. /\ a \notin Codes(args.spec, args) /\ a \notin DOMAIN s
      /\ a \notin Mentioned(opts.balance) /\ a \notin Mentioned(opts.storage)
      /\ a \notin Mentioned(opts.sender_balance) /\ a \notin Mentioned(opts.faucet)
    BY <1>4, Zenon
<1>6. own = backend(a)
    <2>1. CASE args.prestate
        <3>1. s = [x \in DOMAIN file |-> into_account(file[x])]
            BY <2>1, Loads, Zenon DEF FileIsLeft
        <3> HIDE DEF s
        <3>2. DOMAIN s = DOMAIN left
            BY <3>1 DEF FileIsLeft
        <3> QED BY <1>5, <3>2, Zenon DEF Base
    <2>2. CASE ~args.prestate
        BY <2>2, Zenon DEF Base
    <2> QED BY <2>1, <2>2, Zenon
<1>7. basic(a) = own
    BY <1>6, Zenon DEF basic
<1>8. \A d : /\ LastOf(opts.balance, All(opts.balance, a), d) = d
             /\ LastOf(opts.sender_balance, All(opts.sender_balance, a), d) = d
             /\ with_added(opts.faucet, a, d) = d
             /\ \A slot : LastOf(opts.storage, AllSlot(opts.storage, a, slot), d) = d
    <2>1. /\ All(opts.balance, a) = {} /\ All(opts.sender_balance, a) = {} /\ All(opts.faucet, a) = {}
          /\ \A slot : AllSlot(opts.storage, a, slot) = {}
        BY <1>5, NotMentioned, Zenon
    <2>2. \A d : with_added(opts.faucet, a, d) = d
        BY <1>1, <2>1, NobodyAdds, Zenon DEF OptionLists
    <2> QED BY <2>1, <2>2, Zenon DEF LastOf
<1>9. /\ AskedBalance(a) = with_added(opts.faucet, a,
                             LastOf(opts.sender_balance, All(opts.sender_balance, a),
                                    LastOf(opts.balance, All(opts.balance, a), own["balance"])))
      /\ AskedCode(a) = codeOf(args.spec, args, a, own["code"])
      /\ \A slot : AskedSlot(a, slot) = LastOf(opts.storage, AllSlot(opts.storage, a, slot), valueAt(own.storage, slot, 0))
    BY AskedInLists, Zenon DEF IsReady
<1>10. AskedBalance(a) = own["balance"] /\ \A slot : AskedSlot(a, slot) = valueAt(own.storage, slot, 0)
    BY <1>8, <1>9, Zenon
<1>11. AskedCode(a) = own["code"]
    <2>1. a \notin DOMAIN system_contracts(args.spec) /\ ~(places_code(args) /\ a = "receiver")
        <3> DEFINE here == IF places_code(args) THEN {"receiver"} ELSE {}
        <3>1. a \notin DOMAIN system_contracts(args.spec) /\ a \notin here
            <4> HIDE DEF here
            <4> QED BY <1>5 DEF Codes, here
        <3>2. ~(places_code(args) /\ a = "receiver")
            <4> SUFFICES ASSUME places_code(args) PROVE a # "receiver"
                OBVIOUS
            <4>1. here = {"receiver"}
                BY Zenon
            <4> QED BY <3>1, <4>1
        <3> QED BY <3>1, <3>2
    <2> QED BY <1>9, <2>1, Zenon DEF codeOf
<1>12. \A slot : storage(a, slot) = valueAt(own.storage, slot, 0)
    BY <1>6, Zenon DEF storage, valueAt
<1>13. own["balance"] = own.balance /\ own["code"] = own.code
    OBVIOUS
<1> QED BY <1>7, <1>10, <1>11, <1>12, <1>13, Zenon

\* Without a chain, an account that nobody has is empty.
LEMMA SeesPrepared ==
    ASSUME FileIsLeft, IsReady, ~args.fork, NEW a
    PROVE  /\ basic(a).nonce = Base(a).nonce
           /\ basic(a).balance = AskedBalance(a)
           /\ basic(a).code = AskedCode(a)
           /\ \A slot : storage(a, slot) = AskedSlot(a, slot)
<1> DEFINE s == loaded_of(args)
           opts == args.opts
           own == Base(a)
<1>1. State(s) /\ OptionLists(opts)
    BY Loads, ListsOf, Zenon DEF FileIsLeft, IsReady
<1>2. ArePrepared(s, loaded, opts)
    BY <1>1, Prepared, Zenon DEF loaded
<1>3. AreCoded(loaded, prestate, args.spec, args)
    BY <1>2, CodesSet, Zenon DEF ArePrepared, IsReady
<1>4. backend(a) = default_account
    BY Zenon DEF backend
<1>5. basic(a) = entry(prestate, a)
    BY <1>4, Zenon DEF basic, entry
<1>6. \A f \in {"balance", "nonce", "code", "storage"} : entry(s, a)[f] = own[f]
    <2>1. CASE args.prestate /\ a \in DOMAIN left
        <3>1. s = [x \in DOMAIN file |-> into_account(file[x])] /\ a \in DOMAIN file
            BY <2>1, Loads, Zenon DEF FileIsLeft
        <3> HIDE DEF s
        <3>2. entry(s, a) = into_account(file[a])
            BY <3>1 DEF entry
        <3>3. own = left[a]
            BY <2>1, Zenon DEF Base
        <3> QED BY <3>1, <3>2, <3>3, Zenon DEF FileIsLeft
    <2>2. CASE ~(args.prestate /\ a \in DOMAIN left)
        <3>1. own = default_account
            BY <1>4, <2>2, Zenon DEF Base
        <3>2. a \notin DOMAIN s
            <4>1. CASE args.prestate
                <5>1. s = [x \in DOMAIN file |-> into_account(file[x])] /\ a \notin DOMAIN file
                    BY <2>2, <4>1, Loads, Zenon DEF FileIsLeft
                <5> HIDE DEF s
                <5> QED BY <5>1
            <4>2. CASE ~args.prestate
                <5>1. DOMAIN s = {}
                    BY <4>2, Loads, Zenon DEF FileIsLeft
                <5> HIDE DEF s
                <5> QED BY <5>1
            <4> QED BY <4>1, <4>2, Zenon
        <3> QED BY <3>1, <3>2, Zenon DEF entry
    <2> QED BY <2>1, <2>2, Zenon
<1> DEFINE old == entry(s, a)
           mid == entry(loaded, a)
           new == entry(prestate, a)
<1>7. IsPrepared(opts, a, old, mid)
    BY <1>2, Zenon DEF ArePrepared
<1>8. /\ \A f \in Fields : f # "code" => new[f] = mid[f]
      /\ new["code"] = codeOf(args.spec, args, a, mid["code"])
    BY <1>3, Zenon DEF AreCoded
<1>9. \A slot : storage(a, slot) = valueAt(new.storage, slot, 0)
    <2>1. \A slot : slot \notin DOMAIN default_account.storage
        BY DEF default_account
    <2>2. CASE a \in DOMAIN prestate
        <3>1. new = prestate[a]
            BY <2>2, Zenon DEF entry
        <3> QED BY <1>4, <2>1, <2>2, <3>1, Zenon DEF storage, valueAt
    <2>3. CASE a \notin DOMAIN prestate
        <3>1. new = default_account
            BY <2>3, Zenon DEF entry
        <3> QED BY <1>4, <2>1, <2>3, <3>1, Zenon DEF storage, valueAt
    <2> QED BY <2>2, <2>3, Zenon
<1>10. /\ AskedBalance(a) = with_added(opts.faucet, a,
                             LastOf(opts.sender_balance, All(opts.sender_balance, a),
                                    LastOf(opts.balance, All(opts.balance, a), own["balance"])))
      /\ AskedCode(a) = codeOf(args.spec, args, a, own["code"])
      /\ \A slot : AskedSlot(a, slot) = LastOf(opts.storage, AllSlot(opts.storage, a, slot), valueAt(own.storage, slot, 0))
    BY AskedInLists, Zenon DEF IsReady
<1> HIDE DEF old, mid, new, own, s, opts
<1>11. /\ old["balance"] = own["balance"] /\ old["nonce"] = own["nonce"]
       /\ old["code"] = own["code"] /\ old["storage"] = own["storage"]
    BY <1>6, Zenon DEF old
<1>12. /\ new["balance"] = mid["balance"] /\ new["nonce"] = mid["nonce"] /\ new["storage"] = mid["storage"]
    BY <1>8 DEF Fields
<1>13. /\ mid["nonce"] = old["nonce"] /\ mid["code"] = old["code"]
    BY <1>7, Zenon DEF IsPrepared
<1>14. new["nonce"] = own["nonce"]
    BY <1>11, <1>12, <1>13, Zenon
<1>15. new["balance"] = AskedBalance(a)
    BY <1>7, <1>10, <1>11, <1>12, Zenon DEF IsPrepared
<1>16. new["code"] = AskedCode(a)
    BY <1>8, <1>10, <1>11, <1>13, Zenon
<1>17. ASSUME NEW slot
       PROVE  storage(a, slot) = AskedSlot(a, slot)
    <2>1. new.storage = mid.storage /\ old.storage = own.storage
        BY <1>11, <1>12
    <2>2. valueAt(mid.storage, slot, 0) = LastOf(opts.storage, AllSlot(opts.storage, a, slot), valueAt(old.storage, slot, 0))
        BY <1>7, Zenon DEF IsPrepared
    <2> QED BY <1>9, <1>10, <2>1, <2>2, Zenon
<1>18. new["nonce"] = new.nonce /\ own["nonce"] = own.nonce /\ new["balance"] = new.balance /\ new["code"] = new.code
    OBVIOUS
<1> QED BY <1>5, <1>14, <1>15, <1>16, <1>17, <1>18, Zenon DEF new, own

-----------------------------------------------------------------------------
(* A session of run and tx *)

\* The file is what was meant, an invocation under way has the state that it asked for, and
\* what it executed are accounts.
Session ==
    /\ FileIsLeft
    /\ phase = "ready" => IsReady
    /\ phase = "executed" => State(journal)

LEMMA SessionSees ==
    ASSUME Session
    PROVE  SeesWhatWasAsked
<1> SUFFICES ASSUME phase = "ready", NEW a \in Addresses, ~args.fork \/ a \notin Named
             PROVE  /\ basic(a).nonce = Base(a).nonce
                    /\ basic(a).balance = AskedBalance(a)
                    /\ basic(a).code = AskedCode(a)
                    /\ code_by_hash(hash_slow(basic(a).code)) = basic(a).code
                    /\ \A slot \in Slots : storage(a, slot) = AskedSlot(a, slot)
    BY Zenon DEF SeesWhatWasAsked
<1>1. FileIsLeft /\ IsReady
    BY Zenon DEF Session
<1>2. /\ basic(a).nonce = Base(a).nonce
      /\ basic(a).balance = AskedBalance(a)
      /\ basic(a).code = AskedCode(a)
      /\ \A slot : storage(a, slot) = AskedSlot(a, slot)
    <2>1. CASE a \notin DOMAIN prestate
        BY <1>1, <2>1, SeesRemote, Zenon
    <2>2. CASE ~args.fork
        BY <1>1, <2>2, SeesPrepared, Zenon
    <2> QED BY <2>1, <2>2, Zenon DEF Named
<1>3. \A h : code_by_hash(h) = h
    <2>1. State(loaded_of(args)) /\ Hashed(loaded_of(args)) /\ OptionLists(args.opts)
        BY <1>1, Loads, ListsOf, Zenon DEF FileIsLeft, IsReady
    <2>2. ArePrepared(loaded_of(args), loaded, args.opts)
        BY <2>1, Prepared, Zenon DEF loaded
    <2>3. Hashed(loaded)
        BY <2>1, <2>2, StaysHashed, Zenon
    <2>4. \A h \in DOMAIN code_map : code_map[h] = h
        BY <1>1, <2>3, CodesAtHashes, Zenon DEF IsReady
    <2> QED BY <2>4, Zenon DEF code_by_hash
<1> QED BY <1>2, <1>3, Zenon DEF hash_slow

LEMMA BasicAcc ==
    ASSUME Session, phase = "ready", NEW a \in Addresses
    PROVE  Acc(basic(a))
<1>1. FileIsLeft /\ IsReady
    BY Zenon DEF Session
<1>2. State(loaded_of(args)) /\ OptionLists(args.opts)
    BY <1>1, Loads, ListsOf, Zenon DEF FileIsLeft, IsReady
<1>3. ArePrepared(loaded_of(args), loaded, args.opts)
    BY <1>2, Prepared, Zenon DEF loaded
<1>4. State(prestate)
    BY <1>1, <1>3, CodesSet, Zenon DEF ArePrepared, AreCoded, IsReady
<1>5. Acc(backend(a))
    <2>1. Acc(Remote[a])
        BY EvmeStateAssumption, Zenon DEF Acc
    <2> QED BY <2>1, DefaultAcc, Zenon DEF backend
<1> QED BY <1>4, <1>5, Zenon DEF basic, State

LEMMA ExecutesAccounts ==
    ASSUME Session, phase = "ready", NEW ok, NEW reads \in SUBSET {"oracle"}, NEW slot, NEW value
    PROVE  State(executed(ok, reads, slot, value))
<1> DEFINE tx     == args.tx
           target == IF tx.create THEN "created" ELSE "receiver"
           moved  == IF ok THEN tx.value ELSE 0
           sender == loaded_account("sender", {})
           other  == loaded_account(target, IF basic(target).code # "" THEN {slot} ELSE {})
           mint   == IF tx.mint THEN 1 ELSE 0
           paid   == [sender EXCEPT !.balance = @ + mint - moved, !.nonce = @ + 1]
           called == [other EXCEPT !.balance = @ + moved,
                                   !.storage = [s \in DOMAIN @ |-> [@[s] EXCEPT !.present = IF ok THEN value ELSE @]]]
           made   == [called EXCEPT !.nonce = 1, !.code = "deployed", !.code_hash = "deployed"]
           F(a)   == IF a = "sender" THEN paid
                     ELSE IF a = target THEN IF ok /\ tx.create THEN made ELSE called
                     ELSE loaded_account(a, Slots)
<1>1. ASSUME NEW a \in Addresses, NEW slots
      PROVE  Acc(loaded_account(a, slots))
    <2>1. Acc(basic(a))
        BY BasicAcc, Zenon
    <2> QED BY <2>1 DEF Acc, loaded_account
<1>2. "sender" \in Addresses /\ target \in Addresses /\ reads \subseteq Addresses
    BY DEF Addresses
<1>3. Acc(paid)
    <2>1. Acc(sender)
        BY <1>1, <1>2, Zenon
    <2> HIDE DEF sender, mint, moved
    <2> QED BY <2>1 DEF Acc
<1>4. Acc(called)
    <2>1. Acc(other)
        <3> HIDE DEF target
        <3> QED BY <1>1, <1>2, Zenon
    <2> HIDE DEF other, moved
    <2> QED BY <2>1 DEF Acc
<1>5. Acc(made)
    <2> HIDE DEF called
    <2> QED BY <1>4 DEF Acc
<1>6. executed(ok, reads, slot, value) = [a \in {"sender", target} \cup reads |-> F(a)]
    BY Zenon DEF executed
<1> HIDE DEF paid, called, made, target
<1>7. \A a \in {"sender", target} \cup reads : Acc(F(a))
    BY <1>1, <1>2, <1>3, <1>4, <1>5, Zenon
<1> HIDE DEF F
<1> QED BY <1>6, <1>7 DEF State

LEMMA SavedAsLeft ==
    ASSUME NEW r, Acc(r)
    PROVE  LET q == from_account(r)
               l == [r EXCEPT !.storage = [s \in DOMAIN @ |-> EvmStorageSlot(@[s].present)]]
           IN /\ Acc(q)
              /\ \A f \in {"balance", "nonce", "code", "storage"} : l[f] = into_account(q)[f]
<1> DEFINE saved == [s \in DOMAIN r.storage |-> r.storage[s].present]
           slots == [s \in DOMAIN r.storage |-> EvmStorageSlot(r.storage[s].present)]
           q == from_account(r)
           l == [r EXCEPT !.storage = [s \in DOMAIN @ |-> EvmStorageSlot(@[s].present)]]
<1>1. q = [r EXCEPT !.storage = saved] /\ l = [r EXCEPT !.storage = slots]
    BY Zenon DEF from_account
<1>2. [s \in DOMAIN saved |-> EvmStorageSlot(saved[s])] = slots
    OBVIOUS
<1> HIDE DEF q, l, saved, slots
<1>3. Acc(q) /\ q.storage = saved /\ \A f \in {"balance", "nonce", "code"} : q[f] = r[f]
    BY <1>1 DEF Acc, Fields
<1>4. l["storage"] = slots /\ \A f \in {"balance", "nonce", "code"} : l[f] = r[f]
    BY <1>1 DEF Acc, Fields
<1> DEFINE i == into_account(q)
<1>5. i = [q EXCEPT !.code_hash = hash_slow(q.code), !.storage = slots]
    BY <1>2, <1>3, Zenon DEF into_account
<1> HIDE DEF i
<1>6. i["storage"] = slots /\ \A f \in {"balance", "nonce", "code"} : i[f] = q[f]
    BY <1>3, <1>5 DEF Acc, Fields
<1>7. \A f \in {"balance", "nonce", "code", "storage"} : l[f] = i[f]
    BY <1>3, <1>4, <1>6
<1> QED BY <1>3, <1>7, Zenon DEF q, l, i

LEMMA SetupSession ==
    ASSUME Session, NEW invocation \in Invocations, Setup(invocation)
    PROVE  Session'
<1>1. CASE \E why : Fail(why)
    <2>1. phase' = "idle" /\ UNCHANGED <<file, left>>
        BY <1>1, Zenon DEF Fail
    <2>2. FileIsLeft'
        BY <2>1 DEF Session, FileIsLeft
    <2>3. phase' # "ready" /\ phase' # "executed"
        BY <2>1
    <2> QED BY <2>2, <2>3, Zenon DEF Session
<1>2. CASE /\ LET own == load_prestate(loaded_of(invocation), invocation.opts)
              IN /\ prestate' = run_code(deploy_system_contracts(own, invocation.spec), invocation)
                 /\ code_map' = codes_of(own, invocation)
           /\ phase' = "ready" /\ failure' = "none" /\ args' = invocation
           /\ UNCHANGED <<file, left, journal>>
    <2>1. FileIsLeft'
        BY <1>2 DEF Session, FileIsLeft
    <2>2. loaded' = load_prestate(loaded_of(invocation), invocation.opts)
        BY <1>2 DEF loaded, loaded_of
    <2>3. IsReady'
        <3> DEFINE own == load_prestate(loaded_of(invocation), invocation.opts)
        <3>1. /\ prestate' = Coded(own, invocation.spec, invocation)
              /\ code_map' = codes_of(own, invocation) /\ args' = invocation
            BY <1>2, Zenon DEF Coded
        <3>2. loaded' = own
            BY <2>2, Zenon
        <3> HIDE DEF own
        <3>3. args' \in Invocations /\ prestate' = Coded(loaded', args'.spec, args') /\ code_map' = codes_of(loaded', args')
            BY <3>1, <3>2, Zenon
        <3> QED BY <3>3, Zenon DEF IsReady
    <2>4. phase' # "executed"
        BY <1>2
    <2> QED BY <2>1, <2>3, <2>4, Zenon DEF Session
<1> QED BY <1>1, <1>2, Zenon DEF Setup

LEMMA ExecuteSession ==
    ASSUME Session, Execute
    PROVE  Session'
<1>1. CASE \E why : Fail(why)
    <2>1. phase' = "idle" /\ UNCHANGED <<file, left>>
        BY <1>1, Zenon DEF Fail
    <2>2. FileIsLeft'
        BY <2>1 DEF Session, FileIsLeft
    <2>3. phase' # "ready" /\ phase' # "executed"
        BY <2>1
    <2> QED BY <2>2, <2>3, Zenon DEF Session
<1>2. ASSUME NEW ok \in {succeeds, FALSE}, NEW reads \in SUBSET {"oracle"}, NEW slot \in Slots, NEW value \in {0, 1},
             journal' = executed(ok, reads, slot, value), phase = "ready", phase' = "executed", UNCHANGED <<file, left>>
      PROVE  Session'
    <2>1. State(journal')
        BY <1>2, ExecutesAccounts, Zenon
    <2>2. FileIsLeft'
        BY <1>2 DEF Session, FileIsLeft
    <2>3. phase' # "ready"
        BY <1>2
    <2> QED BY <2>1, <2>2, <2>3, Zenon DEF Session
<1> QED BY <1>1, <1>2, Zenon DEF Execute

LEMMA OutputSession ==
    ASSUME Session, Output
    PROVE  Session'
<1>1. phase = "executed" /\ phase' = "idle" /\ phase' # "ready" /\ phase' # "executed"
    BY DEF Output
<1>2. CASE args.dump
    <2>1. /\ file' = [a \in DOMAIN journal |-> from_account(journal[a])]
          /\ left' = [a \in DOMAIN journal |->
                        [journal[a] EXCEPT !.storage = [s \in DOMAIN @ |-> EvmStorageSlot(@[s].present)]]]
        BY <1>2, Zenon DEF Output
    <2>2. State(journal)
        BY <1>1, Zenon DEF Session
    <2>3. DOMAIN file' = DOMAIN journal /\ DOMAIN left' = DOMAIN journal
        BY <2>1
    <2>4. ASSUME NEW a \in DOMAIN journal
          PROVE  /\ Acc(file'[a])
                 /\ \A f \in {"balance", "nonce", "code", "storage"} : left'[a][f] = into_account(file'[a])[f]
        <3>1. /\ file'[a] = from_account(journal[a])
              /\ left'[a] = [journal[a] EXCEPT !.storage = [s \in DOMAIN @ |-> EvmStorageSlot(@[s].present)]]
            BY <2>1, Zenon
        <3>2. Acc(journal[a])
            BY <2>2, Zenon DEF State
        <3> QED BY <3>1, <3>2, SavedAsLeft, Zenon
    <2>5. State(file')
        BY <2>3, <2>4, Zenon DEF State
    <2>6. FileIsLeft'
        BY <2>3, <2>4, <2>5, Zenon DEF FileIsLeft
    <2> QED BY <1>1, <2>6, Zenon DEF Session
<1>3. CASE ~args.dump
    <2>1. UNCHANGED <<file, left>>
        BY <1>3, Zenon DEF Output
    <2>2. FileIsLeft'
        BY <2>1 DEF Session, FileIsLeft
    <2> QED BY <1>1, <2>2, Zenon DEF Session
<1> QED BY <1>2, <1>3, Zenon

\* run and tx (state.rs): the transaction sees the saved state, changed by the command line
\* and nothing else, for any files, chain, command lines and number of invocations.
THEOREM TransactionsSeeWhatWasAsked == Spec => []SeesWhatWasAsked
<1>1. Init => Session
    <2> SUFFICES ASSUME Init PROVE Session
        OBVIOUS
    <2>1. /\ file \in Files /\ left = [a \in DOMAIN file |-> into_account(file[a])]
          /\ phase = "idle"
        BY Zenon DEF Init, StateInit
    <2>2. State(file)
        BY <2>1, EvmeStateAssumption, Zenon DEF State, Acc
    <2>3. FileIsLeft
        BY <2>1, <2>2 DEF FileIsLeft
    <2>4. phase # "ready" /\ phase # "executed"
        BY <2>1
    <2> QED BY <2>3, <2>4, Zenon DEF Session
<1>2. Session /\ [Next]_vars => Session'
    <2> SUFFICES ASSUME Session, [Next]_vars PROVE Session'
        OBVIOUS
    <2>1. CASE UNCHANGED stateVars
        BY <2>1 DEF stateVars, Session, FileIsLeft, IsReady, loaded, loaded_of
    <2>2. CASE StateNext
        BY <2>2, SetupSession, ExecuteSession, OutputSession, Zenon DEF StateNext
    <2>3. StateNext \/ UNCHANGED stateVars
        BY Zenon DEF Next, RunOrTx, Transition, ReplayTransaction, vars
    <2> QED BY <2>1, <2>2, <2>3, Zenon
<1>3. Session => SeesWhatWasAsked
    BY SessionSees, Zenon
<1> QED BY <1>1, <1>2, <1>3, PTL DEF Spec

=============================================================================
