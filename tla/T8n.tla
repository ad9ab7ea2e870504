-------------------------------- MODULE T8n --------------------------------
(***************************************************************************)
(* `mega-evme t8n`: a transition applies a list of transactions to an      *)
(* allocation file, one after the other, and writes the allocation that    *)
(* the next transition starts from together with receipts and rejections   *)
(* (t8n/cmd.rs).  The EVM is another component: here a contract counts its *)
(* calls in its only slot.                                                 *)
(***************************************************************************)
EXTENDS Integers, Sequences, FiniteSets, SequencesExt

CONSTANTS
    Allocs,         \* allocation files written by hand
    TxLists,        \* lists of transactions of a transition
    GasUsed,        \* gas that a transaction may use
    MaxTransitions  \* bound on the transitions of a session

T8nAccount(a) == a = [nonce |-> a.nonce, balance |-> a.balance, code |-> a.code, slot |-> a.slot]

ASSUME T8nAssumption ==
    /\ GasUsed \subseteq Nat \ {0}
    /\ \A file \in Allocs : file = [a \in DOMAIN file |-> file[a]] /\ \A a \in DOMAIN file : T8nAccount(file[a])

VARIABLES
    alloc,        \* the allocation file
    txs,          \* the transactions of the transition under way
    t8n_state,    \* State<EmptyDB>
    receipts, rejected, total_gas_used, all_logs,
    t8n_phase,    \* "idle" or "running"
    transitions,
    ledger,       \* the accounts as one long transition would have them
    ledger_before \* the ledger when the transition began

t8nVars == <<alloc, txs, t8n_state, receipts, rejected, total_gas_used, all_logs,
             t8n_phase, transitions, ledger, ledger_before>>

Mut_create_initial_state_no_storage(file) ==
    [a \in DOMAIN file |-> [nonce |-> file[a].nonce, balance |-> file[a].balance, code |-> file[a].code,
                            code_hash |-> file[a].code, slot |-> 0]]

\* The code hash is computed; it is written as the code it is the hash of.
create_initial_state(file) ==
    [a \in DOMAIN file |-> [nonce |-> file[a].nonce, balance |-> file[a].balance, code |-> file[a].code,
                            code_hash |-> file[a].code, slot |-> file[a].slot]]

extract_post_state_alloc_from_state(state) ==
    [a \in DOMAIN state |-> [nonce |-> state[a].nonce, balance |-> state[a].balance,
                             code |-> state[a].code, slot |-> state[a].slot]]

\* What the EVM refuses and what it does; a failure keeps the nonce.
Refused(state, tx) == state[tx.from].nonce # tx.nonce \/ state[tx.from].balance < tx.value

Applied(state, tx, success) ==
    [a \in DOMAIN state |->
        LET pays == IF success /\ a = tx.from THEN tx.value ELSE 0
            gets == IF success /\ a = tx.to THEN tx.value ELSE 0
        IN [state[a] EXCEPT !.nonce = IF a = tx.from THEN @ + 1 ELSE @,
                            !.balance = (@ - pays) + gets,
                            !.slot = IF success /\ a = tx.to /\ state[a].code # "" THEN @ + 1 ELSE @]]

LoadInputs ==
    /\ t8n_phase = "idle" /\ transitions < MaxTransitions
    /\ transitions' = transitions + 1 /\ t8n_phase' = "running"
    /\ txs' \in TxLists
    /\ t8n_state' = create_initial_state(alloc)
    /\ receipts' = <<>> /\ rejected' = <<>> /\ total_gas_used' = 0 /\ all_logs' = <<>>
    /\ ledger_before' = ledger
    /\ UNCHANGED <<alloc, ledger>>

Current == txs[Len(receipts) + 1]

Pending == t8n_phase = "running" /\ Len(receipts) < Len(txs)

\* A transaction without a secret key, and one that the EVM does not accept,
\* have a failed receipt and do not stop the others.
Reject ==
    /\ rejected' = Append(rejected, Len(receipts) + 1)
    /\ receipts' = Append(receipts, [status |-> 0, cumulative_gas_used |-> total_gas_used, gas_used |-> 0, logs |-> 0])
    /\ UNCHANGED <<alloc, txs, t8n_state, total_gas_used, all_logs, t8n_phase, transitions, ledger, ledger_before>>

Unconvertible == Pending /\ Current.envelope /\ ~Current.secret_key /\ Reject

NotAccepted == Pending /\ Current.envelope /\ Current.secret_key /\ Refused(t8n_state, Current) /\ Reject

Receipt(success, gas, log) ==
    [status |-> IF success THEN 1 ELSE 0, cumulative_gas_used |-> total_gas_used + gas, gas_used |-> gas, logs |-> log]

Commit ==
    /\ Pending /\ Current.envelope /\ Current.secret_key /\ ~Refused(t8n_state, Current)
    /\ \E success \in BOOLEAN, gas \in GasUsed, log \in {0, 1} :
          /\ total_gas_used' = total_gas_used + gas
          /\ LET logs == IF success THEN log ELSE 0
             IN /\ receipts' = Append(receipts, Receipt(success, gas, logs))
                /\ all_logs' = all_logs \o [i \in 1..logs |-> Len(receipts) + 1]
          /\ t8n_state' = Applied(t8n_state, Current, success)
          /\ ledger' = Applied(ledger, Current, success)
    /\ UNCHANGED <<alloc, txs, rejected, t8n_phase, transitions, ledger_before>>

\* A transaction without an envelope (an unsupported type, a missing field) ends
\* the transition, and nothing is written.
Abort ==
    /\ Pending /\ ~Current.envelope
    /\ t8n_phase' = "idle" /\ txs' = <<>> /\ t8n_state' = <<>>
    /\ receipts' = <<>> /\ rejected' = <<>> /\ total_gas_used' = 0 /\ all_logs' = <<>>
    /\ ledger' = ledger_before
    /\ UNCHANGED <<alloc, transitions, ledger_before>>

OutputResults ==
    /\ t8n_phase = "running" /\ Len(receipts) = Len(txs)
    /\ alloc' = extract_post_state_alloc_from_state(t8n_state)
    /\ t8n_phase' = "idle" /\ txs' = <<>> /\ t8n_state' = <<>>
    /\ receipts' = <<>> /\ rejected' = <<>> /\ total_gas_used' = 0 /\ all_logs' = <<>>
    /\ UNCHANGED <<transitions, ledger, ledger_before>>

T8nInit ==
    /\ alloc \in Allocs
    /\ txs = <<>> /\ t8n_state = <<>>
    /\ receipts = <<>> /\ rejected = <<>> /\ total_gas_used = 0 /\ all_logs = <<>>
    /\ t8n_phase = "idle" /\ transitions = 0
    /\ ledger = alloc /\ ledger_before = alloc

T8nNext == LoadInputs \/ Unconvertible \/ NotAccepted \/ Commit \/ Abort \/ OutputResults

\* The gas of the first i receipts, and the logs of the i-th transaction
GasUpTo == LET sum[i \in 0 .. Len(receipts)] == IF i = 0 THEN 0 ELSE sum[i - 1] + receipts[i].gas_used IN sum

LogsOf(i) == {k \in DOMAIN all_logs : all_logs[k] = i}

\* A session of transitions, some aborted, ends with the accounts of one long
\* transition of everything that was committed, and the receipts of each
\* account for its transactions one by one: cumulative gas and logs add up, and
\* what changed nothing is exactly what is listed as rejected.
TransitionsAddUp ==
    /\ t8n_phase = "idle" => alloc = ledger
    /\ \A i \in DOMAIN receipts :
          /\ receipts[i].cumulative_gas_used = GasUpTo[i]
          /\ receipts[i].gas_used = 0 <=> i \in Range(rejected)
          /\ receipts[i].logs = Cardinality(LogsOf(i))
    /\ total_gas_used = GasUpTo[Len(receipts)]
=============================================================================
