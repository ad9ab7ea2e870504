----------------------------- MODULE MegaChain -----------------------------
(***************************************************************************)
(* What happens around the transactions of a block, along a chain whose    *)
(* schedule activates hardforks: the executor is created for the spec of   *)
(* the block, the pre-block system calls and the deployments of the system *)
(* contracts are computed and then committed, the block is finished or     *)
(* given up and tried again (block/executor.rs, block/eips.rs, system/).   *)
(***************************************************************************)
EXTENDS Hardforks, Sequences, FiniteSets

CONSTANTS
    Configured,   \* the schedules a chain may be configured with
    MaxBlock,     \* the last block
    Genesis,      \* the code the genesis state may have at a system contract
    Funded,       \* the system contracts that transactions send value to,
    MaxBalance,   \* and how much
    Written       \* those whose storage transactions write

VARIABLES
    schedule,     \* MegaHardforkConfig
    number, time, \* of the block that is executed, or of the next one to be
    parent_time,  \* the timestamp of the block before it
    spec,         \* the spec of the EVM of the executor
    phase,        \* of the executor: "none", "new", "computed", "ready"
    outcomes,     \* the system call outcomes that are not committed
    state,        \* the State the executor works on
    db            \* the state after the last finished block

block == <<number, time, parent_time, spec>>
vars == <<schedule, block, phase, outcomes, state, db>>

Contracts == {"oracle", "timestamp oracle", "keyless deploy", "access control", "limit control"}
Codes == {"none", "other", "v1.0.0", "v1.1.0"}

ASSUME ChainAssumption ==
    /\ Configured \subseteq Schedules /\ Genesis \subseteq Codes 
    /\ Funded \subseteq Contracts /\ Written \subseteq Contracts
    /\ MaxBlock \in Nat /\ MaxBalance \in Nat

\* The storage of a contract is what a read of one slot of it yields.
Account == [code : Codes, balance : 0 .. MaxBalance, storage : 0 .. 1]

-----------------------------------------------------------------------------
(* The system contracts.  A deployment keeps the account, replaces its code and *)
(* marks it as created; a contract with the right code is only marked as read.  *)

is_active(fork) == active(schedule, fork, time)

Mut_deploy_default_account(at, fork, code) ==
    IF ~is_active(fork) THEN <<>>
    ELSE IF state.account[at].code = code
    THEN <<[at |-> at, account |-> state.account[at], created |-> FALSE]>>
    ELSE <<[at |-> at, account |-> [code |-> code, balance |-> 0, storage |-> 0], created |-> TRUE]>>

deploy(at, fork, code) ==
    IF ~is_active(fork) THEN <<>>
    ELSE IF state.account[at].code = code
    THEN <<[at |-> at, account |-> state.account[at], created |-> FALSE]>>
    ELSE <<[at |-> at, account |-> [state.account[at] EXCEPT !.code = code], created |-> TRUE]>>

Mut_transact_deploy_oracle_contract_old == deploy("oracle", MiniRex, "v1.0.0")

\* From Rex2 on the oracle has the code with sendHint.
transact_deploy_oracle_contract ==
    deploy("oracle", MiniRex, IF is_active(Rex2) THEN "v1.1.0" ELSE "v1.0.0")
transact_deploy_high_precision_timestamp_oracle == deploy("timestamp oracle", MiniRex, "v1.0.0")
transact_deploy_keyless_deploy_contract == deploy("keyless deploy", Rex2, "v1.0.0")
transact_deploy_access_control_contract == deploy("access control", Rex4, "v1.0.0")
transact_deploy_limit_control_contract == deploy("limit control", Rex4, "v1.0.0")

-----------------------------------------------------------------------------
(* The pre-block calls.  Prague and Cancun are active in every MegaETH block.  A  *)
(* call that reverts, or finds no contract, is an outcome too, which writes nothing. *)

transact_blockhashes_contract_call(writes) ==
    IF number = 0 THEN <<>>
    ELSE <<[at |-> "blockhashes", entries |-> IF writes THEN {number - 1} ELSE {}]>>

\* The root is required, and has to be zero for the genesis block.
beacon_root_allowed(root) == root # "missing" /\ (number = 0 => root = "zero")

transact_beacon_root_contract_call(writes) ==
    IF number = 0 THEN <<>>
    ELSE <<[at |-> "beacon roots", entries |-> IF writes THEN {number} ELSE {}]>>

pre_execution_outcomes(hash, root) ==
    transact_blockhashes_contract_call(hash) \o transact_beacon_root_contract_call(root)
    \o transact_deploy_oracle_contract \o transact_deploy_high_precision_timestamp_oracle
    \o transact_deploy_keyless_deploy_contract \o transact_deploy_access_control_contract
    \o transact_deploy_limit_control_contract

\* The commit of outcomes to a State, one after another; they concern different accounts.
\* One that is not touched is skipped, and of one that was created the State takes the
\* storage to be known: what the outcome does not write it answers with zero.
commit(made, s) ==
    LET at(a) == {o \in made : o.at = a}
        created(c) == {[o.account EXCEPT !.storage = 0] : o \in {p \in at(c) : p.created}}
    IN  [account |-> [c \in Contracts |-> IF created(c) = {} THEN s.account[c]
                                          ELSE CHOOSE a \in created(c) : TRUE],
         blockhashes |-> s.blockhashes \cup UNION {o.entries : o \in at("blockhashes")},
         roots |-> s.roots \cup UNION {o.entries : o \in at("beacon roots")}]

\* The database after a block.  A slot the block did not write is not in its changes,
\* so it survives there whatever the State answered.
finished(s, before) ==
    [s EXCEPT !.account = [c \in Contracts |->
        IF s.account[c].storage = 0 THEN [s.account[c] EXCEPT !.storage = before.account[c].storage]
        ELSE s.account[c]]]

-----------------------------------------------------------------------------
Init ==
    /\ schedule \in Configured
    /\ number \in 0 .. 1 /\ time = 0 /\ parent_time = 0 /\ spec = EQUIVALENCE
    /\ phase = "none" /\ outcomes = <<>>
    /\ \E code \in Genesis :
          state = [account |-> [c \in Contracts |-> [code |-> code, balance |-> 0, storage |-> 0]],
                   blockhashes |-> {}, roots |-> {}]
    /\ db = state

\* create_executor and MegaBlockExecutor::new: an EVM of another spec is refused.
CreateExecutor ==
    /\ phase = "none" /\ number <= MaxBlock
    /\ \E t \in parent_time .. MaxTime, s \in MegaSpecId :
          /\ s = spec_id(schedule, t)
          /\ time' = t /\ spec' = s
    /\ phase' = "new" /\ state' = db /\ outcomes' = <<>>
    /\ UNCHANGED <<schedule, number, parent_time, db>>

\* pre_execution_changes computes; it may be called again before the commit.
PreExecutionChanges ==
    /\ phase \in {"new", "computed"}
    /\ \E root \in {"missing", "zero", "root"} : beacon_root_allowed(root)
    /\ \E hash, root \in BOOLEAN : outcomes' = pre_execution_outcomes(hash, root)
    /\ phase' = "computed"
    /\ UNCHANGED <<schedule, block, state, db>>

\* A root that is not allowed, a system call or a read of the database that fails:
\* what was computed so far is dropped.
PreExecutionFails ==
    /\ phase \in {"new", "computed"}
    /\ outcomes' = <<>> /\ phase' = "new"
    /\ UNCHANGED <<schedule, block, state, db>>

CommitSystemCallOutcomes ==
    /\ phase = "computed"
    /\ state' = commit({outcomes[i] : i \in DOMAIN outcomes}, state)
    /\ outcomes' = <<>> /\ phase' = "ready"
    /\ UNCHANGED <<schedule, block, db>>

\* A transaction of the block; what matters here is what it does to a system contract.
Transaction ==
    /\ phase = "ready"
    /\ \/ \E c \in Funded :
             /\ state.account[c].balance < MaxBalance
             /\ state' = [state EXCEPT !.account[c].balance = @ + 1]
       \/ \E c \in Written :
             /\ state.account[c].code # "none" /\ state.account[c].storage = 0
             /\ state' = [state EXCEPT !.account[c].storage = 1]
    /\ UNCHANGED <<schedule, block, phase, outcomes, db>>

\* finish: there are no balance increments after a block.  The State ends with the
\* executor; the next one works on the database.
Finish ==
    /\ phase = "ready"
    /\ db' = finished(state, db) /\ state' = db' /\ phase' = "none"
    /\ number' = number + 1 /\ parent_time' = time
    /\ UNCHANGED <<schedule, time, spec, outcomes>>

\* The executor is dropped with its State; the block may be built again.
Abandon ==
    /\ phase # "none"
    /\ phase' = "none" /\ outcomes' = <<>> /\ state' = db
    /\ UNCHANGED <<schedule, block, db>>

Next == \/ CreateExecutor \/ PreExecutionChanges \/ PreExecutionFails
        \/ CommitSystemCallOutcomes \/ Transaction \/ Finish \/ Abandon

Spec == Init /\ [][Next]_vars

-----------------------------------------------------------------------------
(* Properties *)

TypeOK ==
    /\ schedule \in Schedules
    /\ number \in 0 .. MaxBlock + 1 /\ time \in 0 .. MaxTime /\ parent_time \in 0 .. MaxTime
    /\ spec \in MegaSpecId /\ phase \in {"none", "new", "computed", "ready"}
    /\ \A s \in {state, db} : /\ s.account \in [Contracts -> Account]
                              /\ s.blockhashes \subseteq 0 .. MaxBlock
                              /\ s.roots \subseteq 0 .. MaxBlock

\* The system contracts the EVM of a spec relies on, and their code.
Needs(s) ==
    (IF is_enabled(s, MINI_REX) THEN {<<"timestamp oracle", "v1.0.0">>,
        <<"oracle", IF is_enabled(s, REX2) THEN "v1.1.0" ELSE "v1.0.0">>} ELSE {})
    \cup (IF is_enabled(s, REX2) THEN {<<"keyless deploy", "v1.0.0">>} ELSE {})
    \cup (IF is_enabled(s, REX4) THEN {<<"access control", "v1.0.0">>, <<"limit control", "v1.0.0">>} ELSE {})

\* When the transactions of a block run, every contract the EVM of its spec intercepts
\* or reads is deployed with the code of that spec, whatever forks were skipped between
\* two blocks and however often the block was tried; and the only hash and root the
\* block has added are its own, those of no attempt that was given up
\* (pre_execution_changes).
BlockIsPrepared ==
    phase = "ready" =>
        /\ InOrder(schedule) => \A need \in Needs(spec) : state.account[need[1]].code = need[2]
        /\ state.blockhashes \subseteq db.blockhashes \cup {number - 1}
        /\ state.roots \subseteq db.roots \cup {number}

\* The forks that bring code for a system contract.
ForksOf(c) == CASE c = "oracle" -> {MiniRex, Rex2} [] c = "timestamp oracle" -> {MiniRex}
                [] c = "keyless deploy" -> {Rex2} [] OTHER -> {Rex4}

\* The code of a system contract, and what the State answers about its storage, change
\* only in the first block of a fork that brings code for it, as first_hardfork_block
\* tells, and no deployment touches a balance.
UpgradesAtForks ==
    [][phase = "computed" /\ phase' = "ready" =>
          \A c \in Contracts :
             /\ state'.account[c].balance = state.account[c].balance
             /\ state'.account[c] # state.account[c] /\ number > 0 =>
                   \E fork \in ForksOf(c) :
                      first_hardfork_block(schedule, fork, parent_time, number, time)]_vars

\* Along a chain the spec never goes back to an older one, except by MiniRex1.
SpecOnlyAdvances ==
    [][InOrder(schedule) /\ phase = "none" /\ phase' = "new" /\ number > 0 =>
          \/ spec_id(schedule, parent_time) <= spec'
          \/ hardfork(schedule, time') = MiniRex1]_vars
=============================================================================
