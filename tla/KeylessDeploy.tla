--------------------------- MODULE KeylessDeploy ----------------------------
(***************************************************************************)
(* Keyless deployment (sandbox/execution.rs): a transaction hands the      *)
(* system contract a deployment signed without a chain id; a second EVM    *)
(* runs it over the journal of the first, the signer pays, and the         *)
(* resulting state is merged into the journal of the outer transaction.    *)
(*                                                                         *)
(* One signer and the address it deploys to.  The EVM of the sandbox and   *)
(* the commit of the outer transaction are external (revm), modelled from  *)
(* how sandbox/execution.rs and block/executor.rs use them.                *)
(***************************************************************************)
EXTENDS MegaSpec

CONSTANTS
  Funds,        \* balance of the signer at the start
  MaxNonce,     \* bound on the nonce of the signer
  TxGasLimit,   \* gas limit in the signed deployment, which has gas price 1
  Overrides,    \* gasLimitOverride of a call
  Value,        \* value in the signed deployment
  AccessLists   \* what an outer transaction may load beforehand

ASSUME KeylessAssumption ==
  /\ Funds \in Nat /\ MaxNonce \in Nat /\ TxGasLimit \in Nat /\ Value \in Nat
  /\ Overrides \subseteq Nat
  /\ AccessLists \subseteq SUBSET {"signer", "target"}

Address == {"signer", "target"}
Flag    == {"Touched", "Cold", "Created", "CreatedLocal", "SelfDestructed",
            "SelfDestructedLocal"}
Info    == [nonce : Nat, balance : Nat, code : BOOLEAN]
Empty   == [nonce |-> 0, balance |-> 0, code |-> FALSE]

\* What makes a call invalid: value sent along, calldata that is no signed
\* deployment without a chain id, a nonce other than 0, a bad signature
Defect  == {"none", "transfer", "encoding", "tx_nonce", "signature"}
\* How the sandbox ends: code deployed, empty code, a constructor that destroys its
\* contract, a revert, a halt, or an error before anything runs
Outcome == {"deployed", "empty", "destroyed", "reverted", "halted", "error"}

VARIABLES
  pc,       \* idle: between transactions; call: frame_init of the call is next;
            \* end: last_frame_result and the commit are next
  db,       \* the database
  journal,  \* the journaled state of the outer transaction: the loaded accounts
  limit,    \* compute gas of the outer transaction: within, near (the overhead of
            \* the call does not fit) or exceeded
  result,   \* the result of the outer transaction
  ran,      \* whether its sandbox came to an outcome
  charged   \* all that sandboxes took from the signer

vars == <<pc, db, journal, limit, result, ran, charged>>

TypeOK ==
  /\ pc \in {"idle", "call", "end"}
  /\ db \in [Address -> Info]
  /\ DOMAIN journal \subseteq Address
  /\ \A a \in DOMAIN journal : journal[a] \in [info : Info, status : SUBSET Flag]
  /\ limit \in {"within", "near", "exceeded"}
  /\ result \in {"none", "ok", "revert", "halt"}
  /\ ran \in BOOLEAN
  /\ charged \in Nat
-----------------------------------------------------------------------------
(* evm/state.rs: merging a state into another without the account status *)

Mut_merge_account_state_first_wins(this, other) == this

merge_account_state(this, other) == [this EXCEPT !.info = other.info]

\* A destroyed account becomes an empty touched one; an account that was not loaded
\* is taken as it is, but cold
merged_account(this, other, a) ==
  IF "SelfDestructed" \in other[a].status
  THEN [info   |-> Empty,
        status |-> {"Touched"} \cup
                   (IF a \notin DOMAIN this \/ "Cold" \in this[a].status
                    THEN {"Cold"} ELSE {})]
  ELSE IF a \notin DOMAIN this
  THEN [other[a] EXCEPT
          !.status = (@ \cup {"Cold"}) \ {"CreatedLocal", "SelfDestructedLocal"}]
  ELSE merge_account_state(this[a], other[a])

merge_evm_state(this, other) ==
  [a \in DOMAIN this \cup DOMAIN other |->
     IF a \in DOMAIN other THEN merged_account(this, other, a) ELSE this[a]]
-----------------------------------------------------------------------------
(* sandbox/execution.rs *)

\* The account as the outer transaction sees it: the journal before the database
loaded(a) == IF a \in DOMAIN journal THEN journal[a].info ELSE db[a]

get_account_nonce(a) == loaded(a).nonce

\* SandboxDb::basic: the same account, but the nonce of the signer is 0
basic(a) == [loaded(a) EXCEPT !.nonce = IF a = "signer" THEN 0 ELSE @]

\* Rex3 and later record the overhead of the call as compute gas
record_overhead == IF limit = "within" \/ ~Enabled(REX3) THEN limit ELSE "exceeded"

\* The overhead gas is there (pays) and within the compute gas limit.
overhead_fits(pays) == pays /\ (Enabled(REX3) => limit = "within")

Mut_valid_nonce_two(defect, override) ==
  /\ defect = "none" /\ override >= TxGasLimit
  /\ get_account_nonce("signer") <= 2
  /\ ~db["target"].code
  /\ basic("signer").balance >= override + Value

Mut_valid_no_code_check(defect, override) ==
  /\ defect = "none" /\ override >= TxGasLimit
  /\ get_account_nonce("signer") <= 1
  /\ basic("signer").balance >= override + Value

\* The checks before the sandbox runs.  The code is looked up in the database and not
\* in the journal.
valid(defect, override) ==
  /\ defect = "none" /\ override >= TxGasLimit
  /\ get_account_nonce("signer") <= 1
  /\ ~db["target"].code
  /\ basic("signer").balance >= override + Value

\* The creation fails where an account with a nonce or code is in the way.
Collides == basic("target").nonce # 0 \/ basic("target").code

Creates(outcome) == outcome \in {"deployed", "empty", "destroyed"}

\* What the signer pays: the gas and fees, and the value if the creation goes through
Cost(outcome, used) == used + (IF Creates(outcome) THEN Value ELSE 0)

\* The state the sandbox ends in: the signer sent one transaction.
sandbox_state(outcome, used) ==
  [a \in Address |->
     IF a = "signer"
     THEN [info   |-> [nonce   |-> basic(a).nonce + 1,
                       balance |-> basic(a).balance - Cost(outcome, used),
                       code    |-> basic(a).code],
           status |-> {"Touched"}]
     ELSE IF Creates(outcome)
     THEN [info   |-> [nonce   |-> 1, balance |-> basic(a).balance + Value,
                       code    |-> outcome = "deployed"],
           status |-> {"Touched", "Created", "CreatedLocal"} \cup
                      (IF outcome = "destroyed"
                       THEN {"SelfDestructed", "SelfDestructedLocal"} ELSE {})]
     ELSE [info |-> basic(a), status |-> {}]]

Mut_answer_reverts(outcome) == IF outcome = "deployed" THEN "ok" ELSE "revert"

\* process_sandbox_transact_result: a failed deployment is returned as a success
\* with error data, an error of the sandbox itself reverts the call
answer(outcome) == IF outcome = "error" THEN "revert" ELSE "ok"
-----------------------------------------------------------------------------
Init ==
  /\ pc = "idle"
  /\ db = [a \in Address |-> IF a = "signer" THEN [Empty EXCEPT !.balance = Funds]
                             ELSE Empty]
  /\ journal = <<>>
  /\ limit = "within"
  /\ result = "none"
  /\ ran = FALSE
  /\ charged = 0

\* A transaction to the system contract, from the signer or from another account: the
\* sender is touched and its nonce bumped, the access list only loaded (revm)
StartTx(own, list, compute) ==
  /\ pc = "idle"
  /\ own => db["signer"].nonce < MaxNonce
  /\ journal' = [a \in list \cup (IF own THEN {"signer"} ELSE {}) |->
                   IF own /\ a = "signer"
                   THEN [info |-> [db[a] EXCEPT !.nonce = @ + 1], status |-> {"Touched"}]
                   ELSE [info |-> db[a], status |-> {}]]
  /\ limit' = compute
  /\ result' = "none"
  /\ ran' = FALSE
  /\ pc' = "call"
  /\ UNCHANGED <<db, charged>>

\* execute_keyless_deploy_call refuses the call before the sandbox runs: the
\* overhead halts it, everything else reverts it
Refuse(pays, defect, override) ==
  /\ pc = "call"
  /\ ~(overhead_fits(pays) /\ valid(defect, override))
  /\ result' = IF overhead_fits(pays) THEN "revert" ELSE "halt"
  /\ limit' = IF pays THEN record_overhead ELSE limit
  /\ pc' = "end"
  /\ UNCHANGED <<db, journal, ran, charged>>

\* execute_keyless_deploy_call runs the sandbox and merges its state.
Deploy(pays, defect, override, outcome, used) ==
  /\ pc = "call"
  /\ overhead_fits(pays) /\ valid(defect, override)
  /\ used <= override
  /\ Collides => outcome \in {"halted", "error"}
  /\ limit' = record_overhead
  /\ result' = answer(outcome)
  /\ IF outcome = "error"
     THEN UNCHANGED <<journal, ran, charged>>
     ELSE /\ journal' = merge_evm_state(journal, sandbox_state(outcome, used))
          /\ ran' = TRUE
          /\ charged' = charged + Cost(outcome, used)
  /\ pc' = "end"
  /\ UNCHANGED db

\* last_frame_result, then the commit of the transaction: the database takes the
\* accounts that are touched
Commit ==
  /\ pc = "end"
  /\ result' = IF limit = "exceeded" THEN "halt" ELSE result
  /\ db' = [a \in Address |->
              IF a \in DOMAIN journal /\ "Touched" \in journal[a].status
              THEN journal[a].info ELSE db[a]]
  /\ journal' = <<>>
  /\ pc' = "idle"
  /\ UNCHANGED <<limit, ran, charged>>

\* The signer sends a transaction of its own; its first one may create the contract,
\* or try to and fail (revm).
DirectTx(creates) ==
  /\ pc = "idle"
  /\ db["signer"].nonce < MaxNonce
  /\ creates => db["signer"].nonce = 0 /\ ~Collides
  /\ db' = [db EXCEPT !["signer"].nonce = @ + 1,
                      !["target"] = IF creates
                                    THEN [nonce |-> 1, balance |-> @.balance, code |-> TRUE]
                                    ELSE @]
  /\ ran' = FALSE
  /\ UNCHANGED <<pc, journal, limit, result, charged>>

Next ==
  \/ \E own \in BOOLEAN, list \in AccessLists, c \in {"within", "near", "exceeded"} :
       StartTx(own, list, c)
  \/ \E pays \in BOOLEAN, d \in Defect, g \in Overrides : Refuse(pays, d, g)
  \/ \E pays \in BOOLEAN, d \in Defect, g \in Overrides, o \in Outcome :
       \E used \in 0 .. g : Deploy(pays, d, g, o, used)
  \/ Commit
  \/ \E c \in BOOLEAN : DirectTx(c)

Spec == Init /\ [][Next]_vars
-----------------------------------------------------------------------------
(* Properties *)

\* What a sandbox took from the signer is missing in the database once the
\* transaction is committed (docs/KEYLESS_DEPLOYMENT.md, "the signer WILL be charged").
\* apply_sandbox_state merges no status, so this needs the signer not to be loaded
\* beforehand without being touched.
SignerPays == pc = "idle" => db["signer"].balance = Funds - charged

\* A nonce in the database never goes back, although the sandbox runs with nonce 0
\* and its account replaces the one of the journal.
NonceNeverDecreases == [][db'["signer"].nonce >= db["signer"].nonce]_vars

\* From Rex3 on an outer transaction whose sandbox came to an outcome succeeds, also
\* when the sandbox failed, so that nothing takes the charge back: the limit of the
\* outer transaction is recorded before the sandbox and cannot halt it afterwards.
OutcomeIsFinal == pc = "idle" /\ ran => result = "ok"

\* Once the contract is in the database no call runs the deployment again: the
\* signer is not charged any more and the contract stays.
DeployedOnce ==
  [][db["target"].code => db'["target"].code /\ charged' = charged]_vars
=============================================================================
