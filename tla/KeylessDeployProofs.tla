------------------------- MODULE KeylessDeployProofs -------------------------
(* Proofs about KeylessDeploy, for any funds, gas limits, values and specs. *)
EXTENDS KeylessDeploy, TLAPS

\* What the journal holds relates to the database below it: the nonce of the signer is
\* not behind, deployed code is still there, and nothing is loaded between transactions.
JournalAhead ==
  /\ "signer" \in DOMAIN journal => journal["signer"].info.nonce >= db["signer"].nonce
  /\ "target" \in DOMAIN journal /\ db["target"].code => journal["target"].info.code
  /\ pc = "idle" => journal = <<>>

\* A sandbox that came to an outcome left a transaction that is fine in every respect.
RanFine ==
  /\ pc = "call" => ~ran
  /\ ran => result = "ok" /\ limit = "within"

\* The signer has paid in the account the transaction sees, and if that account is in
\* the journal it will be committed.
Paid ==
  /\ loaded("signer").balance = Funds - charged
  /\ charged <= Funds
  /\ "signer" \in DOMAIN journal => "Touched" \in journal["signer"].status

Accounts == [info : Info, status : SUBSET Flag]

\* The account a transaction or a sandbox sees is an account.
LEMMA AccountFields ==
  ASSUME TypeOK, NEW a \in Address
  PROVE  /\ loaded(a) \in Info
         /\ loaded(a).nonce \in Nat /\ loaded(a).balance \in Nat /\ loaded(a).code \in BOOLEAN
         /\ basic(a) = [nonce |-> IF a = "signer" THEN 0 ELSE loaded(a).nonce,
                        balance |-> loaded(a).balance, code |-> loaded(a).code]
         /\ basic(a) \in Info
<1>1. loaded(a) \in Info
  BY DEF TypeOK, loaded
<1>2. PICK i \in Info : i = loaded(a)
  BY <1>1
<1>3. /\ i.nonce \in Nat /\ i.balance \in Nat /\ i.code \in BOOLEAN
      /\ i = [nonce |-> i.nonce, balance |-> i.balance, code |-> i.code]
  BY <1>2 DEF Info
<1>4. basic(a) = [nonce |-> IF a = "signer" THEN 0 ELSE i.nonce,
                  balance |-> i.balance, code |-> i.code]
  BY <1>2, <1>3 DEF basic
<1> QED BY <1>1, <1>2, <1>3, <1>4 DEF Info

\* What a sandbox costs is between 0 and what the signer was checked for.
LEMMA CostBound ==
  ASSUME NEW o \in Outcome, NEW g \in Overrides, NEW used \in 0 .. g
  PROVE  Cost(o, used) \in Nat /\ Cost(o, used) <= g + Value /\ g + Value \in Nat
BY KeylessAssumption DEF Cost

\* The accounts a sandbox ends with
LEMMA SandboxAccounts ==
  ASSUME TypeOK, NEW o \in Outcome, NEW g \in Overrides, NEW used \in 0 .. g,
         basic("signer").balance >= g + Value
  PROVE  LET s == sandbox_state(o, used)
         IN /\ DOMAIN s = Address
            /\ s["signer"] = [info |-> [nonce |-> 1,
                                        balance |-> loaded("signer").balance - Cost(o, used),
                                        code |-> loaded("signer").code],
                              status |-> {"Touched"}]
            /\ loaded("signer").balance - Cost(o, used) \in Nat
            /\ \A a \in Address : s[a] \in Accounts
<1> DEFINE s == sandbox_state(o, used)
<1>1. "signer" \in Address /\ "target" \in Address
  BY DEF Address
<1>2. DOMAIN s = Address
  BY DEF sandbox_state
<1>3. loaded("signer").balance - Cost(o, used) \in Nat
  BY CostBound, AccountFields, <1>1
<1>4. s["signer"] = [info |-> [nonce |-> 1,
                               balance |-> loaded("signer").balance - Cost(o, used),
                               code |-> loaded("signer").code],
                     status |-> {"Touched"}]
  <2>1. basic("signer") = [nonce |-> 0, balance |-> loaded("signer").balance,
                           code |-> loaded("signer").code]
    BY AccountFields, <1>1
  <2>2. s["signer"] = [info |-> [nonce   |-> basic("signer").nonce + 1,
                                 balance |-> basic("signer").balance - Cost(o, used),
                                 code    |-> basic("signer").code],
                       status |-> {"Touched"}]
    BY <1>1, Zenon DEF sandbox_state
  <2> HIDE DEF s
  <2> QED BY <2>1, <2>2
<1>5. s["signer"] \in Accounts
  BY <1>3, <1>4, <1>1, AccountFields DEF Accounts, Info, Flag
<1>6. s["target"] \in Accounts
  <2>1. CASE Creates(o)
    <3>1. loaded("target").balance + Value \in Nat
      BY AccountFields, <1>1, KeylessAssumption
    <3>2. s["target"] = [info |-> [nonce |-> 1, balance |-> loaded("target").balance + Value,
                                   code |-> o = "deployed"],
                         status |-> {"Touched", "Created", "CreatedLocal"} \cup
                           (IF o = "destroyed"
                            THEN {"SelfDestructed", "SelfDestructedLocal"} ELSE {})]
      <4>1. basic("target").balance = loaded("target").balance
        BY AccountFields, <1>1
      <4>2. s["target"] = [info |-> [nonce |-> 1, balance |-> basic("target").balance + Value,
                                     code |-> o = "deployed"],
                           status |-> {"Touched", "Created", "CreatedLocal"} \cup
                             (IF o = "destroyed"
                              THEN {"SelfDestructed", "SelfDestructedLocal"} ELSE {})]
        BY <2>1, <1>1, Zenon DEF sandbox_state
      <4> QED BY <4>1, <4>2
    <3>3. (o = "deployed") \in BOOLEAN
      OBVIOUS
    <3> QED BY <3>1, <3>2, <3>3 DEF Accounts, Info, Flag
  <2>2. CASE ~Creates(o)
    BY <2>2, AccountFields, <1>1 DEF sandbox_state, Accounts
  <2> QED BY <2>1, <2>2
<1>7. \A a \in Address : s[a] \in Accounts
  BY <1>5, <1>6 DEF Address
<1> QED BY <1>2, <1>3, <1>4, <1>7

\* Merging keeps the types, and gives the signer the account of the sandbox
LEMMA MergeAccounts ==
  ASSUME NEW this, NEW other, DOMAIN this \subseteq Address, DOMAIN other = Address,
         \A a \in DOMAIN this : this[a] \in Accounts,
         \A a \in Address : other[a] \in Accounts,
         "SelfDestructed" \notin other["signer"].status
  PROVE  LET m == merge_evm_state(this, other)
         IN /\ DOMAIN m = Address
            /\ \A a \in Address : m[a] \in Accounts
            /\ m["signer"].info = other["signer"].info
            /\ "signer" \notin DOMAIN this =>
                 m["signer"].status = (other["signer"].status \cup {"Cold"})
                                        \ {"CreatedLocal", "SelfDestructedLocal"}
            /\ "signer" \in DOMAIN this => m["signer"].status = this["signer"].status
<1> DEFINE m == merge_evm_state(this, other)
<1>1. DOMAIN m = Address /\ \A a \in Address : m[a] = merged_account(this, other, a)
  BY DEF merge_evm_state
<1>2. ASSUME NEW a \in Address PROVE merged_account(this, other, a) \in Accounts
  <2>1. CASE "SelfDestructed" \in other[a].status
    BY <2>1 DEF merged_account, Accounts, Info, Empty, Flag
  <2>2. CASE "SelfDestructed" \notin other[a].status /\ a \notin DOMAIN this
    <3>1. other[a].info \in Info /\ other[a].status \in SUBSET Flag
      BY DEF Accounts
    <3>2. other[a] = [info |-> other[a].info, status |-> other[a].status]
      BY DEF Accounts
    <3>3. merged_account(this, other, a) =
            [info |-> other[a].info,
             status |-> (other[a].status \cup {"Cold"}) \ {"CreatedLocal", "SelfDestructedLocal"}]
      BY <2>2, <3>2 DEF merged_account
    <3> QED BY <3>1, <3>3 DEF Accounts, Flag
  <2>3. CASE "SelfDestructed" \notin other[a].status /\ a \in DOMAIN this
    BY <2>3 DEF merged_account, merge_account_state, Accounts
  <2> QED BY <2>1, <2>2, <2>3
<1>3. "signer" \in Address
  BY DEF Address
<1>4. m["signer"].info = other["signer"].info
  BY <1>1, <1>3 DEF merged_account, merge_account_state, Accounts
<1>5. "signer" \notin DOMAIN this =>
         m["signer"].status = (other["signer"].status \cup {"Cold"})
                                \ {"CreatedLocal", "SelfDestructedLocal"}
  BY <1>1, <1>3 DEF merged_account, Accounts
<1>6. "signer" \in DOMAIN this => m["signer"].status = this["signer"].status
  BY <1>1, <1>3 DEF merged_account, merge_account_state, Accounts
<1> QED BY <1>1, <1>2, <1>4, <1>5, <1>6
-----------------------------------------------------------------------------
IInv == TypeOK /\ JournalAhead

\* What StartTx loads: the accounts of the database, the sender with its nonce bumped
LEMMA StartLoads ==
  ASSUME TypeOK, NEW own \in BOOLEAN, NEW list \in AccessLists, NEW c, StartTx(own, list, c)
  PROVE  /\ DOMAIN journal' \subseteq Address
         /\ "signer" \in DOMAIN journal' <=> own \/ "signer" \in list
         /\ \A a \in DOMAIN journal' :
              /\ journal'[a] \in Accounts
              /\ journal'[a].info.balance = db[a].balance
              /\ journal'[a].info.code = db[a].code
              /\ journal'[a].info.nonce >= db[a].nonce
              /\ own /\ a = "signer" => "Touched" \in journal'[a].status
<1>1. DOMAIN journal' = list \cup (IF own THEN {"signer"} ELSE {})
  BY DEF StartTx
<1>2. list \subseteq Address
  BY KeylessAssumption DEF Address
<1>3. DOMAIN journal' \subseteq Address
  BY <1>1, <1>2 DEF Address
<1>4. ASSUME NEW a \in DOMAIN journal'
      PROVE  /\ journal'[a] \in Accounts
             /\ journal'[a].info.balance = db[a].balance
             /\ journal'[a].info.code = db[a].code
             /\ journal'[a].info.nonce >= db[a].nonce
             /\ own /\ a = "signer" => "Touched" \in journal'[a].status
  <2>1. db[a] \in Info /\ db[a].nonce \in Nat
    BY <1>3 DEF TypeOK, Info
  <2>2. CASE own /\ a = "signer"
    <3>1. journal'[a] = [info |-> [db[a] EXCEPT !.nonce = @ + 1], status |-> {"Touched"}]
      BY <1>1, <2>2 DEF StartTx
    <3>2. [db[a] EXCEPT !.nonce = @ + 1] \in Info
      BY <2>1 DEF Info
    <3> QED BY <2>1, <3>1, <3>2 DEF Accounts, Info, Flag
  <2>3. CASE ~(own /\ a = "signer")
    <3>1. journal'[a] = [info |-> db[a], status |-> {}]
      BY <1>1, <2>3 DEF StartTx
    <3> QED BY <2>1, <2>3, <3>1 DEF Accounts
  <2> QED BY <2>2, <2>3
<1> QED BY <1>1, <1>3, <1>4

\* What Deploy leaves in the journal when the sandbox comes to an outcome
LEMMA DeployMerges ==
  ASSUME TypeOK, NEW pays, NEW d, NEW g \in Overrides, NEW o \in Outcome,
         NEW used \in 0 .. g, Deploy(pays, d, g, o, used), o # "error"
  PROVE  /\ DOMAIN journal' = Address
         /\ \A a \in Address : journal'[a] \in Accounts
         /\ journal'["signer"].info.nonce = 1
         /\ journal'["signer"].info.balance = loaded("signer").balance - Cost(o, used)
         /\ loaded("signer").balance - Cost(o, used) \in Nat
         /\ "signer" \notin DOMAIN journal => "Touched" \in journal'["signer"].status
         /\ "signer" \in DOMAIN journal => journal'["signer"].status = journal["signer"].status
<1> DEFINE s == sandbox_state(o, used)
<1>1. journal' = merge_evm_state(journal, s)
  BY DEF Deploy
<1>2. basic("signer").balance >= g + Value
  BY DEF Deploy, valid
<1>3. /\ DOMAIN s = Address
      /\ s["signer"] = [info |-> [nonce |-> 1,
                                  balance |-> loaded("signer").balance - Cost(o, used),
                                  code |-> loaded("signer").code],
                        status |-> {"Touched"}]
      /\ loaded("signer").balance - Cost(o, used) \in Nat
      /\ \A a \in Address : s[a] \in Accounts
  BY <1>2, SandboxAccounts
<1> HIDE DEF s
<1>4. "SelfDestructed" \notin s["signer"].status
  BY <1>3
<1>5. DOMAIN journal \subseteq Address /\ \A a \in DOMAIN journal : journal[a] \in Accounts
  BY DEF TypeOK, Accounts
<1>6. /\ DOMAIN journal' = Address
      /\ \A a \in Address : journal'[a] \in Accounts
      /\ journal'["signer"].info = s["signer"].info
      /\ "signer" \notin DOMAIN journal =>
           journal'["signer"].status = (s["signer"].status \cup {"Cold"})
                                         \ {"CreatedLocal", "SelfDestructedLocal"}
      /\ "signer" \in DOMAIN journal => journal'["signer"].status = journal["signer"].status
  BY <1>1, <1>3, <1>4, <1>5, MergeAccounts
<1> QED BY <1>3, <1>6

\* Every step keeps the types and the journal ahead of the database.
LEMMA IInvStep ==
  ASSUME IInv, [Next]_vars
  PROVE  IInv'
<1> USE DEF IInv
<1>1. ASSUME NEW own \in BOOLEAN, NEW list \in AccessLists,
             NEW c \in {"within", "near", "exceeded"}, StartTx(own, list, c)
      PROVE  IInv'
  <2>1. TypeOK'
    BY <1>1, StartLoads DEF StartTx, TypeOK, Accounts
  <2>2. JournalAhead'
    BY <1>1, StartLoads DEF StartTx, JournalAhead
  <2> QED BY <2>1, <2>2
<1>2. ASSUME NEW pays \in BOOLEAN, NEW d \in Defect, NEW g \in Overrides, Refuse(pays, d, g)
      PROVE  IInv'
  BY <1>2 DEF Refuse, TypeOK, JournalAhead, record_overhead
<1>3. ASSUME NEW pays \in BOOLEAN, NEW d \in Defect, NEW g \in Overrides, NEW o \in Outcome,
             NEW used \in 0 .. g, Deploy(pays, d, g, o, used)
      PROVE  IInv'
  <2>1. CASE o = "error"
    BY <1>3, <2>1 DEF Deploy, TypeOK, JournalAhead, record_overhead, answer
  <2>2. CASE o # "error"
    <3>1. /\ DOMAIN journal' = Address
          /\ \A a \in Address : journal'[a] \in Accounts
          /\ journal'["signer"].info.nonce = 1
      BY <1>3, <2>2, DeployMerges
    <3>2. charged' \in Nat
      BY <1>3, <2>2, CostBound DEF Deploy, TypeOK
    <3>3. TypeOK'
      BY <1>3, <2>2, <3>1, <3>2 DEF Deploy, TypeOK, record_overhead, answer, Accounts
    <3>4. db["signer"].nonce <= 1
      <4>1. loaded("signer").nonce <= 1 /\ db["signer"].nonce \in Nat
        BY <1>3 DEF Deploy, valid, get_account_nonce, TypeOK, Info, Address
      <4>2. loaded("signer").nonce \in Nat
        BY AccountFields DEF Address
      <4> QED BY <4>1, <4>2 DEF loaded, JournalAhead
    <3>5. JournalAhead'
      BY <1>3, <2>2, <3>1, <3>4 DEF Deploy, valid, JournalAhead
    <3> QED BY <3>3, <3>5
  <2> QED BY <2>1, <2>2
<1>4. CASE Commit
  BY <1>4 DEF Commit, TypeOK, JournalAhead
<1>5. ASSUME NEW c \in BOOLEAN, DirectTx(c)
      PROVE  IInv'
  <2>1. journal = <<>> /\ journal' = journal /\ DOMAIN journal = {}
    BY <1>5 DEF DirectTx, JournalAhead
  <2>2. db["signer"] \in Info /\ db["target"] \in Info
    BY DEF TypeOK, Address
  <2>3. /\ [db["signer"] EXCEPT !.nonce = @ + 1] \in Info
        /\ [nonce |-> 1, balance |-> db["target"].balance, code |-> TRUE] \in Info
    BY <2>2 DEF Info
  <2>4. db' \in [Address -> Info]
    BY <1>5, <2>2, <2>3 DEF DirectTx, TypeOK, Address
  <2>5. TypeOK'
    BY <1>5, <2>1, <2>4 DEF DirectTx, TypeOK
  <2> QED BY <2>1, <2>5 DEF JournalAhead
<1>6. CASE UNCHANGED vars
  BY <1>6 DEF vars, TypeOK, JournalAhead
<1> QED BY <1>1, <1>2, <1>3, <1>4, <1>5, <1>6 DEF Next

\* The invariant holds in every behaviour.
LEMMA Invariance == Spec => []IInv
<1>1. Init => IInv
  <2> SUFFICES ASSUME Init PROVE IInv
    OBVIOUS
  <2>1. Empty \in Info /\ [Empty EXCEPT !.balance = Funds] \in Info
    BY KeylessAssumption DEF Empty, Info
  <2>2. db \in [Address -> Info]
    BY <2>1 DEF Init
  <2>3. DOMAIN journal = {}
    BY DEF Init
  <2> QED BY <2>2, <2>3 DEF Init, IInv, TypeOK, JournalAhead
<1> QED BY <1>1, IInvStep, PTL DEF Spec

\* The accounts of the database and of the journal keep their types; in particular no
\* sandbox takes more from the signer than it has.
THEOREM TypeCorrect == Spec => []TypeOK
BY Invariance, PTL DEF IInv

\* A step from a state of the invariant does not lower the nonce of the signer.
LEMMA NonceStep ==
  ASSUME IInv, [Next]_vars
  PROVE  [db'["signer"].nonce >= db["signer"].nonce]_vars
<1> USE DEF IInv
<1>1. "signer" \in Address /\ db["signer"].nonce \in Nat
  BY DEF TypeOK, Info, Address
<1>2. CASE Commit
  BY <1>1, <1>2 DEF Commit, JournalAhead
<1>3. ASSUME NEW c \in BOOLEAN, DirectTx(c) PROVE db'["signer"].nonce >= db["signer"].nonce
  <2>1. db'["signer"] = [db["signer"] EXCEPT !.nonce = @ + 1]
    BY <1>1, <1>3 DEF DirectTx, TypeOK
  <2>2. db'["signer"].nonce = db["signer"].nonce + 1
    BY <1>1, <2>1 DEF TypeOK, Info
  <2> QED BY <1>1, <2>2
<1>4. CASE db' = db
  BY <1>1, <1>4
<1> QED BY <1>2, <1>3, <1>4 DEF Next, StartTx, Refuse, Deploy, vars

\* The nonce of the signer never goes back in the database, although the sandbox runs
\* the deployment with nonce 0 and its account replaces the one of the journal.
THEOREM NonceMonotone == Spec => NonceNeverDecreases
BY Invariance, NonceStep, PTL DEF Spec, NonceNeverDecreases

\* A step from a state of the invariant runs no second deployment.
LEMMA DeployedStep ==
  ASSUME IInv, [Next]_vars
  PROVE  [db["target"].code => db'["target"].code /\ charged' = charged]_vars
<1> USE DEF IInv
<1>1. CASE Commit
  BY <1>1 DEF Commit, JournalAhead, Address
<1>2. ASSUME NEW c \in BOOLEAN, DirectTx(c), db["target"].code
      PROVE  db'["target"].code /\ charged' = charged
  BY <1>2, AccountFields DEF DirectTx, Collides, TypeOK, Info, Address, JournalAhead
<1>3. CASE db' = db /\ charged' = charged
  BY <1>3
<1>4. ASSUME NEW pays, NEW d, NEW g, NEW o, NEW used, Deploy(pays, d, g, o, used)
      PROVE  ~db["target"].code
  BY <1>4 DEF Deploy, valid
<1> QED BY <1>1, <1>2, <1>3, <1>4 DEF Next, StartTx, Refuse, vars

\* Once the contract is in the database the signed deployment is never run again.
THEOREM NoSecondDeployment == Spec => DeployedOnce
BY Invariance, DeployedStep, PTL DEF Spec, DeployedOnce

\* From Rex3 on a step keeps a transaction whose sandbox ran out of every trouble.
LEMMA RanFineStep ==
  ASSUME Enabled(REX3), RanFine, [Next]_vars
  PROVE  RanFine'
<1>1. ASSUME NEW own, NEW list, NEW c, StartTx(own, list, c) PROVE RanFine'
  BY <1>1 DEF StartTx, RanFine
<1>2. ASSUME NEW pays, NEW d, NEW g, Refuse(pays, d, g) PROVE RanFine'
  BY <1>2 DEF Refuse, RanFine
<1>3. ASSUME NEW pays, NEW d, NEW g, NEW o, NEW used, Deploy(pays, d, g, o, used)
      PROVE  RanFine'
  BY <1>3 DEF Deploy, RanFine, overhead_fits, record_overhead, answer
<1>4. CASE Commit
  BY <1>4 DEF Commit, RanFine
<1>5. ASSUME NEW c, DirectTx(c) PROVE RanFine'
  BY <1>5 DEF DirectTx, RanFine
<1>6. CASE UNCHANGED vars
  BY <1>6 DEF vars, RanFine
<1> QED BY <1>1, <1>2, <1>3, <1>4, <1>5, <1>6 DEF Next

\* From Rex3 on an outer transaction whose sandbox came to an outcome succeeds: its
\* compute gas limit is checked before the sandbox and can not take the charge back.
THEOREM OutcomesAreFinal == Enabled(REX3) => (Spec => []OutcomeIsFinal)
<1>1. Init => RanFine
  BY DEF Init, RanFine
<1>2. RanFine => OutcomeIsFinal
  BY DEF RanFine, OutcomeIsFinal
<1>3. Enabled(REX3) /\ RanFine /\ [Next]_vars => RanFine'
  BY RanFineStep
<1>4. ASSUME Enabled(REX3) PROVE Spec => []OutcomeIsFinal
  <2>1. RanFine /\ [Next]_vars => RanFine'
    BY <1>3, <1>4
  <2> QED BY <1>1, <1>2, <2>1, PTL DEF Spec
<1> QED BY <1>4

\* As long as no access list loads the signer, a step keeps what it has paid.
LEMMA PaidStep ==
  ASSUME \A l \in AccessLists : "signer" \notin l, IInv, Paid, [Next]_vars
  PROVE  Paid'
<1> USE DEF IInv
<1>0. /\ "signer" \in Address /\ db["signer"] \in Info /\ loaded("signer").balance \in Nat
      /\ charged \in Nat /\ Funds \in Nat
  BY AccountFields, KeylessAssumption DEF TypeOK, Address
<1>1. ASSUME NEW own \in BOOLEAN, NEW list \in AccessLists,
             NEW c \in {"within", "near", "exceeded"}, StartTx(own, list, c)
      PROVE  Paid'
  <2>1. loaded("signer") = db["signer"] /\ db' = db /\ charged' = charged
    BY <1>1 DEF StartTx, loaded, JournalAhead
  <2>2. "signer" \in DOMAIN journal' => own
    BY <1>1, StartLoads
  <2>3. loaded("signer")'.balance = db["signer"].balance
    BY <1>1, <2>1, StartLoads DEF loaded
  <2> QED BY <1>1, <2>1, <2>2, <2>3, StartLoads DEF Paid
<1>2. ASSUME NEW pays \in BOOLEAN, NEW d \in Defect, NEW g \in Overrides, Refuse(pays, d, g)
      PROVE  Paid'
  BY <1>2 DEF Refuse, Paid, loaded
<1>3. ASSUME NEW pays \in BOOLEAN, NEW d \in Defect, NEW g \in Overrides, NEW o \in Outcome,
             NEW used \in 0 .. g, Deploy(pays, d, g, o, used)
      PROVE  Paid'
  <2>1. CASE o = "error"
    BY <1>3, <2>1 DEF Deploy, Paid, loaded
  <2>2. CASE o # "error"
    <3>1. /\ DOMAIN journal' = Address
          /\ journal'["signer"].info.balance = loaded("signer").balance - Cost(o, used)
          /\ loaded("signer").balance - Cost(o, used) \in Nat
          /\ "signer" \notin DOMAIN journal => "Touched" \in journal'["signer"].status
          /\ "signer" \in DOMAIN journal => journal'["signer"].status = journal["signer"].status
      BY <1>3, <2>2, DeployMerges
    <3>2. charged' = charged + Cost(o, used) /\ Cost(o, used) \in Nat
      BY <1>3, <2>2, CostBound DEF Deploy
    <3>3. loaded("signer")' = journal'["signer"].info
      BY <3>1, <1>0 DEF loaded
    <3> QED BY <1>0, <3>1, <3>2, <3>3 DEF Paid
  <2> QED BY <2>1, <2>2
<1>4. CASE Commit
  <2>1. db'["signer"] = loaded("signer")
    BY <1>0, <1>4 DEF Commit, loaded, Paid
  <2>2. journal' = <<>> /\ charged' = charged
    BY <1>4 DEF Commit
  <2> QED BY <2>1, <2>2 DEF Paid, loaded
<1>5. ASSUME NEW c \in BOOLEAN, DirectTx(c)
      PROVE  Paid'
  <2>1. db'["signer"] = [db["signer"] EXCEPT !.nonce = @ + 1]
    BY <1>0, <1>5 DEF DirectTx, TypeOK
  <2>2. db'["signer"].balance = db["signer"].balance
    BY <1>0, <2>1 DEF Info
  <2>3. journal' = journal /\ charged' = charged /\ journal = <<>>
    BY <1>5 DEF DirectTx, JournalAhead
  <2> QED BY <2>2, <2>3 DEF Paid, loaded
<1>6. CASE UNCHANGED vars
  BY <1>6 DEF vars, Paid, loaded
<1> QED BY <1>1, <1>2, <1>3, <1>4, <1>5, <1>6 DEF Next

\* If no access list loads the signer beforehand, what sandboxes took from it is
\* missing in the database after every transaction.
THEOREM SignerIsCharged ==
  (\A l \in AccessLists : "signer" \notin l) => (Spec => []SignerPays)
<1>1. ASSUME \A l \in AccessLists : "signer" \notin l PROVE Spec => []SignerPays
  <2>1. Init => Paid
    BY KeylessAssumption DEF Init, Paid, loaded, Empty, Address
  <2>2. IInv /\ Paid /\ [Next]_vars => Paid'
    BY <1>1, PaidStep
  <2>3. IInv /\ Paid => SignerPays
    BY DEF IInv, JournalAhead, Paid, SignerPays, loaded
  <2> QED BY <2>1, <2>2, <2>3, Invariance, PTL DEF Spec
<1> QED BY <1>1
=============================================================================
