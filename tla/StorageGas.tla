----------------------------- MODULE StorageGas -----------------------------
(***************************************************************************)
(* The storage gas of MegaETH: what an instruction or a transaction pays   *)
(* for the slots and accounts it adds, priced by the SALT bucket they fall *)
(* into (external/gas.rs), and the inspections of the journal from which   *)
(* the wrappers find out whether something is added (evm/host.rs).         *)
(***************************************************************************)
EXTENDS SpecId, Integers, Sequences, FiniteSets

CONSTANTS
    Accounts, Keys, MaxValue,
    Worlds,                 \* the code the accounts may have,
    Written,                \* and those whose storage may not be empty at first
    Specs,                  \* the specs that are checked
    Buckets, SaltEnvs,      \* of the SALT trie: capacities it may have at a block
    bucket_id_for_account, bucket_id_for_slot,
    created_address,        \* what a creation transaction of the sender creates
    Preloaded,              \* warm_preloaded_addresses: the precompiles and the coinbase
    Creators, MaxNonce,     \* bounds on the creations,
    MaxDepth,               \* on the frames,
    MaxCharges,             \* and on the things one transaction pays for
    Absent                  \* marks what is not in a map

MIN_BUCKET_SIZE == 256
Values == 0 .. MaxValue
Nonces == 0 .. MaxNonce
Code == {"none", "contract"} \union Accounts
Created == Accounts \X Nonces      \* the addresses CREATE may compute

ASSUME StorageGasAssumption ==
    /\ IsFiniteSet(Accounts) /\ {"none", "contract", "not loaded"} \intersect Accounts = {}
    /\ Accounts \intersect (Accounts \X Keys) = {}
    /\ Worlds \subseteq [Accounts -> Code]
    /\ Specs \subseteq MINI_REX .. REX4
    /\ SaltEnvs \subseteq [Buckets -> Nat]
    /\ \A salt_env \in SaltEnvs : \A b \in Buckets : salt_env[b] >= MIN_BUCKET_SIZE
    /\ bucket_id_for_account \in [Accounts \union Created -> Buckets]
    /\ bucket_id_for_slot \in [Accounts \X Keys -> Buckets]
    /\ created_address \in Accounts /\ Creators \subseteq Accounts /\ Preloaded \subseteq Accounts
    /\ MaxValue \in Nat /\ MaxNonce \in Nat /\ MaxDepth \in Nat /\ MaxCharges \in Nat

VARIABLES
    spec,        \* of the context
    code,        \* the code of the accounts
    inline,      \* whether Database::basic returns the code with the account
    db,          \* the accounts and slots before the transaction
    state,       \* the accounts in the journal
    cold,        \* whether the last instruction paid for a cold account or slot
    frames,      \* the frames that run
    capacity,    \* salt_env: the capacities at the block
    multipliers, \* bucket_cost_multipliers
    charges      \* the storage gas that the transaction has been charged

chain == <<spec, code, inline>>
vars == <<chain, db, state, cold, frames, capacity, multipliers, charges>>

Slot == [original : Values, present : Values, warm : BOOLEAN]

\* preloaded: revm found the account warm without having loaded it before, and put
\* nothing into the journal that would make it cold again.
Account ==
    [nonempty : BOOLEAN, nonce : Nonces, code : Code \union {"not loaded"}, warm : BOOLEAN,
     preloaded : BOOLEAN, storage : [Keys -> Slot \union {Absent}]]

ASSUME AbsentAssumption == Absent \notin Slot /\ Absent \notin Account /\ Absent \notin Nat

-----------------------------------------------------------------------------
(* DynamicGasCost *)

Base == [slot |-> 20000, account |-> 25000, contract |-> 32000]
MINI_REX_STORAGE_GAS == 2000000

\* sstore_set_gas, new_account_gas and create_contract_gas
storage_gas(kind, multiplier) ==
    IF is_enabled(spec, REX) THEN Base[kind] * (multiplier - 1)
    ELSE MINI_REX_STORAGE_GAS * multiplier

bucket_of(kind, at) == IF kind = "slot" THEN bucket_id_for_slot[at] ELSE bucket_id_for_account[at]

\* A lookup that fails is not remembered.
load_bucket_cost_multiplier(bucket) ==
    IF multipliers[bucket] # Absent THEN multipliers[bucket]
    ELSE capacity[bucket] \div MIN_BUCKET_SIZE

remember(bucket) ==
    multipliers' = [multipliers EXCEPT ![bucket] = load_bucket_cost_multiplier(bucket)]

-----------------------------------------------------------------------------
(* The journal.  The account of a state is changed only through revm; an   *)
(* inspection loads what is missing and leaves it cold.                    *)

basic(at) ==
    [nonempty |-> db[at].nonempty, nonce |-> db[at].nonce,
     code |-> IF inline \/ code[at] = "none" THEN code[at] ELSE "not loaded",
     warm |-> FALSE, preloaded |-> FALSE, storage |-> [k \in Keys |-> Absent]]

Mut_inspect_account_warm(s, at) ==
    IF s[at] = Absent THEN [s EXCEPT ![at] = [basic(at) EXCEPT !.warm = TRUE]]
    ELSE [s EXCEPT ![at].code = code[at]]

inspect_account(s, at) ==
    IF s[at] = Absent THEN [s EXCEPT ![at] = basic(at)]
    ELSE [s EXCEPT ![at].code = code[at]]

Mut_follow_forever(walk) ==
    LET s    == inspect_account(walk.state, walk.at)
        next == s[walk.at].code
    IN IF walk.ended \/ next \notin Accounts
       THEN [walk EXCEPT !.state = s, !.ended = TRUE]
       ELSE [state |-> s, at |-> next, visited |-> walk.visited \union {walk.at}, ended |-> FALSE]

\* One turn of the loop that follows delegations before Rex4.
follow(walk) ==
    LET s    == inspect_account(walk.state, walk.at)
        next == s[walk.at].code
    IN IF walk.ended \/ next \notin Accounts \/ next \in walk.visited
       THEN [walk EXCEPT !.state = s, !.ended = TRUE]
       ELSE [state |-> s, at |-> next, visited |-> walk.visited \union {walk.at}, ended |-> FALSE]

\* The state after an inspection, and the account it returns.
inspect_account_delegated(s, at) ==
    LET s1       == inspect_account(s, at)
        delegate == s1[at].code
        start    == [state |-> s1, at |-> delegate, visited |-> {at}, ended |-> FALSE]
        walk[n \in 0 .. Cardinality(Accounts) + 1] == IF n = 0 THEN start ELSE follow(walk[n - 1])
    IN IF delegate \notin Accounts THEN [state |-> s1, at |-> at, visited |-> {}, ended |-> TRUE]
       ELSE IF is_enabled(spec, REX4)
       THEN [state |-> inspect_account(s1, delegate), at |-> delegate, visited |-> {}, ended |-> TRUE]
       ELSE walk[Cardinality(Accounts) + 1]

\* From Rex4 on storage belongs to the address itself.
storage_owner(s, at) ==
    IF is_enabled(spec, REX4) THEN [state |-> inspect_account(s, at), at |-> at]
    ELSE inspect_account_delegated(s, at)

\* The slot is read from the database at the given address, and kept where the
\* account that owns the storage is found.  The owner is resolved twice; the second
\* time the code is loaded.
inspect_storage(s, at, key) ==
    LET first  == storage_owner(s, at)
        second == storage_owner(first.state, at)
        slot   == [original |-> db[at].storage[key], present |-> db[at].storage[key], warm |-> FALSE]
    IN IF first.state[first.at].storage[key] # Absent THEN second
       ELSE [second EXCEPT !.state[second.at].storage[key] = slot]

-----------------------------------------------------------------------------
(* What revm does with its journal. *)

is_warm(s, at) == IF s[at] = Absent THEN at \in Preloaded ELSE s[at].warm
is_warm_slot(s, at, key) == s[at] # Absent /\ s[at].storage[key] # Absent /\ s[at].storage[key].warm

\* Only an account that is not in the journal yet is looked up among the preloaded.
load_account(s, at) ==
    LET found == IF s[at] # Absent THEN s[at]
                 ELSE [basic(at) EXCEPT !.preloaded = (at \in Preloaded)]
    IN [s EXCEPT ![at] = [found EXCEPT !.warm = TRUE, !.code = code[at]]]

load_account_delegated(s, at) ==
    IF code[at] \in Accounts THEN load_account(load_account(s, at), code[at]) ELSE load_account(s, at)

sload(s, at, key) ==
    LET slot == s[at].storage[key]
        db_slot == [original |-> db[at].storage[key], present |-> db[at].storage[key], warm |-> TRUE]
    IN [s EXCEPT ![at].storage[key] = IF slot = Absent THEN db_slot ELSE [slot EXCEPT !.warm = TRUE]]

sstore(s, at, key, value) == [sload(s, at, key) EXCEPT ![at].storage[key].present = value]

\* Undoes what was written and made warm since; what was loaded stays loaded.
revert_slot(slot, old) ==
    IF slot = Absent THEN Absent
    ELSE IF old # Absent THEN old
    ELSE [slot EXCEPT !.present = slot.original, !.warm = FALSE]

revert_account(at, account, old) ==
    LET before == IF old = Absent THEN basic(at) ELSE old
    IN IF account = Absent THEN Absent
       ELSE [before EXCEPT
                !.code = account.code,
                !.warm = (before.warm \/ account.preloaded), !.preloaded = account.preloaded,
                !.storage = [k \in Keys |-> revert_slot(account.storage[k], before.storage[k])]]

checkpoint_revert(s, saved) == [at \in Accounts |-> revert_account(at, s[at], saved[at])]

\* The code that a call of an account runs: one delegation is followed.
runs(at) == IF code[at] \in Accounts THEN code[code[at]] = "contract" ELSE code[at] = "contract"

\* Only what was changed goes to the database.
commit(s) ==
    [at \in Accounts |->
        IF s[at] = Absent THEN db[at]
        ELSE [nonempty |-> s[at].nonempty, nonce |-> s[at].nonce,
              storage |-> [k \in Keys |->
                  LET slot == s[at].storage[k]
                  IN IF slot = Absent \/ slot.present = slot.original THEN db[at].storage[k]
                     ELSE slot.present]]]

-----------------------------------------------------------------------------
(* Frames *)

Empty == [at \in Accounts |-> Absent]
Top == frames[Len(frames)]
Running == frames # <<>> /\ Top.runs
Frame(self, has_code, static, saved) ==
    [self |-> self, runs |-> has_code, static |-> static, saved |-> saved]

\* The frame ends in the state s; with the last frame, the transaction ends.
Leave(s, ok) ==
    LET left == IF ok THEN s ELSE checkpoint_revert(s, Top.saved)
    IN /\ frames' = SubSeq(frames, 1, Len(frames) - 1) /\ cold' = FALSE
       /\ IF Len(frames) = 1
          THEN db' = commit(left) /\ state' = Empty /\ charges' = {}
          ELSE state' = left /\ UNCHANGED <<db, charges>>

\* A failed read of the database or of a bucket halts with FatalExternalError: the
\* error kept in the context makes the transaction one that never was.
Drop ==
    frames' = <<>> /\ state' = Empty /\ charges' = {} /\ cold' = FALSE /\ UNCHANGED <<db, multipliers>>

\* What a wrapper charges: gas for kind at an address.  grows is what the
\* instruction adds, for which the gas is meant.
Charge(due, kind, at, grows) == [due |-> due, kind |-> kind, at |-> at, grows |-> grows]

Pay(charge) ==
    LET bucket == bucket_of(charge.kind, charge.at)
        gas    == storage_gas(charge.kind, load_bucket_cost_multiplier(bucket))
    IN IF charge.due
       THEN /\ remember(bucket)
            /\ charges' = charges \union
                 {[kind |-> charge.kind, at |-> charge.at, grows |-> charge.grows, gas |-> gas]}
            /\ Cardinality(charges') <= MaxCharges
       ELSE UNCHANGED <<multipliers, charges>>

Unknown(charge) == charge.due /\ multipliers[bucket_of(charge.kind, charge.at)] = Absent

\* A wrapper: it inspects, which leads to the state seen, charges, and runs the
\* instruction, which finds something cold or not.
Wrapper(seen, charge, is_cold, after, stack) ==
    \/ Pay(charge) /\ state' = after /\ cold' = is_cold /\ frames' = stack /\ UNCHANGED db
    \/ charge.due /\ remember(bucket_of(charge.kind, charge.at)) /\ Leave(seen, FALSE)
    \/ (seen # state \/ Unknown(charge)) /\ Drop

-----------------------------------------------------------------------------
(* The instructions *)

Sload(key) ==
    /\ Running
    /\ state' = sload(state, Top.self, key)
    /\ cold' = ~is_warm_slot(state, Top.self, key)
    /\ UNCHANGED <<chain, db, frames, capacity, multipliers, charges>>

Sstore(key, value) ==
    LET seen == inspect_storage(state, Top.self, key)
        slot == seen.state[seen.at].storage[key]
        at   == <<Top.self, key>>
        due  == slot.original = 0 /\ slot.present = 0 /\ value # 0
    IN /\ Running /\ ~Top.static
       /\ Wrapper(seen.state, Charge(due, "slot", at, at), ~is_warm_slot(seen.state, Top.self, key),
                  sstore(seen.state, Top.self, key, value), frames)
       /\ UNCHANGED <<chain, capacity>>

\* CALL and CALLCODE may transfer value, CALLCODE and DELEGATECALL run the code of the
\* callee for the caller.  Of the four only CALL is wrapped in MiniRex.
Call(opcode, to, has_transfer) ==
    LET wrapped == opcode = "CALL" \/ is_enabled(spec, REX)
        seen   == IF wrapped THEN inspect_account_delegated(state, to) ELSE [state |-> state, at |-> to]
        due    == wrapped /\ has_transfer /\ ~seen.state[seen.at].nonempty
        grows  == IF due /\ ~seen.state[to].nonempty THEN to ELSE Absent
        loaded == load_account_delegated(seen.state, to)
        moved  == IF opcode = "CALL" /\ has_transfer
                  THEN [loaded EXCEPT ![to].nonempty = TRUE] ELSE loaded
        self   == IF opcode \in {"CALL", "STATICCALL"} THEN to ELSE Top.self
        static == Top.static \/ opcode = "STATICCALL"
    IN /\ Running /\ Len(frames) < MaxDepth
       /\ has_transfer => opcode \in {"CALL", "CALLCODE"}
       /\ has_transfer /\ opcode = "CALL" => ~Top.static
       /\ Wrapper(seen.state, Charge(due, "account", to, grows), ~is_warm(seen.state, to), moved,
                  Append(frames, Frame(self, runs(to), static, loaded)))
       /\ UNCHANGED <<chain, capacity>>

\* The address that CREATE computes depends on the nonce of the account the
\* inspection returned.  The initcode does nothing here.
Create(is_create2) ==
    LET seen    == inspect_account_delegated(state, Top.self)
        nonce   == state[Top.self].nonce
        address == <<Top.self, IF is_create2 THEN nonce ELSE seen.state[seen.at].nonce>>
        kind    == IF is_enabled(spec, REX) THEN "contract" ELSE "account"
    IN /\ Running /\ ~Top.static /\ Top.self \in Creators /\ nonce < MaxNonce
       /\ Wrapper(seen.state, Charge(TRUE, kind, address, <<Top.self, nonce>>), FALSE,
                  [seen.state EXCEPT ![Top.self].nonce = nonce + 1], frames)
       /\ UNCHANGED <<chain, capacity>>

\* SELFDESTRUCT is back from Rex2 on, without the wrapper for storage gas: the balance
\* goes to the target, which comes to life with it.  The frame runs no further, and may
\* still fail, since revm takes the gas afterwards.  The account itself stays: it was
\* there before the transaction (a bound).
SelfDestruct(target, has_balance) ==
    LET loaded == load_account(state, target)
        gives  == has_balance /\ target # Top.self
        given  == [kind |-> "selfdestruct", at |-> target, grows |-> target, gas |-> 0]
    IN /\ Running /\ ~Top.static /\ is_enabled(spec, REX2) /\ db[Top.self].nonempty
       /\ state' = IF gives THEN [loaded EXCEPT ![target].nonempty = TRUE] ELSE loaded
       /\ cold' = ~is_warm(state, target)
       /\ frames' = [frames EXCEPT ![Len(frames)].runs = FALSE]
       /\ charges' = IF gives /\ ~loaded[target].nonempty THEN charges \union {given} ELSE charges
       /\ UNCHANGED <<chain, db, capacity, multipliers>>

Return(ok) ==
    /\ frames # <<>>
    /\ Leave(state, ok)
    /\ UNCHANGED <<chain, capacity, multipliers>>

-----------------------------------------------------------------------------
(* Transactions and blocks *)

\* MegaHandler::validate adds the storage gas of the callee to the initial gas.  A
\* transaction whose gas limit is below fails before its first frame.
Transaction(charge, after, frame) ==
    /\ frames = <<>>
    /\ \/ Pay(charge) /\ state' = after /\ cold' = ~is_warm(state, frame.self) /\ frames' = <<frame>>
       \/ charge.due /\ remember(bucket_of(charge.kind, charge.at)) /\ cold' = FALSE
          /\ UNCHANGED <<state, frames, charges>>
    /\ UNCHANGED <<chain, db, capacity>>

CallTransaction(to, has_transfer) ==
    LET due    == has_transfer /\ ~db[to].nonempty
        loaded == load_account_delegated(state, to)
    IN Transaction(Charge(due, "account", to, to),
                   IF has_transfer THEN [loaded EXCEPT ![to].nonempty = TRUE] ELSE loaded,
                   Frame(to, runs(to), FALSE, loaded))

CreateTransaction ==
    LET at     == created_address
        kind   == IF is_enabled(spec, REX) THEN "contract" ELSE "account"
        loaded == load_account(state, at)
    IN /\ ~db[at].nonempty
       /\ Transaction(Charge(TRUE, kind, at, at), [loaded EXCEPT ![at].nonempty = TRUE],
                      Frame(at, TRUE, FALSE, loaded))

Mut_NextBlock_keeps_multipliers(salt_env) ==
    /\ frames = <<>>
    /\ capacity' = salt_env
    /\ cold' = FALSE /\ UNCHANGED <<chain, db, state, frames, multipliers, charges>>

\* create_evm takes the external environments of the block, and with_block resets
\* the multipliers.
NextBlock(salt_env) ==
    /\ frames = <<>>
    /\ capacity' = salt_env
    /\ multipliers' = [b \in Buckets |-> Absent]
    /\ cold' = FALSE /\ UNCHANGED <<chain, db, state, frames, charges>>

Calls == {"CALL", "CALLCODE", "DELEGATECALL", "STATICCALL"}

Init ==
    /\ spec \in Specs /\ code \in Worlds /\ inline \in BOOLEAN
    /\ db \in [Accounts -> [nonempty : BOOLEAN, nonce : {0}, storage : [Keys -> Values]]]
    /\ \A at \in Accounts :
         /\ code[at] # "none" => db[at].nonempty
         /\ code[at] = "none" \/ at \notin Written => db[at].storage = [k \in Keys |-> 0]
    /\ state = Empty /\ cold = FALSE /\ frames = <<>> /\ charges = {}
    /\ capacity \in SaltEnvs
    /\ multipliers = [b \in Buckets |-> Absent]

Next ==
    \/ \E key \in Keys : Sload(key)
    \/ \E key \in Keys, value \in Values : Sstore(key, value)
    \/ \E opcode \in Calls, to \in Accounts, t \in BOOLEAN : Call(opcode, to, t)
    \/ \E is_create2 \in BOOLEAN : Create(is_create2)
    \/ \E target \in Accounts, has_balance \in BOOLEAN : SelfDestruct(target, has_balance)
    \/ \E ok \in BOOLEAN : Return(ok)
    \/ \E to \in Accounts, t \in BOOLEAN : CallTransaction(to, t)
    \/ CreateTransaction
    \/ \E salt_env \in SaltEnvs : NextBlock(salt_env)

Spec == Init /\ [][Next]_vars

-----------------------------------------------------------------------------
(* Properties *)

seen_value(s, slot) ==
    IF s[slot[1]] = Absent THEN db[slot[1]].storage[slot[2]]
    ELSE IF s[slot[1]].storage[slot[2]] = Absent THEN db[slot[1]].storage[slot[2]]
    ELSE s[slot[1]].storage[slot[2]].present

seen_exists(s) == {at \in Accounts : IF s[at] = Absent THEN db[at].nonempty ELSE s[at].nonempty}

warm_slots(s, at) == {<<at, k>> : k \in {key \in Keys : is_warm_slot(s, at, key)}}
seen_warm(s) ==
    {at \in Accounts : is_warm(s, at)} \union UNION {warm_slots(s, at) : at \in Accounts}

seen_values(s) == [slot \in Accounts \X Keys |-> seen_value(s, slot)]
seen(s, apart) == [value |-> seen_values(s), exists |-> seen_exists(s), warm |-> seen_warm(s) \ apart]

\* The journal of revm, with the warmth of the preloaded addresses left open
Plain == INSTANCE PlainJournal WITH
    Vague <- Preloaded,
    value <- seen_values(state), exists <- seen_exists(state), warm <- seen_warm(state) \ Preloaded,
    checkpoints <- [i \in DOMAIN frames |-> seen(frames[i].saved, Preloaded)]

\* The maps hold what their types say, and the journal is empty between transactions.
TypeOK ==
    /\ spec \in Specs /\ code \in Worlds /\ inline \in BOOLEAN
    /\ db \in [Accounts -> [nonempty : BOOLEAN, nonce : Nonces, storage : [Keys -> Values]]]
    /\ state \in [Accounts -> Account \union {Absent}] /\ cold \in BOOLEAN
    /\ frames = <<>> => state = Empty /\ charges = {}
    /\ capacity \in SaltEnvs
    /\ multipliers \in [Buckets -> Nat \union {Absent}]

\* Inspections are invisible (host.rs:275): from Rex4 on, with all the accounts and
\* slots that the wrappers load on the side (inspect_account, inspect_storage), a
\* program reads the same values and pays for the same cold accesses as without them.
\* The accounts in Preloaded are excepted: an inspection leaves one cold in the journal,
\* and an access to it may cost more afterwards (their slots are not excepted).
InspectionIsInvisibleButForPreloaded ==
    Plain!Init /\ [][is_enabled(spec, REX4) => Plain!Next]_(Plain!vars)

Price(kind, at) == storage_gas(kind, capacity[bucket_of(kind, at)] \div MIN_BUCKET_SIZE)
IsPaid(kinds, at) == \E c \in charges : c.kind \in kinds /\ c.at = at /\ c.gas = Price(c.kind, at)
Given(at) == \E c \in charges : c.kind = "selfdestruct" /\ c.at = at

SlotsArePaid ==
    \A slot \in Accounts \X Keys :
        seen_value(state, slot) # 0 /\ db[slot[1]].storage[slot[2]] = 0 => IsPaid({"slot"}, slot)

\* Nothing grows for free from Rex4 on: a slot that was zero and is not any more, and an
\* account that did not exist before, have been charged for in this transaction, at the
\* price of their own bucket in this block.  Only the account that a SELFDESTRUCT of this
\* transaction gave its balance to while it was empty has not: SELFDESTRUCT is wrapped by
\* compute_gas_ext and charges no storage gas.
GrowthIsPaidOrGiven ==
    is_enabled(spec, REX4) =>
        /\ SlotsArePaid
        /\ \A at \in seen_exists(state) :
             ~db[at].nonempty => IsPaid({"account", "contract"}, at) \/ Given(at)

\* The loop over delegations ends, whatever cycles they form (host.rs:366-388).
DelegationWalkEnds ==
    \A at \in Accounts : inspect_account_delegated(state, at).ended

=============================================================================
