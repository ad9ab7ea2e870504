------------------------------ MODULE EvmeState ------------------------------
(***************************************************************************)
(* `mega-evme run` and `mega-evme tx`: every invocation builds its state   *)
(* from a prestate file, command line overrides, system contracts and,     *)
(* with --fork, a remote chain (common/state.rs); executes one             *)
(* transaction; and may dump the state to the file that the next           *)
(* invocation starts from.                                                 *)
(*                                                                         *)
(* A code hash is written as the code it is the hash of.                   *)
(***************************************************************************)
EXTENDS SpecId, Integers, Sequences, SequencesExt

CONSTANTS
    Slots,           \* storage slots
    Files,           \* prestate files written by hand, as accounts to load
    Remote,          \* the accounts of the remote chain
    Invocations,     \* command lines
    MaxInvocations   \* bound on the invocations of a session

Addresses == {"sender", "receiver", "created", "oracle", "timestamp", "keyless"}

\* An account in a file and one in memory, whose slots remember what they were
Fields == {"balance", "nonce", "code", "code_hash", "storage"}

\* The options of a command line as they are parsed: lists of overrides
ASSUME EvmeStateAssumption ==
    /\ \A f \in Files : \A a \in DOMAIN f : DOMAIN f[a] = Fields
    /\ \A a \in Addresses : DOMAIN Remote[a] = Fields
    /\ \A invocation \in Invocations :
         LET opts  == invocation.opts
             Value == [address : Addresses, value : Nat]
         IN /\ opts.balance \in Seq(Value) /\ opts.sender_balance \in Seq(Value) /\ opts.faucet \in Seq(Value)
            /\ opts.storage \in Seq([address : Addresses, slot : Slots, value : Nat])

VARIABLES
    file,       \* the prestate file: an AccountState for each address
    left,       \* what the last invocation with a dump left, or the author of the file meant
    args,       \* the command line of the invocation under way, or "none"
    phase,      \* "idle", "ready", "executed"
    failure,    \* why the last invocation ended, or "none"
    prestate,   \* EvmeState::prestate, the accounts that override the backend
    code_map,   \* EvmeState::code_map
    journal,    \* the accounts that the execution loaded
    invocations

stateVars == <<file, left, args, phase, failure, prestate, code_map, journal, invocations>>

(***************************************************************************)
(* Accounts                                                                *)
(***************************************************************************)
hash_slow(code) == code

default_account == [balance |-> 0, nonce |-> 0, code |-> "", code_hash |-> "", storage |-> <<>>]

EvmStorageSlot(value) == [original |-> value, present |-> value]

\* prestate.entry(address).or_default(), and a map that takes a value
entry(state, a) == IF a \in DOMAIN state THEN state[a] ELSE default_account

insert(map, key, value) == [k \in DOMAIN map \cup {key} |-> IF k = key THEN value ELSE map[k]]

with_field(state, a, field, value) == insert(state, a, [entry(state, a) EXCEPT ![field] = value])

\* The form of an account in a file.
from_account(account) ==
    [account EXCEPT !.storage = [s \in DOMAIN account.storage |-> account.storage[s].present]]

\* A code hash in a file is optional, and checked if it is there.
honest(state) == state.code_hash \in {"absent", hash_slow(state.code)}

into_account(state) ==
    [state EXCEPT !.code_hash = hash_slow(state.code),
                  !.storage = [s \in DOMAIN state.storage |-> EvmStorageSlot(state.storage[s])]]

(***************************************************************************)
(* The initial state                                                       *)
(***************************************************************************)
with_slot(state, a, slot, value) ==
    with_field(state, a, "storage", insert(entry(state, a).storage, slot, EvmStorageSlot(value)))

\* One override of the command line
override(state, kind, e) ==
    CASE kind = "balance" -> with_field(state, e.address, "balance", e.value)
      [] kind = "storage" -> with_slot(state, e.address, e.slot, e.value)
      [] kind = "faucet"  -> with_field(state, e.address, "balance", entry(state, e.address).balance + e.value)

\* All of a kind, in the order in which they are given
overrides(state, kind, list) ==
    LET after[n \in 0 .. Len(list)] == IF n = 0 THEN state ELSE override(after[n - 1], kind, list[n])
    IN after[Len(list)]

Mut_load_prestate_faucet_first(loaded, opts) ==
    LET faucet   == overrides(loaded, "faucet", opts.faucet)
        balances == overrides(faucet, "balance", opts.balance)
        slots    == overrides(balances, "storage", opts.storage)
    IN overrides(slots, "balance", opts.sender_balance)

\* The order of the code: balances, slots, the balance of the sender (none or
\* one, at the sender), and what the faucet adds to all of these.
load_prestate(loaded, opts) ==
    LET balances == overrides(loaded, "balance", opts.balance)
        slots    == overrides(balances, "storage", opts.storage)
        sender   == overrides(slots, "balance", opts.sender_balance)
    IN overrides(sender, "faucet", opts.faucet)

\* Only the code is set, and not the code hash of the account.
set_account_code(state, a, code) == with_field(state, a, "code", code)

system_contracts(spec) ==
    [a \in IF ~is_enabled(spec, MINI_REX) THEN {}
           ELSE IF is_enabled(spec, REX2) THEN {"oracle", "timestamp", "keyless"}
           ELSE {"oracle", "timestamp"}
       |-> CASE a = "oracle" -> IF is_enabled(spec, REX2) THEN "oracle v1.1.0" ELSE "oracle v1.0.0"
             [] a = "timestamp" -> "timestamp oracle"
             [] a = "keyless" -> "keyless deploy"]

deploy_system_contracts(state, spec) ==
    LET codes == system_contracts(spec)
    IN [a \in DOMAIN state \cup DOMAIN codes |->
           IF a \in DOMAIN codes THEN set_account_code(state, a, codes[a])[a] ELSE state[a]]

\* `run` without --create puts its code at the receiver.
places_code(invocation) == invocation.cmd = "run" /\ ~invocation.tx.create /\ invocation.code # ""

run_code(state, invocation) ==
    IF places_code(invocation)
    THEN set_account_code(state, "receiver", invocation.code) ELSE state

\* new_empty and new_forked take the codes of the prestate by the hashes of its
\* accounts, set_account_code adds each code by its own hash.
codes_of(loaded, invocation) ==
    LET given == {loaded[a].code_hash : a \in DOMAIN loaded}
        set   == Range(system_contracts(invocation.spec)) \cup
                 (IF places_code(invocation) THEN {invocation.code} ELSE {})
    IN [h \in {hash_slow(code) : code \in set} \cup given |->
           IF \E code \in set : hash_slow(code) = h THEN CHOOSE code \in set : hash_slow(code) = h
           ELSE loaded[CHOOSE a \in DOMAIN loaded : loaded[a].code_hash = h].code]

(***************************************************************************)
(* The database                                                            *)
(***************************************************************************)
backend(a) == IF args.fork THEN Remote[a] ELSE default_account

basic(a) == IF a \in DOMAIN prestate THEN prestate[a] ELSE backend(a)

storage(a, slot) ==
    IF a \in DOMAIN prestate /\ slot \in DOMAIN prestate[a].storage
    THEN prestate[a].storage[slot].present
    ELSE IF slot \in DOMAIN backend(a).storage THEN backend(a).storage[slot].present ELSE 0

code_by_hash(hash) == IF hash \in DOMAIN code_map THEN code_map[hash] ELSE hash

(***************************************************************************)
(* The transaction                                                         *)
(***************************************************************************)
Deposit == 126

mega_tx_type(tx) == tx.tx_type \in {0, 1, 2, 4, Deposit}

validate(tx) ==
    /\ mega_tx_type(tx)
    /\ tx.tx_type = Deposit <=> tx.source_hash
    /\ tx.mint => tx.tx_type = Deposit
    /\ tx.priority_fee => tx.tx_type \notin {0, 1}
    /\ ~(tx.create /\ tx.receiver)
    /\ tx.auth => tx.tx_type = 4
    /\ tx.access => tx.tx_type \in {1, 2, 4}

\* create_tx builds an envelope too, which is what refuses a type 4 creation.
\* A raw transaction takes the arguments as overrides that nothing validates.
create_tx(tx) == tx.raw \/ (validate(tx) /\ ~(tx.tx_type = 4 /\ tx.create))

(***************************************************************************)
(* An invocation                                                           *)
(***************************************************************************)
loaded_of(invocation) ==
    IF invocation.prestate THEN [a \in DOMAIN file |-> into_account(file[a])] ELSE <<>>

Fail(why) ==
    /\ phase' = "idle" /\ failure' = why /\ args' = "none"
    /\ prestate' = <<>> /\ code_map' = <<>> /\ journal' = <<>>
    /\ UNCHANGED <<file, left>>

\* From the command line to the state that the transaction will see.  A bad
\* file, a bad transaction or the remote chain end the invocation.
Setup(invocation) ==
    /\ phase = "idle" /\ invocations < MaxInvocations
    /\ invocations' = invocations + 1
    /\ \/ /\ invocation.prestate => \A a \in DOMAIN file : honest(file[a])
          /\ create_tx(invocation.tx)
          /\ LET loaded == load_prestate(loaded_of(invocation), invocation.opts)
             IN /\ prestate' = run_code(deploy_system_contracts(loaded, invocation.spec), invocation)
                /\ code_map' = codes_of(loaded, invocation)
          /\ phase' = "ready" /\ failure' = "none" /\ args' = invocation
          /\ UNCHANGED <<file, left, journal>>
       \/ /\ invocation.prestate /\ \E a \in DOMAIN file : ~honest(file[a])
          /\ Fail("CodeHashMismatch")
       \/ ~create_tx(invocation.tx) /\ Fail("InvalidInput")
       \/ invocation.fork /\ Fail("RpcError")

\* The EVM is another component; here it loads the sender and the receiver or
\* the new contract, reads a slot of the accounts in reads, and a contract that
\* runs writes value to slot.
loaded_account(a, slots) ==
    [basic(a) EXCEPT !.storage = [s \in slots |-> EvmStorageSlot(storage(a, s))]]

executed(ok, reads, slot, value) ==
    LET tx     == args.tx
        target == IF tx.create THEN "created" ELSE "receiver"
        moved  == IF ok THEN tx.value ELSE 0
        sender == loaded_account("sender", {})
        other  == loaded_account(target, IF basic(target).code # "" THEN {slot} ELSE {})
        mint   == IF tx.mint THEN 1 ELSE 0
        paid   == [sender EXCEPT !.balance = @ + mint - moved, !.nonce = @ + 1]
        called == [other EXCEPT !.balance = @ + moved,
                                !.storage = [s \in DOMAIN @ |-> [@[s] EXCEPT !.present = IF ok THEN value ELSE @]]]
        made   == [called EXCEPT !.nonce = 1, !.code = "deployed", !.code_hash = "deployed"]
    IN [a \in {"sender", target} \cup reads |->
           IF a = "sender" THEN paid
           ELSE IF a = target THEN IF ok /\ tx.create THEN made ELSE called
           ELSE loaded_account(a, Slots)]

admitted ==
    args.tx.tx_type = Deposit \/ (/\ args.tx.nonce = basic("sender").nonce
                                 /\ args.tx.value <= basic("sender").balance)

succeeds ==
    /\ args.tx.value <= basic("sender").balance + (IF args.tx.mint THEN 1 ELSE 0)
    /\ args.tx.create => basic("created").nonce = 0 /\ basic("created").code_hash = ""

Execute ==
    /\ phase = "ready"
    /\ \/ /\ admitted
          /\ \E ok \in {succeeds, FALSE}, reads \in SUBSET {"oracle"}, slot \in Slots, value \in {0, 1} :
                journal' = executed(ok, reads, slot, value)
          /\ phase' = "executed"
          /\ UNCHANGED <<file, left, args, failure, prestate, code_map>>
       \/ ~admitted /\ Fail("ExecutionError")
       \/ args.fork /\ Fail("RpcError")
    /\ UNCHANGED invocations

\* output_results: the accounts of the journal replace the file.
Output ==
    /\ phase = "executed"
    /\ IF args.dump
       THEN /\ file' = [a \in DOMAIN journal |-> from_account(journal[a])]
            /\ left' = [a \in DOMAIN journal |->
                           [journal[a] EXCEPT !.storage = [s \in DOMAIN @ |-> EvmStorageSlot(@[s].present)]]]
       ELSE UNCHANGED <<file, left>>
    /\ phase' = "idle" /\ args' = "none"
    /\ prestate' = <<>> /\ code_map' = <<>> /\ journal' = <<>>
    /\ UNCHANGED <<failure, invocations>>

StateInit ==
    /\ file \in Files
    /\ left = [a \in DOMAIN file |-> into_account(file[a])]
    /\ args = "none"
    /\ phase = "idle" /\ failure = "none" /\ invocations = 0
    /\ prestate = <<>> /\ code_map = <<>> /\ journal = <<>>

StateNext == Execute \/ Output \/ \E invocation \in Invocations : Setup(invocation)

(***************************************************************************)
(* Properties                                                              *)
(***************************************************************************)
Named == DOMAIN prestate

\* An account as the saved state or the chain has it, before the command line.
Base(a) == IF args.prestate /\ a \in DOMAIN left THEN left[a] ELSE backend(a)

\* The value of the last of some entries of a list
LastOf(list, at, default) == IF at = {} THEN default ELSE list[Max(at)].value

naming(list, a) == {n \in DOMAIN list : list[n].address = a}

\* A balance, with all that is added to it
with_added(list, a, own) ==
    LET total[n \in 0 .. Len(list)] ==
            IF n = 0 THEN own ELSE IF list[n].address = a THEN total[n - 1] + list[n].value ELSE total[n - 1]
    IN total[Len(list)]

AskedBalance(a) ==
    LET opts == args.opts
        set  == LastOf(opts.balance, naming(opts.balance, a), Base(a).balance)
        own  == LastOf(opts.sender_balance, naming(opts.sender_balance, a), set)
    IN with_added(opts.faucet, a, own)

AskedCode(a) ==
    IF places_code(args) /\ a = "receiver" THEN args.code
    ELSE IF a \in DOMAIN system_contracts(args.spec) THEN system_contracts(args.spec)[a]
    ELSE Base(a).code

AskedSlot(a, slot) ==
    LastOf(args.opts.storage, {n \in naming(args.opts.storage, a) : args.opts.storage[n].slot = slot},
           IF slot \in DOMAIN Base(a).storage THEN Base(a).storage[slot].present ELSE 0)

\* The transaction sees the state that was saved, changed by the command line and
\* nothing else, through every layer of files, overrides, system contracts and
\* database (create_initial_state, basic, storage, code_by_hash).  On a remote
\* chain this is claimed for the accounts that nothing overrides.
SeesWhatWasAsked ==
    phase = "ready" =>
        \A a \in Addresses : ~args.fork \/ a \notin Named =>
            /\ basic(a).nonce = Base(a).nonce
            /\ basic(a).balance = AskedBalance(a)
            /\ basic(a).code = AskedCode(a)
            /\ code_by_hash(hash_slow(basic(a).code)) = basic(a).code
            /\ \A slot \in Slots : storage(a, slot) = AskedSlot(a, slot)

\* "Continue execution with saved state": what --dump wrote, --prestate loads.
SavedStateLoads == failure # "CodeHashMismatch"
=============================================================================
