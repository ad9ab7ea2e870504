--------------------------- MODULE VolatileAccess ---------------------------
(***************************************************************************)
(* Volatile data: its tracking (access/tracker.rs), the compute gas        *)
(* detention it triggers (limit/compute_gas.rs, the volatile_data_ext      *)
(* opcode wrappers of evm/instructions.rs) and the MegaAccessControl       *)
(* system contract that switches it off for a subtree of the call stack    *)
(* (system/intercept.rs, evm/execution.rs).                                *)
(*                                                                         *)
(* One transaction after another runs on one EVM.  The call stack is the   *)
(* sequence of the contracts being executed; its length is the journal     *)
(* depth.  Per-frame compute budgets are left to module AdditionalLimit:   *)
(* here a transaction halts when its total usage passes the limit.         *)
(***************************************************************************)
EXTENDS SpecId, Integers, Sequences

CONSTANTS
  Specs,                 \* the versions an EVM may be created with
  None,                  \* the value of an Option that is not set
  MaxDepth,              \* bound: the deepest call stack explored
  OpCosts,               \* compute gas costs an opcode may have
  TxComputeLimit,        \* EvmTxRuntimeLimits::tx_compute_gas_limit
  BlockEnvCap,           \* block_env_access_limit
  OracleCap              \* oracle_access_limit

\* The ten block environment flags share one cap and one code path.
Class == {"BlockEnv", "Beneficiary", "Oracle"}

ASSUME VolatileAssumption ==
  /\ Specs \subseteq MegaSpecId
  /\ MaxDepth \in Nat \ {0}
  /\ OpCosts \subseteq Nat \ {0}
  /\ TxComputeLimit \in Nat
  /\ BlockEnvCap \in Nat
  /\ OracleCap \in Nat
  /\ None \notin Nat \cup Class

\* Addresses the code tells apart; each may have code (the beneficiary of an OP
\* chain is the fee vault contract).
Account  == {"plain", "oracle", "beneficiary"}
Sender   == {"plain", "beneficiary", "system"}
Scheme   == {"call", "static", "delegate"}
Answer   == {"none", "rejected", "disabled", "enabled", "denied", "yes", "no"}

VARIABLES
  spec,           \* the version of the EVM, never changed
  pc,             \* idle: no transaction; init: frame_init is next; run: the
                  \* top frame executes; return: the top frame returns its
                  \* result; skip: a frame that never ran returns its result
  stack,          \* contracts being executed, the top of the call stack last
  call,           \* the FrameInit handed to frame_init
  answer,         \* what MegaAccessControl answered the call being returned
  sender,         \* the caller of the transaction
  halted,         \* a transaction-level exceed is unwinding the call stack
  accessed,       \* VolatileDataAccessTracker.volatile_data_accessed
  cap,            \* VolatileDataAccessTracker.compute_gas_limit
  disable_depth,  \* VolatileDataAccessTracker.disable_depth
  usage,          \* ComputeGasTracker.tx_usage()
  detained        \* ComputeGasTracker.detained_limit

tracker == <<accessed, cap, disable_depth>>
gas     == <<usage, detained>>
vars    == <<spec, pc, stack, call, answer, sender, halted, tracker, gas>>

Enabled(other) == is_enabled(spec, other)

depth == Len(stack)       \* journal.depth()
self  == stack[depth]     \* the contract executing in the top frame

MinOf(a, b) == IF a <= b THEN a ELSE b

TypeOK ==
  /\ spec \in Specs
  /\ pc \in {"idle", "init", "run", "return", "skip"}
  /\ stack \in Seq(Account)
  /\ call \in [target : Account \cup {"control"}, scheme : Scheme]
  /\ answer \in Answer
  /\ sender \in Sender
  /\ halted \in BOOLEAN
  /\ accessed \subseteq Class
  /\ cap \in Nat \cup {None}
  /\ disable_depth \in Nat \cup {None}
  /\ usage \in Nat
  /\ detained \in Nat
-----------------------------------------------------------------------------
(* VolatileDataAccessTracker *)

ClassCap(c) == IF c = "Oracle" THEN OracleCap ELSE BlockEnvCap

Mut_apply_or_create_limit_overwrites(current, limit) == limit

\* VolatileDataAccessTracker::apply_or_create_limit
apply_or_create_limit(current, limit) ==
  IF current = None THEN limit ELSE MinOf(current, limit)

\* mark_block_env_accessed, mark_beneficiary_balance_accessed and
\* check_and_mark_oracle_access; c is None when the access is not volatile
Mark(c) ==
  IF c = None
  THEN UNCHANGED <<accessed, cap>>
  ELSE /\ accessed' = accessed \cup {c}
       /\ cap' = apply_or_create_limit(cap, ClassCap(c))

volatile_access_disabled(d) == disable_depth # None /\ d >= disable_depth

Mut_disable_access_deeper_wins(d) == d

disable_access(d) ==
  IF disable_depth # None /\ d >= disable_depth THEN disable_depth ELSE d

Mut_enable_access_strict(d) ==
  [ok    |-> disable_depth = None \/ d < disable_depth,
   depth |-> IF disable_depth # None /\ d < disable_depth
             THEN None ELSE disable_depth]

enable_access(d) ==
  [ok    |-> disable_depth = None \/ d <= disable_depth,
   depth |-> IF disable_depth # None /\ d <= disable_depth
             THEN None ELSE disable_depth]

enable_access_if_returning(d) ==
  IF disable_depth # None /\ d < disable_depth THEN None ELSE disable_depth
-----------------------------------------------------------------------------
(* ComputeGasTracker *)

\* ComputeGasTracker::tx_limit
tx_limit == MinOf(TxComputeLimit, detained)

Mut_set_detained_limit_absolute(c, u) == MinOf(detained, c)
Mut_set_detained_limit_no_min(c, u) == IF Enabled(REX4) THEN u + c ELSE c
Mut_set_detained_limit_subtracts(c, u) == MinOf(detained, c - u - 1)

\* set_detained_limit(c) at total usage u: the cap is relative from Rex4 on
set_detained_limit(c, u) ==
  MinOf(detained, IF Enabled(REX4) THEN u + c ELSE c)

Mut_record_gas_used_dropped(c) == usage

\* ComputeGasTracker::record_gas_used: the new total
record_gas_used(c) == usage + c

Mut_reset_detained_never == detained

\* ComputeGasTracker::reset: before Rex1 the detained limit survives
reset_detained == IF Enabled(REX1) THEN TxComputeLimit ELSE detained

Init ==
  /\ spec \in Specs
  /\ pc = "idle"
  /\ stack = <<>>
  /\ call = [target |-> "plain", scheme |-> "call"]
  /\ answer = "none"
  /\ sender = "plain"
  /\ halted = FALSE
  /\ accessed = {}
  /\ cap = None
  /\ disable_depth = None
  /\ usage = 0
  /\ detained = TxComputeLimit

\* MegaContext::on_new_tx and the intrinsic compute gas of validate
OnNewTx(s, to, intrinsic) ==
  LET touched == IF s = "beneficiary" \/ to = "beneficiary"
                 THEN {"Beneficiary"} ELSE {}
  IN /\ pc = "idle"
     /\ pc' = "init"
     /\ call' = [target |-> to, scheme |-> "call"]
     /\ sender' = s
     /\ halted' = FALSE
     /\ accessed' = touched
     /\ cap' = IF touched = {} THEN None ELSE BlockEnvCap
     /\ disable_depth' = None
     /\ usage' = intrinsic
     /\ detained' = reset_detained
     /\ answer' = "none"
     /\ UNCHANGED stack
-----------------------------------------------------------------------------
(* Opcodes of the top frame *)

Running == pc = "run"

\* The frame reverts with VolatileDataAccessDisabled before the opcode runs.
Blocked ==
  /\ pc' = "return"
  /\ UNCHANGED <<stack, call, answer, sender, halted, tracker, gas>>

\* The opcode runs: the host marks the access, the compute gas is recorded, the
\* transaction halts if that passes the limit, otherwise the wrapper applies the
\* cap (detains) and the frame goes on to next.
Executed(class, detains, next) ==
  \E c \in OpCosts :
    LET u == record_gas_used(c)
    IN /\ Mark(class)
       /\ usage' = u
       /\ IF u > tx_limit
          THEN pc' = "return" /\ halted' = TRUE /\ UNCHANGED detained
          ELSE /\ pc' = next
               /\ detained' = IF detains /\ cap' # None
                              THEN set_detained_limit(cap', u) ELSE detained
               /\ UNCHANGED halted
       /\ UNCHANGED <<stack, answer, sender, disable_depth>>

\* The opcode fails (out of gas, stack overflow) after the host marked the access:
\* neither its compute gas nor the cap is recorded.
Aborted(class) ==
  /\ Mark(class)
  /\ pc' = "return"
  /\ UNCHANGED <<stack, call, answer, sender, halted, disable_depth, gas>>

\* An opcode wrapped by volatile_data_ext: blocked before it runs, or executed
Guarded(volatile, class, next) ==
  IF volatile /\ volatile_access_disabled(depth)
  THEN Blocked
  ELSE \/ Executed(class, TRUE, next) /\ UNCHANGED call
       \/ Aborted(class)

OfBeneficiary(target) == IF target = "beneficiary" THEN "Beneficiary" ELSE None

\* An opcode that is never volatile (compute_gas_ext only)
PlainOp == Running /\ Executed(None, FALSE, "run") /\ UNCHANGED call

\* TIMESTAMP, NUMBER, COINBASE, ...
BlockEnvOp == Running /\ Guarded(TRUE, "BlockEnv", "run")

\* BALANCE, EXTCODESIZE, EXTCODECOPY, EXTCODEHASH
AccountOp(target) ==
  Running /\ Guarded(target = "beneficiary", OfBeneficiary(target), "run")

\* SELFBALANCE is wrapped by compute_gas_ext only
SelfBalance ==
  Running /\ Executed(OfBeneficiary(self), FALSE, "run") /\ UNCHANGED call

\* SLOAD is wrapped, and the host marks the oracle, from Rex3 on
SLoad ==
  /\ Running /\ Enabled(REX3)
  /\ Guarded(self = "oracle",
             IF self = "oracle" /\ sender # "system" THEN "Oracle" ELSE None,
             "run")

\* SELFDESTRUCT is wrapped, and marks the beneficiary, from Rex4 on
SelfDestruct(target) ==
  /\ Running /\ Enabled(REX4)
  /\ Guarded(target = "beneficiary", OfBeneficiary(target), "return")

\* CALL, STATICCALL, DELEGATECALL, CALLCODE: loading the callee marks the
\* beneficiary, and the wrapper does not apply the cap
CallOp(target, scheme) ==
  /\ Running
  /\ IF target = "beneficiary" /\ volatile_access_disabled(depth)
     THEN Blocked
     ELSE \/ /\ Executed(OfBeneficiary(target), FALSE, "init")
             /\ call' = [target |-> target, scheme |-> scheme]
          \/ Aborted(OfBeneficiary(target))

\* STOP, RETURN, REVERT or an exceptional halt of the top frame
EndFrame ==
  /\ Running
  /\ pc' = "return"
  /\ UNCHANGED <<stack, call, answer, sender, halted, tracker, gas>>
-----------------------------------------------------------------------------
(* Frames *)

\* The FrameInit::Result of frame_init goes to frame_return_result, or for the
\* first frame of a transaction straight to last_frame_result.
Skipped == pc' = IF stack = <<>> THEN "idle" ELSE "skip"

\* A CALL or STATICCALL of MegaAccessControl has its address as the target.
ToControl ==
  Enabled(REX4) /\ call.target = "control" /\ call.scheme \in {"call", "static"}

\* Before Rex3 a CALL of the oracle (from Rex on a STATICCALL too) is an access,
\* unless the mega system address is the caller of the frame.
Mut_OracleCall_static_missed ==
  /\ Enabled(MINI_REX) /\ ~Enabled(REX3)
  /\ call.target = "oracle" /\ call.scheme = "call"
  /\ ~(stack = <<>> /\ sender = "system")

OracleCall ==
  /\ Enabled(MINI_REX) /\ ~Enabled(REX3)
  /\ call.target = "oracle"
  /\ call.scheme = "call" \/ (call.scheme = "static" /\ Enabled(REX))
  /\ ~(stack = <<>> /\ sender = "system")

\* MegaEvm::frame_init without interception (a call of MegaAccessControl with an
\* unknown selector too).  runs says whether the callee has code to run; otherwise
\* the call ends at once (no code, failure) or costs what the precompile records.
FrameInit(runs, cost) ==
  LET u == record_gas_used(cost)
  IN /\ pc = "init"
     /\ runs => cost = 0
     /\ Mark(IF OracleCall THEN "Oracle" ELSE None)
     /\ detained' = IF OracleCall THEN set_detained_limit(cap', usage) ELSE detained
     /\ IF usage > MinOf(TxComputeLimit, detained')
        THEN Skipped /\ halted' = TRUE /\ UNCHANGED <<stack, usage>>
        ELSE /\ IF runs
                THEN /\ depth < MaxDepth
                     /\ call.target \in Account
                     /\ stack' = Append(stack, IF call.scheme = "delegate"
                                               THEN self ELSE call.target)
                     /\ pc' = "run"
                ELSE Skipped /\ UNCHANGED stack
             /\ usage' = u
             /\ halted' = (u > MinOf(TxComputeLimit, detained'))
     /\ UNCHANGED <<call, answer, sender, disable_depth>>

\* AccessControlInterceptor: the depth of the FrameInit is the caller's.  A call
\* that transfers value is rejected before anything else.
Control(fn, value) ==
  /\ pc = "init" /\ ToControl
  /\ value => call.scheme = "call"
  /\ \/ value /\ answer' = "rejected" /\ UNCHANGED disable_depth
     \/ /\ ~value /\ fn = "disable"
        /\ disable_depth' = disable_access(depth)
        /\ answer' = "disabled"
     \/ /\ ~value /\ fn = "enable"
        /\ disable_depth' = enable_access(depth).depth
        /\ answer' = IF enable_access(depth).ok THEN "enabled" ELSE "denied"
     \/ /\ ~value /\ fn = "query"
        /\ answer' = IF volatile_access_disabled(depth) THEN "yes" ELSE "no"
        /\ UNCHANGED disable_depth
  /\ Skipped
  /\ UNCHANGED <<stack, call, sender, halted, accessed, cap, gas>>

\* MegaEvm::frame_return_result: the callee's journal checkpoint is gone, and
\* before_frame_run ends the caller at once when the transaction is halted
FrameReturn ==
  /\ pc \in {"return", "skip"}
  /\ stack' = IF pc = "return" THEN SubSeq(stack, 1, depth - 1) ELSE stack
  /\ disable_depth' = IF Enabled(REX4)
                      THEN enable_access_if_returning(Len(stack'))
                      ELSE disable_depth
  /\ pc' = IF stack' = <<>> THEN "idle" ELSE IF halted THEN "return" ELSE "run"
  /\ answer' = "none"
  /\ UNCHANGED <<call, sender, halted, accessed, cap, gas>>

Next ==
  /\ UNCHANGED spec
  /\ \/ \E s \in Sender, to \in Account \cup {"control"}, i \in OpCosts : OnNewTx(s, to, i)
     \/ PlainOp
     \/ BlockEnvOp
     \/ \E t \in Account : AccountOp(t)
     \/ SelfBalance
     \/ SLoad
     \/ \E t \in Account : SelfDestruct(t)
     \/ \E t \in Account \cup {"control"}, s \in Scheme : CallOp(t, s)
     \/ EndFrame
     \/ \E runs \in BOOLEAN, c \in OpCosts \cup {0} : FrameInit(runs, c)
     \/ \E fn \in {"disable", "enable", "query"}, v \in BOOLEAN : Control(fn, v)
     \/ FrameReturn

Spec == Init /\ [][Next]_vars

\* The EVM loop runs until the transaction is over.
FairSpec == Spec /\ WF_vars(Next)
-----------------------------------------------------------------------------
(* Properties *)

\* The statuses of the live frames, as the tracker answers them.
RestrictedAt == [d \in 1 .. depth |-> volatile_access_disabled(d)]

Scope == INSTANCE AccessScope WITH scope <- RestrictedAt

\* MegaAccessControl keeps its promise: the single disable_depth of the tracker
\* behaves as one inherited status per call frame, and a restricted frame
\* leaves no trace in the volatile data tracker (Rex4.md, I-5 and I-6).
RestrictionIsScoped == Scope!Init /\ [][Enabled(REX4) => Scope!Next]_(Scope!vars)

\* The restriction belongs to a live frame: once the frame that disabled the
\* access has returned, no frame of the transaction is restricted by it.
RestrictionHasLiveOwner ==
  pc \in {"run", "init"} /\ disable_depth # None => disable_depth <= depth

\* From Rex4 on a frame executes only while the total compute gas is within both
\* the transaction limit and the detained limit: the cap is relative, so that an
\* access never halts the transaction for what it computed before.
RunsWithinLimit == Enabled(REX4) /\ pc = "run" => usage <= tx_limit

\* What MegaAccessControl answers is the truth for the caller it returns to: the
\* caller is restricted after disable and free after a granted enable, enable is
\* denied exactly when the caller's own caller is restricted, and the query
\* answers for the caller's frame, not for the control contract's.
AnswersAreHonest ==
  pc = "skip" =>
    /\ answer \in {"disabled", "denied", "yes"} => volatile_access_disabled(depth)
    /\ answer \in {"enabled", "no"} => ~volatile_access_disabled(depth)
    /\ answer = "denied" => volatile_access_disabled(depth - 1)
    /\ answer = "enabled" => ~volatile_access_disabled(depth - 1)

\* The limit of a transaction is its own (from Rex1 on): at every step, whatever the
\* transactions before it read, it has the whole transaction limit as long as it has
\* not accessed volatile data, and never less than the cap of what it did access.
DetainedByOwnReads == Enabled(REX1) =>
  /\ accessed = {} => detained = TxComputeLimit
  /\ accessed # {} => detained >= MinOf(TxComputeLimit, cap)

\* Within a transaction the caps only tighten, tracking only grows and compute
\* gas is never given back, whichever frames revert (Rex4.md, I-4 and I-7).
OnlyTightens ==
  [][pc # "idle" =>
       /\ accessed \subseteq accessed'
       /\ usage <= usage'
       /\ detained' <= detained
       /\ cap # None => cap' # None /\ cap' <= cap]_vars

\* From Rex to Rex2 a call of the oracle detains the whole transaction: once a frame of
\* the oracle contract is on the stack the limit is at most the oracle's, unless
\* the mega system address called it as the transaction.
OracleRunsDetained ==
  /\ Enabled(REX) /\ ~Enabled(REX3)
  /\ pc = "run"
  /\ \E d \in 1 .. depth : stack[d] = "oracle"
  /\ ~(stack[1] = "oracle" /\ sender = "system")
  => detained <= OracleCap

\* The raw cap depends on what was accessed, not on the order of the accesses.
CapIsOrderIndependent ==
  cap = IF accessed = {} THEN None
        ELSE IF accessed = {"Oracle"} THEN OracleCap
        ELSE IF "Oracle" \in accessed THEN MinOf(OracleCap, BlockEnvCap)
        ELSE BlockEnvCap

\* Every transaction ends: compute gas is never given back, so a frame cannot run
\* for ever, with or without detention.
TransactionEnds == pc = "init" ~> pc = "idle"
=============================================================================
