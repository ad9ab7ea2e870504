-------------------------- MODULE AdditionalLimit ---------------------------
(***************************************************************************)
(* AdditionalLimit (limit/limit.rs) driven by the frame loop of MegaEvm    *)
(* (evm/execution.rs): four resources metered per call frame and per       *)
(* transaction, frames that exceed a frame-local budget reverted, a        *)
(* transaction that exceeds a transaction-level limit halted and its       *)
(* remaining gas rescued for the sender.                                   *)
(*                                                                         *)
(* The revm side (gas of the frames, journal checkpoints) is external and  *)
(* modelled from how evm/execution.rs uses it.                             *)
(***************************************************************************)
EXTENDS SpecId, FrameLimit, FiniteSets

CONSTANTS
  Specs,            \* the specs under check
  Kinds,            \* the resources metered (LimitKind); one left out has no limit
  TxLimit,          \* the transaction limit of each kind
  U64Max,           \* u64::MAX, above every usage
  Original,         \* storage slots and their values at the start: 0, or not 0
  GasLimit,         \* gas of the first frame, after the intrinsic gas
  IntrinsicCosts,   \* intrinsic compute gas of a transaction
  TxSize,           \* intrinsic data size of a transaction
  OpCosts,          \* compute gas costs of an opcode
  ForwardGas,       \* gas a CALL or CREATE may forward
  VolatileCap,      \* compute gas cap of volatile data
  LogSizes,         \* data sizes of a log
  CodeSizes,        \* sizes of deployed code
  CodeDepositCost,  \* compute gas per unit of deployed code
  CodeStorageCost,  \* CODEDEPOSIT_STORAGE_GAS, per unit of deployed code
  PrecompileCosts   \* compute gas a precompile may spend

LimitKind == {"DataSize", "KVUpdate", "ComputeGas", "StateGrowth"}
Slot      == DOMAIN Original

ASSUME LimitAssumption ==
  /\ Specs \subseteq MegaSpecId
  /\ Kinds \subseteq LimitKind
  /\ TxLimit \in [Kinds -> Nat]
  /\ U64Max \in Nat
  /\ Original \in [Slot -> {0, 1}] /\ IsFiniteSet(Slot)
  /\ GasLimit \in Nat /\ TxSize \in Nat /\ VolatileCap \in Nat
  /\ CodeDepositCost \in Nat /\ CodeStorageCost \in Nat
  /\ \A S \in {IntrinsicCosts, OpCosts, ForwardGas, LogSizes, CodeSizes, PrecompileCosts} :
       S \subseteq Nat

\* A FrameInput: a call without value, one that sends value to an account that
\* exists or to an empty one, a contract creation.
Input == {"call", "transfer", "birth", "create"}

VARIABLES
  spec,     \* the spec of the EVM, never changed
  pc,       \* done: no transaction; init: frame_init is next; resume: frame_run is
            \* next; run: the top frame executes; finish: it has an action to
            \* return; return: frame_return_result is next; last: last_frame_result
  al,       \* the AdditionalLimit
  frames,   \* the frames of the EVM: kind of frame, gas left, journal checkpoint
  req,      \* the FrameInit handed to frame_init
  res,      \* the FrameResult on its way to the caller
  journal,  \* the journaled state: storage, accounts born in the transaction (less those
            \* that go with it), and whether StateGrowth has missed some of it (a ghost)
  spent,    \* gas paid for executed opcodes, precompiles and code deposits
  burned,   \* gas an exceptional halt of the EVM itself consumed
  lost      \* gas of calls that a limit drops: neither spent, burned nor rescued

ghosts == <<spent, burned, lost>>
vars   == <<spec, pc, al, frames, req, res, journal, ghosts>>

Enabled(other) == is_enabled(spec, other)

\* Only accounts that StateGrowth has missed can leave fewer than there were.
Journal  ==
  {j \in [store : [Slot -> {0, 1}], born : Int, uncounted : BOOLEAN] : j.uncounted \/ j.born >= 0}

\* output: the frame may have returned bytes.  late (a ghost): the frame was committed
\* within every limit, and what was recorded then made it fail.
NoResult == [kind |-> "none", gas |-> 0, create |-> FALSE, ran |-> FALSE,
             output |-> FALSE, late |-> FALSE,
             saved |-> [store |-> Original, born |-> 0, uncounted |-> FALSE]]

TypeOK ==
  /\ pc \in {"done", "init", "resume", "run", "finish", "return", "last"}
  /\ al \in [exceeded : {"within", "frame", "tx"}, rescued : Nat, detained : Nat,
             tr : [Kinds -> Tracker]]
  /\ frames \in Seq([create : BOOLEAN, gas : Nat, saved : Journal])
  /\ req \in [input : Input, gas : Nat]
  /\ res \in [kind : {"none", "ok", "revert", "halt"}, gas : Nat, create : BOOLEAN,
              ran : BOOLEAN, output : BOOLEAN, late : BOOLEAN, saved : Journal]
  /\ journal \in Journal
  /\ spent \in Nat /\ burned \in Nat /\ lost \in Nat

top_frame == frames[Len(frames)]
-----------------------------------------------------------------------------
(* AdditionalLimit: operators on the record al *)

\* The limit of a kind for the whole transaction (TxRuntimeLimit::tx_limit)
tx_limit(a, k) ==
  IF k = "ComputeGas" /\ a.detained < TxLimit[k] THEN a.detained ELSE TxLimit[k]

\* From Rex4 on only compute gas is checked for the whole transaction.  (t names the
\* tracker, so that it is evaluated once.)
exceeds_tx_limit(a, k) ==
  /\ k = "ComputeGas" \/ ~Enabled(REX4)
  /\ \E t \in {a.tr[k]} : net_usage(t) > tx_limit(a, k)

Mut_kind_check_no_frame(a, k) == IF exceeds_tx_limit(a, k) THEN "tx" ELSE "within"

\* TxRuntimeLimit::check_limit: from Rex4 on the frame budget is checked first
kind_check(a, k) ==
  IF Enabled(REX4) /\ \E t \in {a.tr[k]} : exceeds_current_frame_limit(t) THEN "frame"
  ELSE IF exceeds_tx_limit(a, k) THEN "tx" ELSE "within"

\* The verdict of kind k, unless it is within: then that of the kinds after it
or_else(a, k, verdict) ==
  IF k \in Kinds /\ kind_check(a, k) # "within" THEN kind_check(a, k) ELSE verdict

\* AdditionalLimit::check_limit: the first kind that exceeds decides, and sticks
check_limit(a) ==
  IF a.exceeded # "within" THEN a
  ELSE [a EXCEPT !.exceeded =
          or_else(a, "DataSize", or_else(a, "KVUpdate",
            or_else(a, "ComputeGas", or_else(a, "StateGrowth", "within"))))]

exceeding_instruction_result(a) == IF a.exceeded = "frame" THEN "revert" ELSE "halt"

\* Applies f to the tracker of kind k, if that kind is metered.
on_kind(a, k, f(_)) == IF k \in Kinds THEN [a EXCEPT !.tr[k] = f(@)] ELSE a

record_compute_gas(a, n) ==
  check_limit(on_kind(a, "ComputeGas", LAMBDA t : record_persistent(t, n)))

Mut_try_rescue_gas_every_exceed(a, g) ==
  LET b == check_limit(a)
  IN IF b.exceeded # "within" THEN [b EXCEPT !.rescued = @ + g] ELSE b

\* Only a transaction-level exceed rescues gas.
try_rescue_gas(a, g) ==
  LET b == check_limit(a)
  IN IF b.exceeded = "tx" THEN [b EXCEPT !.rescued = @ + g] ELSE b

\* set_detained_limit: relative to the usage from Rex4 on
set_compute_gas_limit(a, c) ==
  IF "ComputeGas" \notin Kinds THEN a
  ELSE LET new == IF Enabled(REX4) THEN net_usage(a.tr["ComputeGas"]) + c ELSE c
       IN [a EXCEPT !.detained = IF new < @ THEN new ELSE @]

\* reset: before Rex1 the detained limit survives
reset(a) ==
  [exceeded |-> "within", rescued |-> 0,
   detained |-> IF Enabled(REX1) /\ "ComputeGas" \in Kinds
                THEN TxLimit["ComputeGas"] ELSE a.detained,
   tr |-> [k \in Kinds |-> new_tracker(TxLimit[k])]]

\* The transaction's data and its caller's account
tx_charge(k) == CASE k = "DataSize" -> TxSize [] k = "KVUpdate" -> 1 [] OTHER -> 0

before_tx_start(a) ==
  check_limit([a EXCEPT !.tr = [k \in Kinds |->
                  [a.tr[k] EXCEPT !.tx.persistent = @ + tx_charge(k)]]])

\* push_frame of each tracker: per-frame budgets from Rex4 on
push(t, updated) ==
  IF Enabled(REX4) THEN push_frame(t, updated)
  ELSE push_frame_with_limit(t, U64Max, updated)

Mut_push_empty_frame_forgotten(a) == a

push_empty_frame(a) == [a EXCEPT !.tr = [k \in Kinds |-> push(@[k], FALSE)]]

\* The account of the caller, unless its frame began by writing it
parent_needs_update(t) == IF has_active_frame(t) /\ ~top(t).updated THEN 1 ELSE 0

\* The accounts a call with value or a creation writes, as far as they are known
account_updates(t, input) ==
  CASE input = "call"   -> 0
    [] input = "create" -> parent_needs_update(t)
    [] OTHER            -> parent_needs_update(t) + 1

\* An account that comes to life: created, or sent value for the first time
Births(input) == IF input \in {"birth", "create"} THEN 1 ELSE 0

\* before_frame_init: what the frame writes to begin with is charged to it
before_frame_init(a, input) ==
  LET charge(k, t) == CASE k \in {"DataSize", "KVUpdate"} -> account_updates(t, input)
                        [] k = "StateGrowth" -> Births(input)
                        [] OTHER -> 0
  IN check_limit([a EXCEPT !.tr = [k \in Kinds |->
       record_discardable(push(@[k], input # "call"), charge(k, @[k]))]])

\* The created account, which is known once its frame is there
created_update(k, input) ==
  IF input = "create" /\ k \in {"DataSize", "KVUpdate"} THEN 1 ELSE 0

after_frame_init(a, input) ==
  [a EXCEPT !.tr = [k \in Kinds |-> record_discardable(@[k], created_update(k, input))]]

\* after_sstore: a slot that leaves its original value is counted, one that is set
\* back to it refunded
after_sstore(t, orig, present, new) ==
  IF orig = present /\ present # new THEN record_discardable(t, 1)
  ELSE IF orig # present /\ orig = new THEN record_refund(t, 1)
  ELSE t

\* on_sstore: for state growth only the slots count that were zero
on_sstore(a, orig, present, new) ==
  LET counted(k) == k \in {"DataSize", "KVUpdate"} \/ (k = "StateGrowth" /\ orig = 0)
  IN check_limit([a EXCEPT !.tr = [k \in Kinds |->
       IF counted(k) THEN after_sstore(@[k], orig, present, new) ELSE @[k]]])

on_log(a, size) ==
  check_limit(on_kind(a, "DataSize", LAMBDA t : record_discardable(t, size)))

\* after_frame_run_instructions: the code (or revert data) of a creation is recorded
after_frame_run_instructions(a, create, size) ==
  IF create
  THEN check_limit(on_kind(a, "DataSize", LAMBDA t : record_discardable(t, size)))
  ELSE a

Mut_mark_creation_late(a, create, kind) == kind

\* after_frame_run_instructions: a creation that exceeds is marked before revm
\* commits it
mark_creation(a, create, kind) ==
  IF create /\ a.exceeded # "within" THEN exceeding_instruction_result(a) ELSE kind

\* after_frame_run: the compute gas of the code deposit is recorded and the result
\* marked, whatever revm has done to the state meanwhile
after_frame_run(a, kind, cost, g) ==
  LET b == record_compute_gas(a, cost)
  IN [al   |-> try_rescue_gas(b, g),
      kind |-> IF b.exceeded # "within" THEN exceeding_instruction_result(b) ELSE kind]

Mut_before_frame_return_result_keeps_flag(a, r, last) ==
  LET dup == last /\ \A k \in Kinds : ~has_active_frame(a.tr[k])
      b   == check_limit([a EXCEPT !.tr = [k \in Kinds |-> pop_frame(@[k], r.kind = "ok")]])
  IN IF b.exceeded = "within" \/ dup THEN [al |-> b, res |-> r]
     ELSE [al |-> b, res |-> [r EXCEPT !.kind = exceeding_instruction_result(b)]]

Mut_before_frame_return_result_absorbs_all(a, r, last) ==
  LET dup == last /\ \A k \in Kinds : ~has_active_frame(a.tr[k])
      b   == check_limit([a EXCEPT !.tr = [k \in Kinds |-> pop_frame(@[k], r.kind = "ok")]])
  IN IF b.exceeded = "within" \/ dup THEN [al |-> b, res |-> r]
     ELSE [al |-> [b EXCEPT !.exceeded = "within"], res |-> [r EXCEPT !.kind = "revert"]]

\* before_frame_return_result: pops the frame, absorbs a frame-local exceed, and
\* marks the result of a transaction-level one.  The result of the first frame
\* passes twice when it ran (dup).
before_frame_return_result(a, r, last) ==
  LET dup == last /\ \A k \in Kinds : ~has_active_frame(a.tr[k])
      b   == check_limit([a EXCEPT !.tr = [k \in Kinds |-> pop_frame(@[k], r.kind = "ok")]])
  IN IF b.exceeded = "within" \/ dup THEN [al |-> b, res |-> r]
     ELSE IF b.exceeded = "frame"
     THEN [al |-> [b EXCEPT !.exceeded = "within"], res |-> [r EXCEPT !.kind = "revert"]]
     ELSE [al |-> b, res |-> [r EXCEPT !.kind = "halt"]]
-----------------------------------------------------------------------------
(* The transaction and its frames *)

Init ==
  /\ spec \in Specs
  /\ pc = "done"
  /\ al = [exceeded |-> "within", rescued |-> 0,
           detained |-> IF "ComputeGas" \in Kinds THEN TxLimit["ComputeGas"] ELSE U64Max,
           tr |-> [k \in Kinds |-> new_tracker(TxLimit[k])]]
  /\ frames = <<>>
  /\ req = [input |-> "call", gas |-> 0]
  /\ res = NoResult
  /\ journal = NoResult.saved
  /\ spent = 0 /\ burned = 0 /\ lost = 0

\* on_new_tx, before_tx_start and the intrinsic compute gas (validate); the checks
\* they make are looked at when the first frame is made
StartTx(intrinsic, input) ==
  /\ pc = "done"
  /\ pc' = "init"
  /\ al' = record_compute_gas(before_tx_start(reset(al)), intrinsic)
  /\ frames' = <<>>
  /\ req' = [input |-> input, gas |-> GasLimit]
  /\ res' = NoResult
  /\ journal' = NoResult.saved
  /\ spent' = 0 /\ burned' = 0 /\ lost' = 0
  /\ UNCHANGED spec

\* The result of a frame that never ran: to frame_return_result, or for the first
\* frame straight to last_frame_result.  (late: a limit will make this result fail.)
EndAtOnce(kind, g, late) ==
  /\ res' = [kind |-> kind, gas |-> g, create |-> req.input = "create", ran |-> FALSE,
             output |-> FALSE, late |-> late, saved |-> journal]
  /\ pc' = IF frames = <<>> THEN "last" ELSE "return"
  /\ UNCHANGED <<spec, frames, req>>

\* MegaAccessControl or MegaLimitControl answers a call before any limit check
\* (the keyless deploy sandbox, another interceptor, is not modelled).  When the
\* intrinsic gas has exceeded the limit, nobody rescues the gas of the first call
Intercept(kind) ==
  /\ pc = "init" /\ Enabled(REX4) /\ req.input = "call"
  /\ al' = push_empty_frame(al)
  /\ EndAtOnce(kind, req.gas, FALSE)
  /\ lost' = IF al.exceeded = "tx" THEN lost + req.gas ELSE lost
  /\ UNCHANGED <<journal, spent, burned>>

\* frame_init: before_frame_init finds a limit exceeded and rescues the gas
InitExceeds ==
  LET a == before_frame_init(al, req.input)
  IN /\ pc = "init" /\ a.exceeded # "within"
     /\ al' = try_rescue_gas(a, req.gas)
     /\ EndAtOnce(exceeding_instruction_result(a), req.gas, FALSE)
     /\ UNCHANGED <<journal, ghosts>>

\* frame_init: a frame to run, with its checkpoint
InitRuns ==
  LET a == before_frame_init(al, req.input)
  IN /\ pc = "init" /\ a.exceeded = "within" /\ req.input # "birth"
     /\ al' = after_frame_init(a, req.input)
     /\ frames' = Append(frames, [create |-> req.input = "create", gas |-> req.gas,
                                  saved |-> journal])
     /\ journal' = [journal EXCEPT !.born = @ + Births(req.input)]
     /\ res' = NoResult
     /\ pc' = "resume"
     /\ UNCHANGED <<spec, req, ghosts>>

\* frame_init: the call or creation ends at once.  ok: no code to run; revert: too
\* deep or out of funds; halt: the created address is taken
InitEnds(kind) ==
  LET a == before_frame_init(al, req.input)
  IN /\ pc = "init" /\ a.exceeded = "within"
     /\ kind = "ok" => req.input # "create"
     /\ kind = "halt" => req.input = "create"
     /\ al' = try_rescue_gas(a, req.gas)
     /\ journal' = IF kind = "ok" THEN [journal EXCEPT !.born = @ + Births(req.input)] ELSE journal
     /\ EndAtOnce(kind, req.gas, FALSE)
     /\ UNCHANGED ghosts

\* The journal with n accounts more (or less) that StateGrowth has not counted
Uncounted(n) ==
  IF n = 0 THEN journal ELSE [journal EXCEPT !.born = @ + n, !.uncounted = TRUE]

\* frame_init: a precompile runs and its gas is recorded as compute gas, in the tracker's
\* frame of the call.  revm commits the transfer of an ok before the limit is looked at;
\* when the precompile fails it undoes it, and a halt leaves its gas unspent
InitPrecompile(kind, c) ==
  LET a    == before_frame_init(al, req.input)
      b    == record_compute_gas(a, c)
      late == kind = "ok" /\ b.exceeded # "within"
  IN /\ pc = "init" /\ a.exceeded = "within" /\ req.input # "create"
     /\ c <= req.gas /\ (kind = "halt" => c = 0)
     /\ al' = try_rescue_gas(b, req.gas - c)
     /\ journal' = CASE kind # "ok" -> journal
                     [] late        -> Uncounted(Births(req.input))
                     [] OTHER       -> [journal EXCEPT !.born = @ + Births(req.input)]
     /\ spent' = spent + c
     /\ EndAtOnce(kind, req.gas - c, late)
     /\ UNCHANGED <<burned, lost>>
-----------------------------------------------------------------------------
(* The top frame *)

\* The frame ends with an action InterpreterAction::Return of this kind.
ReturnWith(kind, g, output) ==
  /\ res' = [kind |-> kind, gas |-> g, create |-> top_frame.create, ran |-> TRUE,
             output |-> output, late |-> FALSE, saved |-> top_frame.saved]
  /\ pc' = "finish"
  /\ UNCHANGED <<frames, req>>

Return(kind, g) == ReturnWith(kind, g, TRUE)

Mut_Resume_spins ==
  /\ pc = "resume"
  /\ pc' = IF check_limit(al).exceeded # "within" THEN pc ELSE "run"
  /\ UNCHANGED <<spec, al, frames, req, res, journal, ghosts>>

\* before_frame_run: a frame does not go on when a limit is exceeded
Resume ==
  LET a == check_limit(al)
  IN /\ pc = "resume"
     /\ al' = a
     /\ IF a.exceeded # "within"
        THEN Return(exceeding_instruction_result(a), top_frame.gas)
        ELSE pc' = "run" /\ UNCHANGED <<frames, req, res>>
     /\ UNCHANGED <<spec, journal, ghosts>>

\* An opcode of compute gas c left AdditionalLimit as a: the frame halts or goes on
Executed(a, c) ==
  /\ al' = a
  /\ spent' = spent + c
  /\ IF a.exceeded # "within"
     THEN Return(exceeding_instruction_result(a), top_frame.gas - c)
     ELSE /\ frames' = [frames EXCEPT ![Len(frames)].gas = @ - c]
          /\ UNCHANGED <<pc, req, res>>
  /\ UNCHANGED <<spec, burned, lost>>

CanPay(c) == pc = "run" /\ c <= top_frame.gas

\* An opcode wrapped by compute_gas_ext only
PlainOp(c) ==
  /\ CanPay(c)
  /\ Executed(record_compute_gas(al, c), c)
  /\ UNCHANGED journal

\* An opcode wrapped by volatile_data_ext.  A frame-local exceed is a Revert, which
\* is no error: run_inner_instruction_or_abort goes on and the cap is applied
VolatileOp(c) ==
  LET a == record_compute_gas(al, c)
  IN /\ CanPay(c)
     /\ Executed(IF a.exceeded = "tx" THEN a ELSE set_compute_gas_limit(a, VolatileCap), c)
     /\ UNCHANGED journal

\* SSTORE: the slot is written, then compute gas and the other limits are recorded
SStore(c, s, v) ==
  LET a == record_compute_gas(al, c)
  IN /\ CanPay(c)
     /\ journal' = [journal EXCEPT !.store[s] = v]
     /\ Executed(IF a.exceeded = "tx" THEN a
                 ELSE on_sstore(a, Original[s], journal.store[s], v), c)

Log(c, size) ==
  LET a == record_compute_gas(al, c)
  IN /\ CanPay(c)
     /\ Executed(IF a.exceeded = "tx" THEN a ELSE on_log(a, size), c)
     /\ UNCHANGED journal

\* CALL or CREATE that forwards g.  When its compute gas exceeds a limit the halt
\* replaces the NewFrame action, and the forwarded gas is in no frame any more
CallOp(c, g, input) ==
  LET a == record_compute_gas(al, c)
  IN /\ CanPay(c + g)
     /\ al' = a
     /\ spent' = spent + c
     /\ IF a.exceeded # "within"
        THEN /\ Return(exceeding_instruction_result(a), top_frame.gas - c - g)
             /\ lost' = lost + g
        ELSE /\ frames' = [frames EXCEPT ![Len(frames)].gas = @ - c - g]
             /\ req' = [input |-> input, gas |-> g]
             /\ pc' = "init"
             /\ UNCHANGED <<res, lost>>
     /\ UNCHANGED <<spec, burned, journal>>

\* STOP, RETURN or REVERT: compute_gas_ext checks the limits here too.  kind is
\* halt for an exceptional halt, whose opcode records nothing
EndFrame(kind) ==
  LET a == record_compute_gas(al, 0)
  IN /\ pc = "run"
     /\ IF kind = "halt"
        THEN al' = al /\ Return(kind, top_frame.gas)
        ELSE /\ al' = a
             /\ Return(IF a.exceeded # "within" THEN exceeding_instruction_result(a)
                       ELSE kind, top_frame.gas)
     /\ UNCHANGED <<spec, journal, ghosts>>

\* SELFDESTRUCT, back from Rex2 on: the balance goes to another account, which may come
\* to life (births) without a record in StateGrowth or storage gas, and the account of a
\* creation that is still running goes when the transaction ends.  From Rex4 on the cap is
\* applied if volatile data has been accessed, be it now (the beneficiary)
SelfDestruct(c, births, detains) ==
  LET a == record_compute_gas(al, c)
  IN /\ CanPay(c) /\ Enabled(REX2) /\ (detains => Enabled(REX4))
     /\ al' = IF detains /\ a.exceeded # "tx" THEN set_compute_gas_limit(a, VolatileCap) ELSE a
     /\ journal' = Uncounted(births - IF top_frame.create THEN 1 ELSE 0)
     /\ spent' = spent + c
     /\ ReturnWith(IF a.exceeded # "within" THEN exceeding_instruction_result(a) ELSE "ok",
                   top_frame.gas - c, FALSE)
     /\ UNCHANGED <<spec, burned, lost>>

\* process_next_action (revm): the checkpoint is committed or reverted
Processed(kind, saved) == IF kind = "ok" THEN journal ELSE saved

\* frame_run after the instructions, with size bytes of output: code deposit storage
\* gas, after_frame_run_instructions, revm's process_next_action (code deposit, then
\* commit or revert), and after_frame_run
FrameFinish(size) ==
  LET deploys  == res.create /\ res.kind = "ok"
      storage  == CodeStorageCost * size
      oog      == deploys /\ storage > res.gas
      g1       == IF deploys /\ ~oog THEN res.gas - storage ELSE res.gas
      a1       == after_frame_run_instructions(al, res.create, size)
      kind1    == mark_creation(a1, res.create, IF oog THEN "halt" ELSE res.kind)
      deposit  == IF res.create /\ kind1 = "ok" THEN CodeDepositCost * size ELSE 0
      kind2    == IF deposit > g1 THEN "halt" ELSE kind1
      g2       == IF deposit > g1 THEN g1 ELSE g1 - deposit
      after    == after_frame_run(a1, kind2, g1 - g2, g2)
      late     == kind2 = "ok" /\ a1.exceeded = "within" /\ after.kind # "ok"
  IN /\ pc = "finish"
     /\ ~res.create \/ ~res.output => size = 0
     /\ journal' = IF late THEN [journal EXCEPT !.uncounted = TRUE]
                   ELSE Processed(kind2, res.saved)
     /\ spent' = spent + (res.gas - g2)
     /\ al' = after.al
     /\ res' = [res EXCEPT !.kind = after.kind, !.gas = g2, !.late = late]
     /\ pc' = "return"
     /\ UNCHANGED <<spec, frames, req, burned, lost>>
-----------------------------------------------------------------------------
(* Results on their way back *)

\* The caller gets the gas of a result back unless it is an exceptional halt;
\* what a halt without a transaction-level exceed leaves is burned.
Given(r) == IF r.kind \in {"ok", "revert"} THEN r.gas ELSE 0
Burns(a, r) == IF r.kind = "halt" /\ a.exceeded # "tx" THEN r.gas ELSE 0

\* frame_return_result
FrameReturn ==
  LET ret  == before_frame_return_result(al, res, FALSE)
      rest == IF res.ran THEN SubSeq(frames, 1, Len(frames) - 1) ELSE frames
      n    == Len(rest)
  IN /\ pc = "return"
     /\ al' = ret.al
     /\ res' = ret.res
     /\ IF n = 0
        THEN pc' = "last" /\ frames' = rest /\ UNCHANGED burned
        ELSE /\ pc' = "resume"
             /\ frames' = [rest EXCEPT ![n].gas = @ + Given(ret.res)]
             /\ burned' = burned + Burns(ret.al, ret.res)
     /\ UNCHANGED <<spec, req, journal, spent, lost>>

\* last_frame_result: revm keeps the gas of an ok or a revert, then the rescued gas
\* is given back
LastFrameResult ==
  LET ret == before_frame_return_result(al, res, TRUE)
  IN /\ pc = "last"
     /\ al' = ret.al
     /\ res' = [ret.res EXCEPT !.gas = Given(ret.res) + ret.al.rescued]
     /\ burned' = burned + Burns(ret.al, ret.res)
     /\ pc' = "done"
     /\ UNCHANGED <<spec, frames, req, journal, spent, lost>>

Next ==
  \/ \E i \in IntrinsicCosts, x \in Input : StartTx(i, x)
  \/ \E k \in {"ok", "revert"} : Intercept(k)
  \/ InitExceeds
  \/ InitRuns
  \/ \E k \in {"ok", "revert", "halt"} : InitEnds(k)
  \/ \E k \in {"ok", "revert", "halt"}, c \in PrecompileCosts : InitPrecompile(k, c)
  \/ Resume
  \/ \E c \in OpCosts : PlainOp(c)
  \/ \E c \in OpCosts : VolatileOp(c)
  \/ \E c \in OpCosts, s \in Slot, v \in {0, 1} : SStore(c, s, v)
  \/ \E c \in OpCosts, size \in LogSizes : Log(c, size)
  \/ \E c \in OpCosts, g \in ForwardGas, x \in Input : CallOp(c, g, x)
  \/ \E k \in {"ok", "revert", "halt"} : EndFrame(k)
  \/ \E c \in OpCosts, n \in {0, 1}, d \in BOOLEAN : SelfDestruct(c, n, d)
  \/ \E size \in CodeSizes \cup {0} : FrameFinish(size)
  \/ FrameReturn
  \/ LastFrameResult

Spec == Init /\ [][Next]_vars

\* The EVM loop runs until the transaction is over.
FairSpec == Spec /\ WF_vars(Next)
-----------------------------------------------------------------------------
(* Properties *)

\* The trackers' frame stacks follow the EVM's, through results that come from
\* frame_init, interceptors and exceeded limits alike (before_frame_return_result
\* asserts that there is a frame to pop).
StacksAligned ==
  LET pending == IF pc \in {"return", "last"} /\ ~res.ran THEN 1 ELSE 0
  IN \A k \in Kinds : Len(al.tr[k].frames) = Len(frames) + pending

\* No gas is made or destroyed but by dropped calls: when a transaction ends, what the
\* sender gets back (the result's gas, or the gas rescued frame by frame) is the gas limit
\* less what was paid, burned by exceptional halts, or lost with a call that a limit
\* dropped: that of a CALL that exceeded, and an intercepted first call.
GasIsAccountedFor ==
  pc = "done" /\ res # NoResult => res.gas + spent + burned + lost = GasLimit

\* When a transaction-level limit is exceeded, the remaining gas is preserved: the docs
\* say so, but the gas that a CALL forwards when its own gas exceeds is gone.
RemainingGasIsPreserved ==
  pc = "done" /\ al.exceeded = "tx" => res.gas + spent + burned = GasLimit

\* A failed call or creation leaves no trace: when its caller goes on, or the
\* transaction ends, the journal is the one of the failed frame's start.
FailureMeansReverted ==
  pc \in {"resume", "done"} /\ res.kind \in {"revert", "halt"} => journal = res.saved

\* So it is at least when a frame exceeds its own budget, says the comment in
\* before_frame_return_result, which makes that a revert (Rex4).
RevertMeansReverted == res.kind = "revert" => FailureMeansReverted

\* Both hold but for what a limit makes fail behind revm's commit: the gas of a code
\* deposit or of a precompile is the only one that is recorded so late.
FailureMeansRevertedUnlessLate == ~res.late => FailureMeansReverted

\* The exceed flag, sticky as it is, tells the truth from Rex4 on: frame-local while
\* the top frame is over its own budget, transaction-level while the total compute gas
\* is over the limit.  A frame-local exceed of a callee is never seen by its caller
\* (I-2).  Before, usage that exceeded may be given back while the frames unwind.
ExceedHasCause == Enabled(REX4) =>
  /\ al.exceeded = "frame" =>
       pc # "done" /\ \E k \in Kinds : exceeds_current_frame_limit(al.tr[k])
  /\ al.exceeded = "tx" => \E k \in Kinds : net_usage(al.tr[k]) > tx_limit(al, k)

\* A transaction-level exceed is final: no frame executes any more, the flag is not
\* lifted, and the transaction ends as a halt (I-3).
TxExceedIsFinal ==
  [][al.exceeded = "tx" /\ pc # "done" =>
       /\ al'.exceeded = "tx"
       /\ pc' # "run"
       /\ pc' = "done" => res'.kind = "halt"]_vars

\* State growth is what the journal says it is: the slots that were zero and are not
\* any more and the accounts born, however frames wrote, cleared, failed and returned.
GrowthMatchesJournal ==
  pc \in {"run", "done"} /\ "StateGrowth" \in Kinds =>
    net_usage(al.tr["StateGrowth"]) =
      Cardinality({s \in Slot : Original[s] = 0 /\ journal.store[s] # 0}) + journal.born

\* It holds as long as the journal keeps no account that SELFDESTRUCT brought to life and
\* nothing of a frame that failed behind revm's commit.  (A caller that fails takes such
\* growth back, and the count is exact again.)
GrowthMatchesJournalIfCounted == ~journal.uncounted => GrowthMatchesJournal

\* Budgets nest: while a frame executes, neither it nor any of its callers would be over
\* its budget if every frame above it returned successfully now, so that a callee
\* within its budget never makes a caller fail (Rex4).
BudgetsNest ==
  Enabled(REX4) /\ pc = "run" =>
    \A k \in Kinds : LET fs == al.tr[k].frames
                     IN \A i \in DOMAIN fs :
                          net_usage([tx |-> fs[i], frames |-> SubSeq(fs, i + 1, Len(fs))])
                            <= fs[i].limit

\* A transaction that succeeds stayed within every limit.  From Rex4 on no total of
\* data size, updates or growth is checked, only frame budgets, and these leave out
\* what was charged before the first frame.
SuccessWithinLimits ==
  LET before(k) == IF ~Enabled(REX4) THEN 0
                   ELSE IF k = "DataSize" THEN TxSize ELSE IF k = "KVUpdate" THEN 1 ELSE 0
  IN pc = "done" /\ res.kind = "ok" =>
       \A k \in Kinds : net_usage(al.tr[k]) <= tx_limit(al, k) + before(k)

\* Every transaction ends: frames only finish, and every opcode costs gas.
TransactionEnds == pc = "init" ~> pc = "done"
=============================================================================
