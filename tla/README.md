# A TLA+ development of mega-evm

mega-evm is the EVM of MegaETH: revm and op-revm, extended by resource limits that
are metered per call frame, by volatile data whose use throttles a transaction, by
system contracts that the EVM answers itself, and by a block executor with limits of
its own. Around it the repository has a runner for the Ethereum state tests and a command
line tool, mega-evme. Paths without a prefix are below `src/crates/mega-evm/src/`; `evme/`
stands for `src/bin/mega-evme/src/` and `state-test/` for `src/crates/state-test/src/`.

1. Inventory
2. Modules and how they correspond to the code
3. Runs
4. Bounds, fairness, deadlock
5. Proofs
6. Where the code and its documentation disagree
7. What is not modelled, and the plan

## 1. Inventory

The EVM runs in one thread. A block executor owns a state database and makes one
`MegaEvm`; the EVM runs one transaction after another, and a transaction is a stack of
call frames driven by `frame_init`, `frame_run` and `frame_return_result`. It has no
messages, no clocks and no persistence of its own. What is hard is sequence: hooks
called in a fixed order on four parallel stacks, flags that stick until the right frame
takes them away, state shared by the transactions of a block, and results computed at one
time and used at another. The tools add what the EVM does not have: the test runner has threads
that share a queue, a counter and a flag; mega-evme has files that one invocation writes and
the next one reads, and a chain that grows between two RPC calls.

| Component | State | Operations | Interacts with |
| --- | --- | --- | --- |
| Spec identifiers (`evm/spec.rs`) | none | `is_enabled` | everything; a feature is enabled in all later specs |
| Volatile data tracker (`access/`) | accessed data, compute gas cap, disable depth | mark, apply limit, disable, enable, enable on return, reset | host and opcode wrappers mark, compute gas is detained, interceptor disables |
| Access control interceptor (`system/intercept.rs`, `system/control.rs`) | none | `disableVolatileDataAccess`, `enableVolatileDataAccess`, `isVolatileDataAccessDisabled` | the tracker, `frame_init` |
| AdditionalLimit (`limit/`) | four frame stacks, sticky exceed flag, rescued gas, detained limit | hooks before and after transaction, frame, opcode; rescue; pop | `frame_*` of the EVM, opcode wrappers, precompiles, block limiter |
| Frame loop (`evm/execution.rs`) | frame stack of revm | `frame_init`, `frame_run`, `frame_return_result`, `last_frame_result` | all trackers, interceptors, revm's journal |
| Instruction wrappers (`evm/instructions.rs`) | none | `compute_gas_ext`, `volatile_data_ext`, `additional_limit_ext`, `storage_gas_ext`, `forward_gas_ext` | AdditionalLimit, tracker, storage gas |
| Block limiter (`block/limit.rs`) | seven counters | `pre_execution_check`, `post_execution_update_raw`, `is_block_limit_reached` | block executor |
| Block executor (`block/executor.rs`) | receipts, limiter, state database | run, commit, execute with condition, pre-block changes, finish | limiter, `MegaEvm`, hardfork schedule |
| Keyless deployment (`sandbox/`) | none of its own: journal and database of the outer transaction | `execute_keyless_deploy_call` | a second EVM over the journal, state merging, compute gas limit |
| State merging (`evm/state.rs`) | none | `merge_evm_state`, with or without status | keyless deployment, parallel executors |
| Limit control interceptor (`system/limit_control.rs`) | none | `remainingComputeGas` | AdditionalLimit |
| Oracle (`system/oracle.rs`, `external/oracle.rs`) | oracle service | reads, hints | host, tracker |
| Dynamic storage gas (`external/gas.rs`, `external/salt.rs`, `evm/host.rs`) | multiplier per bucket, the journal it inspects | gas of a new slot, account, contract; new block; inspections | storage gas wrappers, validation, journal |
| Forward gas (`evm/instructions.rs`) | none | `wrap_gas_cap`, which opcodes are wrapped | gas of caller and callee |
| Hardfork schedule, pre-block system contracts (`block/hardfork.rs`, `block/eips.rs`, `system/`) | activation times, code of five contracts | spec of a block, EIP-2935 and EIP-4788 calls, deployments before a block | block executor, database |
| Precompiles (`evm/precompiles.rs`) | none | run with recorded gas | AdditionalLimit |
| Transaction validation, mega system transactions (`evm/execution.rs`, `system/tx.rs`) | none | intrinsic gas, checks, promotion to deposit | AdditionalLimit, tracker, storage gas |
| State test runner (`state-test/`) | queue, error counter, trace flag, threads | claim, execute, trace, count, join, verdict | the EVM |
| mega-evme (`evme/`): run, tx, t8n, replay | prestate, code map, files; state of a transition; a remote chain | set up, execute, dump; transition; replay | the EVM, the block executor, files, RPC |
| Solidity contracts | - | bytecode | interceptors |

What makes each of the modelled components correct:

* Volatile data: a restriction covers exactly the subtree of the frame that asked for it;
  a cap depends on what was read and not on the order; detention only tightens, never
  halts a frame for what was computed before it (from Rex4 on), and comes from reads of the
  same transaction.
* AdditionalLimit: its stacks follow the EVM's on every path; an exceed of a frame's budget
  fails that frame and nobody else, one of the transaction ends the transaction; no gas
  is made, and what gets lost is the gas of calls that a limit drops; growth that is counted is
  growth of the state, but for SELFDESTRUCT and for what fails late (section 6); a success is
  within the limits.
* Block: no order of executing and committing breaks a limit or the receipts.
* Storage gas: from Rex4 on every slot, and every account that SELFDESTRUCT has not brought to life, is paid
  for at the price of its bucket in this block, and finding out what is added leaves no trace a program
  could see, but for the cost of precompiles and the coinbase (section 6).
* Forward gas: a split makes no gas and loses none, and the caller keeps a fiftieth.
* Pre-block changes: when the first transaction of a block runs, the contracts its EVM relies
  on are there, whatever forks were skipped and however often the block was tried.
* Tools: the verdict of the test runner does not depend on its threads; a mega-evme transaction
  sees the state that was asked for, whichever way it came there; a replay repeats the block, under
  the spec it is given.
* Keyless deployment: the signer pays exactly for what ran, its nonce does not go back,
  a deployment does not run twice, and an outcome is not taken back.

`PROJECT.json` lists the hazards behind these, each at its line.

## 2. Modules and how they correspond to the code

| Module | Models | Uses |
| --- | --- | --- |
| `SpecId` | `MegaSpecId`, `is_enabled` | |
| `MegaSpec` | the spec of one EVM, as a constant | `SpecId` |
| `AccessScope` | what MegaAccessControl promises: one status per call frame | |
| `VolatileAccess` | tracker, detention, control interceptor, oracle calls | `SpecId`, instantiates `AccessScope` |
| `FrameLimit` | `FrameLimitTracker`: frame budgets, usage, refunds, pop | |
| `AdditionalLimit` | the four trackers and the frame loop | `SpecId`, `FrameLimit` |
| `BlockCapacity` | what the limits of a block promise | |
| `BlockExecutor` | block limiter and executor | instantiates `BlockCapacity` |
| `KeylessDeploy` | keyless deployment, sandbox database, state merge | `MegaSpec` |
| `Hardforks` | the schedule of hardforks and the spec at a time | `SpecId` |
| `MegaChain` | a chain: executors, pre-block calls, deployments, commit, retry | `Hardforks` |
| `ForwardGas` | the split of gas between caller and callee, as operators | |
| `PlainJournal` | what a program sees of accounts, storage and warmth | |
| `StorageGas` | bucket multipliers, inspections, storage gas wrappers, SELFDESTRUCT, validation | `SpecId`, instantiates `PlainJournal` |
| `StateTestRunner` | the threads of the test runner | |
| `EvmeState` | `mega-evme run` and `tx`: initial state, database, dump | `SpecId` |
| `T8n` | `mega-evme t8n` | |
| `Replay` | `mega-evme replay` beside a chain | |
| `Evme` | a session of one command | `EvmeState`, `T8n`, `Replay` |
| `MC*` | constants for TLC | the module named after MC |
| `*Proofs` | theorems | the module named before Proofs; `FrameLimit` is in `AdditionalLimitProofs`, `ForwardGas` in `StorageGasProofs`, `EvmeState`, `T8n` and `Replay` in `EvmeProofs` |

Definitions keep the names of the functions they stand for (`check_limit`,
`push_empty_frame`, `enable_access_if_returning`, `pre_execution_check`,
`merge_account_state`, ...); actions are named for the handler or opcode (`FrameInit`,
`FrameReturn`, `SStore`, `CommitTransactionOutcome`). `PROJECT.json` maps every one of them
to its lines. Definitions called `Mut_...` are plausible defects of the definition they
precede; no specification uses them.

**VolatileAccess.** `stack` is the call stack, its length the depth of the journal.
`accessed`, `cap` and `disable_depth` are the fields of `VolatileDataAccessTracker`, `usage`
and `detained` those of `ComputeGasTracker`. The ten flags of the block environment share
one path in the code and are one class; beneficiary and oracle are the other two. An opcode
is one step: guard, effect on the host, compute gas, detention, in the order the wrappers
have. `FrameInit` and `Control` are `frame_init` with and without an answer of the
interceptor, `FrameReturn` is `frame_return_result` with the return of the restriction.
A transaction-level exceed is `halted` and unwinds the stack. `spec` is chosen at the start, and a property that holds
of some versions only says of which.

**AdditionalLimit.** `al` is the struct: the sticky exceed flag, the rescued gas, the
detained limit and one `FrameLimit` tracker per kind. `frames` is the stack of revm with
gas and journal checkpoint, `req` and `res` are the frame input and the frame result under
way, `journal` the slots and the accounts born. The phases of `pc` are the calls of the
frame loop; every hook is an operator on `al` and every call of the loop an action that
composes them. A precompile succeeds, reverts or halts; its compute gas, like that of a code deposit, is
recorded when revm has committed, so a limit can turn its success into a failure that keeps the state.
SELFDESTRUCT (from Rex2 on) ends its frame, and may bring the account it gives its balance to to life, which the
trackers do not see; a contract that does it in its own creation is gone when the transaction ends, but stays counted.
Five ghosts are not read by the model: `spent`, `burned` and `lost` record where gas
went, `late` marks a result that a limit made a failure behind revm's commit, and `uncounted` a journal that
StateGrowth has missed something of. Sizes are small units: a slot, an account and a unit of code count 1. `spec` is chosen
at the start, so that one run covers both sides of Rex4.

**BlockExecutor.** `used` are the counters, `outcomes` those executed ahead,
`receipts` the committed ones. `RunTransaction` checks and executes, `CommitTransactionOutcome`
checks again and updates, in any order; `ExecuteTransaction` does both with a condition
that may drop the outcome; `Finish` ends the block. Additions are those of u64, wrapping at
`U64`. What an execution uses is any member of `Usages`.

**KeylessDeploy.** One signer and the address it deploys to. `db` is the database, `journal`
the loaded accounts of the outer transaction with the revm status flags. `StartTx` is the
pre-execution of an outer transaction, by the signer or somebody else, with an access list;
`Refuse` and `Deploy` are `execute_keyless_deploy_call`; `Commit` ends the transaction;
`DirectTx` is a transaction of the signer in between. The sandbox EVM is external: any outcome
with any gas up to its limit, where a taken address halts the creation.

**MegaChain.** `schedule` is the configuration, `db` the state after the last block, `state` the one
the executor of the current block works on. `CreateExecutor` takes any time from the parent's on, so
a chain may skip forks; an EVM of another spec is refused, as the assertion of `new` does.
`PreExecutionChanges` computes all outcomes against the same state and `CommitSystemCallOutcomes`
commits them, which `apply_pre_execution_changes` does in one call and a caller may do in two.
`PreExecutionFails` and `Abandon` drop what was computed; the next attempt starts from `db`. A system call that reverts, or
finds no contract, is committed like any other and has written nothing. A commit skips an account that was not touched. A deployment
marks the contract as created, after which the `State` takes its storage to be known and answers zero for slots
the block has not written; `finished` says that the database keeps them, so the next executor reads
them again. Genesis may have any code at the contracts.

**StorageGas.** `state` is the journal of revm with what it has loaded, `db` the database below it.
`inspect_account`, `inspect_account_delegated` and `inspect_storage` are those of the host: they load
accounts and slots and leave them cold; before Rex4 they follow delegations in a loop,
written as the iteration of `follow`, one more time than there are accounts. The wrappers of SSTORE, the
calls and the creations inspect, charge (`charges` records for what, where and how much) and run the instruction
of revm, or run out of gas, or fail because a bucket or the database cannot be read. In MiniRex only CALL has the
wrapper; CALLCODE, DELEGATECALL and STATICCALL charge no storage gas and load nothing on the side until Rex. SELFDESTRUCT has no
wrapper for storage gas in any spec; `charges` records what it gives as a gift, of no gas. `Preloaded` are the precompiles and the
coinbase: revm takes such an account as warm as long as its journal has no entry for it, and goes by the entry when there is one.
`CallTransaction` and `CreateTransaction` are the part of validation that adds storage gas;
`NextBlock` gives the next block other bucket capacities and clears the multipliers. `inline` says
whether the database returns code with an account, which decides where a delegation is found.

**StateTestRunner.** A thread takes one step per access to something shared: `LoadErrors`, `NextTest`
(under the lock), `OpenSuite`, `ExecuteTest` (one test; a failure swaps the flag), `DebugFailedTest`,
`CountResult`. The main thread takes the paths one after another, spawns, joins in order and gives the
verdict. What the EVM makes of a test is part of the test; what the runner makes of that is
`check_evm_execution`.

**Evme.** `EvmeState` has the layers of a state: file, options in the order of the code, system contracts,
code of the command line, and the backend (empty or remote); `Setup`, `Execute` and `Output` are one invocation and `file`
connects it with the next. `T8n` keeps `ledger`, the accounts as one long transition would have
them, next to the allocation file. `Replay` writes a state as the sequence of what was
applied to it, and has the chain as an actor: `Mine`, which appends to `blocks` and, with what the block did,
to `states`, and `Submit` interleave with the RPC calls. Each entry says in which block it ran, whether with overrides of the transaction, and
under which spec: `--override.spec` (`spec_override`) sets the spec of the block executor, and so of the
pre-block changes and of the transactions before the target as well. The
EVM is reduced to what these need: nonce, balance, one slot, success or failure.

## 3. Runs

| Run | Question | Result | Distinct states |
| --- | --- | --- | --- |
| `volatile` | Rex2 and Rex4: is a restriction scoped (refinement of `AccessScope`), honestly answered; is detention relative, monotone, independent of order, due to reads of this transaction; does the oracle's code run without detention; does every transaction end? | holds | 302 919 |
| `limit` | Rex3 and Rex4, all four kinds, two slots, precompiles, code deposits, SELFDESTRUCT: stacks aligned, gas accounted for, budgets nested, growth counted = growth of the journal unless something was missed, failure leaves no state unless it came late, success is within the limits, exceed flag truthful and final, does every transaction end? | holds | 32 522 |
| `block` | Do interleaved runs and commits keep the limits and the receipts (refinement of `BlockCapacity`)? | holds | 25 234 |
| `keyless` | Keyless deployments among transactions of the signer: paid, final, not repeated, nonce kept? | holds | 2 237 |
| `storage` | MiniRex and Rex4, delegations, two buckets, a preloaded account: growth paid at the price of this block or given by SELFDESTRUCT, inspections invisible but for preloaded accounts (refinement of `PlainJournal`), walks end? | holds | 457 736 |
| `chain` | Any schedule in order and some with gaps: contracts of the spec in place, upgraded in the first block of their fork only, spec never back but by MiniRex1? | holds | 1 008 473 |
| `runner` | Two threads, three files: verdict honest, nothing behind it, traced once, does it end? | holds | 628 540 |
| `evme` | Three invocations or transitions, or a replay, with overrides of the transaction and of the spec: the state asked for, transitions that add up, a faithful replay? | holds | 258 292 |
| `keyless_loaded` | Access lists that name the signer: paid? | violated, see 6 | |
| `limit_preserved` | Is the remaining gas preserved when a transaction limit is exceeded? | violated, see 6 | |
| `limit_late` | Does a frame that a limit reverts leave no state? | violated, see 6 | |
| `evme_saved` | Does `--prestate` load what `--dump` wrote? | violated, see 6 | |

Three of the properties are refinements, and all three are theorems as well (section 5). `RestrictionIsScoped`: the one number `disable_depth` is shown to behave
as a status for each frame, computed by `volatile_access_disabled` for each depth.
`FillsAtomically`: a block filled by stale outcomes fills as if each transaction had been checked
and included in one step. `InspectionIsInvisibleButForPreloaded`: the journal with all that the wrappers load on
the side behaves, for values, existence, warmth and the cold accesses that are paid for, as the
journal without; from Rex4 on, since before it a slot may be kept under the account that another
one delegates to. `PlainJournal` leaves open what the accounts in `Preloaded` cost (not their slots), where host.rs promises
to leave nothing open (section 6). `GrowthIsPaidOrGiven`
is stated from Rex4 on for the same reason as the refinement: before, a delegating account hides
what its delegate has.

What the documentation promises and the code does not keep is in the instances of the runs that hold, too. `limit` has code
deposits and precompiles that fail late, SELFDESTRUCT, and calls whose gas is dropped; its properties except exactly the
transitions that set `late`, `uncounted` and `lost`, and `limit_late` and `limit_preserved` show what happens without the exception.
In the same way `storage` has gifts of SELFDESTRUCT and preloaded accounts, and its properties name them.

## 4. Bounds, fairness, deadlock

*Volatile data.* `MaxDepth = 3` gives a caller, a callee and a callee of that, which is what
nested restrictions of different owners, and a sibling at the depth of a former owner,
need. Costs 1 and 2 with a limit of 6 and caps of 3 and 2 let a limit be met exactly and
overshot. Transactions follow each other without bound; the state space is finite because
every transaction resets it. Rex2 has the detention of oracle calls, absolute caps and no restriction; Rex4 has the rest.

*Limits.* Compute gas 7, data size 4, the others 2, intrinsic cost 1: every limit is met,
just passed and, by frame budgets of 98/100 rounded down, smaller in a callee than in its
caller. An opcode costs 2, so a transaction meets the compute gas limit with the third and passes it with the fourth, or with the
code deposit. Gas of 10 and calls that forward 3 or 7 bound the depth: a caller, a callee and a callee of that. The
other intrinsic cost, 8, is above the limit, so that a transaction may exceed before its first
frame, with or without an interceptor that answers it. A code deposit costs 1 of compute gas and 1 of storage gas; a precompile
costs 2, or nothing. Of the two slots one is zero at first. Rex3 and Rex4 are the two sides of frame budgets and relative caps. The two
runs that are violated need compute gas and state growth only, under Rex4.

*Blocks.* `MaxOutcomes = 2` outcomes wait; four transactions with three usages, one of them a
deposit above the data availability limit and one with a gas limit of 15, whose sum with the
counter wraps around at `U64 = 16` and looks small again. `BlockAssumption` asks that a
transaction limit plus a block limit fits in u64, not that a transaction declares little:
the transaction limit, checked first, is what keeps the sum from wrapping. The limits are
the chain's configuration; with `tx_gas_limit` left at its default of u64::MAX the assumption
does not hold. A finished block stops: its run does not check
deadlock.

*Keyless deployment.* `Funds = 7` pays for more than two deployments with an override of 2 or 3
and a value of 1; `MaxNonce = 3` bounds the transactions of the signer and passes the nonce
check of 1; one override is below the signed gas limit. `AccessLists` has only the target in
the passing run, because of the finding `keyless_loaded`.

*Storage gas.* Two accounts, of which one may delegate to the other, to itself, or both to each other;
one slot, with the storage of one account empty or not at first; two buckets whose capacities 256 and
1000 against 512 and 512 differ in both multipliers between blocks (1000 is no multiple of 256). Two
frames and two charges in a transaction. One account is preloaded and may create; whatever else it is (empty, a contract, a
delegating account, a delegate) goes with that. MiniRex and Rex4 are the two ends of every
distinction `is_enabled` makes here.

*Chain.* Three timestamps and every schedule in order on them, so forks are active at once, one after
another or never, and four with gaps; three blocks from genesis or two from block 1. Transactions pay one contract and write
a slot of it.

*Runner.* Two threads or one, three files on a path and a second path. One file holds every test and
file there can be beside files that pass or fail; in the other half all of them pass, fail or panic. Every
combination of the command line flags is one of the initial states.

*mega-evme.* Sessions of three invocations: a dump, a dump that started from it, and a load. The options
name an account three times and a slot twice. Transitions: four lists of up to three transactions with
one of each way to fail. Replay: three transactions and a chain of up to four blocks, in any order, with
and without overrides of the transaction and of the spec.

A finished chain, command or session stops, and so does a transaction of `StorageGas` at its bounds:
these runs do not check deadlock.

*Fairness.* The liveness properties of a transaction (`TransactionEnds`) assume `WF_vars(Next)`: the EVM is
a loop in one thread that does not return before the transaction is over, so as long as a
step is possible one is taken. Nothing is assumed of a single action; which opcode
comes next is the program's choice. `Terminates` of the runner assumes weak fairness of each thread and of the
main thread: the operating system schedules all of them, and no step waits for anything but the lock of the
queue, which is held for one step.

## 5. Proofs

All theorems hold for every value of the constants that satisfies the named assumptions
(`SpecAssumption`, `VolatileAssumption`, `LimitAssumption`, `BlockAssumption`, `KeylessAssumption`,
`TimeAssumption`, `ChainAssumption`, `StorageGasAssumption`, `AbsentAssumption`, `RunnerAssumption`, `T8nAssumption`,
`ReplayAssumption`, `EvmeStateAssumption`): types; for blocks the absence of overflow above; for `t8n`, that an executed transaction uses some gas; for storage gas and state growth, finitely many accounts and slots, a mark for absent
entries that is no entry, and addresses that are no slots, since `warm` of `PlainJournal` holds both. A theorem that needs more says so in its ASSUME. Where something has to be shown for every
depth of a stack or every length of a walk, it is shown by the least counterexample: `LeastNat` says that a set of
naturals has a least element, `Induct` makes an induction over a set of it.

**VolatileAccessProofs.** `IInv` is the type invariant together with `Shape` (which phases
have a frame, and that a halted transaction only unwinds), `Owned` (the restriction belongs
to a frame on the stack) and `BeneficiaryMarked` (the beneficiary's code runs only after the
access was marked). Each opcode is
first shown to be an `OpStep`, a step that changes trackers in a few ways only; then `IInv`
needs one case per frame operation instead of one per opcode. `RestrictionHasLiveOwner`
alone is not inductive: it speaks of two phases, and the steps into them start in others.
`WithinLimit` strengthens `RunsWithinLimit` to the phases between opcodes. From these:
`TypeCorrect`, `RestrictionOwned`, `NoRetroactiveHalt` and `Tightening`, and
`ImplementsAccessScope`: initial states map to initial states, and each step, under the mapping
`RestrictedAt`, is a step of `AccessScope` or changes nothing there. `CapIgnoresOrder` is inductive by itself once
the classes are typed. `HonestAnswers` uses that nothing happens between the answer of the interceptor and the return of the
frame that never ran; `OwnReadsDetain` is about Rex1 and later, when `on_new_tx` resets the detained limit, and says so of every step of the transaction: until it
has read something volatile, its limit is its own; `OracleIsDetained`
is about Rex to Rex2 and needs, for every frame of the oracle on the stack, that its call was marked and detained.

**BlockExecutorProofs.** `IInv` is the type invariant and `HardLimitsHold`. The central lemma says
that an update behind the check is `Include` of `BlockCapacity`: no addition wraps, and
usage stays below what was declared. `TypeCorrect`, `HardLimits` and `ImplementsCapacity`
follow; the second and the third hold for any number of outcomes executed ahead. `ReceiptsAreExact`: the
sum over all receipts is no inductive formula; `ReceiptsChain` is, each receipt continues the one before. `ClosedWhenFull` assumes
that a transaction declares some gas and some size, as every one that passes validation does; one that declares nothing would pass a
full block.

**KeylessDeployProofs.** `NonceNeverDecreases` and `DeployedOnce` are properties of steps; they
need to know what a commit will write. `JournalAhead` says so: the loaded nonce of the signer
is not behind the database, deployed code is in the loaded account too, nothing is loaded
between transactions. `RanFine` (from Rex3 on) keeps the result and the limit of a
transaction whose sandbox ran; `Paid` keeps the balance of the account the transaction sees
and that it is touched if loaded, which is where the assumption on access lists is used. The lemmas
`SandboxAccounts` and `MergeAccounts` say what the sandbox ends with and what a merge makes of
it. `TypeCorrect`, `NonceMonotone`, `NoSecondDeployment`, `OutcomesAreFinal`, `SignerIsCharged`.

**AdditionalLimitProofs.** First the tracker of `FrameLimit`: what `push_frame`, the record operations, `merge` and
`pop_frame` do to the running sums of usage and refund, frame by frame (`PopTotals` for a return). Then each hook of
`AdditionalLimit` is shown to record amounts (`Records`), to enter a frame (`Enters`) or to leave one (`Pops`) in all four
trackers at once, so that later proofs do not open them. The invariant `Base` is the types, `Shape` (what request and result
belong to which phase of the frame loop) and `StacksAligned`; the last one is not inductive without `Shape`, which says
when the trackers have the frame of a result that the EVM does not have. `TypeCorrect`, `Aligned`.

The second part is about the exceed flag. On top of `Base`: `Flags` (a frame executes only while the flag is down) gives `ExceedStays`.
`Causes` says for each phase whether usage has been checked since it was last recorded, which is what makes a raised flag true
when it is read: `FlagIsHonest`. `Nests` says of each frame that its usage with all above it is within its budget, and of the
first frame that its budget is within the limit of the transaction: `CallersStayWithin`, and, at the end, `SuccessIsBounded`.

The third part is about the journal and the gas. `Reverts` follows a result back to its caller together with the checkpoint of its frame:
`FailuresLeaveNoTrace`, for every result that is not `late`. `Grows` compares the state growth tracker with the journal at every checkpoint on the stack, not
only at the current one, since a revert goes back to them: `GrowthIsExact`. A checkpoint of which something was missed is
excepted, one of a caller that saved its journal before that is not, so the count is exact again when that caller fails. `Conserved` adds up the gas
of all frames and of what is on its way between them; `Quiet` says when a first frame can begin over a limit.
`GasIsConserved`. All three hold for any cost of code deposits and precompiles and any intrinsic cost.

**MegaChainProofs.** `ChainInv` says what the state of a block contains in each phase: nothing is written before the
commit (`Uncommitted`), what is committed was computed from this very state (`Computed`), after it every contract whose fork is
active has the code of the time (`Ready`), and the next block starts from there (`Continued`). `Ready` also says that the hash and the root the block has added are its own (`OwnEntries`);
that a finished block leaves code and balances to the next one, whatever it leaves of the storage, is `FinishedFacts`. A contract of a fork that was active at the parent is not deployed again, so `Ready`
needs `Continued`: this is the argument for chains that skip forks. `TypeCorrect`, `BlocksArePrepared`, `UpgradesOnlyAtForks`,
`SpecsOnlyAdvance`, for any schedule, any number of blocks and of abandoned attempts.

**StorageGasProofs.** `SplitsFairly`: the split of gas that `wrap_gas_cap` makes, for every amount.
`InspectDelegated`: the walk over delegations, as a function of the number of turns, either has ended or has visited one more
account with every turn (`Goes`), so it ends within `Cardinality(Accounts) + 1` turns: `WalksEnd`. `StorageInv` has two parts.
`World`: the journal and every checkpoint a frame may go back to are `Sound`, from Rex4 on a loaded slot remembers as its original what the
database has, a slot that has grown is covered by a charge, and an account that has by a charge or a gift; accounts with code exist in the database, so an
account that delegates is never one that grows. `Prices`: a remembered multiplier and a charge are those of the capacity in this
block, which is where the reset of `with_block` is used. Soundness of the checkpoints is what `GrowthIsPaidOrGiven` lacks to be
inductive: charges stay after a revert, so what was sound stays sound, but only if it was so when it was saved.
An instruction has to show `Fits` (once its charge is paid, its result is sound); `WrapperKeeps` does the rest for all
of them. `StorageIsInductive`, `TypeCorrect`, `GrowthPaidOrGiven`.
`InspectionsAreInvisibleButForPreloaded` is the refinement of `PlainJournal` from Rex4 on, as `Plain`. What a program sees is compared account by account
(`Shows`: value, existence and warmth of two accounts above the same database, the second with at least as much loaded): an
inspection shows the same (`InspectsWarmsNothing`, `InspectStorageWarmsNothing`), SLOAD and a call show the same but for what gets
warm, SSTORE but for one value, a transfer but for one existence. A revert keeps what inspections loaded and still shows what
the frame saved (`RevertGoesBack`), because an entry that it sets back to its original shows the database, which is `Sound`. It
needs `ViewInv`: what a frame saved is covered by what is loaded now, and the first frame of a transaction saved what the
database shows, to which a dropped transaction goes back. From there, one lemma for each action of `PlainJournal` says which relations between what is
seen before and after make a step one of it, and one for each action here shows that it is (`StepShows`).

**StateTestRunnerProofs.** For any number of threads, paths, files and tests. None of the three properties is inductive: they
speak of what is counted and printed, and a thread finds, prints and counts an error in three steps. `RunnerInv` is
the types; `Placed`, what each thread knows of its file (`Knows`: the tests it has passed hold, an error it is about to count
is one); `Once`, that a trace is on its way or printed and never both, and that an error stands behind it; `Over`, that who is
joined has ended; and `Hurry`. `Hurry` is the argument for failing fast: the thread that counted an error has ended, so the files
claimed late and the threads that may still claim one are together fewer than the threads. `RunnerIsInductive`,
`FailsInTime`, `TracesOnce`. `VerdictsAreHonest` needs `Earned` besides: the files that were claimed have run or are held by one
thread each (`Accounted`), what ran is as sound as its end says (`Judged`), the counter and the threads about to count
make up the files that failed (`Counted`), and a thread that ended had nothing left, met an error or was told of one
(`Explained`), so that with all of them joined without an error every file of the path has run. It assumes `NoFileTwice`: no
file is named twice on a command line. The runner would run such a file once for each time it is named, and the history `ran`, on
which the property counts suites, has the name of the file only. The command lines of the run have this property.

**EvmeProofs.** `SessionsAddUp`: `Accounts` says for each account what the file, the state of the transition and the ledger have in
common, in each phase, through both conversions, and that an abort drops the transition as a whole; `Booked` says of every
receipt that it continues the one before and that its logs are those in `all_logs` with its index (`Book`). Sums are functions of the
number of receipts, so a step adds one value and leaves the ones before it. `ReplaysAreFaithful`: `Chain` has the state after each
block continue the one before and every transaction in one block at most; `Asked` says for each stage of a replay what the answers
it was given still mean although the chain has grown (`Located`, where the target is) and what was replayed so far
(`Replaying`: the state before the block and a prefix of the block under the spec the command line gives, and nothing of the target). For any transactions, any length of
the chain and any order of answers.

`TransactionsSeeWhatWasAsked`: `AreAsked` relates the states before and after the first n options of a list, account by account: the
last option that names a balance or a slot decides it, faucets add up, and the rest of the account stays. It holds for
n = 0 and from n to n + 1, hence for the list (`OverridesAsked`); `Prepared` puts the four lists together and `CodesSet` the
codes on top. What remains is that the layers below agree: what the file holds is what was left (`FileIsLeft`, through
`from_account` and `into_account`), and a loaded account has the hash of its code, so every code is found at its own hash
(`CodesAtHashes`). For any files, chain, lists of options and number of invocations.

**Only model-checked.** Liveness (`TransactionEnds` of both models, `Terminates`) is out of reach of the prover.  Every other property of a run that holds is a theorem, under the assumptions named above.

## 6. Where the code and its documentation disagree

Four of these have a run with a counterexample and an entry in `PROJECT.json` that quotes the text.

* `keyless_loaded`: the sandbox state is merged without account status. An account the outer
  transaction had loaded but not touched stays untouched, and the commit drops the charge.
* `limit_preserved`: when the compute gas of a CALL or CREATE itself exceeds a limit (`evm/instructions.rs:1353`), the gas it
  was about to forward is in no frame, and is not given back; `docs/BLOCK_AND_TX_LIMITS.md:100` says that remaining gas is preserved.
* `limit_late`: the compute gas of a code deposit is recorded after revm has committed the
  creation (`limit/limit.rs:411`), that of a precompile after the transfer (`evm/precompiles.rs:167`). If it exceeds the budget of the
  frame, the result becomes a revert with its state kept, where `limit/limit.rs:493` says
  "State changes are reverted by revm's Revert handling." The run shows the precompile. A limit of the transaction makes it a halt, with the state
  kept as well (`FailureMeansReverted`, which has no run).
* `evme_saved`: `set_account_code` (`evme/common/state.rs:545`) sets the code and not the code hash, so the dump
  holds code with the hash of no code and `into_account` refuses it; `src/bin/mega-evme/README.md:354` continues
  from exactly such a dump.

Met while modelling, without a run of their own:

* `evm/instructions.rs:927`: a CALL to the beneficiary, SELFBALANCE of the beneficiary
  (`evm/instructions.rs:424`), or a transaction from or to it (`evm/context.rs:510`) is marked but does not
  detain the transaction until the next volatile opcode; `specs/MiniRex.md:193` asks for the limit "immediately".
  `VolatileAccess` has these steps.
* `evm/instructions.rs:242`: SELFDESTRUCT is wrapped with compute gas only. The account it brings to life is not
  counted, and a contract that destroys itself in its own creation stays counted; `docs/RESOURCE_ACCOUNTING.md:161` says "net increase".
  Nor does it pay storage gas for that account, where `docs/DUAL_GAS_MODEL.md:62` has it whenever value transfer creates one.
  `specs/Rex2.md`, which brings the opcode back with the semantics of EIP-6780, speaks of neither. `AdditionalLimit` (`uncounted`) and
  `StorageGas` (a gift) have it, and `GrowthMatchesJournalIfCounted` and `GrowthIsPaidOrGiven` except it.
* `evm/host.rs:335`: an inspection leaves a precompile or the coinbase cold in the journal, and revm, which would
  have found it warm without an entry, has the next access pay for a cold account; `evm/host.rs:277` says "no difference on gas cost".
  This rests on revm's journal, which is not in the repository. `StorageGas` has it, and `InspectionIsInvisibleButForPreloaded` excepts it.
* `evm/execution.rs:618`: an intercepted first call returns before any gas is rescued; if the intrinsic gas had exceeded the limit, its
  gas is lost, and `limit/limit.rs:511` says it has been rescued. `AdditionalLimit` has it (`Intercept`), and `GasIsAccountedFor` counts it as `lost`.
* `evm/instructions.rs:522`: in MiniRex CALLCODE, DELEGATECALL and STATICCALL have neither storage gas nor the 98/100 cap; the comment
  at `evm/instructions.rs:216` calls it a mistake that Rex corrects. `StorageGas` has no storage gas for them. `ForwardGas` is only about an opcode that has the cap.
* `evme/replay/cmd.rs:220`: `--override.spec` sets the spec of the whole block executor, so the pre-block changes and the transactions
  before the target run under it, too. `MegaBlockExecutor::new` asserts that the spec is that of the block (`block/executor.rs:104-114`), but
  not with the feature `test-utils`, with which mega-evme is built (`src/bin/mega-evme/Cargo.toml:21`). `Replay` has it.
* `system/oracle.rs:77`: a deployment marks the account as created, and the `State` then answers zero for its slots; in the first block
  of a fork that replaces the code of the oracle, a read of what was stored before gives zero, and the next block reads it again.
  This rests on revm's `State`, which is not in the repository. `MegaChain` has it.
* `block/eips.rs:51`: a pre-block system call that reverts or halts is committed like one that succeeds.
* `evm/instructions.rs:1105`: a transfer to a delegating account is charged by the emptiness of its delegate, and
  `evm/instructions.rs:1170` prices a CREATE by the address that the nonce of the delegate gives;
  `docs/DUAL_GAS_MODEL.md:64` and `:75` speak of the account that is created and of its bucket.
* `docs/DUAL_GAS_MODEL.md:88` and `specs/Rex.md:61` say that contract creation "pays both" contract and account storage gas;
  the code charges the one for contracts (`evm/execution.rs:330`, `evm/instructions.rs:1203`).
* `state-test/main.rs:51` offers to "Keep going after a test failure"; with it, the first path with a failure ends the
  process (`state-test/runner.rs:640`) and later paths are not run.
* mega-evme: a dump (`--dump`, "Dump final state after execution") holds the accounts and slots the transaction loaded
  and no others; `--faucet` and `--storage` on a forked account start from an empty one and hide its nonce,
  code and balance; a replay of a pending transaction applies the pre-block changes of the latest block a second time;
  `evme/t8n/cmd.rs:270` says "For failed transactions, we still update the state", where nothing was committed;
  `--spec` defaults to Rex4 in the code and to Rex2 in the README.
* `block/limit.rs:110` says deposits' data availability size is "tracked and accumulated";
  `post_execution_update_raw` skips it (`block/limit.rs:992`).
* `docs/KEYLESS_DEPLOYMENT.md:439` says that treating empty code as failure prevents "infinite
  replay of broken deployments"; the signer's nonce may be 1, so a deployment that reverts or
  halts can be sent again as long as the signer has funds. The model has these replays; the
  signer pays for each.
* `sandbox/execution.rs:166`: `unreachable!()` is reached when the sticky exceed flag was raised by a
  limit other than compute gas before the call.

## 7. What is not modelled, and the plan

Not modelled at all: benches and build scripts, the Solidity contracts (bytecode; what the EVM intercepts
of them is modelled), inspectors and tracers, the oracle service and its hints, and revm itself, whose journal, gas and
frame results appear as far as the code uses them. Of mega-evme the block environment options, state
roots and output are left out, and so is an I/O failure between the result and the allocation that t8n writes; of a
replay, a reorganisation of the chain between two calls. A contract that was created earlier in a transaction and destroys itself later
in it goes as well (EIP-6780); modelled is the one whose creation is still running. Code is looked up at its own hash: what
EXTCODEHASH answers for an account that the command line gave its code (`evme/common/state.rs:545`) is left out, and its
other side is the run `evme_saved`. State merging with status and storage (`evm/state.rs`) is left to
the parallel executors that call it, which are not in the repository. What `remainingComputeGas` returns and the
promotion of mega system transactions are the next operations to add.

Components are composed where they share state: `MegaChain` with `Hardforks`, the
commands of mega-evme. `KeylessDeploy` and `AdditionalLimit` share the compute gas limit and the exceed flag and
are not composed; the `unreachable!()` of `sandbox/execution.rs:166` needs that.

Proofs to come: `VerdictsAreHonest` with files that are named more than once, for which the history has
to tell one run of a file from another.
