------------------------------- MODULE Replay -------------------------------
(***************************************************************************)
(* `mega-evme replay`: a transaction of a live chain is executed again, on *)
(* the state of the parent block after the transactions before it          *)
(* (replay/cmd.rs).  What the chain holds is asked in several RPC calls,   *)
(* between which the chain grows; any call may fail.                       *)
(*                                                                         *)
(* A state is written as the sequence of what was applied to it.           *)
(***************************************************************************)
EXTENDS Integers, Sequences, FiniteSets, SequencesExt

CONSTANTS
    Txs,        \* transactions
    Target,     \* the transaction to replay
    MaxBlocks   \* bound on the blocks of the chain

ASSUME ReplayAssumption == Target \in Txs /\ IsFiniteSet(Txs) /\ MaxBlocks \in Nat

VARIABLES
    blocks,        \* the transactions of each block, the genesis block being empty
    states,        \* the state after each block, as the chain made it
    known,         \* the node knows the target: it is in the pool or in a block
    stage,         \* where the command is
    overridden,    \* TxOverrideArgs::has_overrides
    spec_override, \* the command line names another spec
    block_number, state_base_block_number, is_pending,
    replayed,      \* the state of the block executor
    transaction_index

replayVars == <<blocks, states, known, stage, overridden, spec_override, block_number,
                state_base_block_number, is_pending, replayed, transaction_index>>

Mined == UNION {Range(blocks[n]) : n \in DOMAIN blocks}

BlockOf(tx) == CHOOSE n \in DOMAIN blocks : tx \in Range(blocks[n])

Latest == Len(blocks)

\* What is applied to a state: by which block, under the spec of the block or the one
\* the command line names, and with overrides of the transaction or not.
Entry(tx, n, changed, spec) == [tx |-> tx, block |-> n, overridden |-> changed, spec |-> spec]

\* What block n does to a state when it runs as it is.
Block(n, block) ==
    <<Entry("pre-execution changes", n, FALSE, "of the block")>>
    \o [i \in DOMAIN block |-> Entry(block[i], n, FALSE, "of the block")]

AlreadyApplied(tx) == \E i \in DOMAIN replayed : replayed[i].tx = tx

\* The chain, which is external: a block takes some transactions in some order.
Mine ==
    /\ Latest < MaxBlocks
    /\ \E block \in SetToAllKPermutations(Txs \ Mined) :
          /\ blocks' = Append(blocks, block)
          /\ states' = Append(states, states[Latest] \o Block(Latest + 1, block))
    /\ known' = (known \/ Target \in Range(blocks'[Latest + 1]))
    /\ UNCHANGED <<stage, overridden, spec_override, block_number, state_base_block_number, is_pending, replayed, transaction_index>>

Submit ==
    /\ ~known /\ known' = TRUE
    /\ UNCHANGED <<blocks, states, stage, overridden, spec_override, block_number, state_base_block_number, is_pending, replayed, transaction_index>>

\* An RPC call that fails, an unknown transaction or block, an error of the
\* block executor: the command ends without a result.
Fails ==
    /\ stage' = "failed"
    /\ UNCHANGED <<blocks, states, known, overridden, spec_override, block_number, state_base_block_number, is_pending, replayed, transaction_index>>

RpcFails == stage \in {"fetch", "latest", "fork", "preceding"} /\ Fails

NotFound == stage = "fetch" /\ ~known /\ Fails

\* What the command line overrides is settled with the first call.
FetchTarget ==
    /\ stage = "fetch" /\ known
    /\ overridden' \in BOOLEAN /\ spec_override' \in BOOLEAN
    /\ IF Target \in Mined
       THEN /\ block_number' = BlockOf(Target) /\ state_base_block_number' = block_number' - 1
            /\ is_pending' = FALSE /\ stage' = "fork"
       ELSE /\ is_pending' = TRUE /\ stage' = "latest"
            /\ UNCHANGED <<block_number, state_base_block_number>>
    /\ UNCHANGED <<blocks, states, known, replayed, transaction_index>>

\* A pending transaction runs on the state and in the environment of the latest
\* block.  By now it may be in that block.
FetchLatest ==
    /\ stage = "latest"
    /\ block_number' = Latest /\ state_base_block_number' = Latest
    /\ stage' = "fork"
    /\ UNCHANGED <<blocks, states, known, overridden, spec_override, is_pending, replayed, transaction_index>>

preceding_transactions ==
    IF is_pending THEN <<>>
    ELSE LET block == blocks[block_number]
         IN SubSeq(block, 1, (CHOOSE i \in DOMAIN block : block[i] = Target) - 1)

\* The spec the block executor is created with: one for everything it runs.  It does
\* not look at the spec its hardforks give the block, in a build with test-utils.
executor_spec == IF spec_override THEN "override" ELSE "of the block"

\* The forked database, and the pre-execution changes of the block executor.
Fork ==
    /\ stage = "fork"
    /\ replayed' = Append(states[state_base_block_number],
                          Entry("pre-execution changes", block_number, FALSE, executor_spec))
    /\ transaction_index' = 0
    /\ stage' = "preceding"
    /\ UNCHANGED <<blocks, states, known, overridden, spec_override, block_number, state_base_block_number, is_pending>>

Mut_Run_overridden(tx) == Entry(tx, block_number, overridden, executor_spec)

Run(tx) == Entry(tx, block_number, tx = Target /\ overridden, executor_spec)

NextTx == Append(preceding_transactions, Target)[transaction_index + 1]

\* A transaction that was applied before has a stale nonce, which is an error of
\* the block executor.
StaleNonce == stage = "preceding" /\ AlreadyApplied(NextTx) /\ Fails

ReplayPreceding ==
    /\ stage = "preceding" /\ NextTx # Target /\ ~AlreadyApplied(NextTx)
    /\ replayed' = Append(replayed, Run(NextTx))
    /\ transaction_index' = transaction_index + 1
    /\ UNCHANGED <<blocks, states, known, stage, overridden, spec_override, block_number, state_base_block_number, is_pending>>

ReplayTarget ==
    /\ stage = "preceding" /\ NextTx = Target /\ ~AlreadyApplied(Target)
    /\ replayed' = Append(replayed, Run(Target))
    /\ stage' = "done"
    /\ UNCHANGED <<blocks, states, known, overridden, spec_override, block_number, state_base_block_number, is_pending, transaction_index>>

ReplayInit ==
    /\ blocks = <<<<>>>> /\ states = <<Block(1, <<>>)>>
    /\ known = FALSE
    /\ stage = "fetch" /\ overridden = FALSE /\ spec_override = FALSE
    /\ block_number = 0 /\ state_base_block_number = 0 /\ is_pending = FALSE
    /\ replayed = <<>> /\ transaction_index = 0

ReplayNext ==
    \/ Mine \/ Submit \/ RpcFails \/ NotFound
    \/ FetchTarget \/ FetchLatest \/ Fork \/ StaleNonce \/ ReplayPreceding \/ ReplayTarget

\* What was applied, had it run under the spec of the block
OfTheBlock(applied) == [i \in DOMAIN applied |-> [applied[i] EXCEPT !.spec = "of the block"]]

\* A result is that of the chain, however the chain grew while it was asked: the target
\* ran once, the overrides of the transaction changed nothing but the target, the
\* override of the spec everything the replay ran and nothing of the state it began
\* with, and a target that was in a block ran, with its index, after what the chain has
\* at that place, but for the spec.
ReplayIsFaithful ==
    stage = "done" =>
        /\ \A i \in DOMAIN replayed : replayed[i].tx = Target <=> i = Len(replayed)
        /\ \A i \in DOMAIN replayed : i < Len(replayed) => ~replayed[i].overridden
        /\ \A i \in DOMAIN replayed :
              replayed[i].spec = "override" <=> spec_override /\ i > Len(states[state_base_block_number])
        /\ ~is_pending =>
              /\ blocks[block_number][transaction_index + 1] = Target
              /\ IsPrefix(OfTheBlock(Front(replayed)), states[block_number])
=============================================================================
