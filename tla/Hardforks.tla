----------------------------- MODULE Hardforks -----------------------------
(***************************************************************************)
(* The hardforks of MegaETH (block/hardfork.rs), numbered in the order in  *)
(* which the enum declares them.  A schedule says from which timestamp on  *)
(* a fork is active; a fork that is not configured is Never active.        *)
(***************************************************************************)
EXTENDS SpecId, Integers

CONSTANT MaxTime   \* the last timestamp of a chain
ASSUME TimeAssumption == MaxTime \in Nat

NoFork   == 0
MiniRex  == 1
MiniRex1 == 2
MiniRex2 == 3
Rex      == 4
Rex1     == 5
Rex2     == 6
Rex3     == 7
Rex4     == 8

MegaHardfork == MiniRex .. Rex4
Never == MaxTime + 1
Schedules == [MegaHardfork -> 0 .. Never]

\* MiniRex1 and MiniRex2 went back to specs released before.
fork_spec_id(fork) ==
    CASE fork \in {NoFork, MiniRex1} -> EQUIVALENCE
      [] fork \in {MiniRex, MiniRex2} -> MINI_REX
      [] fork = Rex -> REX [] fork = Rex1 -> REX1 [] fork = Rex2 -> REX2
      [] fork = Rex3 -> REX3 [] fork = Rex4 -> REX4

active(schedule, fork, time) == schedule[fork] <= time

\* The latest active fork, in the order of the forks and not of their times.
hardfork(schedule, time) ==
    LET on == {fork \in MegaHardfork : active(schedule, fork, time)}
    IN  IF on = {} THEN NoFork ELSE CHOOSE f \in on : \A g \in on : g <= f

Mut_spec_id_by_time(schedule, time) ==
    LET on == {fork \in MegaHardfork : active(schedule, fork, time)}
    IN  IF on = {} THEN EQUIVALENCE
        ELSE fork_spec_id(CHOOSE f \in on : \A g \in on : schedule[g] <= schedule[f])

spec_id(schedule, time) == fork_spec_id(hardfork(schedule, time))

\* Block 1 is the first block of everything that is active in it: the genesis
\* block was not executed.
first_hardfork_block(schedule, fork, parent_time, number, time) ==
    active(schedule, fork, time) /\ (number = 1 \/ ~active(schedule, fork, parent_time))

\* The schedules a chain may publish: no fork before its predecessor.
InOrder(schedule) == \A f, g \in MegaHardfork : f < g => schedule[f] <= schedule[g]
=============================================================================
