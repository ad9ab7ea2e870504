------------------------------- MODULE SpecId -------------------------------
(***************************************************************************)
(* The EVM versions of MegaETH (evm/spec.rs).  A version is the            *)
(* discriminant of the enum MegaSpecId; the variants are declared in order *)
(* of activation, so a feature is enabled in every later version.          *)
(***************************************************************************)
EXTENDS Naturals

EQUIVALENCE == 0
MINI_REX    == 1
REX         == 2
REX1        == 3
REX2        == 4
REX3        == 5
REX4        == 6

MegaSpecId == EQUIVALENCE .. REX4

is_enabled(spec, other) == other <= spec
=============================================================================
