-------------------------- MODULE MCVolatileAccess --------------------------
(***************************************************************************)
(* Small instances of VolatileAccess for TLC.                              *)
(***************************************************************************)
EXTENDS VolatileAccess

\* cheap and expensive opcodes, so that a limit is met exactly and overshot
MCOpCosts == {1, 2}
=============================================================================
