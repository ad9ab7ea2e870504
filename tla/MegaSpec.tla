------------------------------ MODULE MegaSpec ------------------------------
(* The version an EVM was created with, for models of one EVM. *)
EXTENDS SpecId

CONSTANT SPEC    \* the version the modelled EVM runs

ASSUME SpecAssumption == SPEC \in MegaSpecId

\* MegaSpecId::is_enabled
Enabled(other) == other <= SPEC
=============================================================================
