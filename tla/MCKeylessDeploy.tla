-------------------------- MODULE MCKeylessDeploy ---------------------------
(* Small instances of KeylessDeploy for TLC. *)
EXTENDS KeylessDeploy

\* The target may be loaded beforehand, the signer only as the sender.
MCTargetOnly == {{}, {"target"}}
MCAnyList    == SUBSET Address
=============================================================================
