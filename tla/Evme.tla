-------------------------------- MODULE Evme --------------------------------
(***************************************************************************)
(* mega-evme: a session of one of its commands (cmd.rs).  Invocations of   *)
(* the same command meet in the files they write and read; the commands    *)
(* share nothing.                                                          *)
(***************************************************************************)
EXTENDS EvmeState, T8n, Replay

VARIABLE command

vars == <<command, stateVars, t8nVars, replayVars>>

Init == command \in {"run", "t8n", "replay"} /\ StateInit /\ T8nInit /\ ReplayInit

RunOrTx == command = "run" /\ StateNext /\ UNCHANGED <<command, t8nVars, replayVars>>

Transition == command = "t8n" /\ T8nNext /\ UNCHANGED <<command, stateVars, replayVars>>

ReplayTransaction == command = "replay" /\ ReplayNext /\ UNCHANGED <<command, stateVars, t8nVars>>

Next == RunOrTx \/ Transition \/ ReplayTransaction

Spec == Init /\ [][Next]_vars
=============================================================================
