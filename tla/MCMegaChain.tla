---------------------------- MODULE MCMegaChain ----------------------------
(* All schedules in order, and some that are not. *)
EXTENDS MegaChain

Gapped == {[f \in MegaHardfork |-> IF f \in S THEN 1 ELSE Never] : S \in {{MiniRex, Rex4}, {Rex4}, {MiniRex1}, {Rex2, Rex3}}}
MCConfigured == {s \in Schedules : InOrder(s)} \cup Gapped
=============================================================================
