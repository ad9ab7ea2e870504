------------------------- MODULE MCAdditionalLimit --------------------------
(* Small instances of AdditionalLimit for TLC. *)
EXTENDS AdditionalLimit

MCComputeGrowth == {"ComputeGas", "StateGrowth"}
MCAll           == {"DataSize", "KVUpdate", "ComputeGas", "StateGrowth"}
MCLimits        == [k \in Kinds |-> CASE k = "ComputeGas" -> 7 [] k = "DataSize" -> 4
                                      [] OTHER -> 2]
MCOneSlot       == [s \in {"s"} |-> 0]
MCTwoSlots      == [s \in {"s", "t"} |-> IF s = "s" THEN 0 ELSE 1]
=============================================================================
