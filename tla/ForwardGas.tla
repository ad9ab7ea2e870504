----------------------------- MODULE ForwardGas -----------------------------
(***************************************************************************)
(* How the gas of a caller is split when it makes a call or creates a      *)
(* contract: first by the instruction of revm, then by the 98/100 rule of  *)
(* wrap_gas_cap (forward_gas_ext of evm/instructions.rs).                  *)
(***************************************************************************)
EXTENDS Integers

CALL_STIPEND == 2300

Lesser(a, b) == IF a <= b THEN a ELSE b

\* The instruction of revm, which is not in this repository: at most 63/64 of
\* the gas is forwarded, and the stipend of a transfer comes on top.
new_frame(gas, request, stipend) ==
    LET forwarded == Lesser(request, gas - gas \div 64)
    IN [remaining |-> gas - forwarded, gas_limit |-> forwarded + stipend]

\* The gas before the split is recovered from what revm left on both sides.
wrap_gas_cap(frame, stipend) ==
    LET forwarded == frame.gas_limit - stipend
        left      == frame.remaining + forwarded
        capped    == Lesser(forwarded, left - (left * 2) \div 100)
    IN [remaining |-> frame.remaining + (forwarded - capped), gas_limit |-> capped + stipend]

\* A caller that has gas and asks for request to be forwarded.  CREATE has no
\* stipend and asks for everything.
forward(gas, request, has_transfer) ==
    LET stipend == IF has_transfer THEN CALL_STIPEND ELSE 0
    IN wrap_gas_cap(new_frame(gas, request, stipend), stipend)

\* No gas is made or lost but for the stipend of a transfer; the caller keeps a
\* fiftieth of what it had, and the callee gets what was asked for if that is
\* within the 98 in 100.
SplitIsFair(gas, request, has_transfer) ==
    LET frame   == forward(gas, request, has_transfer)
        stipend == IF has_transfer THEN CALL_STIPEND ELSE 0
    IN /\ frame.remaining + frame.gas_limit = gas + stipend
       /\ frame.remaining >= gas \div 50
       /\ frame.gas_limit >= stipend
       /\ frame.gas_limit - stipend = Lesser(request, gas - gas \div 50)
=============================================================================
