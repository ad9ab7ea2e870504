---------------------------- MODULE BlockCapacity ----------------------------
(***************************************************************************)
(* What the limits of a block promise.  Hard resources are reserved before *)
(* a transaction is included, by what it declares, and never run over.     *)
(* Soft resources are only known afterwards: a transaction is included     *)
(* while there is some of each left, so that the last one may run over.    *)
(***************************************************************************)
EXTENDS Integers

CONSTANTS
  Hard, Soft,   \* the resources, two disjoint sets
  Cap,          \* the block's capacity of each
  Entries       \* what may be included: [demand : [Hard -> Nat], use : [Hard \cup Soft -> Nat]]

VARIABLE total   \* what the included transactions used

Init == total = [r \in Hard \cup Soft |-> 0]

Include(e) ==
  /\ \A r \in Hard : e.use[r] <= e.demand[r] /\ total[r] + e.demand[r] <= Cap[r]
  /\ \A r \in Soft : total[r] < Cap[r]
  /\ total' = [r \in Hard \cup Soft |-> total[r] + e.use[r]]

Next == \E e \in Entries : Include(e)

Spec == Init /\ [][Next]_total
=============================================================================
