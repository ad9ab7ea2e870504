---------------------------- MODULE PlainJournal ----------------------------
(***************************************************************************)
(* What a program sees of accounts and storage: the values that were       *)
(* written, which accounts exist and what is warm, undone by a frame that  *)
(* fails and kept by a transaction that succeeds.  This is the contract of *)
(* the journal without any inspection; StorageGas implements it.           *)
(***************************************************************************)
EXTENDS Naturals, Sequences

CONSTANTS
    Accounts, Keys, Values,
    Vague  \* the accounts of which it is left open whether they are warm

VARIABLES
    code,       \* of the accounts; the code of a delegating account names another
    value,      \* of the slots
    exists,     \* the accounts that are not empty
    warm,       \* the accounts and slots that are warm
    cold,       \* whether the last access paid for something cold
    checkpoints \* what a failing frame goes back to, one for each frame

vars == <<code, value, exists, warm, cold, checkpoints>>

Slots == Accounts \X Keys
View == [value |-> value, exists |-> exists, warm |-> warm]

Init ==
    /\ code \in [Accounts -> {"none", "contract"} \union Accounts]
    /\ value \in [Slots -> Values]
    /\ exists \in SUBSET Accounts
    /\ warm = {} /\ cold = FALSE
    /\ checkpoints = <<>>

\* An access to an account may be paid for as a cold one, and what it makes warm
MayCost(to) == IF to \in Vague THEN BOOLEAN ELSE {to \notin warm}
Warmed(accounts) == warm \union (accounts \ Vague)

\* A call makes the callee warm, and the account it delegates to; that stays
\* when the frame fails.  The frame may bring the callee into existence.
Enter(to, created) ==
    LET now_warm == Warmed({to} \union ({code[to]} \intersect Accounts))
    IN /\ checkpoints' = Append(checkpoints, [View EXCEPT !.warm = now_warm])
       /\ warm' = now_warm /\ cold' \in MayCost(to)
       /\ exists' = exists \union created
       /\ UNCHANGED <<code, value>>

\* What is given to an account by a frame that ends makes it warm, too.
Give(to, created) ==
    /\ checkpoints # <<>>
    /\ warm' = Warmed({to}) /\ cold' \in MayCost(to)
    /\ exists' = exists \union created
    /\ UNCHANGED <<code, value, checkpoints>>

Read(slot) ==
    /\ checkpoints # <<>>
    /\ warm' = warm \union {slot} /\ cold' = (slot \notin warm)
    /\ UNCHANGED <<code, value, exists, checkpoints>>

Write(slot, v) ==
    /\ checkpoints # <<>>
    /\ value' = [value EXCEPT ![slot] = v]
    /\ warm' = warm \union {slot} /\ cold' = (slot \notin warm)
    /\ UNCHANGED <<code, exists, checkpoints>>

\* Whatever else is computed or paid.
Other == cold' = FALSE /\ UNCHANGED <<code, value, exists, warm, checkpoints>>

\* The last frame ends the transaction, and nothing else stays warm.
Leave(view) ==
    LET depth == Len(checkpoints)
    IN /\ depth > 0
       /\ value' = view.value /\ exists' = view.exists
       /\ warm' = (IF depth = 1 THEN {} ELSE view.warm) /\ cold' = FALSE
       /\ checkpoints' = SubSeq(checkpoints, 1, depth - 1)
       /\ UNCHANGED code

Succeed == checkpoints # <<>> /\ Leave(View)
Fail == checkpoints # <<>> /\ Leave(checkpoints[Len(checkpoints)])

\* An error of the environment drops the transaction.
Abort ==
    /\ checkpoints # <<>>
    /\ value' = checkpoints[1].value /\ exists' = checkpoints[1].exists
    /\ warm' = {} /\ cold' = FALSE /\ checkpoints' = <<>>
    /\ UNCHANGED code

Next ==
    \/ \E to \in Accounts : \E created \in SUBSET {to} : Enter(to, created) \/ Give(to, created)
    \/ \E slot \in Slots : Read(slot)
    \/ \E slot \in Slots, v \in Values : Write(slot, v)
    \/ Other \/ Succeed \/ Fail \/ Abort

Spec == Init /\ [][Next]_vars
=============================================================================
