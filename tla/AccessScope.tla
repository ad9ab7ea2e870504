---------------------------- MODULE AccessScope -----------------------------
(***************************************************************************)
(* What MegaAccessControl promises (Rex4): every call frame is either      *)
(* restricted or free.  A new frame inherits the status of its caller,     *)
(* a frame may restrict itself, it may free itself only when its caller is *)
(* free, and the status ends with the frame.  Volatile data is recorded as *)
(* accessed by free frames only.                                           *)
(*                                                                         *)
(* scope[i] is the status of the i-th frame of the call stack; accessed is *)
(* the set of volatile data classes the transaction has touched.           *)
(***************************************************************************)
EXTENDS Naturals, Sequences

CONSTANT Class   \* classes of volatile data

VARIABLES scope, accessed

vars == <<scope, accessed>>

\* the status a frame called from the top of the stack inherits
Inherited == scope # <<>> /\ scope[Len(scope)]

\* whether the caller of the top frame is restricted
CallerRestricted == Len(scope) > 1 /\ scope[Len(scope) - 1]

Init == scope = <<>> /\ accessed = {}

\* A transaction starts: its sender or its recipient may be volatile itself.
Begin == /\ scope = <<>>
         /\ scope' = <<>>
         /\ accessed' \in SUBSET Class

Enter == /\ scope' = Append(scope, Inherited)
         /\ UNCHANGED accessed

Leave == /\ scope # <<>>
         /\ scope' = SubSeq(scope, 1, Len(scope) - 1)
         /\ UNCHANGED accessed

Restrict == /\ scope # <<>>
            /\ scope' = [scope EXCEPT ![Len(scope)] = TRUE]
            /\ UNCHANGED accessed

Free == /\ scope # <<>>
        /\ ~CallerRestricted
        /\ scope' = [scope EXCEPT ![Len(scope)] = FALSE]
        /\ UNCHANGED accessed

Read == /\ scope # <<>>
        /\ ~scope[Len(scope)]
        /\ \E c \in Class : accessed' = accessed \cup {c}
        /\ UNCHANGED scope

Next == Begin \/ Enter \/ Leave \/ Restrict \/ Free \/ Read

Spec == Init /\ [][Next]_vars
=============================================================================
