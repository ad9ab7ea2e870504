----------------------------- MODULE FrameLimit -----------------------------
(***************************************************************************)
(* FrameLimitTracker (limit/frame_limit.rs): one usage entry for the       *)
(* transaction and one per call frame.  A frame's budget is a share of     *)
(* what its caller has left; usage of a frame that fails is dropped unless *)
(* it is persistent.  A tracker is a record [tx, frames].                  *)
(***************************************************************************)
EXTENDS Integers, Sequences

\* constants::rex4
FRAME_LIMIT_NUMERATOR   == 98
FRAME_LIMIT_DENOMINATOR == 100

SatSub(a, b) == IF a > b THEN a - b ELSE 0    \* u64::saturating_sub

\* FrameLimitEntry; updated is CallFrameInfo::target_updated
Entry == [limit : Nat, persistent : Nat, discardable : Nat, refund : Nat,
          updated : BOOLEAN]

Tracker == [tx : Entry, frames : Seq(Entry)]

NewEntry(limit, updated) ==
  [limit |-> limit, persistent |-> 0, discardable |-> 0, refund |-> 0,
   updated |-> updated]

used(e)      == e.persistent + e.discardable
net(e)       == SatSub(used(e), e.refund)
remaining(e) == SatSub(e.limit, net(e))

\* FrameLimitTracker::new and reset
new_tracker(tx_limit) == [tx |-> NewEntry(tx_limit, FALSE), frames |-> <<>>]

has_active_frame(t) == t.frames # <<>>
top(t)              == t.frames[Len(t.frames)]

current_frame_remaining(t) ==
  IF has_active_frame(t) THEN remaining(top(t)) ELSE remaining(t.tx)

Mut_max_forward_limit_of_limit(t) ==
  IF has_active_frame(t)
  THEN (top(t).limit * FRAME_LIMIT_NUMERATOR) \div FRAME_LIMIT_DENOMINATOR
  ELSE t.tx.limit

\* The first frame gets the whole transaction limit.
max_forward_limit(t) ==
  IF has_active_frame(t)
  THEN (remaining(top(t)) * FRAME_LIMIT_NUMERATOR) \div FRAME_LIMIT_DENOMINATOR
  ELSE t.tx.limit

push_frame_with_limit(t, limit, updated) ==
  [t EXCEPT !.frames = Append(@, NewEntry(limit, updated))]

push_frame(t, updated) == push_frame_with_limit(t, max_forward_limit(t), updated)

Mut_merge_keeps_refund(parent, child, success) ==
  [parent EXCEPT !.persistent  = @ + child.persistent,
                 !.discardable = @ + IF success THEN child.discardable ELSE 0,
                 !.refund      = @ + child.refund]

\* What a popped frame leaves in the entry of its caller.
merge(parent, child, success) ==
  [parent EXCEPT !.persistent  = @ + child.persistent,
                 !.discardable = @ + IF success THEN child.discardable ELSE 0,
                 !.refund      = @ + IF success THEN child.refund ELSE 0]

\* Popping an empty stack does nothing.
pop_frame(t, success) ==
  LET n    == Len(t.frames)
      rest == SubSeq(t.frames, 1, n - 1)
  IN CASE n = 0 -> t
       [] n = 1 -> [tx |-> merge(t.tx, top(t), success), frames |-> <<>>]
       [] n > 1 -> [t EXCEPT !.frames =
                      [rest EXCEPT ![n - 1] = merge(@, top(t), success)]]

exceeds_current_frame_limit(t) == has_active_frame(t) /\ net(top(t)) > top(t).limit

\* Totals over the transaction entry and the live frames.
total(t, amount(_)) ==
  LET sum[i \in 0 .. Len(t.frames)] ==
        IF i = 0 THEN amount(t.tx) ELSE sum[i - 1] + amount(t.frames[i])
  IN sum[Len(t.frames)]

refund_of(e) == e.refund

net_usage(t) == SatSub(total(t, used), total(t, refund_of))

\* frame_mut: records are made in the top frame, and dropped without one
on_top(t, change(_)) ==
  IF has_active_frame(t)
  THEN [t EXCEPT !.frames[Len(t.frames)] = change(@)] ELSE t

record_discardable(t, n) == on_top(t, LAMBDA e : [e EXCEPT !.discardable = @ + n])
record_refund(t, n)      == on_top(t, LAMBDA e : [e EXCEPT !.refund = @ + n])

\* ComputeGasTracker::record_gas_used falls back to the transaction entry
record_persistent(t, n) ==
  IF has_active_frame(t)
  THEN on_top(t, LAMBDA e : [e EXCEPT !.persistent = @ + n])
  ELSE [t EXCEPT !.tx.persistent = @ + n]
=============================================================================
