----------------------- MODULE AdditionalLimitProofs ------------------------
(***************************************************************************)
(* AdditionalLimit for every set of kinds, limits and costs, and any depth *)
(* of calls, in six parts.                                                 *)
(*                                                                         *)
(* What the operations of a FrameLimitTracker do to its totals, for every  *)
(* number of frames.  The totals of FrameLimit are recursive functions;    *)
(* the facts about them are proved by induction on the naturals, in the    *)
(* form of the least element of a set of counterexamples.                  *)
(*                                                                         *)
(* What each operation of AdditionalLimit does, as relations between the   *)
(* record before and after it (Records, Enters, Pops, Returned): the later *)
(* proofs use these, never the definitions.                                *)
(*                                                                         *)
(* The inductive invariant Base: types, the alignment of the trackers'     *)
(* frame stacks with the frames of the EVM, and the shape of the frame     *)
(* loop (which results and frames there are in which phase), without which *)
(* the alignment is not inductive: FrameReturn pops a frame of the EVM     *)
(* exactly when the result has run.                                        *)
(*                                                                         *)
(* The flag.  Flags: when a frame executes nothing is exceeded.  Causes:   *)
(* the flag is up to date in the phases that rely on it and has a cause    *)
(* that lasts, which needs that compute gas is never given back (Plain).   *)
(*                                                                         *)
(* The budgets.  Nests: the budget of a frame is within what its caller    *)
(* has left, and the first frame has that of the transaction.              *)
(*                                                                         *)
(* The rest of the EVM.  Reverts: a result that will not be ok has its     *)
(* checkpoint for a journal, unless it failed behind revm's commit.        *)
(* Grows: up to each frame the tracker has counted the growth of the       *)
(* checkpoint the frame began with, unless the journal held growth that is *)
(* not counted.  Conserved: the gas left in the frames and in the result   *)
(* on its way back, the gas rescued, the gas paid and the gas of dropped   *)
(* calls make up the gas limit.                                            *)
(***************************************************************************)
EXTENDS AdditionalLimit, FiniteSetTheorems, WellFoundedInduction, TLAPS

-----------------------------------------------------------------------------
(* The totals of a tracker *)

\* Every set of naturals that is not empty has a least element.
LEMMA LeastNat ==
  ASSUME NEW T \in SUBSET Nat, T # {}
  PROVE \E n \in T : \A m \in T : n <= m
<1>1. PICK x \in T : \A y \in T : ~(<<y, x>> \in OpToRel(<, Nat))
  BY NatLessThanWellFounded, WFMin, Zenon
<1>2. \A y \in T : ~ (y < x)
  BY <1>1, Zenon DEF OpToRel
<1> QED BY <1>2

\* Induction on the naturals, with a set in place of a predicate.
LEMMA Induct ==
  ASSUME NEW T, 0 \in T, \A n \in Nat : n \in T => n + 1 \in T
  PROVE  Nat \subseteq T
<1> SUFFICES ASSUME Nat \ T # {} PROVE FALSE
  OBVIOUS
<1>1. PICK n \in Nat \ T : \A m \in Nat \ T : n <= m
  BY LeastNat
<1>2. n # 0 /\ n - 1 \in Nat /\ n - 1 \in T
  BY <1>1
<1> QED BY <1>2

\* The functions that add up a[0], a[1], ..., a[n].
Running(n, a) ==
  {g \in [0 .. n -> Nat] : g[0] = a[0] /\ \A i \in 1 .. n : g[i] = g[i - 1] + a[i]}

\* There is one for every n.
LEMMA RunningExists ==
  ASSUME NEW N \in Nat, NEW a \in [0 .. N -> Nat]
  PROVE  \E g : g \in Running(N, a)
<1> DEFINE T == {n \in Nat : n <= N => \E g : g \in Running(n, a)}
<1>1. 0 \in T
  <2>1. [i \in 0..0 |-> a[0]] \in Running(0, a)
    BY DEF Running
  <2>2. \E g : g \in Running(0, a)
    BY <2>1
  <2> QED BY <2>2
<1>2. ASSUME NEW n \in Nat, n \in T PROVE n + 1 \in T
  <2>0. ASSUME n + 1 <= N PROVE \E g : g \in Running(n + 1, a)
    <3>1. PICK g : g \in Running(n, a)
      BY <1>2, <2>0
    <3>2. g \in [0 .. n -> Nat] /\ g[0] = a[0] /\ \A i \in 1 .. n : g[i] = g[i - 1] + a[i]
      BY <3>1 DEF Running
    <3> DEFINE h == [i \in 0 .. n+1 |-> IF i = n + 1 THEN g[n] + a[n+1] ELSE g[i]]
    <3>3. h \in [0 .. n+1 -> Nat]
      BY <2>0, <3>2
    <3>4. h[0] = a[0] /\ \A i \in 1 .. n+1 : h[i] = h[i-1] + a[i]
      BY <3>2
    <3> HIDE DEF h
    <3>5. h \in Running(n + 1, a)
      BY <3>3, <3>4 DEF Running
    <3> QED BY <3>5
  <2> QED BY <2>0
<1>3. Nat \subseteq T
  <2> HIDE DEF T
  <2> QED BY <1>1, <1>2, Induct
<1>4. N \in T
  BY <1>3
<1> QED BY <1>4

\* g goes from one sum to the next by adding an element of a.
Adds(N, g, a) == \A i \in 1 .. N : g[i] = g[i - 1] + a[i]

\* Two functions that start alike and add the same elements are equal.
LEMMA RunningAgree ==
  ASSUME NEW N \in Nat, NEW g, NEW h, NEW a,
         g[0] = h[0], Adds(N, g, a), Adds(N, h, a)
  PROVE  \A i \in 0 .. N : g[i] = h[i]
<1> USE DEF Adds
<1> DEFINE T == {n \in Nat : n <= N => g[n] = h[n]}
<1>1. 0 \in T
  OBVIOUS
<1>2. ASSUME NEW n \in Nat, n \in T PROVE n + 1 \in T
  <2> SUFFICES ASSUME n + 1 <= N PROVE g[n+1] = h[n+1]
    OBVIOUS
  <2>1. n + 1 \in 1 .. N /\ (n + 1) - 1 = n
    OBVIOUS
  <2>2. g[n] = h[n]
    BY <1>2
  <2> QED BY <2>1, <2>2
<1>3. Nat \subseteq T
  <2> HIDE DEF T
  <2> QED BY <1>1, <1>2, Induct
<1> QED BY <1>3

\* Usage and refund of the transaction entry (0) and of each frame
UsedOf(t)   == [i \in 0 .. Len(t.frames) |-> IF i = 0 THEN used(t.tx) ELSE used(t.frames[i])]
RefundOf(t) == [i \in 0 .. Len(t.frames) |-> IF i = 0 THEN t.tx.refund ELSE t.frames[i].refund]

\* Their running sums: what the transaction and its first i frames used
UsedUpTo(t) == CHOOSE g : g \in Running(Len(t.frames), UsedOf(t))
RefundUpTo(t) == CHOOSE g : g \in Running(Len(t.frames), RefundOf(t))

\* The parts of a tracker have their types.
LEMMA TrackerTyped ==
  ASSUME NEW t \in Tracker
  PROVE  /\ Len(t.frames) \in Nat
         /\ t.tx \in Entry /\ used(t.tx) \in Nat /\ t.tx.refund \in Nat
         /\ t.frames \in Seq(Entry)
         /\ \A i \in 1 .. Len(t.frames) :
              t.frames[i] \in Entry /\ used(t.frames[i]) \in Nat /\ t.frames[i].refund \in Nat
<1>1. t.tx \in Entry /\ t.frames \in Seq(Entry)
  BY DEF Tracker
<1>2. \A e \in Entry : used(e) \in Nat /\ e.refund \in Nat
  BY DEF Entry, used
<1>3. Len(t.frames) \in Nat /\ \A i \in 1 .. Len(t.frames) : t.frames[i] \in Entry
  BY <1>1
<1> QED BY <1>1, <1>2, <1>3

\* The running sums of the usage add it up frame by frame, and total is the last one.
LEMMA PrefixUsed ==
  ASSUME NEW t \in Tracker
  PROVE  /\ UsedUpTo(t) \in [0 .. Len(t.frames) -> Nat]
         /\ UsedUpTo(t)[0] = used(t.tx)
         /\ \A i \in 1 .. Len(t.frames) : UsedUpTo(t)[i] = UsedUpTo(t)[i - 1] + used(t.frames[i])
         /\ total(t, used) = UsedUpTo(t)[Len(t.frames)]
<1> DEFINE N == Len(t.frames)
<1>1. N \in Nat /\ UsedOf(t) \in [0 .. N -> Nat]
  <2> HIDE DEF N
  <2>1. N \in Nat /\ used(t.tx) \in Nat /\ \A i \in 1 .. N : used(t.frames[i]) \in Nat
    BY TrackerTyped DEF N
  <2>2. UsedOf(t) = [i \in 0 .. N |-> IF i = 0 THEN used(t.tx) ELSE used(t.frames[i])]
    BY DEF UsedOf, N
  <2>3. \A i \in 0 .. N : (IF i = 0 THEN used(t.tx) ELSE used(t.frames[i])) \in Nat
    BY <2>1
  <2> QED BY <2>1, <2>2, <2>3
<1>a. UsedOf(t)[0] = used(t.tx) /\ \A i \in 1 .. N : UsedOf(t)[i] = used(t.frames[i])
  BY <1>1 DEF UsedOf
<1>2. UsedUpTo(t) \in Running(N, UsedOf(t))
  BY <1>1, RunningExists DEF UsedUpTo
<1> HIDE DEF N
<1>3. /\ UsedUpTo(t) \in [0 .. N -> Nat]
      /\ UsedUpTo(t)[0] = used(t.tx)
      /\ \A i \in 1 .. N : UsedUpTo(t)[i] = UsedUpTo(t)[i - 1] + used(t.frames[i])
  BY <1>a, <1>2 DEF Running
<1> DEFINE F(g) == [i \in 0 .. N |-> IF i = 0 THEN used(t.tx) ELSE g[i - 1] + used(t.frames[i])]
<1>4. UsedUpTo(t) = F(UsedUpTo(t))
  <2> DEFINE U == UsedUpTo(t)
  <2>1. /\ U = [i \in 0 .. N |-> U[i]] /\ U[0] = used(t.tx) /\ N \in Nat
        /\ \A i \in 1 .. N : U[i] = U[i - 1] + used(t.frames[i])
    BY <1>1, <1>3
  <2> HIDE DEF U
  <2>2. ASSUME NEW i \in 0 .. N
        PROVE  U[i] = IF i = 0 THEN used(t.tx) ELSE U[i - 1] + used(t.frames[i])
    <3>1. CASE i = 0
      BY <2>1, <3>1
    <3>2. CASE i # 0
      <4>1. i \in 1 .. N
        BY <2>1, <3>2
      <4> QED BY <2>1, <3>2, <4>1
    <3> QED BY <3>1, <3>2
  <2>3. [i \in 0 .. N |-> U[i]] = F(U)
    BY <2>2
  <2> QED BY <2>1, <2>3, Zenon DEF U
<1> DEFINE s == CHOOSE g : g = F(g)
<1>5. s = F(s)
  <2> HIDE DEF F
  <2> QED BY <1>4
<1> HIDE DEF s
<1>6. s[0] = used(t.tx) /\ \A i \in 1 .. N : s[i] = s[i - 1] + used(t.frames[i])
  <2>1. s[0] = F(s)[0] /\ \A i \in 1 .. N : s[i] = F(s)[i]
    BY <1>5
  <2>2. F(s)[0] = used(t.tx) /\ \A i \in 1 .. N : F(s)[i] = s[i - 1] + used(t.frames[i])
    BY <1>1
  <2> HIDE DEF F
  <2> QED BY <2>1, <2>2
<1>7. \A i \in 0 .. N : UsedUpTo(t)[i] = s[i]
  <2>1. UsedUpTo(t)[0] = s[0]
    BY <1>3, <1>6
  <2>2. Adds(N, UsedUpTo(t), UsedOf(t))
    BY <1>3, <1>a DEF Adds
  <2>3. Adds(N, s, UsedOf(t))
    BY <1>6, <1>a DEF Adds
  <2> HIDE DEF F
  <2> QED BY <2>1, <2>2, <2>3, <1>1, RunningAgree
<1>8. total(t, used) = s[N]
  BY DEF total, s, N
<1>9. N \in 0 .. N
  BY <1>1
<1> HIDE DEF F
<1>10. total(t, used) = UsedUpTo(t)[N]
  BY <1>7, <1>8, <1>9
<1> QED BY <1>3, <1>10 DEF N

\* The same for the refunds.
LEMMA PrefixRefund ==
  ASSUME NEW t \in Tracker
  PROVE  /\ RefundUpTo(t) \in [0 .. Len(t.frames) -> Nat]
         /\ RefundUpTo(t)[0] = t.tx.refund
         /\ \A i \in 1 .. Len(t.frames) : RefundUpTo(t)[i] = RefundUpTo(t)[i - 1] + t.frames[i].refund
         /\ total(t, refund_of) = RefundUpTo(t)[Len(t.frames)]
<1> DEFINE N == Len(t.frames)
<1>1. N \in Nat /\ RefundOf(t) \in [0 .. N -> Nat]
  <2> HIDE DEF N
  <2>1. N \in Nat /\ t.tx.refund \in Nat /\ \A i \in 1 .. N : t.frames[i].refund \in Nat
    BY TrackerTyped DEF N
  <2>2. RefundOf(t) = [i \in 0 .. N |-> IF i = 0 THEN t.tx.refund ELSE t.frames[i].refund]
    BY DEF RefundOf, N
  <2>3. \A i \in 0 .. N : (IF i = 0 THEN t.tx.refund ELSE t.frames[i].refund) \in Nat
    BY <2>1
  <2> QED BY <2>1, <2>2, <2>3
<1>a. RefundOf(t)[0] = t.tx.refund /\ \A i \in 1 .. N : RefundOf(t)[i] = t.frames[i].refund
  BY <1>1 DEF RefundOf
<1>2. RefundUpTo(t) \in Running(N, RefundOf(t))
  BY <1>1, RunningExists DEF RefundUpTo
<1> HIDE DEF N
<1>3. /\ RefundUpTo(t) \in [0 .. N -> Nat]
      /\ RefundUpTo(t)[0] = t.tx.refund
      /\ \A i \in 1 .. N : RefundUpTo(t)[i] = RefundUpTo(t)[i - 1] + t.frames[i].refund
  BY <1>a, <1>2 DEF Running
<1> DEFINE F(g) == [i \in 0 .. N |-> IF i = 0 THEN t.tx.refund ELSE g[i - 1] + t.frames[i].refund]
<1>4. RefundUpTo(t) = F(RefundUpTo(t))
  BY <1>1, <1>3
<1> DEFINE s == CHOOSE g : g = F(g)
<1>5. s = F(s)
  <2> HIDE DEF F
  <2> QED BY <1>4
<1> HIDE DEF s
<1>6. s[0] = t.tx.refund /\ \A i \in 1 .. N : s[i] = s[i - 1] + t.frames[i].refund
  <2>1. s[0] = F(s)[0] /\ \A i \in 1 .. N : s[i] = F(s)[i]
    BY <1>5
  <2>2. F(s)[0] = t.tx.refund /\ \A i \in 1 .. N : F(s)[i] = s[i - 1] + t.frames[i].refund
    BY <1>1
  <2> HIDE DEF F
  <2> QED BY <2>1, <2>2
<1>7. \A i \in 0 .. N : RefundUpTo(t)[i] = s[i]
  <2>1. RefundUpTo(t)[0] = s[0]
    BY <1>3, <1>6
  <2>2. Adds(N, RefundUpTo(t), RefundOf(t))
    BY <1>3, <1>a DEF Adds
  <2>3. Adds(N, s, RefundOf(t))
    BY <1>6, <1>a DEF Adds
  <2> HIDE DEF F
  <2> QED BY <2>1, <2>2, <2>3, <1>1, RunningAgree
<1>8. total(t, refund_of) = s[N]
  BY DEF total, refund_of, s, N
<1>9. N \in 0 .. N
  BY <1>1
<1> HIDE DEF F
<1>10. total(t, refund_of) = RefundUpTo(t)[N]
  BY <1>7, <1>8, <1>9
<1> QED BY <1>3, <1>10 DEF N

\* A new entry has used nothing.
LEMMA NewEntryFacts ==
  ASSUME NEW l \in Nat, NEW u \in BOOLEAN
  PROVE  /\ NewEntry(l, u) \in Entry
         /\ used(NewEntry(l, u)) = 0 /\ NewEntry(l, u).refund = 0
         /\ NewEntry(l, u).limit = l
BY DEF NewEntry, Entry, used

\* The sums up to frame n depend on the entries up to frame n only.
LEMMA PrefixAgree ==
  ASSUME NEW t \in Tracker, NEW v \in Tracker, NEW n \in 0 .. Len(t.frames),
         n <= Len(v.frames), t.tx = v.tx,
         \A i \in 1 .. n : t.frames[i] = v.frames[i]
  PROVE  \A i \in 0 .. n : UsedUpTo(t)[i] = UsedUpTo(v)[i] /\ RefundUpTo(t)[i] = RefundUpTo(v)[i]
<1>0. n \in Nat /\ Len(t.frames) \in Nat /\ Len(v.frames) \in Nat
  BY TrackerTyped
<1>00. \A i \in 1 .. n : i \in 1 .. Len(t.frames) /\ i \in 1 .. Len(v.frames) /\ i \in 0 .. Len(t.frames) /\ i # 0
  BY <1>0
<1>1. /\ UsedUpTo(t)[0] = UsedUpTo(v)[0]
      /\ \A i \in 1 .. n : UsedOf(t)[i] = used(t.frames[i])
      /\ \A i \in 1 .. n : UsedUpTo(t)[i] = UsedUpTo(t)[i - 1] + used(t.frames[i])
      /\ \A i \in 1 .. n : UsedUpTo(v)[i] = UsedUpTo(v)[i - 1] + used(t.frames[i])
  BY <1>0, <1>00, PrefixUsed DEF UsedOf
<1>2. Adds(n, UsedUpTo(t), UsedOf(t)) /\ Adds(n, UsedUpTo(v), UsedOf(t))
  BY <1>1 DEF Adds
<1>3. \A i \in 0 .. n : UsedUpTo(t)[i] = UsedUpTo(v)[i]
  BY <1>0, <1>1, <1>2, RunningAgree
<1>4. /\ RefundUpTo(t)[0] = RefundUpTo(v)[0]
      /\ \A i \in 1 .. n : RefundOf(t)[i] = t.frames[i].refund
      /\ \A i \in 1 .. n : RefundUpTo(t)[i] = RefundUpTo(t)[i - 1] + t.frames[i].refund
      /\ \A i \in 1 .. n : RefundUpTo(v)[i] = RefundUpTo(v)[i - 1] + t.frames[i].refund
  BY <1>0, <1>00, PrefixRefund DEF RefundOf
<1>5. Adds(n, RefundUpTo(t), RefundOf(t)) /\ Adds(n, RefundUpTo(v), RefundOf(t))
  BY <1>4 DEF Adds
<1>6. \A i \in 0 .. n : RefundUpTo(t)[i] = RefundUpTo(v)[i]
  BY <1>0, <1>4, <1>5, RunningAgree
<1> QED BY <1>3, <1>6

\* A tracker whose stack is replaced.
LEMMA TrackerExcept ==
  ASSUME NEW t \in Tracker, NEW x
  PROVE  [t EXCEPT !.frames = x] = [tx |-> t.tx, frames |-> x]
BY DEF Tracker

\* An addend that grows by p + d makes the sum grow by p + d.
LEMMA SumShift ==
  ASSUME NEW A \in Nat, NEW B \in Nat, NEW x, NEW y, NEW u, NEW p \in Nat, NEW d \in Nat,
         x = A + u, y = A + B, u = B + p + d
  PROVE  x = y + p + d
OBVIOUS

\* A pushed frame is empty, and adds nothing to the sums.
LEMMA PushFacts ==
  ASSUME NEW t \in Tracker, NEW l \in Nat, NEW u \in BOOLEAN
  PROVE  LET v == push_frame_with_limit(t, l, u)
             n == Len(t.frames)
         IN /\ v \in Tracker
            /\ v.tx = t.tx
            /\ Len(v.frames) = n + 1
            /\ \A i \in 1 .. n : v.frames[i] = t.frames[i]
            /\ v.frames[n + 1] = NewEntry(l, u)
            /\ \A i \in 0 .. n : UsedUpTo(v)[i] = UsedUpTo(t)[i] /\ RefundUpTo(v)[i] = RefundUpTo(t)[i]
            /\ UsedUpTo(v)[n + 1] = UsedUpTo(t)[n] /\ RefundUpTo(v)[n + 1] = RefundUpTo(t)[n]
<1> DEFINE v == push_frame_with_limit(t, l, u)
           n == Len(t.frames)
<1>1. /\ v = [tx |-> t.tx, frames |-> Append(t.frames, NewEntry(l, u))]
  BY DEF push_frame_with_limit, Tracker
<1>2. /\ v.tx = t.tx /\ v.frames = Append(t.frames, NewEntry(l, u)) /\ v \in Tracker
  BY <1>1, NewEntryFacts DEF Tracker
<1>3. /\ n \in Nat
      /\ Len(v.frames) = n + 1
      /\ \A i \in 1 .. n : v.frames[i] = t.frames[i]
      /\ v.frames[n + 1] = NewEntry(l, u)
  BY <1>2, TrackerTyped, NewEntryFacts
<1> HIDE DEF v
<1>4. n \in 0 .. Len(t.frames) /\ n <= Len(v.frames)
  BY <1>3
<1>5. \A i \in 0 .. n : UsedUpTo(v)[i] = UsedUpTo(t)[i] /\ RefundUpTo(v)[i] = RefundUpTo(t)[i]
  BY <1>2, <1>3, <1>4, PrefixAgree
<1>6. /\ UsedUpTo(v)[n + 1] = UsedUpTo(v)[n] + used(v.frames[n + 1])
      /\ RefundUpTo(v)[n + 1] = RefundUpTo(v)[n] + v.frames[n + 1].refund
  <2>1. n + 1 \in 1 .. Len(v.frames) /\ (n + 1) - 1 = n
    BY <1>3
  <2> QED BY <1>2, <2>1, PrefixUsed, PrefixRefund
<1>7. UsedUpTo(t)[n] \in Nat /\ RefundUpTo(t)[n] \in Nat
  BY <1>4, PrefixUsed, PrefixRefund
<1>8. UsedUpTo(v)[n + 1] = UsedUpTo(t)[n] /\ RefundUpTo(v)[n + 1] = RefundUpTo(t)[n]
  BY <1>3, <1>4, <1>5, <1>6, <1>7, NewEntryFacts
<1> QED BY <1>2, <1>3, <1>5, <1>8 DEF v

\* A change of the top frame changes the last sum only.
LEMMA TopFacts ==
  ASSUME NEW t \in Tracker, NEW v \in Tracker,
         Len(t.frames) # 0, Len(v.frames) = Len(t.frames), v.tx = t.tx,
         \A i \in 1 .. Len(t.frames) - 1 : v.frames[i] = t.frames[i]
  PROVE  LET n == Len(t.frames)
         IN /\ \A i \in 0 .. n - 1 : UsedUpTo(v)[i] = UsedUpTo(t)[i] /\ RefundUpTo(v)[i] = RefundUpTo(t)[i]
            /\ UsedUpTo(v)[n] = UsedUpTo(t)[n - 1] + used(v.frames[n])
            /\ RefundUpTo(v)[n] = RefundUpTo(t)[n - 1] + v.frames[n].refund
<1> DEFINE n == Len(t.frames)
<1>1. n \in Nat /\ n - 1 \in 0 .. Len(t.frames) /\ n - 1 <= Len(v.frames) /\ n \in 1 .. Len(v.frames)
  BY TrackerTyped
<1>2. \A i \in 0 .. n - 1 : UsedUpTo(v)[i] = UsedUpTo(t)[i] /\ RefundUpTo(v)[i] = RefundUpTo(t)[i]
  BY <1>1, PrefixAgree
<1>3. /\ UsedUpTo(v)[n] = UsedUpTo(v)[n - 1] + used(v.frames[n])
      /\ RefundUpTo(v)[n] = RefundUpTo(v)[n - 1] + v.frames[n].refund
  BY <1>1, PrefixUsed, PrefixRefund
<1> QED BY <1>1, <1>2, <1>3

\* v is t with p, d and r added to the persistent and discardable usage and to the
\* refund of its top frame.
Recorded(t, v, p, d, r) ==
  LET n == Len(t.frames)
  IN /\ v \in Tracker
     /\ v.tx = t.tx
     /\ Len(v.frames) = n
     /\ \A i \in 1 .. n - 1 : v.frames[i] = t.frames[i]
     /\ v.frames[n].limit = t.frames[n].limit
     /\ v.frames[n].updated = t.frames[n].updated
     /\ v.frames[n].persistent = t.frames[n].persistent + p
     /\ v.frames[n].discardable = t.frames[n].discardable + d
     /\ v.frames[n].refund = t.frames[n].refund + r
     /\ \A i \in 0 .. n - 1 : UsedUpTo(v)[i] = UsedUpTo(t)[i] /\ RefundUpTo(v)[i] = RefundUpTo(t)[i]
     /\ UsedUpTo(v)[n] = UsedUpTo(t)[n] + p + d
     /\ RefundUpTo(v)[n] = RefundUpTo(t)[n] + r

\* The fields of an entry are naturals.
LEMMA EntryTyped ==
  ASSUME NEW e \in Entry
  PROVE  /\ e.limit \in Nat /\ e.persistent \in Nat /\ e.discardable \in Nat
         /\ e.refund \in Nat /\ e.updated \in BOOLEAN /\ used(e) \in Nat /\ net(e) \in Nat
         /\ remaining(e) \in Nat
BY DEF Entry, used, net, remaining, SatSub

\* They stay so when something is added.
LEMMA EntryFacts ==
  ASSUME NEW e \in Entry, NEW x \in Nat
  PROVE  /\ [e EXCEPT !.persistent = @ + x] \in Entry
         /\ [e EXCEPT !.discardable = @ + x] \in Entry
         /\ [e EXCEPT !.refund = @ + x] \in Entry
BY DEF Entry

\* f is e with p, d and r added.
Plus(e, f, p, d, r) ==
  /\ f.limit = e.limit /\ f.updated = e.updated
  /\ f.persistent = e.persistent + p
  /\ f.discardable = e.discardable + d
  /\ f.refund = e.refund + r

\* What is added to an entry is added to its usage and its refund.
LEMMA PlusFacts ==
  ASSUME NEW e \in Entry, NEW f \in Entry, NEW p \in Nat, NEW d \in Nat, NEW r \in Nat,
         Plus(e, f, p, d, r)
  PROVE  used(f) = used(e) + p + d /\ f.refund = e.refund + r
BY DEF Plus, used, Entry

\* Adding nothing.
LEMMA PlusNothing ==
  ASSUME NEW e \in Entry
  PROVE  Plus(e, e, 0, 0, 0)
BY EntryTyped DEF Plus

\* The three ways in which something is added to one field.
LEMMA ExceptFacts ==
  ASSUME NEW e \in Entry, NEW x \in Nat
  PROVE  /\ Plus(e, [e EXCEPT !.persistent = @ + x], x, 0, 0)
         /\ Plus(e, [e EXCEPT !.discardable = @ + x], 0, x, 0)
         /\ Plus(e, [e EXCEPT !.refund = @ + x], 0, 0, x)
BY DEF Plus, Entry

\* Replacing the top entry by a larger one records the difference.
LEMMA ReplaceTop ==
  ASSUME NEW t \in Tracker, Len(t.frames) # 0, NEW f \in Entry,
         NEW p \in Nat, NEW d \in Nat, NEW r \in Nat,
         Plus(t.frames[Len(t.frames)], f, p, d, r)
  PROVE  Recorded(t, [t EXCEPT !.frames[Len(t.frames)] = f], p, d, r)
<1> DEFINE n == Len(t.frames)
           v == [t EXCEPT !.frames[n] = f]
<1>1. n \in Nat /\ n \in 1 .. n /\ t.frames \in Seq(Entry) /\ t.frames[n] \in Entry /\ t.tx \in Entry
  BY TrackerTyped
<1>2. v = [tx |-> t.tx, frames |-> [t.frames EXCEPT ![n] = f]]
  BY TrackerExcept
<1>3. v.tx = t.tx /\ v.frames = [t.frames EXCEPT ![n] = f]
  BY <1>2
<1>4. v \in Tracker
  BY <1>1, <1>2 DEF Tracker
<1>5. Len(v.frames) = n /\ v.frames[n] = f /\ \A i \in 1 .. n - 1 : v.frames[i] = t.frames[i]
  BY <1>1, <1>3
<1> HIDE DEF v
<1>6. /\ \A i \in 0 .. n - 1 : UsedUpTo(v)[i] = UsedUpTo(t)[i] /\ RefundUpTo(v)[i] = RefundUpTo(t)[i]
      /\ UsedUpTo(v)[n] = UsedUpTo(t)[n - 1] + used(f)
      /\ RefundUpTo(v)[n] = RefundUpTo(t)[n - 1] + f.refund
  BY <1>1, <1>3, <1>4, <1>5, TopFacts
<1>7. /\ UsedUpTo(t)[n] = UsedUpTo(t)[n - 1] + used(t.frames[n]) /\ UsedUpTo(t)[n - 1] \in Nat
      /\ RefundUpTo(t)[n] = RefundUpTo(t)[n - 1] + t.frames[n].refund /\ RefundUpTo(t)[n - 1] \in Nat
  <2>1. n - 1 \in 0 .. n
    BY <1>1
  <2> QED BY <1>1, <2>1, PrefixUsed, PrefixRefund
<1>8. /\ used(f) = used(t.frames[n]) + p + d /\ f.refund = t.frames[n].refund + r
      /\ used(t.frames[n]) \in Nat /\ t.frames[n].refund \in Nat
  BY <1>1, PlusFacts, TrackerTyped
<1>9. UsedUpTo(v)[n] = UsedUpTo(t)[n] + p + d
  BY <1>6, <1>7, <1>8, SumShift, SMTT(20)
<1>10. RefundUpTo(v)[n] = RefundUpTo(t)[n] + r
  <2>1. /\ RefundUpTo(v)[n] = RefundUpTo(t)[n - 1] + f.refund
        /\ RefundUpTo(t)[n] = RefundUpTo(t)[n - 1] + t.frames[n].refund
        /\ RefundUpTo(t)[n - 1] \in Nat /\ t.frames[n].refund \in Nat
        /\ f.refund = t.frames[n].refund + r
    BY <1>6, <1>7, <1>8, Zenon
  <2> DEFINE A == RefundUpTo(t)[n - 1]
             B == t.frames[n].refund
             u == f.refund
             x == RefundUpTo(v)[n]
             y == RefundUpTo(t)[n]
  <2>2. A \in Nat /\ B \in Nat /\ r \in Nat /\ x = A + u /\ y = A + B /\ u = B + r
    BY <2>1, Zenon
  <2> HIDE DEF A, B, u, x, y
  <2>3. x = y + r
    BY <2>2
  <2> QED BY <2>3 DEF x, y
<1> QED BY <1>3, <1>4, <1>5, <1>6, <1>9, <1>10 DEF Recorded, v, Plus

\* The record operations of the tracker, with a frame on the stack.
LEMMA RecordFacts ==
  ASSUME NEW t \in Tracker, Len(t.frames) # 0, NEW x \in Nat
  PROVE  /\ Recorded(t, record_discardable(t, x), 0, x, 0)
         /\ Recorded(t, record_refund(t, x), 0, 0, x)
         /\ Recorded(t, record_persistent(t, x), x, 0, 0)
<1> DEFINE n == Len(t.frames)
<1>1. t.frames # <<>> /\ t.frames[n] \in Entry
  BY TrackerTyped
<1>2. record_discardable(t, x) = [t EXCEPT !.frames[n] = [t.frames[n] EXCEPT !.discardable = @ + x]]
  BY <1>1 DEF record_discardable, on_top, has_active_frame
<1>3. record_refund(t, x) = [t EXCEPT !.frames[n] = [t.frames[n] EXCEPT !.refund = @ + x]]
  BY <1>1 DEF record_refund, on_top, has_active_frame
<1>4. record_persistent(t, x) = [t EXCEPT !.frames[n] = [t.frames[n] EXCEPT !.persistent = @ + x]]
  BY <1>1 DEF record_persistent, on_top, has_active_frame
<1>5. Recorded(t, record_discardable(t, x), 0, x, 0)
  <2> DEFINE f == [t.frames[n] EXCEPT !.discardable = @ + x]
  <2>1. f \in Entry /\ Plus(t.frames[n], f, 0, x, 0)
    BY <1>1, EntryFacts, ExceptFacts
  <2>2. record_discardable(t, x) = [t EXCEPT !.frames[n] = f]
    BY <1>2
  <2> HIDE DEF f
  <2>3. Recorded(t, [t EXCEPT !.frames[n] = f], 0, x, 0)
    BY <2>1, ReplaceTop
  <2> QED BY <2>2, <2>3
<1>6. Recorded(t, record_refund(t, x), 0, 0, x)
  <2> DEFINE f == [t.frames[n] EXCEPT !.refund = @ + x]
  <2>1. f \in Entry /\ Plus(t.frames[n], f, 0, 0, x)
    BY <1>1, EntryFacts, ExceptFacts
  <2>2. record_refund(t, x) = [t EXCEPT !.frames[n] = f]
    BY <1>3
  <2> HIDE DEF f
  <2>3. Recorded(t, [t EXCEPT !.frames[n] = f], 0, 0, x)
    BY <2>1, ReplaceTop
  <2> QED BY <2>2, <2>3
<1>7. Recorded(t, record_persistent(t, x), x, 0, 0)
  <2> DEFINE f == [t.frames[n] EXCEPT !.persistent = @ + x]
  <2>1. f \in Entry /\ Plus(t.frames[n], f, x, 0, 0)
    BY <1>1, EntryFacts, ExceptFacts
  <2>2. record_persistent(t, x) = [t EXCEPT !.frames[n] = f]
    BY <1>4
  <2> HIDE DEF f
  <2>3. Recorded(t, [t EXCEPT !.frames[n] = f], x, 0, 0)
    BY <2>1, ReplaceTop
  <2> QED BY <2>2, <2>3
<1> QED BY <1>5, <1>6, <1>7

\* The record operations without one: discardable usage and refunds are dropped,
\* persistent usage goes to the transaction.
LEMMA EmptyRecordFacts ==
  ASSUME NEW t \in Tracker, Len(t.frames) = 0, NEW x \in Nat
  PROVE  /\ record_discardable(t, x) = t
         /\ record_refund(t, x) = t
         /\ LET v == record_persistent(t, x)
            IN /\ v \in Tracker /\ v.frames = t.frames
               /\ Plus(t.tx, v.tx, x, 0, 0)
               /\ UsedUpTo(v)[0] = UsedUpTo(t)[0] + x /\ RefundUpTo(v)[0] = RefundUpTo(t)[0]
<1>1. t.frames = <<>> /\ t.tx \in Entry
  BY TrackerTyped
<1>2. record_discardable(t, x) = t /\ record_refund(t, x) = t
  BY <1>1 DEF record_discardable, record_refund, on_top, has_active_frame
<1> DEFINE f == [t.tx EXCEPT !.persistent = @ + x]
           v == record_persistent(t, x)
<1>3. v = [tx |-> f, frames |-> t.frames]
  BY <1>1 DEF record_persistent, has_active_frame, Tracker
<1>4. f \in Entry /\ Plus(t.tx, f, x, 0, 0)
  BY <1>1, EntryFacts, ExceptFacts
<1> HIDE DEF f
<1>5. v \in Tracker /\ v.frames = t.frames /\ v.tx = f
  BY <1>3, <1>4 DEF Tracker
<1>6. used(f) = used(t.tx) + x /\ f.refund = t.tx.refund
  <2>1. used(f) = used(t.tx) + x + 0 /\ f.refund = t.tx.refund + 0
    BY <1>1, <1>4, PlusFacts
  <2> QED BY <2>1, TrackerTyped
<1> HIDE DEF v
<1>7. UsedUpTo(v)[0] = UsedUpTo(t)[0] + x /\ RefundUpTo(v)[0] = RefundUpTo(t)[0]
  BY <1>5, <1>6, PrefixUsed, PrefixRefund
<1> QED BY <1>2, <1>4, <1>5, <1>7 DEF v

\* An entry with three fields replaced.
LEMMA EntryExcept ==
  ASSUME NEW e \in Entry, NEW p, NEW d, NEW r
  PROVE  [e EXCEPT !.persistent = p, !.discardable = d, !.refund = r] =
           [limit |-> e.limit, persistent |-> p, discardable |-> d, refund |-> r,
            updated |-> e.updated]
<1> DEFINE e1 == [e EXCEPT !.persistent = p]
           e2 == [e1 EXCEPT !.discardable = d]
           e3 == [e2 EXCEPT !.refund = r]
<1>1. e = [limit |-> e.limit, persistent |-> e.persistent, discardable |-> e.discardable,
           refund |-> e.refund, updated |-> e.updated]
  BY DEF Entry
<1>2. e1 = [limit |-> e.limit, persistent |-> p, discardable |-> e.discardable,
            refund |-> e.refund, updated |-> e.updated]
  BY <1>1
<1> HIDE DEF e1
<1>3. e2 = [limit |-> e.limit, persistent |-> p, discardable |-> d,
            refund |-> e.refund, updated |-> e.updated]
  BY <1>2
<1> HIDE DEF e2
<1>4. e3 = [limit |-> e.limit, persistent |-> p, discardable |-> d,
            refund |-> r, updated |-> e.updated]
  BY <1>3
<1> QED BY <1>4 DEF e1, e2

\* merge adds what the callee leaves to the caller.
LEMMA MergeFacts ==
  ASSUME NEW e \in Entry, NEW c \in Entry, NEW success \in BOOLEAN
  PROVE  /\ merge(e, c, success) \in Entry
         /\ Plus(e, merge(e, c, success), c.persistent, IF success THEN c.discardable ELSE 0,
                 IF success THEN c.refund ELSE 0)
<1> DEFINE d == IF success THEN c.discardable ELSE 0
           r == IF success THEN c.refund ELSE 0
<1>1. d \in Nat /\ r \in Nat
  BY DEF Entry
<1>2. merge(e, c, success) = [e EXCEPT !.persistent = e.persistent + c.persistent,
                                       !.discardable = e.discardable + d,
                                       !.refund = e.refund + r]
  BY DEF merge
<1> HIDE DEF d, r
<1>3. merge(e, c, success) =
        [limit |-> e.limit, persistent |-> e.persistent + c.persistent,
         discardable |-> e.discardable + d, refund |-> e.refund + r, updated |-> e.updated]
  BY <1>2, EntryExcept
<1>4. merge(e, c, success) \in Entry /\ Plus(e, merge(e, c, success), c.persistent, d, r)
  BY <1>1, <1>3 DEF Entry, Plus
<1> QED BY <1>4 DEF d, r

\* Popping a frame merges it into the entry below.
LEMMA PopFacts ==
  ASSUME NEW t \in Tracker, NEW success \in BOOLEAN, Len(t.frames) # 0
  PROVE  LET n == Len(t.frames)
             c == t.frames[n]
             v == pop_frame(t, success)
             d == IF success THEN c.discardable ELSE 0
             r == IF success THEN c.refund ELSE 0
         IN /\ v \in Tracker
            /\ Len(v.frames) = n - 1
            /\ n = 1 => Plus(t.tx, v.tx, c.persistent, d, r)
            /\ n > 1 => /\ v.tx = t.tx
                        /\ \A i \in 1 .. n - 2 : v.frames[i] = t.frames[i]
                        /\ Plus(t.frames[n - 1], v.frames[n - 1], c.persistent, d, r)
            /\ \A i \in 0 .. n - 2 : UsedUpTo(v)[i] = UsedUpTo(t)[i] /\ RefundUpTo(v)[i] = RefundUpTo(t)[i]
            /\ UsedUpTo(v)[n - 1] = UsedUpTo(t)[n - 1] + c.persistent + d
            /\ RefundUpTo(v)[n - 1] = RefundUpTo(t)[n - 1] + r
<1> DEFINE n == Len(t.frames)
           c == t.frames[n]
           v == pop_frame(t, success)
           d == IF success THEN c.discardable ELSE 0
           r == IF success THEN c.refund ELSE 0
<1>1. n \in Nat /\ n \in 1 .. n /\ t.frames \in Seq(Entry) /\ c \in Entry /\ t.tx \in Entry
  BY TrackerTyped
<1>2. c.persistent \in Nat /\ d \in Nat /\ r \in Nat
  BY <1>1 DEF Entry
<1>3. CASE n = 1
  <2> DEFINE m == merge(t.tx, c, success)
  <2>1. m \in Entry /\ Plus(t.tx, m, c.persistent, d, r)
    BY <1>1, MergeFacts
  <2>2. v = [tx |-> m, frames |-> <<>>]
    BY <1>1, <1>3 DEF pop_frame, top
  <2> HIDE DEF m
  <2>3. v \in Tracker /\ v.frames = <<>> /\ v.tx = m /\ Len(v.frames) = 0
    BY <2>1, <2>2 DEF Tracker
  <2>4. used(m) = used(t.tx) + c.persistent + d /\ m.refund = t.tx.refund + r
    <3> HIDE DEF c, d, r
    <3> QED BY <1>1, <1>2, <2>1, PlusFacts
  <2> HIDE DEF v
  <2>5. UsedUpTo(v)[0] = used(m) /\ RefundUpTo(v)[0] = m.refund /\ UsedUpTo(t)[0] = used(t.tx) /\ RefundUpTo(t)[0] = t.tx.refund
    BY <2>3, PrefixUsed, PrefixRefund
  <2> HIDE DEF c, d, r
  <2>6. UsedUpTo(v)[n - 1] = UsedUpTo(t)[n - 1] + c.persistent + d /\ RefundUpTo(v)[n - 1] = RefundUpTo(t)[n - 1] + r
    BY <1>3, <2>4, <2>5
  <2>7. (0 .. n - 2) = {}
    BY <1>3
  <2> QED BY <1>3, <2>1, <2>3, <2>6, <2>7 DEF v, c, d, r
<1>4. CASE n > 1
  <2> DEFINE m == merge(t.frames[n - 1], c, success)
             rest == SubSeq(t.frames, 1, n - 1)
             u == [tx |-> t.tx, frames |-> rest]
  <2>1. n - 1 \in Nat /\ n - 1 \in 1 .. n /\ t.frames[n - 1] \in Entry
    BY <1>1, <1>4
  <2>2. m \in Entry /\ Plus(t.frames[n - 1], m, c.persistent, d, r)
    BY <1>1, <2>1, MergeFacts
  <2>3. rest \in Seq(Entry) /\ Len(rest) = n - 1 /\ \A i \in 1 .. n - 1 : rest[i] = t.frames[i]
    BY <1>1, <1>4
  <2>4. v = [t EXCEPT !.frames = [rest EXCEPT ![n - 1] = merge(@, c, success)]]
    BY <1>1, <1>4, SMTT(20) DEF pop_frame, top
  <2>5. v = [tx |-> t.tx, frames |-> [rest EXCEPT ![n - 1] = m]]
    <3>1. rest[n - 1] = t.frames[n - 1]
      BY <1>1, <1>4, <2>3
    <3>2. v = [t EXCEPT !.frames = [rest EXCEPT ![n - 1] = m]]
      BY <2>4, <3>1
    <3> QED BY <3>2, TrackerExcept
  <2> HIDE DEF m, rest
  <2>6. u \in Tracker /\ u.tx = t.tx /\ u.frames = rest
    BY <1>1, <2>3 DEF Tracker
  <2> HIDE DEF u, v, c, d, r
  <2>7. v = [u EXCEPT !.frames[Len(u.frames)] = m]
    BY <2>3, <2>5, <2>6, TrackerExcept
  <2>8. Len(u.frames) = n - 1 /\ u.frames[n - 1] = t.frames[n - 1]
    BY <2>1, <2>3, <2>6
  <2>9. Recorded(u, v, c.persistent, d, r)
    <3>1. Len(u.frames) # 0 /\ Plus(u.frames[Len(u.frames)], m, c.persistent, d, r)
      <4> HIDE DEF n
      <4> QED BY <1>1, <1>4, <2>2, <2>8
    <3>2. Recorded(u, [u EXCEPT !.frames[Len(u.frames)] = m], c.persistent, d, r)
      BY <1>2, <2>2, <2>6, <3>1, ReplaceTop
    <3> QED BY <2>7, <3>2
  <2>10. \A i \in 0 .. n - 1 : UsedUpTo(u)[i] = UsedUpTo(t)[i] /\ RefundUpTo(u)[i] = RefundUpTo(t)[i]
    <3>1. n - 1 \in 0 .. Len(u.frames) /\ n - 1 <= Len(t.frames)
      BY <1>1, <1>4, <2>8
    <3>2. \A i \in 1 .. n - 1 : u.frames[i] = t.frames[i]
      BY <2>3, <2>6
    <3> QED BY <2>6, <3>1, <3>2, PrefixAgree
  <2>11. /\ v \in Tracker /\ v.tx = t.tx /\ Len(v.frames) = n - 1
         /\ \A i \in 1 .. n - 2 : v.frames[i] = u.frames[i]
         /\ Plus(u.frames[n - 1], v.frames[n - 1], c.persistent, d, r)
         /\ \A i \in 0 .. n - 2 : UsedUpTo(v)[i] = UsedUpTo(u)[i] /\ RefundUpTo(v)[i] = RefundUpTo(u)[i]
         /\ UsedUpTo(v)[n - 1] = UsedUpTo(u)[n - 1] + c.persistent + d
         /\ RefundUpTo(v)[n - 1] = RefundUpTo(u)[n - 1] + r
    <3>1. (n - 1) - 1 = n - 2
      BY <1>1
    <3> QED BY <2>6, <2>8, <2>9, <3>1 DEF Recorded, Plus
  <2>12. \A i \in 1 .. n - 2 : u.frames[i] = t.frames[i]
    BY <1>1, <2>3, <2>6
  <2>13. \A i \in 0 .. n - 2 : UsedUpTo(v)[i] = UsedUpTo(t)[i] /\ RefundUpTo(v)[i] = RefundUpTo(t)[i]
    BY <1>1, <2>10, <2>11
  <2>14. UsedUpTo(u)[n - 1] = UsedUpTo(t)[n - 1] /\ RefundUpTo(u)[n - 1] = RefundUpTo(t)[n - 1]
    BY <2>1, <2>10
  <2> QED BY <1>4, <2>8, <2>11, <2>12, <2>13, <2>14 DEF v, c, d, r
<1>5. n = 1 \/ n > 1
  <2>1. n \in Nat /\ n # 0
    BY TrackerTyped
  <2> HIDE DEF n
  <2> QED BY <2>1
<1> QED BY <1>3, <1>4, <1>5, Zenon

\* A frame was pushed with budget l, and d charged to it.
Entered(t, v, l, d) ==
  LET n == Len(t.frames)
  IN /\ v \in Tracker
     /\ v.tx = t.tx
     /\ Len(v.frames) = n + 1
     /\ \A i \in 1 .. n : v.frames[i] = t.frames[i]
     /\ v.frames[n + 1].limit = l
     /\ v.frames[n + 1].persistent = 0
     /\ v.frames[n + 1].discardable = d
     /\ v.frames[n + 1].refund = 0
     /\ \A i \in 0 .. n : UsedUpTo(v)[i] = UsedUpTo(t)[i] /\ RefundUpTo(v)[i] = RefundUpTo(t)[i]
     /\ UsedUpTo(v)[n + 1] = UsedUpTo(t)[n] + d
     /\ RefundUpTo(v)[n + 1] = RefundUpTo(t)[n]

\* Charging a frame that was just pushed.
LEMMA EnterFacts ==
  ASSUME NEW t \in Tracker, NEW l \in Nat, NEW u \in BOOLEAN, NEW d \in Nat
  PROVE  /\ Entered(t, push_frame_with_limit(t, l, u), l, 0)
         /\ Entered(t, record_discardable(push_frame_with_limit(t, l, u), d), l, d)
<1> DEFINE n == Len(t.frames)
           m == push_frame_with_limit(t, l, u)
           v == record_discardable(m, d)
<1>1. n \in Nat /\ UsedUpTo(t)[n] \in Nat
  <2>1. n \in Nat /\ n \in 0 .. n
    BY TrackerTyped
  <2> QED BY <2>1, PrefixUsed
<1>2. /\ m \in Tracker
      /\ m.tx = t.tx
      /\ Len(m.frames) = n + 1
      /\ \A i \in 1 .. n : m.frames[i] = t.frames[i]
      /\ m.frames[n + 1] = NewEntry(l, u)
      /\ \A i \in 0 .. n : UsedUpTo(m)[i] = UsedUpTo(t)[i] /\ RefundUpTo(m)[i] = RefundUpTo(t)[i]
      /\ UsedUpTo(m)[n + 1] = UsedUpTo(t)[n] /\ RefundUpTo(m)[n + 1] = RefundUpTo(t)[n]
  BY PushFacts
<1> HIDE DEF m
<1>3. Recorded(m, v, 0, d, 0)
  BY <1>1, <1>2, RecordFacts
<1> HIDE DEF v
<1>4. Entered(t, m, l, 0)
  BY <1>1, <1>2 DEF Entered, NewEntry
<1>5. /\ v \in Tracker /\ v.tx = t.tx /\ Len(v.frames) = n + 1
      /\ \A i \in 1 .. n : v.frames[i] = m.frames[i]
      /\ v.frames[n + 1].limit = m.frames[n + 1].limit
      /\ v.frames[n + 1].persistent = m.frames[n + 1].persistent + 0
      /\ v.frames[n + 1].discardable = m.frames[n + 1].discardable + d
      /\ v.frames[n + 1].refund = m.frames[n + 1].refund + 0
      /\ \A i \in 0 .. n : UsedUpTo(v)[i] = UsedUpTo(m)[i] /\ RefundUpTo(v)[i] = RefundUpTo(m)[i]
      /\ UsedUpTo(v)[n + 1] = UsedUpTo(m)[n + 1] + 0 + d
      /\ RefundUpTo(v)[n + 1] = RefundUpTo(m)[n + 1] + 0
  <2>1. (n + 1) - 1 = n
    BY <1>1
  <2> QED BY <1>2, <1>3, <2>1 DEF Recorded
<1>6. RefundUpTo(t)[n] \in Nat
  <2>1. n \in 0 .. n
    BY <1>1
  <2> QED BY <2>1, PrefixRefund
<1>7. /\ v.frames[n + 1].limit = l /\ v.frames[n + 1].persistent = 0
      /\ v.frames[n + 1].discardable = d /\ v.frames[n + 1].refund = 0
  BY <1>2, <1>5 DEF NewEntry
<1>8. UsedUpTo(v)[n + 1] = UsedUpTo(t)[n] + d /\ RefundUpTo(v)[n + 1] = RefundUpTo(t)[n]
  BY <1>1, <1>2, <1>5, <1>6
<1>9. Entered(t, v, l, d)
  BY <1>2, <1>5, <1>7, <1>8 DEF Entered
<1> QED BY <1>4, <1>9 DEF m, v

\* Recording nothing.
LEMMA RecordNothing ==
  ASSUME NEW t \in Tracker, Len(t.frames) # 0
  PROVE  Recorded(t, t, 0, 0, 0)
<1> DEFINE n == Len(t.frames)
<1>1. n \in Nat /\ n \in 1 .. n /\ n \in 0 .. n
  BY TrackerTyped
<1>2. UsedUpTo(t)[n] \in Nat /\ RefundUpTo(t)[n] \in Nat /\ t.frames[n] \in Entry
  BY <1>1, PrefixUsed, PrefixRefund, TrackerTyped
<1>3. UsedUpTo(t)[n] = UsedUpTo(t)[n] + 0 + 0 /\ RefundUpTo(t)[n] = RefundUpTo(t)[n] + 0
  BY <1>2
<1>4. /\ t.frames[n].persistent = t.frames[n].persistent + 0
      /\ t.frames[n].discardable = t.frames[n].discardable + 0
      /\ t.frames[n].refund = t.frames[n].refund + 0
  BY <1>2, EntryTyped
<1> QED BY <1>3, <1>4 DEF Recorded

\* A popped frame: its persistent usage stays, the rest only on success.
Popped(t, v, success) ==
  LET n == Len(t.frames)
      c == t.frames[n]
      d == IF success THEN c.discardable ELSE 0
      r == IF success THEN c.refund ELSE 0
  IN /\ v \in Tracker
     /\ Len(v.frames) = n - 1
     /\ n = 1 => Plus(t.tx, v.tx, c.persistent, d, r)
     /\ n > 1 => /\ v.tx = t.tx
                 /\ \A i \in 1 .. n - 2 : v.frames[i] = t.frames[i]
                 /\ Plus(t.frames[n - 1], v.frames[n - 1], c.persistent, d, r)
     /\ \A i \in 0 .. n - 2 : UsedUpTo(v)[i] = UsedUpTo(t)[i] /\ RefundUpTo(v)[i] = RefundUpTo(t)[i]
     /\ UsedUpTo(v)[n - 1] = UsedUpTo(t)[n - 1] + c.persistent + d
     /\ RefundUpTo(v)[n - 1] = RefundUpTo(t)[n - 1] + r

\* pop_frame pops, or leaves an empty stack alone.
LEMMA PopIsPopped ==
  ASSUME NEW t \in Tracker, NEW success \in BOOLEAN
  PROVE  /\ Len(t.frames) # 0 => Popped(t, pop_frame(t, success), success)
         /\ Len(t.frames) = 0 => pop_frame(t, success) = t
<1>1. ASSUME Len(t.frames) # 0 PROVE Popped(t, pop_frame(t, success), success)
  BY <1>1, PopFacts, Zenon DEF Popped
<1>2. ASSUME Len(t.frames) = 0 PROVE pop_frame(t, success) = t
  BY <1>2 DEF pop_frame
<1> QED BY <1>1, <1>2

\* The net usage of a tracker is that of its last sums.
LEMMA NetUsage ==
  ASSUME NEW t \in Tracker
  PROVE  LET n == Len(t.frames)
         IN /\ n \in Nat /\ UsedUpTo(t)[n] \in Nat /\ RefundUpTo(t)[n] \in Nat
            /\ net_usage(t) = SatSub(UsedUpTo(t)[n], RefundUpTo(t)[n])
            /\ net_usage(t) \in Nat
<1> DEFINE n == Len(t.frames)
<1>1. n \in Nat /\ n \in 0 .. n
  BY TrackerTyped
<1>2. /\ UsedUpTo(t)[n] \in Nat /\ RefundUpTo(t)[n] \in Nat
      /\ total(t, used) = UsedUpTo(t)[n] /\ total(t, refund_of) = RefundUpTo(t)[n]
  BY <1>1, PrefixUsed, PrefixRefund
<1>3. net_usage(t) = SatSub(UsedUpTo(t)[n], RefundUpTo(t)[n])
  BY <1>2 DEF net_usage
<1>4. net_usage(t) \in Nat
  BY <1>2, <1>3 DEF SatSub
<1> QED BY <1>1, <1>2, <1>3, <1>4

\* A new tracker has no frames and has used nothing.
LEMMA NewTracker ==
  ASSUME NEW l \in Nat
  PROVE  LET t == new_tracker(l)
         IN /\ t \in Tracker /\ t.frames = <<>> /\ Len(t.frames) = 0
            /\ t.tx = NewEntry(l, FALSE)
            /\ UsedUpTo(t)[0] = 0 /\ RefundUpTo(t)[0] = 0
<1> DEFINE t == new_tracker(l)
<1> DEFINE e == NewEntry(l, FALSE)
<1>0. e \in Entry /\ used(e) = 0 /\ e.refund = 0
  BY NewEntryFacts
<1>1. t = [tx |-> e, frames |-> <<>>]
  BY DEF new_tracker
<1> HIDE DEF t, e
<1>2. t \in Tracker /\ t.frames = <<>> /\ t.tx = e /\ Len(t.frames) = 0
  BY <1>0, <1>1 DEF Tracker
<1>3. UsedUpTo(t)[0] = 0 /\ RefundUpTo(t)[0] = 0
  BY <1>0, <1>2, PrefixUsed, PrefixRefund
<1> QED BY <1>2, <1>3 DEF t, e

\* The budget of a callee is a natural within what its caller has left.
LEMMA ForwardLimit ==
  ASSUME NEW t \in Tracker
  PROVE  /\ max_forward_limit(t) \in Nat
         /\ Len(t.frames) # 0 => max_forward_limit(t) <= remaining(t.frames[Len(t.frames)])
<1>1. t.tx.limit \in Nat
  BY TrackerTyped, EntryTyped
<1>2. CASE Len(t.frames) = 0
  <2>1. t.frames = <<>>
    BY <1>2, TrackerTyped
  <2> QED BY <1>1, <1>2, <2>1 DEF max_forward_limit, has_active_frame
<1>3. CASE Len(t.frames) # 0
  <2> DEFINE x == remaining(t.frames[Len(t.frames)])
  <2>1. t.frames # <<>> /\ x \in Nat
    <3>1. Len(t.frames) \in 1 .. Len(t.frames)
      BY <1>3, TrackerTyped
    <3> QED BY <1>3, <3>1, TrackerTyped, EntryTyped
  <2>2. max_forward_limit(t) = (x * 98) \div 100
    BY <2>1 DEF max_forward_limit, has_active_frame, top, FRAME_LIMIT_NUMERATOR,
                FRAME_LIMIT_DENOMINATOR
  <2> HIDE DEF x
  <2>3. (x * 98) \div 100 \in Nat /\ (x * 98) \div 100 <= x
    BY <2>1
  <2> QED BY <2>2, <2>3 DEF x
<1> QED BY <1>2, <1>3

\* A frame that succeeds leaves every total of the transaction as it was, and one that
\* fails takes back what it used itself, persistent usage excepted, whatever frames
\* below it recorded (pop_frame).
THEOREM PopTotals ==
  ASSUME NEW t \in Tracker, Len(t.frames) # 0
  PROVE  LET c    == t.frames[Len(t.frames)]
             won  == pop_frame(t, TRUE)
             fail == pop_frame(t, FALSE)
         IN /\ total(won, used) = total(t, used)
            /\ total(won, refund_of) = total(t, refund_of)
            /\ net_usage(won) = net_usage(t)
            /\ total(fail, used) + c.discardable = total(t, used)
            /\ total(fail, refund_of) + c.refund = total(t, refund_of)
<1> DEFINE n == Len(t.frames)
           c == t.frames[n]
           won == pop_frame(t, TRUE)
           fail == pop_frame(t, FALSE)
<1>1. n \in Nat /\ n \in 1 .. n /\ n - 1 \in 0 .. n /\ c \in Entry
  BY TrackerTyped
<1>2. Popped(t, won, TRUE) /\ Popped(t, fail, FALSE)
  BY PopIsPopped
<1>3. /\ c.persistent \in Nat /\ c.discardable \in Nat /\ c.refund \in Nat
      /\ used(c) = c.persistent + c.discardable
      /\ UsedUpTo(t)[n - 1] \in Nat /\ RefundUpTo(t)[n - 1] \in Nat
      /\ UsedUpTo(t)[n] = UsedUpTo(t)[n - 1] + used(c)
      /\ RefundUpTo(t)[n] = RefundUpTo(t)[n - 1] + c.refund
  BY <1>1, EntryTyped, PrefixUsed, PrefixRefund DEF used
<1> HIDE DEF won, fail
<1>4. /\ won \in Tracker /\ fail \in Tracker
      /\ Len(won.frames) = n - 1 /\ Len(fail.frames) = n - 1
      /\ UsedUpTo(won)[n - 1] = UsedUpTo(t)[n - 1] + c.persistent + c.discardable
      /\ RefundUpTo(won)[n - 1] = RefundUpTo(t)[n - 1] + c.refund
      /\ UsedUpTo(fail)[n - 1] = UsedUpTo(t)[n - 1] + c.persistent + 0
      /\ RefundUpTo(fail)[n - 1] = RefundUpTo(t)[n - 1] + 0
  BY <1>2 DEF Popped
<1>5. /\ total(t, used) = UsedUpTo(t)[n] /\ total(t, refund_of) = RefundUpTo(t)[n]
      /\ total(won, used) = UsedUpTo(won)[n - 1]
      /\ total(won, refund_of) = RefundUpTo(won)[n - 1]
      /\ total(fail, used) = UsedUpTo(fail)[n - 1]
      /\ total(fail, refund_of) = RefundUpTo(fail)[n - 1]
  BY <1>4, PrefixUsed, PrefixRefund
<1> HIDE DEF c
<1>6. /\ total(won, used) = total(t, used) /\ total(won, refund_of) = total(t, refund_of)
  BY <1>3, <1>4, <1>5
<1>7. /\ total(fail, used) + c.discardable = total(t, used)
      /\ total(fail, refund_of) + c.refund = total(t, refund_of)
  BY <1>3, <1>4, <1>5
<1>8. net_usage(won) = net_usage(t)
  BY <1>6 DEF net_usage
<1> QED BY <1>6, <1>7, <1>8 DEF c, won, fail

-----------------------------------------------------------------------------
(* The operations of AdditionalLimit *)

\* The type of al
AL == [exceeded : {"within", "frame", "tx"}, rescued : Nat, detained : Nat,
       tr : [Kinds -> Tracker]]

\* b differs from a in its trackers at most.
Keeps(a, b) ==
  b.exceeded = a.exceeded /\ b.rescued = a.rescued /\ b.detained = a.detained

\* Every stack is n frames deep.
Deep(a, n) == \A k \in Kinds : Len(a.tr[k].frames) = n

\* An amount for each kind: nothing, or x for one kind only
Amounts == [Kinds -> Nat]
Nothing == [k \in Kinds |-> 0]
Only(kind, x) == [k \in Kinds |-> IF k = kind THEN x ELSE 0]

\* m is a with p, d and r recorded in the top frame of each tracker.
Records(a, m, p, d, r) ==
  /\ m \in AL /\ Keeps(a, m)
  /\ \A k \in Kinds : Recorded(a.tr[k], m.tr[k], p[k], d[k], r[k])

\* The budget a new frame gets from tracker t (push)
Budget(t) == IF Enabled(REX4) THEN max_forward_limit(t) ELSE U64Max

\* m is a with a frame pushed to each tracker, and d charged to it.
Enters(a, m, d) ==
  /\ m \in AL /\ Keeps(a, m)
  /\ \A k \in Kinds : Entered(a.tr[k], m.tr[k], Budget(a.tr[k]), d[k])

\* m is a with the top frame of each tracker popped.
Pops(a, m, success) ==
  /\ m \in AL /\ Keeps(a, m)
  /\ \A k \in Kinds : Popped(a.tr[k], m.tr[k], success)

\* The fields of an AdditionalLimit have their types.
LEMMA ALFields ==
  ASSUME NEW a \in AL
  PROVE  /\ a.exceeded \in {"within", "frame", "tx"}
         /\ a.rescued \in Nat /\ a.detained \in Nat
         /\ a.tr \in [Kinds -> Tracker]
         /\ \A k \in Kinds : a.tr[k] \in Tracker
BY DEF AL

\* Replacing the trackers keeps the rest.
LEMMA SetTrackers ==
  ASSUME NEW a \in AL, NEW f \in [Kinds -> Tracker]
  PROVE  /\ [a EXCEPT !.tr = f] \in AL
         /\ [a EXCEPT !.tr = f].tr = f
         /\ Keeps(a, [a EXCEPT !.tr = f])
BY DEF AL, Keeps

\* Setting the flag keeps the rest.
LEMMA SetExceeded ==
  ASSUME NEW a \in AL, NEW x \in {"within", "frame", "tx"}
  PROVE  LET b == [a EXCEPT !.exceeded = x]
         IN b \in AL /\ b.exceeded = x /\ b.rescued = a.rescued
            /\ b.detained = a.detained /\ b.tr = a.tr
BY DEF AL

\* Rescuing gas keeps the rest.
LEMMA SetRescued ==
  ASSUME NEW a \in AL, NEW g \in Nat
  PROVE  LET b == [a EXCEPT !.rescued = @ + g]
         IN b \in AL /\ b.exceeded = a.exceeded /\ b.rescued = a.rescued + g
            /\ b.detained = a.detained /\ b.tr = a.tr
BY DEF AL

\* Setting the detained limit keeps the rest.
LEMMA SetDetained ==
  ASSUME NEW a \in AL, NEW x \in Nat
  PROVE  LET b == [a EXCEPT !.detained = x]
         IN b \in AL /\ b.exceeded = a.exceeded /\ b.rescued = a.rescued
            /\ b.detained = x /\ b.tr = a.tr
BY DEF AL

\* No kind exceeds a limit.
Within(a) == \A k \in Kinds : kind_check(a, k) = "within"

\* A verdict depends on the trackers and on the detained limit only.
LEMMA KindCheckSame ==
  ASSUME NEW a, NEW b, a.tr = b.tr, a.detained = b.detained, NEW k
  PROVE  kind_check(a, k) = kind_check(b, k)
BY DEF kind_check, exceeds_tx_limit, tx_limit

\* check_limit changes the flag only: it sticks once it is set, stays within exactly when
\* no kind exceeds, and is otherwise the verdict of some kind.
LEMMA CheckFacts ==
  ASSUME NEW a \in AL
  PROVE  LET b == check_limit(a)
         IN /\ b \in AL
            /\ b.tr = a.tr /\ b.rescued = a.rescued /\ b.detained = a.detained
            /\ a.exceeded # "within" => b.exceeded = a.exceeded
            /\ b.exceeded = "within" <=> a.exceeded = "within" /\ Within(a)
            /\ a.exceeded = "within" /\ b.exceeded # "within" =>
                 \E k \in Kinds : kind_check(a, k) = b.exceeded
<1> DEFINE b == check_limit(a)
           x == or_else(a, "DataSize", or_else(a, "KVUpdate",
                  or_else(a, "ComputeGas", or_else(a, "StateGrowth", "within"))))
<1>1. \A k : kind_check(a, k) \in {"within", "frame", "tx"}
  BY DEF kind_check
<1>2. x \in {"within", "frame", "tx"}
  BY <1>1 DEF or_else
<1>3. x = "within" <=> Within(a)
  <2>1. Kinds \subseteq LimitKind
    BY LimitAssumption
  <2> QED BY <2>1, <1>1 DEF or_else, Within, LimitKind
<1>4. x # "within" => \E k \in Kinds : kind_check(a, k) = x
  BY <1>1 DEF or_else
<1>5. CASE a.exceeded # "within"
  <2>1. b = a
    BY <1>5 DEF check_limit
  <2> QED BY <1>5, <2>1, Zenon
<1>6. CASE a.exceeded = "within"
  <2>1. b = [a EXCEPT !.exceeded = x]
    BY <1>6 DEF check_limit
  <2> HIDE DEF b, x
  <2>2. b \in AL /\ b.exceeded = x /\ b.tr = a.tr /\ b.rescued = a.rescued /\ b.detained = a.detained
    BY <1>2, <2>1, SetExceeded
  <2>3. /\ b \in AL
        /\ b.tr = a.tr /\ b.rescued = a.rescued /\ b.detained = a.detained
        /\ a.exceeded # "within" => b.exceeded = a.exceeded
        /\ b.exceeded = "within" <=> a.exceeded = "within" /\ Within(a)
        /\ a.exceeded = "within" /\ b.exceeded # "within" =>
             \E k \in Kinds : kind_check(a, k) = b.exceeded
    BY <1>3, <1>4, <1>6, <2>2, Zenon
  <2> QED BY <2>3 DEF b
<1> QED BY <1>5, <1>6, Zenon

\* These amounts are amounts.
LEMMA AmountsTyped ==
  /\ Nothing \in Amounts
  /\ \A k : \A x \in Nat : Only(k, x) \in Amounts
BY DEF Nothing, Amounts, Only

\* record_compute_gas records in the compute gas tracker, and checks.
LEMMA GasRecords ==
  ASSUME NEW a \in AL, NEW n \in Nat \ {0}, Deep(a, n), NEW c \in Nat
  PROVE  \E m : /\ Records(a, m, Only("ComputeGas", c), Nothing, Nothing)
                /\ record_compute_gas(a, c) = check_limit(m)
<1> DEFINE m == on_kind(a, "ComputeGas", LAMBDA t : record_persistent(t, c))
           f == [k \in Kinds |-> IF k = "ComputeGas" THEN record_persistent(a.tr[k], c) ELSE a.tr[k]]
<1>1. \A k \in Kinds : a.tr[k] \in Tracker /\ Len(a.tr[k].frames) # 0
  BY ALFields DEF Deep
<1>2. \A k \in Kinds : Recorded(a.tr[k], f[k], Only("ComputeGas", c)[k], 0, 0)
  <2> SUFFICES ASSUME NEW k \in Kinds
               PROVE  Recorded(a.tr[k], f[k], Only("ComputeGas", c)[k], 0, 0)
    OBVIOUS
  <2>1. CASE k = "ComputeGas"
    BY <1>1, <2>1, RecordFacts DEF Only
  <2>2. CASE k # "ComputeGas"
    BY <1>1, <2>2, RecordNothing DEF Only
  <2> QED BY <2>1, <2>2
<1>3. \A k \in Kinds : f[k] \in Tracker
  BY <1>2 DEF Recorded
<1>4. f \in [Kinds -> Tracker]
  BY <1>3
<1>5. m = [a EXCEPT !.tr = f]
  <2>1. CASE "ComputeGas" \in Kinds
    <3>1. m = [a EXCEPT !.tr = [a.tr EXCEPT !["ComputeGas"] = record_persistent(@, c)]]
      BY <2>1 DEF on_kind
    <3>2. [a.tr EXCEPT !["ComputeGas"] = record_persistent(@, c)] = f
      BY <2>1, ALFields
    <3> QED BY <3>1, <3>2
  <2>2. CASE "ComputeGas" \notin Kinds
    <3>1. m = a
      BY <2>2 DEF on_kind
    <3>2. f = a.tr
      BY <2>2, ALFields
    <3>3. a = [a EXCEPT !.tr = a.tr]
      BY DEF AL
    <3> QED BY <3>1, <3>2, <3>3
  <2> QED BY <2>1, <2>2
<1> HIDE DEF f
<1>6. m \in AL /\ m.tr = f /\ Keeps(a, m)
  BY <1>4, <1>5, SetTrackers
<1>7. record_compute_gas(a, c) = check_limit(m)
  BY DEF record_compute_gas
<1> HIDE DEF m
<1>8. Records(a, m, Only("ComputeGas", c), Nothing, Nothing)
  BY <1>2, <1>6 DEF Records, Nothing
<1> QED BY <1>7, <1>8

\* on_log and after_frame_run_instructions record in the data size tracker, and check.
LEMMA SizeRecords ==
  ASSUME NEW a \in AL, NEW n \in Nat \ {0}, Deep(a, n), NEW c \in Nat
  PROVE  \E m : /\ Records(a, m, Nothing, Only("DataSize", c), Nothing)
                /\ on_log(a, c) = check_limit(m)
                /\ after_frame_run_instructions(a, TRUE, c) = check_limit(m)
<1> DEFINE m == on_kind(a, "DataSize", LAMBDA t : record_discardable(t, c))
           f == [k \in Kinds |-> IF k = "DataSize" THEN record_discardable(a.tr[k], c) ELSE a.tr[k]]
<1>1. \A k \in Kinds : a.tr[k] \in Tracker /\ Len(a.tr[k].frames) # 0
  BY ALFields DEF Deep
<1>2. \A k \in Kinds : Recorded(a.tr[k], f[k], 0, Only("DataSize", c)[k], 0)
  <2> SUFFICES ASSUME NEW k \in Kinds
               PROVE  Recorded(a.tr[k], f[k], 0, Only("DataSize", c)[k], 0)
    OBVIOUS
  <2>1. CASE k = "DataSize"
    BY <1>1, <2>1, RecordFacts DEF Only
  <2>2. CASE k # "DataSize"
    BY <1>1, <2>2, RecordNothing DEF Only
  <2> QED BY <2>1, <2>2
<1>3. \A k \in Kinds : f[k] \in Tracker
  BY <1>2 DEF Recorded
<1>4. f \in [Kinds -> Tracker]
  BY <1>3
<1>5. m = [a EXCEPT !.tr = f]
  <2>1. CASE "DataSize" \in Kinds
    <3>1. m = [a EXCEPT !.tr = [a.tr EXCEPT !["DataSize"] = record_discardable(@, c)]]
      BY <2>1 DEF on_kind
    <3>2. [a.tr EXCEPT !["DataSize"] = record_discardable(@, c)] = f
      BY <2>1, ALFields
    <3> QED BY <3>1, <3>2
  <2>2. CASE "DataSize" \notin Kinds
    <3>1. m = a
      BY <2>2 DEF on_kind
    <3>2. f = a.tr
      BY <2>2, ALFields
    <3>3. a = [a EXCEPT !.tr = a.tr]
      BY DEF AL
    <3> QED BY <3>1, <3>2, <3>3
  <2> QED BY <2>1, <2>2
<1> HIDE DEF f
<1>6. m \in AL /\ m.tr = f /\ Keeps(a, m)
  BY <1>4, <1>5, SetTrackers
<1> HIDE DEF m
<1>7. Records(a, m, Nothing, Only("DataSize", c), Nothing)
  BY <1>2, <1>6 DEF Records, Nothing
<1>8. on_log(a, c) = check_limit(m) /\ after_frame_run_instructions(a, TRUE, c) = check_limit(m)
  BY DEF on_log, after_frame_run_instructions, m
<1> QED BY <1>7, <1>8

\* What an SSTORE counts, and what it refunds, for each kind
Counts(k, orig) == k \in {"DataSize", "KVUpdate"} \/ (k = "StateGrowth" /\ orig = 0)
Writes(orig, present, new) ==
  [k \in Kinds |-> IF Counts(k, orig) /\ orig = present /\ present # new THEN 1 ELSE 0]
Unwrites(orig, present, new) ==
  [k \in Kinds |-> IF Counts(k, orig) /\ orig # present /\ orig = new THEN 1 ELSE 0]

\* on_sstore records what the write counts and refunds, and checks.
LEMMA SStoreRecords ==
  ASSUME NEW a \in AL, NEW n \in Nat \ {0}, Deep(a, n), NEW o \in {0, 1}, NEW p \in {0, 1},
         NEW w \in {0, 1}
  PROVE  \E m : /\ Records(a, m, Nothing, Writes(o, p, w), Unwrites(o, p, w))
                /\ on_sstore(a, o, p, w) = check_limit(m)
<1> DEFINE f == [k \in Kinds |-> IF Counts(k, o) THEN after_sstore(a.tr[k], o, p, w) ELSE a.tr[k]]
           m == [a EXCEPT !.tr = f]
<1>1. \A k \in Kinds : a.tr[k] \in Tracker /\ Len(a.tr[k].frames) # 0
  BY ALFields DEF Deep
<1>2. \A k \in Kinds : Recorded(a.tr[k], f[k], 0, Writes(o, p, w)[k], Unwrites(o, p, w)[k])
  <2> SUFFICES ASSUME NEW k \in Kinds
               PROVE  Recorded(a.tr[k], f[k], 0, Writes(o, p, w)[k], Unwrites(o, p, w)[k])
    OBVIOUS
  <2>1. /\ Recorded(a.tr[k], record_discardable(a.tr[k], 1), 0, 1, 0)
        /\ Recorded(a.tr[k], record_refund(a.tr[k], 1), 0, 0, 1)
        /\ Recorded(a.tr[k], a.tr[k], 0, 0, 0)
    BY <1>1, RecordFacts, RecordNothing
  <2>2. CASE Counts(k, o) /\ o = p /\ p # w
    BY <2>1, <2>2 DEF Writes, Unwrites, after_sstore
  <2>3. CASE Counts(k, o) /\ o # p /\ o = w
    BY <2>1, <2>3 DEF Writes, Unwrites, after_sstore
  <2>4. CASE ~(Counts(k, o) /\ o = p /\ p # w) /\ ~(Counts(k, o) /\ o # p /\ o = w)
    BY <2>1, <2>4 DEF Writes, Unwrites, after_sstore
  <2> QED BY <2>2, <2>3, <2>4
<1>3. \A k \in Kinds : f[k] \in Tracker
  BY <1>2 DEF Recorded
<1>4. f \in [Kinds -> Tracker]
  BY <1>3
<1>5. on_sstore(a, o, p, w) = check_limit(m)
  BY DEF on_sstore, Counts
<1> HIDE DEF f
<1>6. m \in AL /\ m.tr = f /\ Keeps(a, m)
  BY <1>4, SetTrackers
<1> HIDE DEF m
<1>7. Records(a, m, Nothing, Writes(o, p, w), Unwrites(o, p, w))
  BY <1>2, <1>6 DEF Records, Nothing
<1> QED BY <1>5, <1>7

\* The created account
Created(input) == [k \in Kinds |-> created_update(k, input)]

\* after_frame_init records the created account, and does not check.
LEMMA CreatedRecords ==
  ASSUME NEW a \in AL, NEW n \in Nat \ {0}, Deep(a, n), NEW x \in Input
  PROVE  Records(a, after_frame_init(a, x), Nothing, Created(x), Nothing)
<1> DEFINE f == [k \in Kinds |-> record_discardable(a.tr[k], created_update(k, x))]
           m == [a EXCEPT !.tr = f]
<1>1. \A k \in Kinds : a.tr[k] \in Tracker /\ Len(a.tr[k].frames) # 0
  BY ALFields DEF Deep
<1>2. \A k : created_update(k, x) \in Nat
  BY DEF created_update
<1>3. \A k \in Kinds : Recorded(a.tr[k], f[k], 0, created_update(k, x), 0)
  BY <1>1, <1>2, RecordFacts
<1>4. \A k \in Kinds : f[k] \in Tracker
  BY <1>3 DEF Recorded
<1>5. f \in [Kinds -> Tracker]
  BY <1>4
<1>6. after_frame_init(a, x) = m
  BY DEF after_frame_init
<1> HIDE DEF f
<1>7. m \in AL /\ m.tr = f /\ Keeps(a, m)
  BY <1>5, SetTrackers
<1> HIDE DEF m
<1>8. Records(a, m, Nothing, Created(x), Nothing)
  BY <1>3, <1>7 DEF Records, Nothing, Created
<1> QED BY <1>6, <1>8

\* What before_frame_init charges to the new frame
Charge(a, x) ==
  [k \in Kinds |-> CASE k \in {"DataSize", "KVUpdate"} -> account_updates(a.tr[k], x)
                     [] k = "StateGrowth" -> Births(x)
                     [] OTHER -> 0]

\* What before_frame_init charges is an amount.
LEMMA ChargeTyped ==
  ASSUME NEW a \in AL, NEW x \in Input
  PROVE  Charge(a, x) \in Amounts
<1>1. \A t : account_updates(t, x) \in Nat
  BY DEF account_updates, parent_needs_update, Input
<1>2. Births(x) \in Nat
  BY DEF Births
<1> QED BY <1>1, <1>2 DEF Charge, Amounts

\* A budget is a natural.
LEMMA BudgetTyped ==
  ASSUME NEW t \in Tracker
  PROVE  Budget(t) \in Nat
BY LimitAssumption, ForwardLimit DEF Budget

\* push_empty_frame pushes a frame without a charge and does not check;
\* before_frame_init pushes one, charges it and checks.
LEMMA FrameEnters ==
  ASSUME NEW a \in AL, NEW x \in Input
  PROVE  /\ Enters(a, push_empty_frame(a), Nothing)
         /\ \E m : Enters(a, m, Charge(a, x)) /\ before_frame_init(a, x) = check_limit(m)
<1>1. \A k \in Kinds : a.tr[k] \in Tracker
  BY ALFields
<1>2. \A t, u : push(t, u) = push_frame_with_limit(t, Budget(t), u)
  BY DEF push, push_frame, Budget
<1>3. Enters(a, push_empty_frame(a), Nothing)
  <2> DEFINE f == [k \in Kinds |-> push(a.tr[k], FALSE)]
  <2>1. \A k \in Kinds : Entered(a.tr[k], f[k], Budget(a.tr[k]), 0)
    BY <1>1, <1>2, BudgetTyped, EnterFacts
  <2>2. \A k \in Kinds : f[k] \in Tracker
    BY <2>1 DEF Entered
  <2>3. f \in [Kinds -> Tracker]
    BY <2>2
  <2>4. push_empty_frame(a) = [a EXCEPT !.tr = f]
    BY DEF push_empty_frame
  <2> HIDE DEF f
  <2> QED BY <2>1, <2>3, <2>4, SetTrackers DEF Enters, Nothing
<1>4. \E m : Enters(a, m, Charge(a, x)) /\ before_frame_init(a, x) = check_limit(m)
  <2> DEFINE f == [k \in Kinds |-> record_discardable(push(a.tr[k], x # "call"), Charge(a, x)[k])]
             m == [a EXCEPT !.tr = f]
  <2>1. \A k \in Kinds : Entered(a.tr[k], f[k], Budget(a.tr[k]), Charge(a, x)[k])
    <3>1. (x # "call") \in BOOLEAN /\ \A k \in Kinds : Charge(a, x)[k] \in Nat
      BY ChargeTyped DEF Amounts
    <3> QED BY <1>1, <1>2, <3>1, BudgetTyped, EnterFacts
  <2>2. \A k \in Kinds : f[k] \in Tracker
    BY <2>1 DEF Entered
  <2>3. f \in [Kinds -> Tracker]
    BY <2>2
  <2>4. before_frame_init(a, x) = check_limit(m)
    BY DEF before_frame_init, Charge
  <2> HIDE DEF f
  <2>5. m \in AL /\ m.tr = f /\ Keeps(a, m)
    BY <2>3, SetTrackers
  <2> HIDE DEF m
  <2> QED BY <2>1, <2>4, <2>5 DEF Enters
<1> QED BY <1>3, <1>4

\* pop_frame of every tracker
LEMMA FramePops ==
  ASSUME NEW a \in AL, NEW n \in Nat \ {0}, Deep(a, n), NEW success \in BOOLEAN
  PROVE  Pops(a, [a EXCEPT !.tr = [k \in Kinds |-> pop_frame(@[k], success)]], success)
<1> DEFINE f == [k \in Kinds |-> pop_frame(a.tr[k], success)]
<1>1. \A k \in Kinds : a.tr[k] \in Tracker /\ Len(a.tr[k].frames) # 0
  BY ALFields DEF Deep
<1>2. \A k \in Kinds : Popped(a.tr[k], f[k], success)
  BY <1>1, PopIsPopped
<1>3. \A k \in Kinds : f[k] \in Tracker
  BY <1>2 DEF Popped
<1>4. f \in [Kinds -> Tracker]
  BY <1>3
<1> HIDE DEF f
<1>5. Pops(a, [a EXCEPT !.tr = f], success)
  BY <1>2, <1>4, SetTrackers DEF Pops
<1> QED BY <1>5 DEF f

-----------------------------------------------------------------------------
\* The depth of the stacks
LEMMA Depths ==
  ASSUME NEW a \in AL, NEW m, NEW n \in Nat, Deep(a, n)
  PROVE  /\ \A p, d, r : Records(a, m, p, d, r) => Deep(m, n)
         /\ \A d : Enters(a, m, d) => Deep(m, n + 1)
         /\ \A success : Pops(a, m, success) => Deep(m, n - 1)
<1>1. \A p, d, r : Records(a, m, p, d, r) => Deep(m, n)
  BY DEF Records, Recorded, Deep
<1>2. \A d : Enters(a, m, d) => Deep(m, n + 1)
  <2> SUFFICES ASSUME NEW d, Enters(a, m, d), NEW k \in Kinds
               PROVE  Len(m.tr[k].frames) = n + 1
    BY DEF Deep
  <2>1. Entered(a.tr[k], m.tr[k], Budget(a.tr[k]), d[k])
    BY DEF Enters
  <2>2. Len(m.tr[k].frames) = Len(a.tr[k].frames) + 1
    BY <2>1 DEF Entered
  <2> QED BY <2>2 DEF Deep
<1>3. \A success : Pops(a, m, success) => Deep(m, n - 1)
  BY DEF Pops, Popped, Deep
<1> QED BY <1>1, <1>2, <1>3

\* b is a after some metering: the flag sticks, nothing is rescued or detained.
Steady(a, b, n) ==
  /\ b \in AL /\ Deep(b, n)
  /\ b.rescued = a.rescued /\ b.detained = a.detained
  /\ a.exceeded # "within" => b.exceeded = a.exceeded

\* A check after some metering
LEMMA CheckSteady ==
  ASSUME NEW a \in AL, NEW m \in AL, Keeps(a, m), NEW n, Deep(m, n)
  PROVE  Steady(a, check_limit(m), n)
<1>1. /\ check_limit(m) \in AL /\ check_limit(m).tr = m.tr
      /\ check_limit(m).rescued = m.rescued /\ check_limit(m).detained = m.detained
      /\ m.exceeded # "within" => check_limit(m).exceeded = m.exceeded
  BY CheckFacts
<1> QED BY <1>1 DEF Steady, Keeps, Deep

\* Compute gas of the transaction itself
LEMMA TxGasRecords ==
  ASSUME NEW a \in AL, Deep(a, 0), NEW c \in Nat
  PROVE  \E m : /\ m \in AL /\ Keeps(a, m) /\ Deep(m, 0)
                /\ record_compute_gas(a, c) = check_limit(m)
                /\ \A k \in Kinds :
                     /\ Plus(a.tr[k].tx, m.tr[k].tx, Only("ComputeGas", c)[k], 0, 0)
                     /\ UsedUpTo(m.tr[k])[0] = UsedUpTo(a.tr[k])[0] + Only("ComputeGas", c)[k]
                     /\ RefundUpTo(m.tr[k])[0] = RefundUpTo(a.tr[k])[0]
<1> DEFINE m == on_kind(a, "ComputeGas", LAMBDA t : record_persistent(t, c))
           f == [k \in Kinds |-> IF k = "ComputeGas" THEN record_persistent(a.tr[k], c) ELSE a.tr[k]]
           Good(t, v, x) == /\ v \in Tracker /\ v.frames = t.frames
                            /\ Plus(t.tx, v.tx, x, 0, 0)
                            /\ UsedUpTo(v)[0] = UsedUpTo(t)[0] + x
                            /\ RefundUpTo(v)[0] = RefundUpTo(t)[0]
<1>1. \A k \in Kinds : a.tr[k] \in Tracker /\ Len(a.tr[k].frames) = 0
  BY ALFields DEF Deep
<1>2. \A k \in Kinds : Good(a.tr[k], f[k], Only("ComputeGas", c)[k])
  <2> SUFFICES ASSUME NEW k \in Kinds
               PROVE  Good(a.tr[k], f[k], Only("ComputeGas", c)[k])
    OBVIOUS
  <2>1. CASE k = "ComputeGas"
    <3>1. Good(a.tr[k], record_persistent(a.tr[k], c), c)
      BY <1>1, EmptyRecordFacts
    <3> HIDE DEF Good
    <3> QED BY <2>1, <3>1 DEF Only
  <2>2. CASE k # "ComputeGas"
    <3>1. /\ a.tr[k] \in Tracker /\ a.tr[k].tx \in Entry
          /\ 0 \in 0 .. Len(a.tr[k].frames)
      BY <1>1, TrackerTyped
    <3>2. UsedUpTo(a.tr[k])[0] \in Nat
      BY <3>1, PrefixUsed
    <3>3. Plus(a.tr[k].tx, a.tr[k].tx, 0, 0, 0)
      BY <3>1, PlusNothing
    <3>4. Good(a.tr[k], a.tr[k], 0)
      BY <3>1, <3>2, <3>3
    <3> HIDE DEF Good
    <3> QED BY <2>2, <3>4 DEF Only
  <2> QED BY <2>1, <2>2
<1>3. \A k \in Kinds : f[k] \in Tracker
  BY <1>2
<1>4. f \in [Kinds -> Tracker]
  BY <1>3
<1>5. m = [a EXCEPT !.tr = f]
  <2> HIDE DEF Good
  <2>1. CASE "ComputeGas" \in Kinds
    <3>1. m = [a EXCEPT !.tr = [a.tr EXCEPT !["ComputeGas"] = record_persistent(@, c)]]
      BY <2>1 DEF on_kind
    <3>2. [a.tr EXCEPT !["ComputeGas"] = record_persistent(@, c)] = f
      BY <2>1, ALFields
    <3> QED BY <3>1, <3>2
  <2>2. CASE "ComputeGas" \notin Kinds
    <3>1. m = a
      BY <2>2 DEF on_kind
    <3>2. f = a.tr
      BY <2>2, ALFields
    <3>3. a = [a EXCEPT !.tr = a.tr]
      BY DEF AL
    <3> QED BY <3>1, <3>2, <3>3
  <2> QED BY <2>1, <2>2
<1> HIDE DEF f
<1>6. m \in AL /\ m.tr = f /\ Keeps(a, m)
  BY <1>4, <1>5, SetTrackers
<1>7. record_compute_gas(a, c) = check_limit(m)
  BY DEF record_compute_gas
<1> HIDE DEF m
<1>8. Deep(m, 0)
  BY <1>1, <1>2, <1>6 DEF Deep
<1> QED BY <1>2, <1>6, <1>7, <1>8

\* Compute gas
LEMMA GasSteady ==
  ASSUME NEW a \in AL, NEW n \in Nat, Deep(a, n), NEW c \in Nat
  PROVE  Steady(a, record_compute_gas(a, c), n)
<1>1. CASE n = 0
  BY <1>1, TxGasRecords, CheckSteady
<1>2. CASE n # 0
  <2>1. PICK m : /\ Records(a, m, Only("ComputeGas", c), Nothing, Nothing)
                 /\ record_compute_gas(a, c) = check_limit(m)
    BY <1>2, GasRecords
  <2>2. m \in AL /\ Keeps(a, m) /\ Deep(m, n)
    BY <2>1, Depths DEF Records
  <2> QED BY <2>1, <2>2, CheckSteady
<1> QED BY <1>1, <1>2

\* Data size
LEMMA SizeSteady ==
  ASSUME NEW a \in AL, NEW n \in Nat \ {0}, Deep(a, n), NEW c \in Nat, NEW create \in BOOLEAN
  PROVE  Steady(a, on_log(a, c), n) /\ Steady(a, after_frame_run_instructions(a, create, c), n)
<1>1. PICK m : /\ Records(a, m, Nothing, Only("DataSize", c), Nothing)
               /\ on_log(a, c) = check_limit(m)
               /\ after_frame_run_instructions(a, TRUE, c) = check_limit(m)
  BY SizeRecords
<1>2. m \in AL /\ Keeps(a, m) /\ Deep(m, n)
  BY <1>1, Depths DEF Records
<1>3. Steady(a, check_limit(m), n) /\ Steady(a, a, n)
  BY <1>2, CheckSteady DEF Steady
<1>4. ~create => after_frame_run_instructions(a, create, c) = a
  BY DEF after_frame_run_instructions
<1>5. create => after_frame_run_instructions(a, create, c) = check_limit(m)
  BY <1>1 DEF after_frame_run_instructions
<1> QED BY <1>1, <1>3, <1>4, <1>5

\* A write to storage
LEMMA SStoreSteady ==
  ASSUME NEW a \in AL, NEW n \in Nat \ {0}, Deep(a, n), NEW o \in {0, 1}, NEW p \in {0, 1},
         NEW w \in {0, 1}
  PROVE  Steady(a, on_sstore(a, o, p, w), n)
<1>1. PICK m : /\ Records(a, m, Nothing, Writes(o, p, w), Unwrites(o, p, w))
               /\ on_sstore(a, o, p, w) = check_limit(m)
  BY SStoreRecords
<1>2. m \in AL /\ Keeps(a, m) /\ Deep(m, n)
  BY <1>1, Depths DEF Records
<1> QED BY <1>1, <1>2, CheckSteady

\* A frame that begins
LEMMA InitSteady ==
  ASSUME NEW a \in AL, NEW n \in Nat, Deep(a, n), NEW x \in Input
  PROVE  /\ Steady(a, before_frame_init(a, x), n + 1)
         /\ Steady(a, push_empty_frame(a), n + 1)
         /\ push_empty_frame(a).exceeded = a.exceeded
         /\ n # 0 => Steady(a, after_frame_init(a, x), n)
                     /\ after_frame_init(a, x).exceeded = a.exceeded
<1>1. PICK m : Enters(a, m, Charge(a, x)) /\ before_frame_init(a, x) = check_limit(m)
  BY FrameEnters
<1>2. m \in AL /\ Keeps(a, m) /\ Deep(m, n + 1)
  BY <1>1, Depths DEF Enters
<1>3. Steady(a, before_frame_init(a, x), n + 1)
  BY <1>1, <1>2, CheckSteady
<1>4. Steady(a, push_empty_frame(a), n + 1) /\ push_empty_frame(a).exceeded = a.exceeded
  <2>1. Enters(a, push_empty_frame(a), Nothing)
    BY FrameEnters
  <2>2. Deep(push_empty_frame(a), n + 1)
    BY <2>1, Depths
  <2> QED BY <2>1, <2>2 DEF Enters, Steady, Keeps
<1>5. n # 0 => Steady(a, after_frame_init(a, x), n) /\ after_frame_init(a, x).exceeded = a.exceeded
  <2> SUFFICES ASSUME n # 0
               PROVE  Steady(a, after_frame_init(a, x), n) /\ after_frame_init(a, x).exceeded = a.exceeded
    OBVIOUS
  <2>1. Records(a, after_frame_init(a, x), Nothing, Created(x), Nothing)
    BY CreatedRecords
  <2>2. Deep(after_frame_init(a, x), n)
    BY <2>1, Depths
  <2> QED BY <2>1, <2>2 DEF Records, Steady, Keeps
<1> QED BY <1>3, <1>4, <1>5

\* try_rescue_gas checks, and adds the gas when the transaction exceeds.
LEMMA RescueFacts ==
  ASSUME NEW a \in AL, NEW n, Deep(a, n), NEW g \in Nat
  PROVE  LET b == try_rescue_gas(a, g)
         IN /\ b \in AL /\ Deep(b, n)
            /\ b.tr = a.tr /\ b.detained = a.detained
            /\ b.exceeded = check_limit(a).exceeded
            /\ b.rescued = IF b.exceeded = "tx" THEN a.rescued + g ELSE a.rescued
<1> DEFINE c == check_limit(a)
           b == try_rescue_gas(a, g)
<1>1. c \in AL /\ c.tr = a.tr /\ c.rescued = a.rescued /\ c.detained = a.detained
  BY CheckFacts
<1> HIDE DEF c
<1>2. b = IF c.exceeded = "tx" THEN [c EXCEPT !.rescued = @ + g] ELSE c
  BY DEF try_rescue_gas, c
<1> HIDE DEF b
<1>3. /\ b \in AL /\ b.tr = a.tr /\ b.detained = a.detained
      /\ b.exceeded = c.exceeded
      /\ b.rescued = IF b.exceeded = "tx" THEN a.rescued + g ELSE a.rescued
  <2>1. CASE c.exceeded = "tx"
    BY <1>1, <1>2, <2>1, SetRescued
  <2>2. CASE c.exceeded # "tx"
    BY <1>1, <1>2, <2>2
  <2> QED BY <2>1, <2>2
<1>4. Deep(b, n)
  BY <1>3 DEF Deep
<1> QED BY <1>3, <1>4 DEF b, c

\* set_compute_gas_limit lowers the detained limit at most; from Rex4 on it is never below
\* the usage.
LEMMA DetainFacts ==
  ASSUME NEW a \in AL, NEW n, Deep(a, n), NEW c \in Nat
  PROVE  LET b == set_compute_gas_limit(a, c)
         IN /\ b \in AL /\ Deep(b, n)
            /\ b.tr = a.tr /\ b.exceeded = a.exceeded /\ b.rescued = a.rescued
            /\ b.detained <= a.detained
            /\ Enabled(REX4) /\ "ComputeGas" \in Kinds =>
                 b.detained = a.detained \/ b.detained = net_usage(a.tr["ComputeGas"]) + c
<1> DEFINE b == set_compute_gas_limit(a, c)
           new == IF Enabled(REX4) THEN net_usage(a.tr["ComputeGas"]) + c ELSE c
<1>1. CASE "ComputeGas" \notin Kinds
  <2>1. b = a
    BY <1>1 DEF set_compute_gas_limit
  <2> QED BY <1>1, <2>1, ALFields
<1>2. CASE "ComputeGas" \in Kinds
  <2>1. net_usage(a.tr["ComputeGas"]) \in Nat
    BY <1>2, ALFields, NetUsage
  <2>2. new \in Nat /\ (Enabled(REX4) => new = net_usage(a.tr["ComputeGas"]) + c)
    BY <2>1
  <2>3. b = [a EXCEPT !.detained = IF new < a.detained THEN new ELSE a.detained]
    BY <1>2 DEF set_compute_gas_limit
  <2> HIDE DEF new, b
  <2> DEFINE y == IF new < a.detained THEN new ELSE a.detained
  <2>4. y \in Nat /\ y <= a.detained /\ (y = a.detained \/ y = new)
    BY <2>2, ALFields
  <2> HIDE DEF y
  <2>5. b \in AL /\ b.exceeded = a.exceeded /\ b.rescued = a.rescued /\ b.detained = y /\ b.tr = a.tr
    BY <2>3, <2>4, SetDetained DEF y
  <2>6. Deep(b, n)
    BY <2>5 DEF Deep
  <2>7. Enabled(REX4) => b.detained = a.detained \/ b.detained = net_usage(a.tr["ComputeGas"]) + c
    BY <2>2, <2>4, <2>5
  <2> QED BY <2>4, <2>5, <2>6, <2>7 DEF b
<1> QED BY <1>1, <1>2

\* The type of res
Result == [kind : {"none", "ok", "revert", "halt"}, gas : Nat, create : BOOLEAN,
           ran : BOOLEAN, output : BOOLEAN, late : BOOLEAN, saved : Journal]

\* What before_frame_return_result makes of the result r of a frame when the stacks are
\* n deep: m is a with the frame popped, and the verdict on m decides.
Returned(a, r, phase, n, ret) ==
  LET dup == phase = "last" /\ (n = 0 \/ Kinds = {})
  IN /\ ret.al \in AL /\ Deep(ret.al, IF n = 0 THEN 0 ELSE n - 1)
     /\ ret.al.rescued = a.rescued /\ ret.al.detained = a.detained
     /\ ret.res \in Result /\ ret.res.gas = r.gas /\ ret.res.create = r.create
     /\ ret.res.ran = r.ran /\ ret.res.saved = r.saved /\ ret.res.late = r.late
     /\ \E m \in AL :
          /\ Keeps(a, m)
          /\ n # 0 => Pops(a, m, r.kind = "ok")
          /\ n = 0 => m = a
          /\ ret.al.tr = m.tr
          /\ CASE check_limit(m).exceeded = "within" \/ dup ->
                    ret.al = check_limit(m) /\ ret.res = r
               [] check_limit(m).exceeded = "frame" /\ ~dup ->
                    ret.al.exceeded = "within" /\ ret.res.kind = "revert"
               [] check_limit(m).exceeded = "tx" /\ ~dup ->
                    ret.al.exceeded = "tx" /\ ret.res.kind = "halt"

\* before_frame_return_result, whatever the phase
LEMMA ReturnOf ==
  ASSUME NEW a \in AL, NEW n \in Nat, Deep(a, n), NEW r \in Result, NEW end \in BOOLEAN,
         NEW phase, phase = "last" <=> end, n = 0 => end
  PROVE  Returned(a, r, phase, n, before_frame_return_result(a, r, end))
<1> DEFINE f == [k \in Kinds |-> pop_frame(a.tr[k], r.kind = "ok")]
           m == [a EXCEPT !.tr = f]
           b == check_limit(m)
           dup == end /\ (n = 0 \/ Kinds = {})
           ret == before_frame_return_result(a, r, end)
           d == IF n = 0 THEN 0 ELSE n - 1
<1>1. m \in AL /\ Keeps(a, m) /\ (n # 0 => Pops(a, m, r.kind = "ok")) /\ (n = 0 => m = a) /\ Deep(m, d)
  <2>1. CASE n = 0
    <3>1. \A k \in Kinds : pop_frame(a.tr[k], r.kind = "ok") = a.tr[k]
      BY <2>1, ALFields, PopIsPopped DEF Deep
    <3>2. f = a.tr
      BY <3>1, ALFields
    <3>3. m = a
      BY <3>2 DEF AL
    <3> QED BY <2>1, <3>3 DEF Keeps
  <2>2. CASE n # 0
    <3>1. Pops(a, m, r.kind = "ok")
      BY <2>2, FramePops
    <3> HIDE DEF m
    <3>2. Deep(m, n - 1)
      BY <3>1, Depths
    <3> QED BY <2>2, <3>1, <3>2 DEF Pops
  <2> QED BY <2>1, <2>2
<1>2. dup <=> end /\ \A k \in Kinds : ~has_active_frame(a.tr[k])
  <2>1. \A k \in Kinds : has_active_frame(a.tr[k]) <=> n # 0
    <3> SUFFICES ASSUME NEW k \in Kinds PROVE has_active_frame(a.tr[k]) <=> n # 0
      OBVIOUS
    <3>1. Len(a.tr[k].frames) = n /\ a.tr[k].frames \in Seq(Entry)
      BY ALFields, TrackerTyped DEF Deep
    <3> QED BY <3>1 DEF has_active_frame
  <2> QED BY <2>1
<1>3. ret = IF b.exceeded = "within" \/ dup THEN [al |-> b, res |-> r]
            ELSE IF b.exceeded = "frame"
            THEN [al |-> [b EXCEPT !.exceeded = "within"], res |-> [r EXCEPT !.kind = "revert"]]
            ELSE [al |-> b, res |-> [r EXCEPT !.kind = "halt"]]
  BY <1>2 DEF before_frame_return_result
<1> HIDE DEF m, dup, ret
<1>4. /\ b \in AL /\ b.tr = m.tr /\ b.rescued = a.rescued /\ b.detained = a.detained
      /\ b.exceeded \in {"within", "frame", "tx"}
  BY <1>1, CheckFacts, ALFields DEF Keeps
<1> HIDE DEF b
<1>5. CASE b.exceeded = "within" \/ dup
  <2>1. ret.al = b /\ ret.res = r
    BY <1>3, <1>5
  <2>2. Deep(b, d)
    BY <1>1, <1>4 DEF Deep
  <2>3. ret.al.tr = m.tr
    BY <1>4, <2>1
  <2> QED BY <1>1, <1>4, <1>5, <2>1, <2>2, <2>3 DEF b, dup, ret, Returned
<1>6. CASE b.exceeded = "frame" /\ ~dup
  <2>1. ret.al = [b EXCEPT !.exceeded = "within"] /\ ret.res = [r EXCEPT !.kind = "revert"]
    BY <1>3, <1>6
  <2>2. ret.al \in AL /\ ret.al.tr = m.tr /\ ret.al.exceeded = "within"
        /\ ret.al.rescued = a.rescued /\ ret.al.detained = a.detained
    BY <1>4, <2>1 DEF AL
  <2>3. ret.res \in Result /\ ret.res.gas = r.gas /\ ret.res.create = r.create
        /\ ret.res.ran = r.ran /\ ret.res.saved = r.saved /\ ret.res.kind = "revert"
        /\ ret.res.late = r.late
    BY <2>1 DEF Result
  <2>4. Deep(ret.al, d)
    BY <1>1, <2>2 DEF Deep
  <2> QED BY <1>1, <1>6, <2>2, <2>3, <2>4 DEF b, dup, ret, Returned
<1>7. CASE b.exceeded = "tx" /\ ~dup
  <2>1. ret.al = b /\ ret.res = [r EXCEPT !.kind = "halt"]
    BY <1>3, <1>7
  <2>2. ret.al \in AL /\ ret.al.tr = m.tr /\ ret.al.exceeded = "tx"
        /\ ret.al.rescued = a.rescued /\ ret.al.detained = a.detained
    BY <1>4, <1>7, <2>1
  <2>3. ret.res \in Result /\ ret.res.gas = r.gas /\ ret.res.create = r.create
        /\ ret.res.ran = r.ran /\ ret.res.saved = r.saved /\ ret.res.kind = "halt"
        /\ ret.res.late = r.late
    BY <2>1 DEF Result
  <2>4. Deep(ret.al, d)
    BY <1>1, <2>2 DEF Deep
  <2> QED BY <1>1, <1>7, <2>2, <2>3, <2>4 DEF b, dup, ret, Returned
<1> QED BY <1>4, <1>5, <1>6, <1>7

\* The same for each of the two callers
LEMMA ReturnFacts ==
  ASSUME NEW a \in AL, NEW n \in Nat, Deep(a, n), NEW r \in Result
  PROVE  /\ n # 0 => Returned(a, r, "return", n, before_frame_return_result(a, r, FALSE))
         /\ Returned(a, r, "last", n, before_frame_return_result(a, r, TRUE))
BY ReturnOf

-----------------------------------------------------------------------------
\* A frame of the EVM
Frame == [create : BOOLEAN, gas : Nat, saved : Journal]

\* Where each phase of the frame loop finds the frames
Shape ==
  /\ pc \in {"resume", "run", "finish", "return"} => frames # <<>>
  /\ pc \in {"last", "done"} => frames = <<>>
  /\ pc = "finish" => res.ran
  /\ pc \in {"finish", "return", "last"} => res.kind # "none"

\* The inductive invariant of this module
Base == TypeOK /\ Shape /\ StacksAligned

\* The frame of a result that came from frame_init is in the trackers' stacks only.
Pending == IF pc \in {"return", "last"} /\ ~res.ran THEN 1 ELSE 0

\* What the invariant says, part by part
LEMMA BaseFacts ==
  ASSUME Base
  PROVE  /\ al \in AL /\ frames \in Seq(Frame) /\ res \in Result /\ journal \in Journal
         /\ req.input \in Input /\ req.gas \in Nat
         /\ spent \in Nat /\ burned \in Nat /\ lost \in Nat
         /\ Len(frames) \in Nat /\ Len(frames) + Pending \in Nat
         /\ Deep(al, Len(frames) + Pending)
         /\ pc \notin {"return", "last"} => Deep(al, Len(frames))
         /\ frames # <<>> =>
              /\ Len(frames) \in Nat \ {0} /\ Len(frames) \in 1 .. Len(frames)
              /\ top_frame \in Frame
              /\ top_frame.gas \in Nat /\ top_frame.saved \in Journal /\ top_frame.create \in BOOLEAN
<1>1. /\ al \in AL /\ frames \in Seq(Frame) /\ res \in Result /\ journal \in Journal
      /\ req.input \in Input /\ req.gas \in Nat
      /\ spent \in Nat /\ burned \in Nat /\ lost \in Nat
  BY DEF Base, TypeOK, AL, Frame, Result
<1>2. Len(frames) \in Nat
  BY <1>1
<1>3. Pending \in {0, 1} /\ (pc \notin {"return", "last"} => Pending = 0)
  BY DEF Pending
<1>4. Deep(al, Len(frames) + Pending)
  BY DEF Base, StacksAligned, Deep, Pending
<1>5. pc \notin {"return", "last"} => Deep(al, Len(frames))
  BY <1>2, <1>3, <1>4
<1>6. ASSUME frames # <<>>
      PROVE  /\ Len(frames) \in Nat \ {0} /\ Len(frames) \in 1 .. Len(frames)
             /\ top_frame \in Frame
             /\ top_frame.gas \in Nat /\ top_frame.saved \in Journal /\ top_frame.create \in BOOLEAN
  <2>1. Len(frames) \in Nat \ {0} /\ Len(frames) \in 1 .. Len(frames)
    BY <1>1, <1>6
  <2>2. top_frame \in Frame
    BY <1>1, <2>1 DEF top_frame
  <2> QED BY <2>1, <2>2 DEF Frame
<1> QED BY <1>1, <1>2, <1>3, <1>4, <1>5, <1>6

\* The same, the other way round and a step later
LEMMA BaseNext ==
  ASSUME pc' \in {"done", "init", "resume", "run", "finish", "return", "last"},
         al' \in AL, frames' \in Seq(Frame), res' \in Result, journal' \in Journal,
         req' \in [input : Input, gas : Nat],
         spent' \in Nat, burned' \in Nat, lost' \in Nat,
         Shape', NEW n, Deep(al', n),
         n = Len(frames') + IF pc' \in {"return", "last"} /\ ~res'.ran THEN 1 ELSE 0
  PROVE  Base'
<1>1. TypeOK'
  BY DEF TypeOK, AL, Frame, Result
<1>2. StacksAligned'
  BY DEF StacksAligned, Deep
<1> QED BY <1>1, <1>2 DEF Base

\* The constants are naturals.
LEMMA Costs ==
  /\ IntrinsicCosts \subseteq Nat /\ OpCosts \subseteq Nat /\ ForwardGas \subseteq Nat
  /\ LogSizes \subseteq Nat /\ CodeSizes \subseteq Nat /\ PrecompileCosts \subseteq Nat
  /\ GasLimit \in Nat /\ TxSize \in Nat /\ VolatileCap \in Nat
  /\ CodeDepositCost \in Nat /\ CodeStorageCost \in Nat
BY LimitAssumption

\* The journal a transaction starts with
LEMMA StartJournal == NoResult.saved \in Journal /\ NoResult \in Result
BY LimitAssumption DEF NoResult, Journal, Result

\* reset starts every tracker afresh.
LEMMA ResetFacts ==
  ASSUME NEW a \in AL
  PROVE  LET b == reset(a)
         IN /\ b \in AL /\ Deep(b, 0) /\ b.exceeded = "within" /\ b.rescued = 0
            /\ b.detained = IF Enabled(REX1) /\ "ComputeGas" \in Kinds
                            THEN TxLimit["ComputeGas"] ELSE a.detained
            /\ \A k \in Kinds : b.tr[k] = new_tracker(TxLimit[k])
<1> DEFINE f == [k \in Kinds |-> new_tracker(TxLimit[k])]
           x == IF Enabled(REX1) /\ "ComputeGas" \in Kinds
                THEN TxLimit["ComputeGas"] ELSE a.detained
<1>1. \A k \in Kinds : f[k] \in Tracker /\ Len(f[k].frames) = 0
  BY LimitAssumption, NewTracker
<1>2. f \in [Kinds -> Tracker]
  BY <1>1
<1>3. x \in Nat
  BY LimitAssumption, ALFields
<1>4. reset(a) = [exceeded |-> "within", rescued |-> 0, detained |-> x, tr |-> f]
  BY DEF reset
<1>5. \A k \in Kinds : f[k] = new_tracker(TxLimit[k])
  OBVIOUS
<1> HIDE DEF f
<1>6. reset(a) \in AL /\ reset(a).tr = f
  BY <1>2, <1>3, <1>4 DEF AL
<1> QED BY <1>1, <1>4, <1>5, <1>6 DEF Deep

\* before_tx_start charges the transaction entries, and checks.
LEMMA TxStarts ==
  ASSUME NEW a \in AL, Deep(a, 0)
  PROVE  \E m : /\ m \in AL /\ Keeps(a, m) /\ Deep(m, 0)
                /\ before_tx_start(a) = check_limit(m)
                /\ \A k \in Kinds :
                     /\ m.tr[k].frames = a.tr[k].frames
                     /\ Plus(a.tr[k].tx, m.tr[k].tx, tx_charge(k), 0, 0)
                     /\ UsedUpTo(m.tr[k])[0] = UsedUpTo(a.tr[k])[0] + tx_charge(k)
                     /\ RefundUpTo(m.tr[k])[0] = RefundUpTo(a.tr[k])[0]
<1> DEFINE f == [k \in Kinds |-> [a.tr[k] EXCEPT !.tx.persistent = @ + tx_charge(k)]]
           m == [a EXCEPT !.tr = f]
<1>0. \A k : tx_charge(k) \in Nat
  BY Costs DEF tx_charge
<1>1. \A k \in Kinds : a.tr[k] \in Tracker /\ Len(a.tr[k].frames) = 0
  BY ALFields DEF Deep
<1>2. \A k \in Kinds : f[k] = record_persistent(a.tr[k], tx_charge(k))
  <2> SUFFICES ASSUME NEW k \in Kinds PROVE f[k] = record_persistent(a.tr[k], tx_charge(k))
    OBVIOUS
  <2>1. a.tr[k].frames = <<>>
    BY <1>1, TrackerTyped
  <2> QED BY <2>1 DEF record_persistent, has_active_frame
<1>3. \A k \in Kinds : /\ f[k] \in Tracker /\ f[k].frames = a.tr[k].frames
                        /\ Plus(a.tr[k].tx, f[k].tx, tx_charge(k), 0, 0)
                        /\ UsedUpTo(f[k])[0] = UsedUpTo(a.tr[k])[0] + tx_charge(k)
                        /\ RefundUpTo(f[k])[0] = RefundUpTo(a.tr[k])[0]
  BY <1>0, <1>1, <1>2, EmptyRecordFacts
<1>4. f \in [Kinds -> Tracker]
  BY <1>3
<1>5. before_tx_start(a) = check_limit(m)
  BY DEF before_tx_start
<1> HIDE DEF f
<1>6. m \in AL /\ m.tr = f /\ Keeps(a, m)
  BY <1>4, SetTrackers
<1> HIDE DEF m
<1>7. Deep(m, 0)
  BY <1>1, <1>3, <1>6 DEF Deep
<1> QED BY <1>3, <1>5, <1>6, <1>7

\* The initial states
LEMMA InitBase == Init => Base
<1> SUFFICES ASSUME Init PROVE Base
  OBVIOUS
<1> DEFINE f == [k \in Kinds |-> new_tracker(TxLimit[k])]
           x == IF "ComputeGas" \in Kinds THEN TxLimit["ComputeGas"] ELSE U64Max
<1>1. \A k \in Kinds : f[k] \in Tracker /\ Len(f[k].frames) = 0
  BY LimitAssumption, NewTracker
<1>2. f \in [Kinds -> Tracker]
  BY <1>1
<1>3. x \in Nat
  BY LimitAssumption
<1>4. al = [exceeded |-> "within", rescued |-> 0, detained |-> x, tr |-> f]
  BY DEF Init
<1> HIDE DEF f, x
<1>5. al \in AL /\ al.tr = f
  BY <1>2, <1>3, <1>4 DEF AL
<1>6. TypeOK
  BY <1>5, StartJournal DEF Init, TypeOK, AL, Result, Input
<1>7. StacksAligned
  BY <1>1, <1>5 DEF StacksAligned, Init
<1>8. Shape
  BY DEF Shape, Init
<1> QED BY <1>6, <1>7, <1>8 DEF Base

\* A transaction starts.
LEMMA StartTxBase ==
  ASSUME Base, NEW i \in IntrinsicCosts, NEW x \in Input, StartTx(i, x)
  PROVE  Base'
<1>1. reset(al) \in AL /\ Deep(reset(al), 0)
  BY BaseFacts, ResetFacts
<1>2. before_tx_start(reset(al)) \in AL /\ Deep(before_tx_start(reset(al)), 0)
  BY <1>1, TxStarts, CheckSteady DEF Steady
<1>3. al' \in AL /\ Deep(al', 0)
  <2>1. al' = record_compute_gas(before_tx_start(reset(al)), i) /\ i \in Nat
    BY Costs DEF StartTx
  <2> QED BY <1>2, <2>1, GasSteady DEF Steady
<1>4. Shape' /\ frames' = <<>> /\ frames' \in Seq(Frame) /\ Len(frames') = 0 /\ pc' = "init"
  BY DEF StartTx, Shape
<1>5. /\ res' \in Result /\ journal' \in Journal /\ req' \in [input : Input, gas : Nat]
      /\ spent' \in Nat /\ burned' \in Nat /\ lost' \in Nat
  BY StartJournal, Costs DEF StartTx
<1> QED BY <1>3, <1>4, <1>5, BaseNext

\* A result of a frame that never ran
LEMMA EndAtOnceBase ==
  ASSUME Base, pc = "init", NEW kind \in {"ok", "revert", "halt"}, NEW g \in Nat,
         NEW late \in BOOLEAN, EndAtOnce(kind, g, late),
         al' \in AL, Deep(al', Len(frames) + 1), journal' \in Journal,
         spent' \in Nat, burned' \in Nat, lost' \in Nat
  PROVE  Base'
<1>1. /\ res' \in Result /\ ~res'.ran /\ res'.kind = kind /\ frames' = frames /\ req' = req
      /\ pc' = IF frames = <<>> THEN "last" ELSE "return"
  BY BaseFacts DEF EndAtOnce, Result
<1>2. frames' \in Seq(Frame) /\ req' \in [input : Input, gas : Nat]
  BY <1>1, BaseFacts DEF Base, TypeOK
<1>3. Shape'
  BY <1>1 DEF Shape
<1>4. pc' \in {"return", "last"}
  BY <1>1
<1> QED BY <1>1, <1>2, <1>3, <1>4, BaseNext

\* Accounts that come to life, counted or not
LEMMA BornJournal ==
  ASSUME Base, NEW n \in Int
  PROVE  /\ n \in Nat => [journal EXCEPT !.born = @ + n] \in Journal
         /\ Uncounted(n) \in Journal
<1>1. journal \in Journal
  BY BaseFacts
<1>2. /\ journal.born \in Int /\ journal.store \in [Slot -> {0, 1}] /\ journal.uncounted \in BOOLEAN
      /\ journal.uncounted \/ journal.born >= 0
  BY <1>1 DEF Journal
<1>3. ASSUME n \in Nat PROVE [journal EXCEPT !.born = @ + n] \in Journal
  <2>1. [journal EXCEPT !.born = @ + n] =
          [store |-> journal.store, born |-> journal.born + n, uncounted |-> journal.uncounted]
    BY <1>1 DEF Journal
  <2>2. journal.born + n \in Int /\ (journal.uncounted \/ journal.born + n >= 0)
    BY <1>2, <1>3
  <2> QED BY <1>2, <2>1, <2>2 DEF Journal
<1>4. n # 0 => Uncounted(n) = [store |-> journal.store, born |-> journal.born + n, uncounted |-> TRUE]
  BY <1>1 DEF Uncounted, Journal
<1>5. Uncounted(n) \in Journal
  <2>1. CASE n = 0
    BY <1>1, <2>1 DEF Uncounted
  <2>2. CASE n # 0
    <3> DEFINE u == [store |-> journal.store, born |-> journal.born + n, uncounted |-> TRUE]
    <3>1. journal.born + n \in Int
      BY <1>2
    <3>2. u \in Journal
      BY <1>2, <3>1 DEF Journal
    <3>3. Uncounted(n) = u
      BY <1>4, <2>2
    <3> HIDE DEF u
    <3> QED BY <3>2, <3>3
  <2> QED BY <2>1, <2>2
<1> QED BY <1>3, <1>5

\* What a precompile leaves in the journal: nothing when it fails, the account it brought to
\* life otherwise, which is uncounted when the precompile exceeds a limit.
LEMMA PrecompileJournal ==
  ASSUME Base, NEW k \in {"ok", "revert", "halt"}, NEW c \in PrecompileCosts, InitPrecompile(k, c)
  PROVE  LET b == record_compute_gas(before_frame_init(al, req.input), c)
             x == Births(req.input)
         IN /\ x \in Nat /\ journal' \in Journal
            /\ k # "ok" => journal' = journal
            /\ k = "ok" /\ b.exceeded # "within" => journal' = Uncounted(x)
            /\ k = "ok" /\ b.exceeded = "within" => journal' = [journal EXCEPT !.born = @ + x]
<1> DEFINE b == record_compute_gas(before_frame_init(al, req.input), c)
           x == Births(req.input)
<1>1. x \in Nat /\ journal \in Journal
  BY BaseFacts DEF Births
<1>2. /\ k # "ok" => journal' = journal
      /\ k = "ok" /\ b.exceeded # "within" => journal' = Uncounted(x)
      /\ k = "ok" /\ b.exceeded = "within" => journal' = [journal EXCEPT !.born = @ + x]
  BY DEF InitPrecompile
<1> HIDE DEF b, x
<1>3. [journal EXCEPT !.born = @ + x] \in Journal /\ Uncounted(x) \in Journal
  BY <1>1, BornJournal
<1>4. journal' \in Journal
  BY <1>1, <1>2, <1>3
<1> QED BY <1>1, <1>2, <1>4 DEF b, x

\* A frame ends at once.
LEMMA FramesInitBase ==
  ASSUME Base
  PROVE  /\ \A kind \in {"ok", "revert"} : Intercept(kind) => Base'
         /\ InitExceeds => Base'
         /\ \A kind \in {"ok", "revert", "halt"} : InitEnds(kind) => Base'
         /\ \A kind \in {"ok", "revert", "halt"}, c \in PrecompileCosts :
              InitPrecompile(kind, c) => Base'
<1> DEFINE a == before_frame_init(al, req.input)
           n == Len(frames)
<1>1. ASSUME pc = "init"
      PROVE  a \in AL /\ Deep(a, n + 1) /\ push_empty_frame(al) \in AL /\ Deep(push_empty_frame(al), n + 1)
  BY <1>1, BaseFacts, InitSteady DEF Steady
<1>2. \A x \in Input : Births(x) \in Nat
  BY DEF Births
<1>3. ASSUME NEW kind \in {"ok", "revert"}, Intercept(kind) PROVE Base'
  <2>1. /\ pc = "init" /\ al' = push_empty_frame(al) /\ EndAtOnce(kind, req.gas, FALSE)
        /\ journal' = journal /\ spent' = spent /\ burned' = burned
        /\ lost' = lost \/ lost' = lost + req.gas
    BY <1>3 DEF Intercept
  <2>2. lost' \in Nat /\ FALSE \in BOOLEAN
    BY <2>1, BaseFacts
  <2> QED BY <1>1, <2>1, <2>2, BaseFacts, EndAtOnceBase
<1>4. ASSUME InitExceeds PROVE Base'
  <2>1. /\ pc = "init" /\ al' = try_rescue_gas(a, req.gas)
        /\ EndAtOnce(exceeding_instruction_result(a), req.gas, FALSE)
        /\ journal' = journal /\ spent' = spent /\ burned' = burned /\ lost' = lost
    BY <1>4 DEF InitExceeds, ghosts
  <2>2. exceeding_instruction_result(a) \in {"ok", "revert", "halt"}
    BY DEF exceeding_instruction_result
  <2> HIDE DEF a
  <2>3. al' \in AL /\ Deep(al', n + 1)
    BY <1>1, <2>1, BaseFacts, RescueFacts
  <2> QED BY <2>1, <2>2, <2>3, BaseFacts, EndAtOnceBase
<1>5. ASSUME NEW kind \in {"ok", "revert", "halt"}, InitEnds(kind) PROVE Base'
  <2>1. /\ pc = "init" /\ al' = try_rescue_gas(a, req.gas)
        /\ EndAtOnce(kind, req.gas, FALSE)
        /\ spent' = spent /\ burned' = burned /\ lost' = lost
    BY <1>5 DEF InitEnds, ghosts
  <2>2. journal' \in Journal
    BY <1>2, <1>5, BaseFacts DEF InitEnds, Journal
  <2> HIDE DEF a
  <2>3. al' \in AL /\ Deep(al', n + 1)
    BY <1>1, <2>1, BaseFacts, RescueFacts
  <2> QED BY <2>1, <2>2, <2>3, BaseFacts, EndAtOnceBase
<1>6. ASSUME NEW k \in {"ok", "revert", "halt"}, NEW c \in PrecompileCosts, InitPrecompile(k, c) PROVE Base'
  <2> DEFINE b    == record_compute_gas(a, c)
             late == k = "ok" /\ b.exceeded # "within"
  <2>1. /\ pc = "init" /\ al' = try_rescue_gas(b, req.gas - c)
        /\ EndAtOnce(k, req.gas - c, late) /\ c <= req.gas
        /\ spent' = spent + c /\ burned' = burned /\ lost' = lost
    BY <1>6 DEF InitPrecompile
  <2>2. journal' \in Journal
    BY <1>6, PrecompileJournal
  <2>3. c \in Nat /\ req.gas - c \in Nat /\ spent' \in Nat /\ late \in BOOLEAN
    BY <2>1, BaseFacts, Costs
  <2> HIDE DEF late, a
  <2>4. b \in AL /\ Deep(b, n + 1)
    BY <1>1, <2>1, <2>3, BaseFacts, GasSteady DEF Steady
  <2>5. al' \in AL /\ Deep(al', n + 1)
    BY <2>1, <2>3, <2>4, RescueFacts
  <2> HIDE DEF b
  <2> QED BY <2>1, <2>2, <2>3, <2>5, BaseFacts, EndAtOnceBase
<1> QED BY <1>3, <1>4, <1>5, <1>6

\* A frame is made.
LEMMA InitRunsBase ==
  ASSUME Base, InitRuns
  PROVE  Base'
<1> DEFINE a == before_frame_init(al, req.input)
           n == Len(frames)
           e == [create |-> req.input = "create", gas |-> req.gas, saved |-> journal]
<1>1. /\ pc = "init" /\ al' = after_frame_init(a, req.input) /\ frames' = Append(frames, e)
      /\ journal' = [journal EXCEPT !.born = @ + Births(req.input)] /\ res' = NoResult /\ pc' = "resume"
      /\ req' = req /\ spent' = spent /\ burned' = burned /\ lost' = lost
  BY DEF InitRuns, ghosts
<1>2. a \in AL /\ Deep(a, n + 1)
  BY <1>1, BaseFacts, InitSteady DEF Steady
<1>9. n + 1 \in Nat /\ n + 1 # 0 /\ req.input \in Input
  <2>1. n \in Nat /\ req.input \in Input
    BY BaseFacts
  <2> HIDE DEF n
  <2> QED BY <2>1
<1> HIDE DEF a
<1>3. al' \in AL /\ Deep(al', n + 1)
  BY <1>1, <1>2, <1>9, InitSteady DEF Steady
<1>4. e \in Frame
  BY BaseFacts DEF Frame
<1> HIDE DEF e
<1>5. frames' \in Seq(Frame) /\ Len(frames') = n + 1 /\ frames' # <<>>
  BY <1>1, <1>4, BaseFacts
<1>6. journal' \in Journal
  BY <1>1, BaseFacts DEF Journal, Births
<1>7. Shape'
  BY <1>1, <1>5 DEF Shape
<1>8. req' \in [input : Input, gas : Nat]
  BY <1>1 DEF Base, TypeOK
<1> QED BY <1>1, <1>2, <1>3, <1>5, <1>6, <1>7, <1>8, BaseFacts, StartJournal, BaseNext

\* The top frame ends.
LEMMA ReturnWithBase ==
  ASSUME Base, frames # <<>>, pc \in {"resume", "run"}, NEW kind \in {"ok", "revert", "halt"},
         NEW g \in Nat, NEW output \in BOOLEAN, ReturnWith(kind, g, output),
         al' \in AL, Deep(al', Len(frames)),
         journal' \in Journal, spent' \in Nat, burned' \in Nat, lost' \in Nat
  PROVE  Base'
<1>1. /\ res' \in Result /\ res'.ran /\ res'.kind = kind
      /\ frames' = frames /\ req' = req /\ pc' = "finish"
  BY BaseFacts DEF ReturnWith, Result
<1>2. frames' \in Seq(Frame) /\ req' \in [input : Input, gas : Nat] /\ Shape'
  BY <1>1, BaseFacts DEF Base, TypeOK, Shape
<1>3. Len(frames) = Len(frames') + 0
  BY <1>1, BaseFacts
<1> QED BY <1>1, <1>2, <1>3, BaseNext

\* The same, when it may have output
LEMMA ReturnBase ==
  ASSUME Base, frames # <<>>, pc \in {"resume", "run"}, NEW kind \in {"ok", "revert", "halt"},
         NEW g \in Nat, Return(kind, g), al' \in AL, Deep(al', Len(frames)),
         journal' \in Journal, spent' \in Nat, burned' \in Nat, lost' \in Nat
  PROVE  Base'
<1>1. ReturnWith(kind, g, TRUE) /\ TRUE \in BOOLEAN
  BY DEF Return
<1> QED BY <1>1, ReturnWithBase

\* A frame that pays keeps its place.
LEMMA PayFrame ==
  ASSUME Base, frames # <<>>, NEW g \in Nat, NEW fs,
         fs = [frames EXCEPT ![Len(frames)].gas = g]
  PROVE  fs \in Seq(Frame) /\ Len(fs) = Len(frames) /\ fs # <<>>
<1> DEFINE n == Len(frames)
           e == [frames[n] EXCEPT !.gas = g]
<1>1. n \in 1 .. n /\ n \in Nat \ {0} /\ frames \in Seq(Frame) /\ frames[n] \in Frame
  BY BaseFacts DEF top_frame
<1>2. e \in Frame
  BY <1>1 DEF Frame
<1>3. fs = [frames EXCEPT ![n] = e]
  OBVIOUS
<1> HIDE DEF n, e
<1>4. fs \in Seq(Frame) /\ Len(fs) = Len(frames)
  BY <1>1, <1>2, <1>3
<1>5. Len(frames) # 0
  BY <1>1 DEF n
<1> QED BY <1>4, <1>5

\* A frame goes on, or ends because a limit is exceeded.
LEMMA ResumeBase ==
  ASSUME Base, Resume
  PROVE  Base'
<1> DEFINE a == check_limit(al)
<1>1. pc = "resume" /\ frames # <<>> /\ al' = a /\ journal' = journal /\ spent' = spent
      /\ burned' = burned /\ lost' = lost
  BY DEF Resume, Base, Shape, ghosts
<1>2. a \in AL /\ Deep(a, Len(frames))
  <2>1. al \in AL /\ Deep(al, Len(frames)) /\ Keeps(al, al)
    BY <1>1, BaseFacts DEF Keeps
  <2> QED BY <2>1, CheckSteady DEF Steady
<1>3. exceeding_instruction_result(a) \in {"ok", "revert", "halt"}
  BY DEF exceeding_instruction_result
<1>4. CASE a.exceeded # "within"
  <2>1. Return(exceeding_instruction_result(a), top_frame.gas)
    BY <1>4 DEF Resume
  <2> HIDE DEF a
  <2> QED BY <1>1, <1>2, <1>3, <2>1, BaseFacts, ReturnBase
<1>5. CASE a.exceeded = "within"
  <2>1. pc' = "run" /\ frames' = frames /\ req' = req /\ res' = res
    BY <1>5 DEF Resume
  <2> HIDE DEF a
  <2>2. /\ Shape' /\ req' \in [input : Input, gas : Nat] /\ frames' \in Seq(Frame)
        /\ Len(frames) = Len(frames') + 0
    BY <1>1, <2>1, BaseFacts DEF Shape, Base, TypeOK
  <2> QED BY <1>1, <1>2, <2>1, <2>2, BaseFacts, BaseNext
<1> QED BY <1>4, <1>5

\* An opcode: the frame goes on, or has its result
LEMMA ExecutedBase ==
  ASSUME Base, NEW c \in Nat, CanPay(c), NEW a, Executed(a, c),
         a \in AL, Deep(a, Len(frames)), journal' \in Journal
  PROVE  Base'
<1>1. /\ pc = "run" /\ frames # <<>> /\ al' = a /\ spent' = spent + c
      /\ burned' = burned /\ lost' = lost /\ c <= top_frame.gas
  BY DEF Executed, Base, Shape, CanPay
<1>2. top_frame.gas - c \in Nat /\ spent' \in Nat
  BY <1>1, BaseFacts
<1>3. exceeding_instruction_result(a) \in {"ok", "revert", "halt"}
  BY DEF exceeding_instruction_result
<1>4. CASE a.exceeded # "within"
  <2>1. Return(exceeding_instruction_result(a), top_frame.gas - c)
    BY <1>4 DEF Executed
  <2> QED BY <1>1, <1>2, <1>3, <2>1, BaseFacts, ReturnBase
<1>5. CASE a.exceeded = "within"
  <2>1. /\ pc' = pc /\ req' = req /\ res' = res
        /\ frames' = [frames EXCEPT ![Len(frames)].gas = top_frame.gas - c]
    BY <1>5 DEF Executed, top_frame
  <2>2. frames' \in Seq(Frame) /\ Len(frames') = Len(frames) /\ frames' # <<>>
    BY <1>1, <1>2, <2>1, PayFrame
  <2>3. /\ Shape' /\ req' \in [input : Input, gas : Nat]
    BY <1>1, <2>1, <2>2 DEF Shape, Base, TypeOK
  <2>4. Len(frames) = Len(frames') + 0
    BY <2>2, BaseFacts
  <2> QED BY <1>1, <1>2, <2>1, <2>2, <2>3, <2>4, BaseFacts, BaseNext
<1> QED BY <1>4, <1>5

\* The limits as an opcode of compute gas c leaves them
LEMMA OpSteady ==
  ASSUME Base, pc = "run", NEW c \in Nat
  PROVE  LET a == record_compute_gas(al, c)
             n == Len(frames)
         IN /\ n \in Nat \ {0} /\ Steady(al, a, n)
            /\ \A x \in Nat : LET b == set_compute_gas_limit(a, x) IN b \in AL /\ Deep(b, n)
            /\ \A s \in Slot, v \in {0, 1} :
                 Steady(a, on_sstore(a, Original[s], journal.store[s], v), n)
            /\ \A x \in Nat : Steady(a, on_log(a, x), n)
<1> DEFINE a == record_compute_gas(al, c)
           n == Len(frames)
<1>1. n \in Nat \ {0} /\ al \in AL /\ Deep(al, n)
  BY BaseFacts DEF Base, Shape
<1> HIDE DEF n
<1>2. Steady(al, a, n) /\ a \in AL /\ Deep(a, n)
  BY <1>1, GasSteady DEF Steady
<1> HIDE DEF a
<1>3. \A x \in Nat : LET b == set_compute_gas_limit(a, x) IN b \in AL /\ Deep(b, n)
  BY <1>2, DetainFacts
<1>4. \A s \in Slot : Original[s] \in {0, 1} /\ journal.store[s] \in {0, 1}
  BY LimitAssumption, BaseFacts DEF Journal
<1>5. \A s \in Slot, v \in {0, 1} :
        Steady(a, on_sstore(a, Original[s], journal.store[s], v), n)
  BY <1>1, <1>2, <1>4, SStoreSteady
<1>6. \A x \in Nat : Steady(a, on_log(a, x), n)
  BY <1>1, <1>2, SizeSteady
<1> QED BY <1>1, <1>2, <1>3, <1>5, <1>6 DEF a, n

\* The opcodes that make no frame
LEMMA OpsBase ==
  ASSUME Base
  PROVE  /\ \A c \in OpCosts : PlainOp(c) => Base'
         /\ \A c \in OpCosts : VolatileOp(c) => Base'
         /\ \A c \in OpCosts, s \in Slot, v \in {0, 1} : SStore(c, s, v) => Base'
         /\ \A c \in OpCosts, size \in LogSizes : Log(c, size) => Base'
<1>1. OpCosts \subseteq Nat /\ LogSizes \subseteq Nat /\ VolatileCap \in Nat
  BY Costs
<1>2. journal \in Journal
  BY BaseFacts
<1>3. ASSUME NEW c \in OpCosts, PlainOp(c) PROVE Base'
  <2> DEFINE a == record_compute_gas(al, c)
  <2>1. CanPay(c) /\ Executed(a, c) /\ journal' = journal /\ pc = "run" /\ c \in Nat
    BY <1>1, <1>3 DEF PlainOp, CanPay
  <2>2. a \in AL /\ Deep(a, Len(frames))
    BY <2>1, OpSteady DEF Steady
  <2> HIDE DEF a
  <2> QED BY <1>2, <2>1, <2>2, ExecutedBase
<1>4. ASSUME NEW c \in OpCosts, VolatileOp(c) PROVE Base'
  <2> DEFINE a == record_compute_gas(al, c)
             b == IF a.exceeded = "tx" THEN a ELSE set_compute_gas_limit(a, VolatileCap)
  <2>1. CanPay(c) /\ Executed(b, c) /\ journal' = journal /\ pc = "run" /\ c \in Nat
    BY <1>1, <1>4 DEF VolatileOp, CanPay
  <2>2. a \in AL /\ Deep(a, Len(frames))
    BY <2>1, OpSteady DEF Steady
  <2>3. LET d == set_compute_gas_limit(a, VolatileCap) IN d \in AL /\ Deep(d, Len(frames))
    BY <1>1, <2>1, OpSteady
  <2> HIDE DEF a
  <2>4. b \in AL /\ Deep(b, Len(frames))
    BY <2>2, <2>3
  <2> HIDE DEF b
  <2> QED BY <1>2, <2>1, <2>4, ExecutedBase
<1>5. ASSUME NEW c \in OpCosts, NEW s \in Slot, NEW v \in {0, 1}, SStore(c, s, v) PROVE Base'
  <2> DEFINE a == record_compute_gas(al, c)
             b == IF a.exceeded = "tx" THEN a ELSE on_sstore(a, Original[s], journal.store[s], v)
  <2>1. CanPay(c) /\ Executed(b, c) /\ pc = "run" /\ c \in Nat
    BY <1>1, <1>5 DEF SStore, CanPay
  <2>2. a \in AL /\ Deep(a, Len(frames))
    BY <2>1, OpSteady DEF Steady
  <2>3. Steady(a, on_sstore(a, Original[s], journal.store[s], v), Len(frames))
    BY <2>1, OpSteady
  <2>4. journal' \in Journal
    BY <1>2, <1>5 DEF SStore, Journal
  <2> HIDE DEF a
  <2>5. b \in AL /\ Deep(b, Len(frames))
    BY <2>2, <2>3 DEF Steady
  <2> HIDE DEF b
  <2> QED BY <2>1, <2>4, <2>5, ExecutedBase
<1>6. ASSUME NEW c \in OpCosts, NEW size \in LogSizes, Log(c, size) PROVE Base'
  <2> DEFINE a == record_compute_gas(al, c)
             b == IF a.exceeded = "tx" THEN a ELSE on_log(a, size)
  <2>1. CanPay(c) /\ Executed(b, c) /\ journal' = journal /\ pc = "run" /\ c \in Nat
    BY <1>1, <1>6 DEF Log, CanPay
  <2>2. a \in AL /\ Deep(a, Len(frames))
    BY <2>1, OpSteady DEF Steady
  <2>3. Steady(a, on_log(a, size), Len(frames))
    BY <1>1, <2>1, OpSteady
  <2> HIDE DEF a
  <2>4. b \in AL /\ Deep(b, Len(frames))
    BY <2>2, <2>3 DEF Steady
  <2> HIDE DEF b
  <2> QED BY <1>2, <2>1, <2>4, ExecutedBase
<1> QED BY <1>3, <1>4, <1>5, <1>6

\* A CALL or CREATE
LEMMA CallOpBase ==
  ASSUME Base, NEW c \in OpCosts, NEW g \in ForwardGas, NEW x \in Input, CallOp(c, g, x)
  PROVE  Base'
<1> DEFINE a == record_compute_gas(al, c)
<1>1. /\ pc = "run" /\ frames # <<>> /\ al' = a /\ spent' = spent + c /\ journal' = journal
      /\ burned' = burned /\ c + g <= top_frame.gas /\ c \in Nat /\ g \in Nat
  BY Costs DEF CallOp, Base, Shape, CanPay
<1>2. top_frame.gas - c - g \in Nat /\ spent' \in Nat /\ lost + g \in Nat
  <2>1. top_frame.gas \in Nat /\ spent \in Nat /\ lost \in Nat
    BY <1>1, BaseFacts
  <2> QED BY <1>1, <2>1
<1>3. a \in AL /\ Deep(a, Len(frames))
  BY <1>1, OpSteady DEF Steady
<1>4. exceeding_instruction_result(a) \in {"ok", "revert", "halt"}
  BY DEF exceeding_instruction_result
<1>5. CASE a.exceeded # "within"
  <2>1. Return(exceeding_instruction_result(a), top_frame.gas - c - g) /\ lost' = lost + g
    BY <1>5 DEF CallOp
  <2> HIDE DEF a
  <2> QED BY <1>1, <1>2, <1>3, <1>4, <2>1, BaseFacts, ReturnBase
<1>6. CASE a.exceeded = "within"
  <2>1. /\ pc' = "init" /\ req' = [input |-> x, gas |-> g] /\ res' = res /\ lost' = lost
        /\ frames' = [frames EXCEPT ![Len(frames)].gas = top_frame.gas - c - g]
    BY <1>6 DEF CallOp, top_frame
  <2> HIDE DEF a
  <2>2. frames' \in Seq(Frame) /\ Len(frames') = Len(frames) /\ frames' # <<>>
    BY <1>1, <1>2, <2>1, PayFrame
  <2>3. /\ Shape' /\ req' \in [input : Input, gas : Nat]
    BY <1>1, <2>1, <2>2 DEF Shape
  <2>4. Len(frames) = Len(frames') + 0
    BY <2>2, BaseFacts
  <2> QED BY <1>1, <1>2, <1>3, <2>1, <2>2, <2>3, <2>4, BaseFacts, BaseNext
<1> QED BY <1>5, <1>6

\* STOP, RETURN, REVERT or an exceptional halt
LEMMA EndFrameBase ==
  ASSUME Base, NEW kind \in {"ok", "revert", "halt"}, EndFrame(kind)
  PROVE  Base'
<1> DEFINE a == record_compute_gas(al, 0)
<1>1. /\ pc = "run" /\ frames # <<>> /\ journal' = journal
      /\ spent' = spent /\ burned' = burned /\ lost' = lost
  BY DEF EndFrame, Base, Shape, ghosts
<1>2. a \in AL /\ Deep(a, Len(frames)) /\ al \in AL /\ Deep(al, Len(frames))
  BY <1>1, OpSteady, BaseFacts DEF Steady
<1>3. al' \in AL /\ Deep(al', Len(frames))
  BY <1>2 DEF EndFrame
<1>4. \E y \in {"ok", "revert", "halt"} : Return(y, top_frame.gas)
  BY DEF EndFrame, exceeding_instruction_result
<1> QED BY <1>1, <1>3, <1>4, BaseFacts, ReturnBase

\* What SELFDESTRUCT does: a are the limits with its gas recorded, kind is the result.
Destroys(a, kind, c, n) ==
  /\ pc = "run" /\ frames # <<>> /\ c \in Nat /\ n \in Int /\ c <= top_frame.gas
  /\ a = record_compute_gas(al, c)
  /\ \/ al' = a
     \/ Enabled(REX4) /\ a.exceeded # "tx" /\ al' = set_compute_gas_limit(a, VolatileCap)
  /\ kind \in {"ok", "revert", "halt"} /\ (kind = "ok" <=> a.exceeded = "within")
  /\ ReturnWith(kind, top_frame.gas - c, FALSE)
  /\ journal' = Uncounted(n)
  /\ spec' = spec /\ spent' = spent + c /\ burned' = burned /\ lost' = lost

\* Every SelfDestruct is of this form.
LEMMA DestroyFacts ==
  ASSUME Base, NEW c \in OpCosts, NEW n \in {0, 1}, NEW d \in BOOLEAN, SelfDestruct(c, n, d)
  PROVE  \E a, kind, m : Destroys(a, kind, c, m)
<1> DEFINE a    == record_compute_gas(al, c)
           kind == IF a.exceeded # "within" THEN exceeding_instruction_result(a) ELSE "ok"
           m    == n - IF top_frame.create THEN 1 ELSE 0
<1>1. pc = "run" /\ frames # <<>> /\ c \in Nat /\ m \in Int /\ c <= top_frame.gas
  BY Costs DEF SelfDestruct, CanPay, Base, Shape
<1>2. kind \in {"ok", "revert", "halt"} /\ (kind = "ok" <=> a.exceeded = "within")
  BY DEF exceeding_instruction_result
<1>3. \/ al' = a
      \/ Enabled(REX4) /\ a.exceeded # "tx" /\ al' = set_compute_gas_limit(a, VolatileCap)
  BY DEF SelfDestruct
<1>4. /\ ReturnWith(kind, top_frame.gas - c, FALSE) /\ journal' = Uncounted(m)
      /\ spec' = spec /\ spent' = spent + c /\ burned' = burned /\ lost' = lost
  BY DEF SelfDestruct
<1>5. a = record_compute_gas(al, c)
  OBVIOUS
<1> HIDE DEF a, kind, m
<1>6. Destroys(a, kind, c, m)
  BY <1>1, <1>2, <1>3, <1>4, <1>5 DEF Destroys
<1> QED BY <1>6

\* SELFDESTRUCT
LEMMA SelfDestructBase ==
  ASSUME Base, NEW c \in OpCosts, NEW n \in {0, 1}, NEW d \in BOOLEAN, SelfDestruct(c, n, d)
  PROVE  Base'
<1>1. PICK a, kind, m : Destroys(a, kind, c, m)
  BY DestroyFacts
<1>2. /\ pc = "run" /\ frames # <<>> /\ c \in Nat /\ m \in Int /\ c <= top_frame.gas
      /\ kind \in {"ok", "revert", "halt"} /\ ReturnWith(kind, top_frame.gas - c, FALSE)
      /\ spent' = spent + c /\ burned' = burned /\ lost' = lost
  BY <1>1 DEF Destroys
<1>3. top_frame.gas - c \in Nat /\ spent' \in Nat /\ burned' \in Nat /\ lost' \in Nat /\ FALSE \in BOOLEAN
  BY <1>2, BaseFacts
<1>4. journal' \in Journal
  BY <1>1, <1>2, BornJournal DEF Destroys
<1>5. al' \in AL /\ Deep(al', Len(frames))
  BY <1>1, <1>2, OpSteady, Costs DEF Destroys, Steady
<1> QED BY <1>2, <1>3, <1>4, <1>5, ReturnWithBase

\* What frame_run does after the instructions: the limits a1 before the code deposit,
\* b after it, the kind the journal is processed with, the gas left and the compute gas
\* of the deposit.
Finish(a1, b, kind, g, cost, size) ==
  /\ a1 = after_frame_run_instructions(al, res.create, size)
  /\ b = record_compute_gas(a1, cost)
  /\ Steady(al, a1, Len(frames)) /\ Steady(a1, b, Len(frames))
  /\ g \in Nat /\ g <= res.gas /\ cost \in Nat
  /\ CodeDepositCost = 0 => cost = 0
  /\ kind \in {"ok", "revert", "halt"}
  /\ kind = "ok" => res.kind = "ok" /\ (res.create => a1.exceeded = "within")
  /\ res'.late <=> (kind = "ok" /\ a1.exceeded = "within" /\ b.exceeded # "within")
  /\ journal' = IF res'.late THEN [journal EXCEPT !.uncounted = TRUE]
                ELSE IF kind = "ok" THEN journal ELSE res.saved
  /\ spent' = spent + (res.gas - g)
  /\ al' = try_rescue_gas(b, g)
  /\ res' \in Result /\ res'.gas = g /\ res'.create = res.create /\ res'.ran = res.ran
  /\ res'.saved = res.saved
  /\ res'.kind = IF b.exceeded # "within" THEN exceeding_instruction_result(b) ELSE kind

\* Every FrameFinish is of this form.
LEMMA FinishFacts ==
  ASSUME Base, NEW size \in CodeSizes \cup {0}, FrameFinish(size)
  PROVE  \E a1, b, kind, g, cost : Finish(a1, b, kind, g, cost, size)
<1> DEFINE deploys  == res.create /\ res.kind = "ok"
           storage  == CodeStorageCost * size
           oog      == deploys /\ storage > res.gas
           g1       == IF deploys /\ ~oog THEN res.gas - storage ELSE res.gas
           a1       == after_frame_run_instructions(al, res.create, size)
           kind0    == IF oog THEN "halt" ELSE res.kind
           kind1    == mark_creation(a1, res.create, kind0)
           deposit  == IF res.create /\ kind1 = "ok" THEN CodeDepositCost * size ELSE 0
           kind2    == IF deposit > g1 THEN "halt" ELSE kind1
           g2       == IF deposit > g1 THEN g1 ELSE g1 - deposit
           cost     == g1 - g2
           b        == record_compute_gas(a1, cost)
           kind3    == IF b.exceeded # "within" THEN exceeding_instruction_result(b) ELSE kind2
           late     == kind2 = "ok" /\ a1.exceeded = "within" /\ kind3 # "ok"
<1>1. size \in Nat /\ CodeDepositCost \in Nat /\ CodeStorageCost \in Nat
  BY Costs
<1>2. pc = "finish" /\ frames # <<>> /\ res.kind \in {"ok", "revert", "halt"}
  <2>1. pc = "finish"
    BY DEF FrameFinish
  <2>2. res.kind \in {"none", "ok", "revert", "halt"}
    BY BaseFacts DEF Result
  <2> QED BY <2>1, <2>2 DEF Base, Shape
<1>3. res.gas \in Nat /\ res.create \in BOOLEAN /\ res \in Result
  BY BaseFacts DEF Result
<1>4. storage \in Nat /\ CodeDepositCost * size \in Nat /\ (CodeDepositCost = 0 => CodeDepositCost * size = 0)
  BY <1>1
<1>5. /\ journal' = IF late THEN [journal EXCEPT !.uncounted = TRUE] ELSE Processed(kind2, res.saved)
      /\ spent' = spent + (res.gas - g2) /\ al' = try_rescue_gas(b, g2)
      /\ res' = [res EXCEPT !.kind = kind3, !.gas = g2, !.late = late]
  BY DEF FrameFinish, after_frame_run
<1>19. late \in BOOLEAN /\ (late <=> (kind2 = "ok" /\ a1.exceeded = "within" /\ b.exceeded # "within"))
  BY DEF exceeding_instruction_result
<1> HIDE DEF late
<1>6. Steady(al, a1, Len(frames)) /\ Len(frames) \in Nat
  BY <1>1, <1>2, <1>3, BaseFacts, SizeSteady
<1>7. kind1 = "ok" => res.kind = "ok" /\ (res.create => a1.exceeded = "within")
  BY DEF mark_creation, exceeding_instruction_result
<1>8. kind1 \in {"ok", "revert", "halt"}
  BY <1>2 DEF mark_creation, exceeding_instruction_result
<1> HIDE DEF a1, kind1, storage
<1>9. g1 \in Nat /\ g1 <= res.gas
  BY <1>3, <1>4
<1>10. deposit \in Nat /\ (CodeDepositCost = 0 => deposit = 0)
  BY <1>4
<1> HIDE DEF g1, deposit
<1>11. g2 \in Nat /\ g2 <= g1 /\ (deposit = 0 => g2 = g1)
  BY <1>9, <1>10
<1>12. kind2 \in {"ok", "revert", "halt"} /\ (kind2 = "ok" => kind1 = "ok")
  BY <1>8
<1> HIDE DEF g2, kind2
<1>13. cost \in Nat /\ (CodeDepositCost = 0 => cost = 0) /\ g2 <= res.gas
  BY <1>3, <1>9, <1>10, <1>11
<1> HIDE DEF cost
<1>14. Steady(a1, b, Len(frames))
  BY <1>6, <1>13, GasSteady DEF Steady
<1>15. kind3 \in {"ok", "revert", "halt"}
  BY <1>12 DEF exceeding_instruction_result
<1>16. /\ res' \in Result /\ res'.gas = g2 /\ res'.create = res.create /\ res'.ran = res.ran
       /\ res'.saved = res.saved /\ res'.kind = kind3 /\ res'.late = late
  <2>1. kind3 \in {"none", "ok", "revert", "halt"} /\ g2 \in Nat
    BY <1>11, <1>15
  <2> HIDE DEF kind3
  <2> DEFINE r == [res EXCEPT !.kind = kind3, !.gas = g2, !.late = late]
  <2>2. r \in Result /\ r.kind = kind3 /\ r.gas = g2 /\ r.create = res.create
        /\ r.ran = res.ran /\ r.saved = res.saved /\ r.late = late
    BY <1>3, <1>19, <2>1 DEF Result
  <2>3. res' = r
    BY <1>5
  <2> HIDE DEF r
  <2> QED BY <2>2, <2>3
<1>17. journal' = IF late THEN [journal EXCEPT !.uncounted = TRUE]
                  ELSE IF kind2 = "ok" THEN journal ELSE res.saved
  BY <1>5 DEF Processed
<1>18. Finish(a1, b, kind2, g2, cost, size)
  <2>1. a1 = after_frame_run_instructions(al, res.create, size) /\ b = record_compute_gas(a1, cost)
    BY DEF a1
  <2>2. res'.kind = IF b.exceeded # "within" THEN exceeding_instruction_result(b) ELSE kind2
    BY <1>16
  <2> HIDE DEF b, kind3
  <2> QED BY <1>5, <1>6, <1>7, <1>11, <1>12, <1>13, <1>14, <1>16, <1>17, <1>19, <2>1, <2>2 DEF Finish
<1> QED BY <1>18

\* The action of a frame is processed.
LEMMA FrameFinishBase ==
  ASSUME Base, NEW size \in CodeSizes \cup {0}, FrameFinish(size)
  PROVE  Base'
<1>1. PICK a1, b, kind, g, cost : Finish(a1, b, kind, g, cost, size)
  BY FinishFacts
<1>2. /\ pc = "finish" /\ frames # <<>> /\ pc' = "return" /\ frames' = frames /\ req' = req
      /\ burned' = burned /\ lost' = lost /\ res.ran
  BY DEF FrameFinish, Base, Shape
<1>3. al' \in AL /\ Deep(al', Len(frames))
  BY <1>1, RescueFacts DEF Finish, Steady
<1>4. journal' \in Journal
  <2>1. journal \in Journal /\ res.saved \in Journal
    BY BaseFacts DEF Result
  <2>2. [journal EXCEPT !.uncounted = TRUE] \in Journal
    BY <2>1 DEF Journal
  <2> QED BY <1>1, <2>1, <2>2 DEF Finish
<1>5. spent' \in Nat
  <2>1. spent \in Nat /\ res.gas \in Nat
    BY BaseFacts DEF Result
  <2>2. g \in Nat /\ g <= res.gas /\ spent' = spent + (res.gas - g)
    BY <1>1 DEF Finish
  <2> QED BY <2>1, <2>2
<1>6. res' \in Result /\ res'.ran /\ res'.kind # "none"
  BY <1>1, <1>2 DEF Finish, exceeding_instruction_result
<1>7. Shape' /\ req' \in [input : Input, gas : Nat] /\ frames' \in Seq(Frame)
      /\ Len(frames) = Len(frames') + 0
  BY <1>2, <1>6, BaseFacts DEF Shape, Base, TypeOK
<1> QED BY <1>2, <1>3, <1>4, <1>5, <1>6, <1>7, BaseFacts, BaseNext

\* Frames whose top one is gone
LEMMA RestFrames ==
  ASSUME NEW fs \in Seq(Frame), fs # <<>>
  PROVE  LET rest == SubSeq(fs, 1, Len(fs) - 1)
         IN /\ rest \in Seq(Frame) /\ Len(rest) = Len(fs) - 1
            /\ \A i \in 1 .. Len(fs) - 1 : rest[i] = fs[i]
<1> DEFINE n == Len(fs)
           rest == SubSeq(fs, 1, n - 1)
<1>1. n \in Nat /\ n # 0
  OBVIOUS
<1>2. \A i \in 1 .. n : fs[i] \in Frame
  BY <1>1
<1>3. Len(rest) = n - 1 /\ \A i \in 1 .. n - 1 : rest[i] = fs[i]
  <2>1. CASE n = 1
    BY <2>1
  <2>2. CASE n > 1
    BY <1>1, <2>2
  <2> QED BY <1>1, <2>1, <2>2
<1>4. rest \in Seq(Frame)
  BY <1>1
<1> QED BY <1>3, <1>4

\* fs is rest with g given to the top frame.
Gave(rest, fs, g) ==
  LET n == Len(rest)
  IN /\ fs \in Seq(Frame) /\ Len(fs) = n /\ fs # <<>>
     /\ \A i \in 1 .. n - 1 : fs[i] = rest[i]
     /\ fs[n].gas = rest[n].gas + g /\ fs[n].saved = rest[n].saved
     /\ fs[n].create = rest[n].create

\* A frame that is given gas is a frame.
LEMMA GiveEntry ==
  ASSUME NEW f \in Frame, NEW g \in Nat
  PROVE  LET e == [f EXCEPT !.gas = @ + g]
         IN e \in Frame /\ e.gas = f.gas + g /\ e.saved = f.saved /\ e.create = f.create
BY DEF Frame

\* Giving gas to the top frame
LEMMA GiveFrame ==
  ASSUME NEW rest \in Seq(Frame), Len(rest) # 0, NEW g \in Nat
  PROVE  Gave(rest, [rest EXCEPT ![Len(rest)].gas = @ + g], g)
<1> DEFINE n == Len(rest)
           e == [rest[n] EXCEPT !.gas = @ + g]
           fs == [rest EXCEPT ![n].gas = @ + g]
<1>1. n \in Nat /\ n \in 1 .. n /\ rest[n] \in Frame
  OBVIOUS
<1>2. e \in Frame /\ e.gas = rest[n].gas + g /\ e.saved = rest[n].saved /\ e.create = rest[n].create
  BY <1>1, GiveEntry
<1>3. fs = [rest EXCEPT ![n] = e]
  OBVIOUS
<1> HIDE DEF e
<1>4. fs \in Seq(Frame) /\ Len(fs) = n /\ fs[n] = e /\ \A i \in 1 .. n - 1 : fs[i] = rest[i]
  BY <1>1, <1>2, <1>3
<1> HIDE DEF fs
<1>5. fs # <<>>
  BY <1>4
<1>6. Gave(rest, fs, g)
  BY <1>2, <1>4, <1>5 DEF Gave
<1> QED BY <1>6 DEF fs

\* What frame_return_result does: the result becomes ret, and the frames, without the
\* one that returns, are rest
Unwinds(ret, rest) ==
  LET n == Len(rest)
  IN /\ rest \in Seq(Frame)
     /\ Len(frames) + Pending \in Nat \ {0}
     /\ n = (Len(frames) + Pending) - 1
     /\ \A i \in 1 .. n : rest[i] = frames[i]
     /\ res.ran = (Pending = 0)
     /\ Returned(al, res, "return", Len(frames) + Pending, ret)
     /\ Given(ret.res) \in Nat /\ Burns(ret.al, ret.res) \in Nat
     /\ al' = ret.al /\ res' = ret.res
     /\ n = 0 => pc' = "last" /\ frames' = rest /\ burned' = burned
     /\ n # 0 => /\ pc' = "resume"
                 /\ Gave(rest, frames', Given(ret.res))
                 /\ burned' = burned + Burns(ret.al, ret.res)

\* Every FrameReturn is of this form.
LEMMA ReturnSteps ==
  ASSUME Base, FrameReturn
  PROVE  \E ret, rest : Unwinds(ret, rest)
<1> DEFINE ret == before_frame_return_result(al, res, FALSE)
           rest == IF res.ran THEN SubSeq(frames, 1, Len(frames) - 1) ELSE frames
<1>1. pc = "return" /\ frames # <<>> /\ frames \in Seq(Frame) /\ Len(frames) \in Nat \ {0} /\ res.ran \in BOOLEAN
  BY BaseFacts DEF FrameReturn, Base, Shape, Result
<1>2. Pending = IF res.ran THEN 0 ELSE 1
  BY <1>1 DEF Pending
<1>3. Len(frames) + Pending \in Nat \ {0}
  BY <1>1, <1>2
<1>4. rest \in Seq(Frame) /\ Len(rest) = (Len(frames) + Pending) - 1 /\ \A i \in 1 .. Len(rest) : rest[i] = frames[i]
  <2>1. CASE res.ran
    BY <1>1, <1>2, <2>1, RestFrames
  <2>2. CASE ~res.ran
    BY <1>1, <1>2, <2>2
  <2> QED BY <1>1, <2>1, <2>2
<1>5. Returned(al, res, "return", Len(frames) + Pending, ret)
  <2>1. al \in AL /\ Len(frames) + Pending \in Nat /\ Deep(al, Len(frames) + Pending) /\ res \in Result
    BY BaseFacts
  <2> QED BY <1>3, <2>1, ReturnFacts
<1>6. Given(ret.res) \in Nat /\ Burns(ret.al, ret.res) \in Nat
  <2>1. ret.res \in Result
    BY <1>5 DEF Returned
  <2> QED BY <2>1 DEF Given, Burns, Result
<1>7. /\ al' = ret.al /\ res' = ret.res
      /\ Len(rest) = 0 => pc' = "last" /\ frames' = rest /\ burned' = burned
      /\ Len(rest) # 0 => /\ pc' = "resume"
                          /\ frames' = [rest EXCEPT ![Len(rest)].gas = @ + Given(ret.res)]
                          /\ burned' = burned + Burns(ret.al, ret.res)
  BY DEF FrameReturn
<1> HIDE DEF rest, ret
<1>8. Len(rest) # 0 => Gave(rest, frames', Given(ret.res))
  <2> SUFFICES ASSUME Len(rest) # 0 PROVE Gave(rest, frames', Given(ret.res))
    OBVIOUS
  <2>1. Gave(rest, [rest EXCEPT ![Len(rest)].gas = @ + Given(ret.res)], Given(ret.res))
    BY <1>4, <1>6, GiveFrame
  <2> QED BY <1>7, <2>1
<1>9. res.ran = (Pending = 0)
  BY <1>1, <1>2
<1>10. Unwinds(ret, rest)
  BY <1>3, <1>4, <1>5, <1>6, <1>7, <1>8, <1>9 DEF Unwinds
<1> QED BY <1>10

\* A result is returned to its caller.
LEMMA FrameReturnBase ==
  ASSUME Base, FrameReturn
  PROVE  Base'
<1>0. PICK ret, rest : Unwinds(ret, rest)
  BY ReturnSteps
<1> DEFINE n == Len(rest)
           d == Len(frames) + Pending
<1>1. /\ d \in Nat \ {0} /\ n = d - 1 /\ rest \in Seq(Frame)
      /\ Returned(al, res, "return", d, ret) /\ Burns(ret.al, ret.res) \in Nat
      /\ al' = ret.al /\ res' = ret.res
  <2>1. d \in Nat \ {0} /\ n = d - 1
    BY <1>0 DEF Unwinds
  <2>2. rest \in Seq(Frame)
    BY <1>0 DEF Unwinds
  <2>3. Returned(al, res, "return", d, ret)
    BY <1>0 DEF Unwinds
  <2>4. Burns(ret.al, ret.res) \in Nat
    BY <1>0 DEF Unwinds
  <2>5. al' = ret.al /\ res' = ret.res
    BY <1>0 DEF Unwinds
  <2> QED BY <2>1, <2>2, <2>3, <2>4, <2>5
<1>2. burned \in Nat
  BY BaseFacts
<1>3. ret.al \in AL /\ Deep(ret.al, n) /\ ret.res.ran = res.ran /\ ret.res.kind # "none" /\ ret.res \in Result
  <2>1. res.kind # "none"
    BY DEF FrameReturn, Base, Shape
  <2> HIDE DEF d, n
  <2>3. ret.al \in AL /\ Deep(ret.al, n) /\ ret.res.ran = res.ran /\ ret.res \in Result
    BY <1>1 DEF Returned
  <2>4. ret.res = res \/ ret.res.kind = "revert" \/ ret.res.kind = "halt"
    <3>1. \A a \in AL : check_limit(a).exceeded \in {"within", "frame", "tx"}
      BY CheckFacts, ALFields
    <3> QED BY <1>1, <3>1 DEF Returned
  <2> QED BY <2>1, <2>3, <2>4
<1>4. pc = "return" /\ req' = req /\ journal' = journal /\ spent' = spent /\ lost' = lost
  BY DEF FrameReturn
<1>5. CASE n = 0
  <2>1. /\ pc' = "last" /\ frames' = rest /\ burned' = burned
    BY <1>0, <1>5 DEF Unwinds
  <2>2. frames' = <<>> /\ Len(frames') = 0 /\ frames' \in Seq(Frame)
    BY <1>1, <1>5, <2>1
  <2>5. n = Len(frames') + 0
    BY <1>5, <2>2
  <2>3. res.ran
    <3>1. frames # <<>> /\ Len(frames) \in Nat \ {0} /\ Pending \in Nat
      BY <1>4, BaseFacts DEF Base, Shape, Pending
    <3>2. Pending = 0
      BY <1>1, <1>5, <3>1
    <3> QED BY <1>4, <3>2 DEF Pending
  <2>4. Shape' /\ req' \in [input : Input, gas : Nat]
    BY <1>1, <1>3, <1>4, <2>1, <2>2 DEF Shape, Base, TypeOK
  <2> HIDE DEF n, d
  <2> QED BY <1>1, <1>2, <1>3, <1>4, <1>5, <2>1, <2>2, <2>3, <2>4, <2>5, BaseFacts, BaseNext
<1>6. CASE n # 0
  <2>1. /\ pc' = "resume" /\ Gave(rest, frames', Given(ret.res))
        /\ burned' = burned + Burns(ret.al, ret.res)
    BY <1>0, <1>6 DEF Unwinds
  <2>2. /\ frames' \in Seq(Frame) /\ frames' # <<>> /\ burned' \in Nat /\ n = Len(frames') + 0
    BY <1>1, <1>2, <1>6, <2>1 DEF Gave
  <2>3. Shape' /\ req' \in [input : Input, gas : Nat]
    BY <1>4, <2>1, <2>2 DEF Shape, Base, TypeOK
  <2> HIDE DEF n, d
  <2> QED BY <1>1, <1>2, <1>3, <1>4, <2>1, <2>2, <2>3, BaseFacts, BaseNext
<1> QED BY <1>5, <1>6

\* The result of the first frame is returned to the sender.
LEMMA LastBase ==
  ASSUME Base, LastFrameResult
  PROVE  Base'
<1> DEFINE ret == before_frame_return_result(al, res, TRUE)
<1>1. /\ pc = "last" /\ al' = ret.al
      /\ res' = [ret.res EXCEPT !.gas = Given(ret.res) + ret.al.rescued]
      /\ burned' = burned + Burns(ret.al, ret.res) /\ pc' = "done"
      /\ frames' = frames /\ req' = req /\ journal' = journal /\ spent' = spent /\ lost' = lost
  BY DEF LastFrameResult
<1>2. frames = <<>> /\ Len(frames) = 0 /\ Pending \in {0, 1}
  BY <1>1 DEF Base, Shape, Pending
<1>3. al \in AL /\ Deep(al, Pending) /\ res \in Result
  <2>1. Deep(al, Len(frames) + Pending)
    BY BaseFacts
  <2> QED BY <1>2, <2>1, BaseFacts
<1>4. ret.al \in AL /\ Deep(ret.al, 0) /\ ret.res \in Result
  <2>1. /\ Pending \in Nat /\ (Pending = 0 => TRUE)
        /\ 0 = IF Pending = 0 THEN 0 ELSE Pending - 1
    BY <1>2
  <2>2. Returned(al, res, "last", Pending, ret)
    BY <1>3, <2>1, ReturnFacts
  <2> HIDE DEF ret
  <2> QED BY <2>1, <2>2 DEF Returned
<1> HIDE DEF ret
<1>5. Given(ret.res) + ret.al.rescued \in Nat /\ Burns(ret.al, ret.res) \in Nat
  BY <1>4, ALFields DEF Given, Burns, Result
<1>6. res' \in Result
  BY <1>1, <1>4, <1>5 DEF Result
<1>7. burned' \in Nat
  BY <1>1, <1>5, BaseFacts
<1>8. Shape' /\ req' \in [input : Input, gas : Nat]
  BY <1>1, <1>2 DEF Shape, Base, TypeOK
<1> QED BY <1>1, <1>2, <1>4, <1>6, <1>7, <1>8, BaseFacts, BaseNext

\* Every step keeps the types, the shape of the frame loop and the alignment.
LEMMA StepBase == Base /\ [Next]_vars => Base'
<1> SUFFICES ASSUME Base, [Next]_vars PROVE Base'
  OBVIOUS
<1>1. ASSUME NEW i \in IntrinsicCosts, NEW x \in Input, StartTx(i, x) PROVE Base'
  BY <1>1, StartTxBase
<1>2. ASSUME NEW k \in {"ok", "revert"}, Intercept(k) PROVE Base'
  BY <1>2, FramesInitBase
<1>3. CASE InitExceeds
  BY <1>3, FramesInitBase
<1>4. CASE InitRuns
  BY <1>4, InitRunsBase
<1>5. ASSUME NEW k \in {"ok", "revert", "halt"}, InitEnds(k) PROVE Base'
  BY <1>5, FramesInitBase
<1>6. ASSUME NEW k \in {"ok", "revert", "halt"}, NEW c \in PrecompileCosts, InitPrecompile(k, c) PROVE Base'
  BY <1>6, FramesInitBase
<1>7. CASE Resume
  BY <1>7, ResumeBase
<1>8. ASSUME NEW c \in OpCosts, PlainOp(c) \/ VolatileOp(c) PROVE Base'
  BY <1>8, OpsBase
<1>9. ASSUME NEW c \in OpCosts, NEW s \in Slot, NEW v \in {0, 1}, SStore(c, s, v) PROVE Base'
  BY <1>9, OpsBase
<1>10. ASSUME NEW c \in OpCosts, NEW size \in LogSizes, Log(c, size) PROVE Base'
  BY <1>10, OpsBase
<1>11. ASSUME NEW c \in OpCosts, NEW g \in ForwardGas, NEW x \in Input, CallOp(c, g, x) PROVE Base'
  BY <1>11, CallOpBase
<1>12. ASSUME NEW k \in {"ok", "revert", "halt"}, EndFrame(k) PROVE Base'
  BY <1>12, EndFrameBase
<1>17. ASSUME NEW c \in OpCosts, NEW n \in {0, 1}, NEW d \in BOOLEAN, SelfDestruct(c, n, d) PROVE Base'
  BY <1>17, SelfDestructBase
<1>13. ASSUME NEW size \in CodeSizes \cup {0}, FrameFinish(size) PROVE Base'
  BY <1>13, FrameFinishBase
<1>14. CASE FrameReturn
  BY <1>14, FrameReturnBase
<1>15. CASE LastFrameResult
  BY <1>15, LastBase
<1>16. CASE UNCHANGED vars
  BY <1>16 DEF vars, ghosts, Base, TypeOK, Shape, StacksAligned
<1> QED BY <1>1, <1>2, <1>3, <1>4, <1>5, <1>6, <1>7, <1>8, <1>9, <1>10, <1>11, <1>12,
           <1>13, <1>14, <1>15, <1>16, <1>17 DEF Next

\* So it is an invariant.
LEMMA BaseAlways == Spec => []Base
<1>1. Init => Base
  BY InitBase
<1>2. Base /\ [Next]_vars => Base'
  BY StepBase
<1> QED BY <1>1, <1>2, PTL DEF Spec

\* Every variable keeps its type in every step: no gas, usage or budget ever goes below
\* zero, in frame_init, the opcodes, frame_run or the return of a result.
THEOREM TypeCorrect == Spec => []TypeOK
<1>1. Base => TypeOK
  BY DEF Base
<1> QED BY <1>1, BaseAlways, PTL

\* The trackers' frame stacks follow the frames of the EVM, so that
\* before_frame_return_result always pops the frame whose result it is given.
THEOREM Aligned == Spec => []StacksAligned
<1>1. Base => StacksAligned
  BY DEF Base
<1> QED BY <1>1, BaseAlways, PTL

-----------------------------------------------------------------------------
(* The flag *)

\* The invariant: a frame executes only when the flag is within, and what the flag can be at
\* all; the result of a first frame that has run is marked when the flag is transaction-level.
Flags ==
  /\ pc = "run" => al.exceeded = "within"
  /\ pc = "last" /\ res.ran /\ al.exceeded = "tx" => res.kind = "halt"
  /\ Kinds = {} => al.exceeded = "within"
  /\ ~Enabled(REX4) => al.exceeded # "frame"

\* With nothing metered nothing exceeds.
LEMMA CheckNothing ==
  ASSUME NEW a \in AL, Kinds = {}, a.exceeded = "within"
  PROVE  check_limit(a).exceeded = "within"
BY CheckFacts DEF Within

\* The flag sticks: b is a after some metering, and so is not raised without a kind to meter
Sticks(a, b) ==
  /\ a.exceeded # "within" => b.exceeded = a.exceeded
  /\ Kinds = {} => b.exceeded = a.exceeded
  /\ ~Enabled(REX4) /\ b.exceeded = "frame" => a.exceeded = "frame"

\* A check of what was metered raises the flag or leaves it; it lifts none.
LEMMA CheckSticks ==
  ASSUME NEW a \in AL, NEW m \in AL, Keeps(a, m)
  PROVE  Sticks(a, check_limit(m)) /\ Sticks(a, m)
<1>1. m.exceeded = a.exceeded /\ (m.exceeded # "within" => check_limit(m).exceeded = m.exceeded)
  BY CheckFacts DEF Keeps
<1>2. Kinds = {} => check_limit(m).exceeded = m.exceeded
  BY <1>1, CheckNothing
<1>3. ~Enabled(REX4) /\ check_limit(m).exceeded = "frame" => a.exceeded = "frame"
  <2>1. m.exceeded = "within" /\ check_limit(m).exceeded # "within" =>
          \E k \in Kinds : kind_check(m, k) = check_limit(m).exceeded
    BY CheckFacts
  <2>2. \A k \in Kinds : ~Enabled(REX4) => kind_check(m, k) # "frame"
    BY DEF kind_check
  <2> QED BY <1>1, <2>1, <2>2
<1> QED BY <1>1, <1>2, <1>3 DEF Sticks

\* Each way of metering
LEMMA MeterSticks ==
  ASSUME NEW a \in AL, NEW n \in Nat, Deep(a, n)
  PROVE  /\ \A c \in Nat : Sticks(a, record_compute_gas(a, c))
         /\ \A g \in Nat : Sticks(a, try_rescue_gas(a, g))
         /\ \A c \in Nat : Sticks(a, set_compute_gas_limit(a, c))
         /\ \A x \in Input : Sticks(a, before_frame_init(a, x)) /\ Sticks(a, push_empty_frame(a))
         /\ n # 0 =>
              /\ \A c \in Nat : Sticks(a, on_log(a, c))
              /\ \A c \in Nat, y \in BOOLEAN : Sticks(a, after_frame_run_instructions(a, y, c))
              /\ \A o, p, w \in {0, 1} : Sticks(a, on_sstore(a, o, p, w))
              /\ \A x \in Input : Sticks(a, after_frame_init(a, x))
<1>1. ASSUME NEW c \in Nat PROVE Sticks(a, record_compute_gas(a, c))
  <2>1. CASE n = 0
    BY <2>1, TxGasRecords, CheckSticks
  <2>2. CASE n # 0
    BY <2>2, GasRecords, CheckSticks DEF Records
  <2> QED BY <2>1, <2>2
<1>2. ASSUME NEW g \in Nat PROVE Sticks(a, try_rescue_gas(a, g))
  <2>1. Keeps(a, a) /\ try_rescue_gas(a, g).exceeded = check_limit(a).exceeded
    BY RescueFacts DEF Keeps
  <2> QED BY <2>1, CheckSticks DEF Sticks
<1>3. ASSUME NEW c \in Nat PROVE Sticks(a, set_compute_gas_limit(a, c))
  BY DetainFacts DEF Sticks
<1>4. ASSUME NEW x \in Input
      PROVE  Sticks(a, before_frame_init(a, x)) /\ Sticks(a, push_empty_frame(a))
  BY FrameEnters, CheckSticks DEF Enters
<1>5. ASSUME n # 0, NEW c \in Nat PROVE Sticks(a, on_log(a, c))
  BY <1>5, SizeRecords, CheckSticks DEF Records
<1>6. ASSUME n # 0, NEW c \in Nat, NEW y \in BOOLEAN PROVE Sticks(a, after_frame_run_instructions(a, y, c))
  <2>1. CASE y
    <3>1. y = TRUE
      BY <2>1
    <3> QED BY <1>6, <3>1, SizeRecords, CheckSticks DEF Records
  <2>2. CASE ~y
    BY <2>2 DEF after_frame_run_instructions, Sticks
  <2> QED BY <2>1, <2>2
<1>7. ASSUME n # 0, NEW o \in {0, 1}, NEW p \in {0, 1}, NEW w \in {0, 1}
      PROVE  Sticks(a, on_sstore(a, o, p, w))
  BY <1>7, SStoreRecords, CheckSticks DEF Records
<1>8. ASSUME n # 0, NEW x \in Input PROVE Sticks(a, after_frame_init(a, x))
  BY <1>8, CreatedRecords, CheckSticks DEF Records
<1> QED BY <1>1, <1>2, <1>3, <1>4, <1>5, <1>6, <1>7, <1>8

\* One way of metering after another
LEMMA SticksTrans ==
  ASSUME NEW a, NEW b, NEW c, Sticks(a, b), Sticks(b, c)
  PROVE  Sticks(a, c)
BY DEF Sticks

\* A frame that begins
LEMMA InitSticks ==
  ASSUME Base, pc = "init"
  PROVE  LET a == before_frame_init(al, req.input)
             n == Len(frames) + 1
         IN /\ n \in Nat \ {0} /\ a \in AL /\ Deep(a, n) /\ Sticks(al, a)
            /\ Sticks(al, push_empty_frame(al))
            /\ \A g \in Nat : Sticks(al, try_rescue_gas(a, g))
            /\ \A c \in Nat, g \in Nat : Sticks(al, try_rescue_gas(record_compute_gas(a, c), g))
            /\ Sticks(al, after_frame_init(a, req.input))
<1> DEFINE a == before_frame_init(al, req.input)
           n == Len(frames) + 1
<1>1. al \in AL /\ Len(frames) \in Nat /\ Deep(al, Len(frames)) /\ req.input \in Input
  BY BaseFacts
<1>2. a \in AL /\ Deep(a, n) /\ Sticks(al, a) /\ Sticks(al, push_empty_frame(al))
  BY <1>1, InitSteady, MeterSticks DEF Steady
<1> HIDE DEF a
<1>3. n \in Nat \ {0}
  BY <1>1
<1> HIDE DEF n
<1>4. \A g \in Nat : Sticks(al, try_rescue_gas(a, g))
  BY <1>2, <1>3, MeterSticks, SticksTrans
<1>5. ASSUME NEW c \in Nat, NEW g \in Nat
      PROVE  Sticks(al, try_rescue_gas(record_compute_gas(a, c), g))
  <2> DEFINE b == record_compute_gas(a, c)
  <2>1. b \in AL /\ Deep(b, n) /\ Sticks(a, b)
    BY <1>2, <1>3, GasSteady, MeterSticks DEF Steady
  <2> HIDE DEF b
  <2>2. Sticks(b, try_rescue_gas(b, g)) /\ Sticks(al, b)
    BY <1>2, <1>3, <2>1, MeterSticks, SticksTrans
  <2>3. Sticks(al, try_rescue_gas(b, g))
    BY <2>2, SticksTrans
  <2> QED BY <2>3 DEF b
<1>6. Sticks(al, after_frame_init(a, req.input))
  BY <1>1, <1>2, <1>3, MeterSticks, SticksTrans
<1> QED BY <1>2, <1>3, <1>4, <1>5, <1>6 DEF a, n

\* An opcode
LEMMA OpSticks ==
  ASSUME Base, pc = "run", NEW c \in Nat
  PROVE  LET a == record_compute_gas(al, c)
         IN /\ Sticks(al, a)
            /\ \A x \in Nat : Sticks(al, set_compute_gas_limit(a, x))
            /\ \A s \in Slot, v \in {0, 1} : Sticks(al, on_sstore(a, Original[s], journal.store[s], v))
            /\ \A x \in Nat : Sticks(al, on_log(a, x))
<1> DEFINE a == record_compute_gas(al, c)
           n == Len(frames)
<1>1. n \in Nat \ {0} /\ al \in AL /\ Deep(al, n)
  BY BaseFacts DEF Base, Shape
<1> HIDE DEF n
<1>2. a \in AL /\ Deep(a, n) /\ Sticks(al, a)
  BY <1>1, GasSteady, MeterSticks DEF Steady
<1> HIDE DEF a
<1>3. \A x \in Nat : Sticks(al, set_compute_gas_limit(a, x))
  BY <1>1, <1>2, MeterSticks, SticksTrans
<1>4. \A s \in Slot : Original[s] \in {0, 1} /\ journal.store[s] \in {0, 1}
  BY LimitAssumption, BaseFacts DEF Journal
<1>5. ASSUME NEW s \in Slot, NEW v \in {0, 1}
      PROVE  Sticks(al, on_sstore(a, Original[s], journal.store[s], v))
  <2>1. Sticks(a, on_sstore(a, Original[s], journal.store[s], v))
    BY <1>1, <1>2, <1>4, MeterSticks
  <2> QED BY <1>2, <2>1, SticksTrans
<1>6. ASSUME NEW x \in Nat PROVE Sticks(al, on_log(a, x))
  <2>1. Sticks(a, on_log(a, x))
    BY <1>1, <1>2, MeterSticks
  <2> QED BY <1>2, <2>1, SticksTrans
<1> QED BY <1>2, <1>3, <1>5, <1>6 DEF a

\* The end of a frame meters its output and the code deposit.
LEMMA FinishSticks ==
  ASSUME Base, NEW size \in CodeSizes \cup {0}, FrameFinish(size)
  PROVE  Sticks(al, al')
<1>1. PICK a1, b, kind, g, cost : Finish(a1, b, kind, g, cost, size)
  BY FinishFacts
<1> DEFINE n == Len(frames)
<1>2. n \in Nat \ {0} /\ al \in AL /\ Deep(al, n) /\ res.create \in BOOLEAN /\ size \in Nat
  BY BaseFacts, Costs DEF Base, Shape, FrameFinish, Result
<1> HIDE DEF n
<1>3. a1 \in AL /\ Deep(a1, n) /\ b \in AL /\ Deep(b, n) /\ cost \in Nat /\ g \in Nat
  BY <1>1 DEF Finish, Steady, n
<1>4. a1 = after_frame_run_instructions(al, res.create, size) /\ b = record_compute_gas(a1, cost)
      /\ al' = try_rescue_gas(b, g)
  BY <1>1 DEF Finish
<1>5. Sticks(al, a1)
  BY <1>2, <1>4, MeterSticks
<1>6. Sticks(a1, b)
  BY <1>2, <1>3, <1>4, MeterSticks
<1>7. Sticks(b, al')
  BY <1>2, <1>3, <1>4, MeterSticks
<1> QED BY <1>5, <1>6, <1>7, SticksTrans

\* The steps between the start of a transaction and the return of a frame
Metering ==
  \/ \E k \in {"ok", "revert"} : Intercept(k)
  \/ InitExceeds
  \/ InitRuns
  \/ \E k \in {"ok", "revert", "halt"} : InitEnds(k)
  \/ \E k \in {"ok", "revert", "halt"}, c \in PrecompileCosts : InitPrecompile(k, c)
  \/ Resume
  \/ \E c \in OpCosts : PlainOp(c)
  \/ \E c \in OpCosts : VolatileOp(c)
  \/ \E c \in OpCosts, s \in Slot, v \in {0, 1} : SStore(c, s, v)
  \/ \E c \in OpCosts, size \in LogSizes : Log(c, size)
  \/ \E c \in OpCosts, g \in ForwardGas, x \in Input : CallOp(c, g, x)
  \/ \E k \in {"ok", "revert", "halt"} : EndFrame(k)
  \/ \E c \in OpCosts, n \in {0, 1}, d \in BOOLEAN : SelfDestruct(c, n, d)
  \/ \E size \in CodeSizes \cup {0} : FrameFinish(size)

\* They keep the flag, go on running only when it is within, and end no transaction.
Held ==
  /\ Sticks(al, al')
  /\ pc' # "done"
  /\ pc' = "run" => al'.exceeded = "within"
  /\ pc' = "last" => ~res'.ran

\* A frame that begins and ends at once never executes.
LEMMA EndAtOnceHeld ==
  ASSUME NEW kind, NEW g, NEW late, EndAtOnce(kind, g, late), Sticks(al, al')
  PROVE  Held
<1>1. ~res'.ran /\ pc' \in {"last", "return"}
  BY DEF EndAtOnce
<1> QED BY <1>1 DEF Held

\* An opcode lets its frame go on only when the flag is within.
LEMMA ExecutedHeld ==
  ASSUME NEW a, NEW c, Executed(a, c), pc = "run", Sticks(al, a)
  PROVE  Held
<1>1. al' = a /\ (pc' = "finish" \/ (pc' = pc /\ a.exceeded = "within"))
  BY DEF Executed, Return, ReturnWith
<1> QED BY <1>1 DEF Held

\* So do all these steps, one by one.
LEMMA MeteringHeld ==
  ASSUME Base, Metering
  PROVE  Held
<1>1. /\ OpCosts \subseteq Nat /\ LogSizes \subseteq Nat /\ PrecompileCosts \subseteq Nat
      /\ ForwardGas \subseteq Nat /\ VolatileCap \in Nat
  BY Costs
<1>2. ASSUME NEW k \in {"ok", "revert"}, Intercept(k) PROVE Held
  <2>1. pc = "init" /\ al' = push_empty_frame(al) /\ EndAtOnce(k, req.gas, FALSE)
    BY <1>2 DEF Intercept
  <2>2. Sticks(al, al')
    BY <2>1, InitSticks
  <2> QED BY <2>1, <2>2, EndAtOnceHeld
<1>3. ASSUME InitExceeds PROVE Held
  <2> DEFINE a == before_frame_init(al, req.input)
  <2>1. /\ pc = "init" /\ al' = try_rescue_gas(a, req.gas) /\ req.gas \in Nat
        /\ \E k : EndAtOnce(k, req.gas, FALSE)
    BY <1>3, BaseFacts DEF InitExceeds
  <2>2. Sticks(al, al')
    BY <2>1, InitSticks
  <2> QED BY <2>1, <2>2, EndAtOnceHeld
<1>4. ASSUME InitRuns PROVE Held
  <2>1. pc = "init" /\ al' = after_frame_init(before_frame_init(al, req.input), req.input) /\ pc' = "resume"
    BY <1>4 DEF InitRuns
  <2>2. Sticks(al, al')
    BY <2>1, InitSticks
  <2> QED BY <2>1, <2>2 DEF Held
<1>5. ASSUME NEW k \in {"ok", "revert", "halt"}, InitEnds(k) PROVE Held
  <2>1. /\ pc = "init" /\ al' = try_rescue_gas(before_frame_init(al, req.input), req.gas)
        /\ req.gas \in Nat /\ EndAtOnce(k, req.gas, FALSE)
    BY <1>5, BaseFacts DEF InitEnds
  <2>2. Sticks(al, al')
    BY <2>1, InitSticks
  <2> QED BY <2>1, <2>2, EndAtOnceHeld
<1>6. ASSUME NEW k \in {"ok", "revert", "halt"}, NEW c \in PrecompileCosts, InitPrecompile(k, c) PROVE Held
  <2> DEFINE a == before_frame_init(al, req.input)
  <2>1. /\ pc = "init" /\ al' = try_rescue_gas(record_compute_gas(a, c), req.gas - c)
        /\ (\E late : EndAtOnce(k, req.gas - c, late)) /\ c <= req.gas
    BY <1>6 DEF InitPrecompile
  <2>2. c \in Nat /\ req.gas - c \in Nat
    BY <1>1, <2>1, BaseFacts
  <2>3. Sticks(al, al')
    BY <2>1, <2>2, InitSticks
  <2> QED BY <2>1, <2>3, EndAtOnceHeld
<1>7. ASSUME Resume PROVE Held
  <2> DEFINE a == check_limit(al)
  <2>1. al' = a /\ (pc' = "finish" \/ (pc' = "run" /\ a.exceeded = "within"))
    BY <1>7 DEF Resume, Return, ReturnWith
  <2>2. Sticks(al, a)
    BY BaseFacts, CheckSticks DEF Keeps
  <2> HIDE DEF a
  <2> QED BY <2>1, <2>2 DEF Held
<1>8. ASSUME NEW c \in OpCosts, PlainOp(c) PROVE Held
  <2> DEFINE a == record_compute_gas(al, c)
  <2>1. Executed(a, c) /\ pc = "run" /\ c \in Nat
    BY <1>1, <1>8 DEF PlainOp, CanPay
  <2>2. Sticks(al, a)
    BY <2>1, OpSticks
  <2> QED BY <2>1, <2>2, ExecutedHeld
<1>9. ASSUME NEW c \in OpCosts, VolatileOp(c) PROVE Held
  <2> DEFINE a == record_compute_gas(al, c)
             b == IF a.exceeded = "tx" THEN a ELSE set_compute_gas_limit(a, VolatileCap)
  <2>1. Executed(b, c) /\ pc = "run" /\ c \in Nat
    BY <1>1, <1>9 DEF VolatileOp, CanPay
  <2>2. Sticks(al, a) /\ Sticks(al, set_compute_gas_limit(a, VolatileCap))
    BY <1>1, <2>1, OpSticks
  <2> HIDE DEF a
  <2>3. Sticks(al, b)
    BY <2>2
  <2> QED BY <2>1, <2>3, ExecutedHeld
<1>10. ASSUME NEW c \in OpCosts, NEW s \in Slot, NEW v \in {0, 1}, SStore(c, s, v) PROVE Held
  <2> DEFINE a == record_compute_gas(al, c)
             b == IF a.exceeded = "tx" THEN a ELSE on_sstore(a, Original[s], journal.store[s], v)
  <2>1. Executed(b, c) /\ pc = "run" /\ c \in Nat
    BY <1>1, <1>10 DEF SStore, CanPay
  <2>2. Sticks(al, a) /\ Sticks(al, on_sstore(a, Original[s], journal.store[s], v))
    BY <2>1, OpSticks
  <2> HIDE DEF a
  <2>3. Sticks(al, b)
    BY <2>2
  <2> QED BY <2>1, <2>3, ExecutedHeld
<1>11. ASSUME NEW c \in OpCosts, NEW size \in LogSizes, Log(c, size) PROVE Held
  <2> DEFINE a == record_compute_gas(al, c)
             b == IF a.exceeded = "tx" THEN a ELSE on_log(a, size)
  <2>1. Executed(b, c) /\ pc = "run" /\ c \in Nat
    BY <1>1, <1>11 DEF Log, CanPay
  <2>2. Sticks(al, a) /\ Sticks(al, on_log(a, size))
    BY <1>1, <2>1, OpSticks
  <2> HIDE DEF a
  <2>3. Sticks(al, b)
    BY <2>2
  <2> QED BY <2>1, <2>3, ExecutedHeld
<1>12. ASSUME NEW c \in OpCosts, NEW g \in ForwardGas, NEW x \in Input, CallOp(c, g, x) PROVE Held
  <2> DEFINE a == record_compute_gas(al, c)
  <2>1. al' = a /\ pc = "run" /\ c \in Nat /\ pc' \in {"finish", "init"}
    BY <1>1, <1>12 DEF CallOp, CanPay, Return, ReturnWith
  <2>2. Sticks(al, a)
    BY <2>1, OpSticks
  <2> QED BY <2>1, <2>2 DEF Held
<1>13. ASSUME NEW k \in {"ok", "revert", "halt"}, EndFrame(k) PROVE Held
  <2> DEFINE a == record_compute_gas(al, 0)
  <2>1. (al' = a \/ al' = al) /\ pc = "run" /\ pc' = "finish"
    BY <1>13 DEF EndFrame, Return, ReturnWith
  <2>2. Sticks(al, a) /\ Sticks(al, al)
    BY <2>1, OpSticks DEF Sticks
  <2> HIDE DEF a
  <2> QED BY <2>1, <2>2 DEF Held
<1>14. ASSUME NEW size \in CodeSizes \cup {0}, FrameFinish(size) PROVE Held
  <2>1. pc' = "return"
    BY <1>14 DEF FrameFinish
  <2> QED BY <1>14, <2>1, FinishSticks DEF Held
<1>15. ASSUME NEW c \in OpCosts, NEW n \in {0, 1}, NEW d \in BOOLEAN, SelfDestruct(c, n, d) PROVE Held
  <2>1. PICK a, kind, x : Destroys(a, kind, c, x)
    BY <1>15, DestroyFacts
  <2>2. /\ pc = "run" /\ c \in Nat /\ a = record_compute_gas(al, c) /\ pc' = "finish"
        /\ al' = a \/ al' = set_compute_gas_limit(a, VolatileCap)
    BY <2>1 DEF Destroys, ReturnWith
  <2>3. Sticks(al, al')
    BY <1>1, <2>2, OpSticks
  <2> QED BY <2>2, <2>3 DEF Held
<1> QED BY <1>2, <1>3, <1>4, <1>5, <1>6, <1>7, <1>8, <1>9, <1>10, <1>11, <1>12, <1>13,
           <1>14, <1>15 DEF Metering

\* What before_frame_return_result does to the flag
Lifts(a, ret) ==
  /\ a.exceeded = "tx" => ret.al.exceeded = "tx"
  /\ Kinds = {} => ret.al.exceeded = a.exceeded
  /\ ~Enabled(REX4) /\ ret.al.exceeded = "frame" => a.exceeded = "frame"

\* Only a frame-local exceed is lifted, and a transaction-level one makes the result a halt.
LEMMA ReturnedFlags ==
  ASSUME NEW a \in AL, NEW r, NEW n, NEW phase, NEW ret,
         Returned(a, r, phase, n, ret), Kinds = {} => a.exceeded = "within"
  PROVE  /\ Lifts(a, ret)
         /\ ret.al.exceeded = "tx" /\ ~(phase = "last" /\ n = 0) => ret.res.kind = "halt"
         /\ phase = "last" /\ n = 0 => ret.res = r
<1> DEFINE dup == phase = "last" /\ (n = 0 \/ Kinds = {})
<1>1. PICK m \in AL :
        /\ Keeps(a, m)
        /\ CASE check_limit(m).exceeded = "within" \/ dup ->
                  ret.al = check_limit(m) /\ ret.res = r
             [] check_limit(m).exceeded = "frame" /\ ~dup ->
                  ret.al.exceeded = "within" /\ ret.res.kind = "revert"
             [] check_limit(m).exceeded = "tx" /\ ~dup ->
                  ret.al.exceeded = "tx" /\ ret.res.kind = "halt"
  BY DEF Returned
<1> DEFINE b == check_limit(m)
<1>2. b.exceeded \in {"within", "frame", "tx"}
  BY CheckFacts, ALFields
<1>3. a.exceeded # "within" => b.exceeded = a.exceeded
  BY <1>1, CheckSticks DEF Sticks
<1>4. Kinds = {} => b.exceeded = "within" /\ a.exceeded = "within"
  BY <1>1, CheckSticks DEF Sticks
<1>8. ~Enabled(REX4) /\ b.exceeded = "frame" => a.exceeded = "frame"
  BY <1>1, CheckSticks DEF Sticks
<1> HIDE DEF b
<1>5. CASE b.exceeded = "within" \/ dup
  <2>1. ret.al = b /\ ret.res = r
    BY <1>1, <1>5 DEF b
  <2> QED BY <1>3, <1>4, <1>5, <1>8, <2>1 DEF Lifts
<1>6. CASE b.exceeded = "frame" /\ ~dup
  <2>1. ret.al.exceeded = "within" /\ ret.res.kind = "revert"
    BY <1>1, <1>6 DEF b
  <2> QED BY <1>3, <1>4, <1>6, <2>1 DEF Lifts
<1>7. CASE b.exceeded = "tx" /\ ~dup
  <2>1. ret.al.exceeded = "tx" /\ ret.res.kind = "halt"
    BY <1>1, <1>7 DEF b
  <2> QED BY <1>3, <1>4, <1>7, <2>1 DEF Lifts
<1> QED BY <1>2, <1>5, <1>6, <1>7

\* last_frame_result, with the stacks one deep when the first frame never ran
LEMMA LastSteps ==
  ASSUME Base, LastFrameResult
  PROVE  \E ret : /\ Returned(al, res, "last", Pending, ret)
                  /\ pc = "last" /\ Pending = (IF res.ran THEN 0 ELSE 1) /\ Deep(al, Pending)
                  /\ al' = ret.al /\ ret.res \in Result
                  /\ res' = [ret.res EXCEPT !.gas = Given(ret.res) + ret.al.rescued]
                  /\ res'.kind = ret.res.kind /\ burned' = burned + Burns(ret.al, ret.res)
<1> DEFINE ret == before_frame_return_result(al, res, TRUE)
<1>1. /\ pc = "last" /\ al' = ret.al
      /\ res' = [ret.res EXCEPT !.gas = Given(ret.res) + ret.al.rescued]
      /\ burned' = burned + Burns(ret.al, ret.res)
  BY DEF LastFrameResult
<1>2. al \in AL /\ Deep(al, Pending) /\ Pending \in {0, 1} /\ res \in Result
  <2>1. frames = <<>> /\ Len(frames) = 0 /\ Pending \in {0, 1} /\ Deep(al, Len(frames) + Pending)
    BY <1>1, BaseFacts DEF Base, Shape, Pending
  <2> QED BY <2>1, BaseFacts
<1>3. Returned(al, res, "last", Pending, ret)
  BY <1>2, ReturnFacts
<1> HIDE DEF ret
<1>4. ret.res \in Result
  BY <1>3 DEF Returned
<1>5. res'.kind = ret.res.kind
  BY <1>1, <1>4 DEF Result
<1>6. Pending = IF res.ran THEN 0 ELSE 1
  BY <1>1 DEF Pending
<1> QED BY <1>1, <1>2, <1>3, <1>4, <1>5, <1>6

\* The return of a frame lifts no transaction-level exceed, and marks the result of the
\* last frame.
LEMMA ReturnHeld ==
  ASSUME Base, Flags
  PROVE  /\ FrameReturn => /\ al.exceeded = "tx" => al'.exceeded = "tx"
                           /\ Kinds = {} => al'.exceeded = al.exceeded
                           /\ ~Enabled(REX4) => al'.exceeded # "frame"
                           /\ pc' \in {"last", "resume"}
                           /\ al'.exceeded = "tx" => res'.kind = "halt"
         /\ LastFrameResult => /\ al.exceeded = "tx" => al'.exceeded = "tx" /\ res'.kind = "halt"
                               /\ Kinds = {} => al'.exceeded = al.exceeded
                               /\ ~Enabled(REX4) => al'.exceeded # "frame"
                               /\ pc' = "done"
<1>1. al \in AL /\ (Kinds = {} => al.exceeded = "within") /\ (~Enabled(REX4) => al.exceeded # "frame")
  BY BaseFacts DEF Flags
<1>2. ASSUME FrameReturn
      PROVE  /\ al.exceeded = "tx" => al'.exceeded = "tx"
             /\ Kinds = {} => al'.exceeded = al.exceeded
             /\ ~Enabled(REX4) => al'.exceeded # "frame"
             /\ pc' \in {"last", "resume"}
             /\ al'.exceeded = "tx" => res'.kind = "halt"
  <2>1. PICK ret, rest : Unwinds(ret, rest)
    BY <1>2, ReturnSteps
  <2>2. Returned(al, res, "return", Len(frames) + Pending, ret) /\ al' = ret.al /\ res' = ret.res
    BY <2>1 DEF Unwinds
  <2>3. pc' \in {"last", "resume"}
    BY <1>2 DEF FrameReturn
  <2>4. FALSE \in BOOLEAN
    OBVIOUS
  <2>5. Lifts(al, ret) /\ (ret.al.exceeded = "tx" => ret.res.kind = "halt")
    BY <1>1, <2>2, <2>4, ReturnedFlags
  <2> QED BY <1>1, <2>2, <2>3, <2>5 DEF Lifts
<1>3. ASSUME LastFrameResult
      PROVE  /\ al.exceeded = "tx" => al'.exceeded = "tx" /\ res'.kind = "halt"
             /\ Kinds = {} => al'.exceeded = al.exceeded
             /\ ~Enabled(REX4) => al'.exceeded # "frame"
             /\ pc' = "done"
  <2>1. PICK ret : /\ Returned(al, res, "last", Pending, ret)
                   /\ pc = "last" /\ Pending = (IF res.ran THEN 0 ELSE 1)
                   /\ al' = ret.al /\ res'.kind = ret.res.kind
    BY <1>3, LastSteps
  <2>2. TRUE \in BOOLEAN /\ pc' = "done"
    BY <1>3 DEF LastFrameResult
  <2>3. /\ Lifts(al, ret)
        /\ ret.al.exceeded = "tx" /\ ~(Pending = 0) => ret.res.kind = "halt"
        /\ Pending = 0 => ret.res = res
    BY <1>1, <2>1, <2>2, ReturnedFlags
  <2>4. Pending = 0 /\ al.exceeded = "tx" => res.kind = "halt"
    BY <2>1 DEF Flags
  <2> QED BY <1>1, <2>1, <2>2, <2>3, <2>4 DEF Lifts
<1> QED BY <1>2, <1>3

\* The steps: a transaction starts, a frame is metered, a frame returns, the last result.
LEMMA NextCases ==
  ASSUME Next
  PROVE  \/ \E i \in IntrinsicCosts, x \in Input : StartTx(i, x)
         \/ Metering \/ FrameReturn \/ LastFrameResult
BY DEF Next, Metering

\* A transaction starts with a new flag.
LEMMA StartFlags ==
  ASSUME Base, NEW i \in IntrinsicCosts, NEW x \in Input, StartTx(i, x)
  PROVE  Flags'
<1> DEFINE a == reset(al)
           b == before_tx_start(a)
<1>1. a \in AL /\ Deep(a, 0) /\ a.exceeded = "within" /\ i \in Nat
  BY BaseFacts, ResetFacts, Costs
<1> HIDE DEF a
<1>2. PICK m : m \in AL /\ Keeps(a, m) /\ Deep(m, 0) /\ b = check_limit(m)
  BY <1>1, TxStarts
<1>3. Sticks(a, b) /\ b \in AL /\ Deep(b, 0)
  BY <1>1, <1>2, CheckSticks, CheckSteady DEF Steady
<1> HIDE DEF b
<1>4. Sticks(b, record_compute_gas(b, i))
  BY <1>1, <1>3, MeterSticks
<1>5. al' = record_compute_gas(b, i) /\ pc' = "init" /\ spec' = spec
  BY DEF StartTx, a, b
<1> QED BY <1>1, <1>3, <1>4, <1>5 DEF Flags, Sticks, Enabled

\* The spec of the EVM never changes.
LEMMA SpecStays ==
  ASSUME [Next]_vars
  PROVE  spec' = spec
<1>1. ASSUME NEW i \in IntrinsicCosts, NEW x \in Input, StartTx(i, x) PROVE spec' = spec
  BY <1>1 DEF StartTx
<1>2. CASE Metering
  BY <1>2 DEF Metering, Intercept, InitExceeds, InitRuns, InitEnds, InitPrecompile, EndAtOnce,
     Resume, PlainOp, VolatileOp, SStore, Log, CallOp, EndFrame, SelfDestruct, FrameFinish, Executed
<1>3. CASE FrameReturn \/ LastFrameResult
  BY <1>3 DEF FrameReturn, LastFrameResult
<1>4. CASE UNCHANGED vars
  BY <1>4 DEF vars
<1> QED BY <1>1, <1>2, <1>3, <1>4, NextCases

\* Every step keeps the invariant.
LEMMA StepFlags == Base /\ Flags /\ [Next]_vars => Flags'
<1> SUFFICES ASSUME Base, Flags, [Next]_vars PROVE Flags'
  OBVIOUS
<1>1. ASSUME NEW i \in IntrinsicCosts, NEW x \in Input, StartTx(i, x) PROVE Flags'
  BY <1>1, StartFlags
<1>6. spec' = spec
  BY SpecStays
<1>2. CASE Metering
  BY <1>2, <1>6, MeteringHeld DEF Held, Flags, Sticks, Enabled
<1>3. CASE FrameReturn
  BY <1>3, <1>6, ReturnHeld DEF Flags, Enabled
<1>4. CASE LastFrameResult
  BY <1>4, <1>6, ReturnHeld DEF Flags, Enabled
<1>5. CASE UNCHANGED vars
  BY <1>5 DEF vars, Flags, Enabled
<1> QED BY <1>1, <1>2, <1>3, <1>4, <1>5, NextCases

\* So it is an invariant.
LEMMA FlagsAlways == Spec => [](Base /\ Flags)
<1>1. Init => Base /\ Flags
  BY InitBase DEF Init, Flags
<1>2. Base /\ Flags /\ [Next]_vars => (Base /\ Flags)'
  BY StepBase, StepFlags
<1> QED BY <1>1, <1>2, PTL DEF Spec

\* A transaction-level exceed is final at any depth of calls: from the check that finds it
\* (check_limit) to the last result no frame executes again, no return lifts the flag, and
\* the transaction ends as a halt.
THEOREM ExceedStays == Spec => TxExceedIsFinal
<1> DEFINE Stays == al.exceeded = "tx" /\ pc # "done" =>
                      /\ al'.exceeded = "tx"
                      /\ pc' # "run"
                      /\ pc' = "done" => res'.kind = "halt"
<1>1. ASSUME Base, Flags, [Next]_vars PROVE [Stays]_vars
  <2>1. ASSUME NEW i \in IntrinsicCosts, NEW x \in Input, StartTx(i, x) PROVE Stays
    BY <2>1 DEF StartTx
  <2>2. CASE Metering
    BY <1>1, <2>2, MeteringHeld DEF Held, Sticks
  <2>3. CASE FrameReturn
    BY <1>1, <2>3, ReturnHeld
  <2>4. CASE LastFrameResult
    BY <1>1, <2>4, ReturnHeld
  <2> QED BY <1>1, <2>1, <2>2, <2>3, <2>4, NextCases
<1>2. Base /\ Flags /\ [Next]_vars => [Stays]_vars
  BY <1>1
<1> QED BY <1>2, FlagsAlways, PTL DEF Spec, TxExceedIsFinal

-----------------------------------------------------------------------------
(* What each step records *)

\* v is t with a new top frame of limit l that has recorded p and d.
Begun(t, v, l, p, d) ==
  LET n == Len(t.frames)
  IN /\ v \in Tracker
     /\ v.tx = t.tx
     /\ Len(v.frames) = n + 1
     /\ \A i \in 1 .. n : v.frames[i] = t.frames[i]
     /\ v.frames[n + 1].limit = l
     /\ v.frames[n + 1].persistent = p
     /\ v.frames[n + 1].discardable = d
     /\ v.frames[n + 1].refund = 0
     /\ \A i \in 0 .. n : UsedUpTo(v)[i] = UsedUpTo(t)[i] /\ RefundUpTo(v)[i] = RefundUpTo(t)[i]
     /\ UsedUpTo(v)[n + 1] = UsedUpTo(t)[n] + p + d
     /\ RefundUpTo(v)[n + 1] = RefundUpTo(t)[n]

\* Sums of natural numbers
LEMMA AddTwice ==
  ASSUME NEW x \in Nat, NEW a \in Nat, NEW b \in Nat, NEW c \in Nat, NEW e \in Nat
  PROVE  /\ x + a + b + c + e = x + (a + c) + (b + e)
         /\ (x + a) + b = x + (a + b)
         /\ x + a + 0 + e = x + 0 + (a + e)
         /\ x + a + c + e = x + c + (a + e)
OBVIOUS

\* The top entry of a tracker and its sums are natural numbers.
LEMMA TopTyped ==
  ASSUME NEW t \in Tracker, Len(t.frames) # 0
  PROVE  LET n == Len(t.frames)
         IN /\ n \in Nat /\ n \in 1 .. n
            /\ t.frames[n].persistent \in Nat /\ t.frames[n].discardable \in Nat
            /\ t.frames[n].refund \in Nat /\ t.frames[n].limit \in Nat
            /\ UsedUpTo(t)[n] \in Nat /\ RefundUpTo(t)[n] \in Nat
<1>1. Len(t.frames) \in Nat /\ Len(t.frames) \in 1 .. Len(t.frames)
      /\ Len(t.frames) \in 0 .. Len(t.frames) /\ t.frames[Len(t.frames)] \in Entry
  BY TrackerTyped
<1>2. UsedUpTo(t)[Len(t.frames)] \in Nat /\ RefundUpTo(t)[Len(t.frames)] \in Nat
  BY <1>1, PrefixUsed, PrefixRefund
<1> QED BY <1>1, <1>2, EntryTyped

\* Recording twice is recording the sums.
LEMMA RecordedTwice ==
  ASSUME NEW t \in Tracker, Len(t.frames) # 0, NEW u, NEW v,
         NEW p \in Nat, NEW d \in Nat, NEW r \in Nat,
         NEW p2 \in Nat, NEW d2 \in Nat, NEW r2 \in Nat,
         Recorded(t, u, p, d, r), Recorded(u, v, p2, d2, r2)
  PROVE  Recorded(t, v, p + p2, d + d2, r + r2)
<1> DEFINE n == Len(t.frames)
<1>1. n \in Nat /\ n # 0 /\ u \in Tracker /\ v \in Tracker /\ Len(u.frames) = n /\ Len(v.frames) = n
      /\ v.tx = t.tx
  BY TopTyped DEF Recorded
<1>2. /\ t.frames[n].persistent \in Nat /\ t.frames[n].discardable \in Nat
      /\ t.frames[n].refund \in Nat
      /\ UsedUpTo(t)[n] \in Nat /\ RefundUpTo(t)[n] \in Nat
  BY TopTyped
<1>3. /\ u.frames[n].limit = t.frames[n].limit
      /\ u.frames[n].updated = t.frames[n].updated
      /\ u.frames[n].persistent = t.frames[n].persistent + p
      /\ u.frames[n].discardable = t.frames[n].discardable + d
      /\ u.frames[n].refund = t.frames[n].refund + r
      /\ UsedUpTo(u)[n] = UsedUpTo(t)[n] + p + d
      /\ RefundUpTo(u)[n] = RefundUpTo(t)[n] + r
  BY DEF Recorded
<1>4. /\ v.frames[n].limit = u.frames[n].limit
      /\ v.frames[n].updated = u.frames[n].updated
      /\ v.frames[n].persistent = u.frames[n].persistent + p2
      /\ v.frames[n].discardable = u.frames[n].discardable + d2
      /\ v.frames[n].refund = u.frames[n].refund + r2
      /\ UsedUpTo(v)[n] = UsedUpTo(u)[n] + p2 + d2
      /\ RefundUpTo(v)[n] = RefundUpTo(u)[n] + r2
  BY <1>1 DEF Recorded
<1>5. \A i \in 1 .. n - 1 : v.frames[i] = t.frames[i]
  BY <1>1 DEF Recorded
<1>6. \A i \in 0 .. n - 1 : UsedUpTo(v)[i] = UsedUpTo(t)[i] /\ RefundUpTo(v)[i] = RefundUpTo(t)[i]
  BY <1>1 DEF Recorded
<1> HIDE DEF n
<1>7. v.frames[n].persistent = t.frames[n].persistent + (p + p2)
  <2>1. /\ t.frames[n].persistent \in Nat
        /\ v.frames[n].persistent = (t.frames[n].persistent + p) + p2
    BY <1>2, <1>3, <1>4, Zenon
  <2> QED BY <2>1, SMTT(20)
<1>8. v.frames[n].discardable = t.frames[n].discardable + (d + d2)
  <2>1. /\ t.frames[n].discardable \in Nat
        /\ v.frames[n].discardable = (t.frames[n].discardable + d) + d2
    BY <1>2, <1>3, <1>4, Zenon
  <2> QED BY <2>1, SMTT(20)
<1>9. v.frames[n].refund = t.frames[n].refund + (r + r2)
  <2>1. /\ t.frames[n].refund \in Nat
        /\ v.frames[n].refund = (t.frames[n].refund + r) + r2
    BY <1>2, <1>3, <1>4, Zenon
  <2> QED BY <2>1, SMTT(20)
<1>10. UsedUpTo(v)[n] = UsedUpTo(t)[n] + (p + p2) + (d + d2)
  <2>1. /\ UsedUpTo(t)[n] \in Nat
        /\ UsedUpTo(v)[n] = UsedUpTo(t)[n] + p + d + p2 + d2
    BY <1>2, <1>3, <1>4, Zenon
  <2> QED BY <2>1, SMTT(20)
<1>11. RefundUpTo(v)[n] = RefundUpTo(t)[n] + (r + r2)
  <2>1. /\ RefundUpTo(t)[n] \in Nat
        /\ RefundUpTo(v)[n] = (RefundUpTo(t)[n] + r) + r2
    BY <1>2, <1>3, <1>4, Zenon
  <2> QED BY <2>1, SMTT(20)
<1>12. v.frames[n].limit = t.frames[n].limit /\ v.frames[n].updated = t.frames[n].updated
  BY <1>3, <1>4
<1> QED BY <1>1, <1>5, <1>6, <1>7, <1>8, <1>9, <1>10, <1>11, <1>12 DEF Recorded, n

\* A frame that is pushed and then recorded in has begun with both amounts.
LEMMA BegunAfter ==
  ASSUME NEW t \in Tracker, NEW u, NEW v, NEW l, NEW d \in Nat, NEW p2 \in Nat, NEW d2 \in Nat,
         Entered(t, u, l, d), Recorded(u, v, p2, d2, 0)
  PROVE  Begun(t, v, l, p2, d + d2)
<1> DEFINE n == Len(t.frames)
<1>1. n \in Nat /\ u \in Tracker /\ v \in Tracker /\ Len(u.frames) = n + 1 /\ Len(v.frames) = n + 1
      /\ v.tx = t.tx
  BY TrackerTyped DEF Entered, Recorded
<1>2. UsedUpTo(t)[n] \in Nat /\ RefundUpTo(t)[n] \in Nat
  BY NetUsage
<1>3. /\ u.frames[n + 1].limit = l
      /\ u.frames[n + 1].persistent = 0
      /\ u.frames[n + 1].discardable = d
      /\ u.frames[n + 1].refund = 0
      /\ UsedUpTo(u)[n + 1] = UsedUpTo(t)[n] + d
      /\ RefundUpTo(u)[n + 1] = RefundUpTo(t)[n]
  BY DEF Entered
<1>4. /\ v.frames[n + 1].limit = u.frames[n + 1].limit
      /\ v.frames[n + 1].persistent = u.frames[n + 1].persistent + p2
      /\ v.frames[n + 1].discardable = u.frames[n + 1].discardable + d2
      /\ v.frames[n + 1].refund = u.frames[n + 1].refund + 0
      /\ UsedUpTo(v)[n + 1] = UsedUpTo(u)[n + 1] + p2 + d2
      /\ RefundUpTo(v)[n + 1] = RefundUpTo(u)[n + 1] + 0
  BY <1>1 DEF Recorded
<1>5. \A i \in 1 .. n : v.frames[i] = t.frames[i]
  <2>1. (n + 1) - 1 = n
    BY <1>1
  <2>2. \A i \in 1 .. n : v.frames[i] = u.frames[i]
    BY <1>1, <2>1 DEF Recorded
  <2>3. \A i \in 1 .. n : u.frames[i] = t.frames[i]
    BY DEF Entered
  <2> QED BY <2>2, <2>3
<1>6. \A i \in 0 .. n : UsedUpTo(v)[i] = UsedUpTo(t)[i] /\ RefundUpTo(v)[i] = RefundUpTo(t)[i]
  <2>1. (n + 1) - 1 = n
    BY <1>1
  <2>2. \A i \in 0 .. n : UsedUpTo(v)[i] = UsedUpTo(u)[i] /\ RefundUpTo(v)[i] = RefundUpTo(u)[i]
    BY <1>1, <2>1 DEF Recorded
  <2>3. \A i \in 0 .. n : UsedUpTo(u)[i] = UsedUpTo(t)[i] /\ RefundUpTo(u)[i] = RefundUpTo(t)[i]
    BY DEF Entered
  <2> QED BY <2>2, <2>3
<1> HIDE DEF n
<1>7. /\ v.frames[n + 1].limit = l
      /\ v.frames[n + 1].persistent = p2
      /\ v.frames[n + 1].discardable = d + d2
      /\ v.frames[n + 1].refund = 0
  BY <1>3, <1>4
<1>8. UsedUpTo(v)[n + 1] = UsedUpTo(t)[n] + p2 + (d + d2)
  BY <1>2, <1>3, <1>4, AddTwice
<1>9. RefundUpTo(v)[n + 1] = RefundUpTo(t)[n]
  BY <1>2, <1>3, <1>4
<1> QED BY <1>1, <1>5, <1>6, <1>7, <1>8, <1>9 DEF Begun, n

\* Amounts of compute gas only, and amounts of anything else
Gas(p)   == p \in Amounts /\ \A k \in Kinds : k # "ComputeGas" => p[k] = 0
NoGas(d) == d \in Amounts /\ \A k \in Kinds : k = "ComputeGas" => d[k] = 0

\* Every kind records its amounts in the top frame; every kind begins a frame.
Meters(a, b, p, d, r) == \A k \in Kinds : Recorded(a.tr[k], b.tr[k], p[k], d[k], r[k])
Begins(a, b, p, d) == \A k \in Kinds : Begun(a.tr[k], b.tr[k], Budget(a.tr[k]), p[k], d[k])

\* Amounts, kind by kind
Sum(p, q) == [k \in Kinds |-> p[k] + q[k]]

\* The kinds of amounts the operations of AdditionalLimit record
LEMMA AmountKinds ==
  /\ Gas(Nothing) /\ NoGas(Nothing)
  /\ \A c \in Nat : Gas(Only("ComputeGas", c)) /\ NoGas(Only("DataSize", c))
  /\ \A o, p, w : NoGas(Writes(o, p, w)) /\ NoGas(Unwrites(o, p, w))
  /\ \A a \in AL, x \in Input : NoGas(Charge(a, x)) /\ NoGas(Created(x))
  /\ \A p, q : Gas(p) /\ Gas(q) => Gas(Sum(p, q))
  /\ \A p, q : NoGas(p) /\ NoGas(q) => NoGas(Sum(p, q))
<1>1. Gas(Nothing) /\ NoGas(Nothing)
  BY AmountsTyped DEF Gas, NoGas, Nothing
<1>2. \A c \in Nat : Gas(Only("ComputeGas", c)) /\ NoGas(Only("DataSize", c))
  BY AmountsTyped DEF Gas, NoGas, Only
<1>3. \A o, p, w : NoGas(Writes(o, p, w)) /\ NoGas(Unwrites(o, p, w))
  BY DEF NoGas, Amounts, Writes, Unwrites, Counts
<1>4. \A a \in AL, x \in Input : NoGas(Charge(a, x)) /\ NoGas(Created(x))
  <2>1. \A a \in AL, x \in Input : NoGas(Charge(a, x))
    BY ChargeTyped DEF NoGas, Charge
  <2>2. \A x \in Input : NoGas(Created(x))
    BY DEF NoGas, Created, created_update, Amounts
  <2> QED BY <2>1, <2>2
<1>5. \A p, q : Gas(p) /\ Gas(q) => Gas(Sum(p, q))
  BY DEF Gas, Sum, Amounts
<1>6. \A p, q : NoGas(p) /\ NoGas(q) => NoGas(Sum(p, q))
  BY DEF NoGas, Sum, Amounts
<1> QED BY <1>1, <1>2, <1>3, <1>4, <1>5, <1>6

\* Metering twice
LEMMA MetersTwice ==
  ASSUME NEW a \in AL, NEW n \in Nat \ {0}, Deep(a, n), NEW b, NEW c,
         NEW p \in Amounts, NEW d \in Amounts, NEW r \in Amounts,
         NEW p2 \in Amounts, NEW d2 \in Amounts, NEW r2 \in Amounts,
         Meters(a, b, p, d, r), Meters(b, c, p2, d2, r2)
  PROVE  Meters(a, c, Sum(p, p2), Sum(d, d2), Sum(r, r2))
<1> SUFFICES ASSUME NEW k \in Kinds
             PROVE  Recorded(a.tr[k], c.tr[k], Sum(p, p2)[k], Sum(d, d2)[k], Sum(r, r2)[k])
  BY DEF Meters
<1>1. a.tr[k] \in Tracker /\ Len(a.tr[k].frames) # 0
  BY ALFields DEF Deep
<1>2. /\ p[k] \in Nat /\ d[k] \in Nat /\ r[k] \in Nat /\ p2[k] \in Nat /\ d2[k] \in Nat /\ r2[k] \in Nat
  BY DEF Amounts
<1>3. Recorded(a.tr[k], b.tr[k], p[k], d[k], r[k]) /\ Recorded(b.tr[k], c.tr[k], p2[k], d2[k], r2[k])
  BY DEF Meters
<1>4. Recorded(a.tr[k], c.tr[k], p[k] + p2[k], d[k] + d2[k], r[k] + r2[k])
  BY <1>1, <1>2, <1>3, RecordedTwice
<1> QED BY <1>4 DEF Sum

\* Metering a frame that has just been pushed
LEMMA BeginsAfter ==
  ASSUME NEW a \in AL, NEW b, NEW c, NEW d, Enters(a, b, d), NEW p2 \in Amounts,
         d \in Amounts, NEW d2 \in Amounts, Meters(b, c, p2, d2, Nothing)
  PROVE  Begins(a, c, p2, Sum(d, d2))
<1> SUFFICES ASSUME NEW k \in Kinds
             PROVE  Begun(a.tr[k], c.tr[k], Budget(a.tr[k]), p2[k], Sum(d, d2)[k])
  BY DEF Begins
<1>1. a.tr[k] \in Tracker /\ d[k] \in Nat /\ p2[k] \in Nat /\ d2[k] \in Nat
  BY ALFields DEF Amounts
<1>2. Entered(a.tr[k], b.tr[k], Budget(a.tr[k]), d[k])
  BY DEF Enters
<1>3. Recorded(b.tr[k], c.tr[k], p2[k], d2[k], 0)
  BY DEF Meters, Nothing
<1>4. Begun(a.tr[k], c.tr[k], Budget(a.tr[k]), p2[k], d[k] + d2[k])
  BY <1>1, <1>2, <1>3, BegunAfter
<1> QED BY <1>4 DEF Sum

\* Each way of metering, with a frame on the stacks
LEMMA MeterFacts ==
  ASSUME NEW a \in AL, NEW n \in Nat \ {0}, Deep(a, n)
  PROVE  /\ \A c \in Nat : Meters(a, record_compute_gas(a, c), Only("ComputeGas", c), Nothing, Nothing)
         /\ \A c \in Nat : /\ Meters(a, on_log(a, c), Nothing, Only("DataSize", c), Nothing)
                           /\ Meters(a, after_frame_run_instructions(a, TRUE, c),
                                     Nothing, Only("DataSize", c), Nothing)
         /\ \A o, p, w \in {0, 1} :
              Meters(a, on_sstore(a, o, p, w), Nothing, Writes(o, p, w), Unwrites(o, p, w))
         /\ \A x \in Input : Meters(a, after_frame_init(a, x), Nothing, Created(x), Nothing)
         /\ Meters(a, a, Nothing, Nothing, Nothing)
<1>1. ASSUME NEW m, NEW p, NEW d, NEW r, Records(a, m, p, d, r)
      PROVE  Meters(a, m, p, d, r) /\ Meters(a, check_limit(m), p, d, r)
  <2>1. check_limit(m).tr = m.tr
    BY <1>1, CheckFacts DEF Records
  <2> QED BY <1>1, <2>1 DEF Records, Meters
<1>2. \A c \in Nat : Meters(a, record_compute_gas(a, c), Only("ComputeGas", c), Nothing, Nothing)
  BY <1>1, GasRecords
<1>3. \A c \in Nat : /\ Meters(a, on_log(a, c), Nothing, Only("DataSize", c), Nothing)
                     /\ Meters(a, after_frame_run_instructions(a, TRUE, c),
                               Nothing, Only("DataSize", c), Nothing)
  BY <1>1, SizeRecords
<1>4. \A o, p, w \in {0, 1} :
        Meters(a, on_sstore(a, o, p, w), Nothing, Writes(o, p, w), Unwrites(o, p, w))
  BY <1>1, SStoreRecords
<1>5. \A x \in Input : Meters(a, after_frame_init(a, x), Nothing, Created(x), Nothing)
  BY <1>1, CreatedRecords
<1>6. Meters(a, a, Nothing, Nothing, Nothing)
  <2>1. \A k \in Kinds : a.tr[k] \in Tracker /\ Len(a.tr[k].frames) # 0
    BY ALFields DEF Deep
  <2> QED BY <2>1, RecordNothing DEF Meters, Nothing
<1> QED BY <1>2, <1>3, <1>4, <1>5, <1>6

\* A step that begins a frame, charging g of state growth to it
BeginStep(g) ==
  /\ pc = "init"
  /\ \E p, d : /\ Gas(p) /\ NoGas(d) /\ Begins(al, al', p, d)
               /\ \A k \in Kinds : k = "StateGrowth" => d[k] = g

\* A step that meters the top frame, with g of state growth and h of refund
MeterStep(g, h) ==
  \E p, d, r : /\ Gas(p) /\ NoGas(d) /\ NoGas(r) /\ Meters(al, al', p, d, r)
               /\ \A k \in Kinds : k = "StateGrowth" => d[k] = g /\ r[k] = h

\* A frame that is only pushed
LEMMA EnteredBegun ==
  ASSUME NEW t \in Tracker, NEW v, NEW l, NEW d \in Nat, Entered(t, v, l, d)
  PROVE  Begun(t, v, l, 0, d)
<1> DEFINE n == Len(t.frames)
<1>1. UsedUpTo(v)[n + 1] = UsedUpTo(t)[n] + 0 + d
  <2>1. UsedUpTo(v)[n + 1] = UsedUpTo(t)[n] + d /\ UsedUpTo(t)[n] \in Nat
    BY NetUsage DEF Entered
  <2> HIDE DEF n
  <2> QED BY <2>1
<1> QED BY <1>1 DEF Entered, Begun

\* The steps of frame_init begin a frame, charged with the accounts that come to life.
LEMMA InitTracks ==
  ASSUME Base
  PROVE  /\ \A k \in {"ok", "revert"} : Intercept(k) => BeginStep(0)
         /\ InitExceeds => BeginStep(Births(req.input))
         /\ InitRuns => BeginStep(Births(req.input))
         /\ \A k \in {"ok", "revert", "halt"} : InitEnds(k) => BeginStep(Births(req.input))
         /\ \A k \in {"ok", "revert", "halt"}, c \in PrecompileCosts : InitPrecompile(k, c) => BeginStep(Births(req.input))
<1> DEFINE x == req.input
           a == before_frame_init(al, x)
           n == Len(frames) + 1
           d == Charge(al, x)
           g == Births(x)
<1>1. al \in AL /\ x \in Input /\ req.gas \in Nat /\ n \in Nat \ {0} /\ PrecompileCosts \subseteq Nat
  BY BaseFacts, Costs
<1>2. NoGas(d) /\ d \in Amounts /\ (\A k \in Kinds : k = "StateGrowth" => d[k] = g)
  <2>1. NoGas(d)
    BY <1>1, AmountKinds
  <2> QED BY <2>1 DEF NoGas, Charge
<1>3. ASSUME pc = "init"
      PROVE  /\ a \in AL /\ Deep(a, n)
             /\ Enters(al, push_empty_frame(al), Nothing)
             /\ \E m : Enters(al, m, d) /\ a.tr = m.tr
  <2>1. a \in AL /\ Deep(a, n)
    BY <1>3, InitSticks
  <2>2. PICK m : Enters(al, m, d) /\ a = check_limit(m)
    BY <1>1, FrameEnters
  <2>3. a.tr = m.tr
    BY <2>2, CheckFacts DEF Enters
  <2>4. Enters(al, push_empty_frame(al), Nothing)
    BY <1>1, FrameEnters
  <2> QED BY <2>1, <2>2, <2>3, <2>4
<1>4. ASSUME NEW b, NEW m, NEW e \in Amounts, Enters(al, m, e), b.tr = m.tr
      PROVE  Begins(al, b, Nothing, e)
  <2> SUFFICES ASSUME NEW k \in Kinds PROVE Begun(al.tr[k], b.tr[k], Budget(al.tr[k]), 0, e[k])
    BY DEF Begins, Nothing
  <2>1. al.tr[k] \in Tracker /\ e[k] \in Nat
    BY <1>1, ALFields DEF Amounts
  <2>2. Entered(al.tr[k], m.tr[k], Budget(al.tr[k]), e[k])
    BY <1>4 DEF Enters
  <2>3. Begun(al.tr[k], m.tr[k], Budget(al.tr[k]), 0, e[k])
    BY <2>1, <2>2, EnteredBegun
  <2> QED BY <1>4, <2>3
<1>5. ASSUME pc = "init", al'.tr = a.tr PROVE BeginStep(g)
  <2>1. Begins(al, al', Nothing, d)
    BY <1>2, <1>3, <1>4, <1>5
  <2> QED BY <1>2, <1>5, <2>1, AmountKinds DEF BeginStep
<1>6. ASSUME pc = "init", NEW b, NEW p2, NEW d2, Meters(a, b, p2, d2, Nothing), Gas(p2), NoGas(d2),
             \A k \in Kinds : k = "StateGrowth" => d2[k] = 0, al'.tr = b.tr
      PROVE  BeginStep(g)
  <2>1. PICK m : Enters(al, m, d) /\ a.tr = m.tr
    BY <1>3, <1>6
  <2>2. Meters(m, al', p2, d2, Nothing)
    BY <1>6, <2>1 DEF Meters
  <2>3. p2 \in Amounts /\ d2 \in Amounts
    BY <1>6 DEF Gas, NoGas
  <2>4. Begins(al, al', p2, Sum(d, d2))
    BY <1>1, <1>2, <2>1, <2>2, <2>3, BeginsAfter
  <2>5. NoGas(Sum(d, d2))
    BY <1>2, <1>6, AmountKinds
  <2>6. \A k \in Kinds : k = "StateGrowth" => Sum(d, d2)[k] = g
    BY <1>2, <1>6 DEF Sum, Births
  <2> QED BY <1>6, <2>4, <2>5, <2>6 DEF BeginStep
<1>7. ASSUME NEW k \in {"ok", "revert"}, Intercept(k) PROVE BeginStep(0)
  <2>1. pc = "init" /\ al' = push_empty_frame(al)
    BY <1>7 DEF Intercept
  <2>2. Begins(al, al', Nothing, Nothing)
    BY <1>3, <1>4, <2>1, AmountsTyped
  <2>3. \A i \in Kinds : i = "StateGrowth" => Nothing[i] = 0
    BY DEF Nothing
  <2> QED BY <2>1, <2>2, <2>3, AmountKinds DEF BeginStep
<1>8. ASSUME InitExceeds PROVE BeginStep(g)
  <2>1. pc = "init" /\ al' = try_rescue_gas(a, req.gas)
    BY <1>8 DEF InitExceeds
  <2>2. al'.tr = a.tr
    BY <1>1, <1>3, <2>1, RescueFacts
  <2> QED BY <1>5, <2>1, <2>2
<1>9. ASSUME InitRuns PROVE BeginStep(g)
  <2>1. pc = "init" /\ al' = after_frame_init(a, x)
    BY <1>9 DEF InitRuns
  <2>2. Meters(a, al', Nothing, Created(x), Nothing)
    BY <1>1, <1>3, <2>1, MeterFacts
  <2>3. NoGas(Created(x)) /\ Gas(Nothing)
    BY <1>1, AmountKinds
  <2>4. \A k \in Kinds : k = "StateGrowth" => Created(x)[k] = 0
    BY DEF Created, created_update
  <2> QED BY <1>6, <2>1, <2>2, <2>3, <2>4
<1>10. ASSUME NEW k \in {"ok", "revert", "halt"}, InitEnds(k) PROVE BeginStep(g)
  <2>1. pc = "init" /\ al' = try_rescue_gas(a, req.gas)
    BY <1>10 DEF InitEnds
  <2>2. al'.tr = a.tr
    BY <1>1, <1>3, <2>1, RescueFacts
  <2> QED BY <1>5, <2>1, <2>2
<1>11. ASSUME NEW k \in {"ok", "revert", "halt"}, NEW c \in PrecompileCosts, InitPrecompile(k, c) PROVE BeginStep(g)
  <2> DEFINE b == record_compute_gas(a, c)
  <2>1. pc = "init" /\ al' = try_rescue_gas(b, req.gas - c) /\ c <= req.gas
    BY <1>11 DEF InitPrecompile
  <2>2. c \in Nat /\ req.gas - c \in Nat
    BY <1>1, <2>1
  <2>3. Meters(a, b, Only("ComputeGas", c), Nothing, Nothing) /\ b \in AL /\ Deep(b, n)
    BY <1>1, <1>3, <2>1, <2>2, MeterFacts, GasSteady DEF Steady
  <2> HIDE DEF b
  <2>4. al'.tr = b.tr
    BY <2>1, <2>2, <2>3, RescueFacts
  <2>5. Gas(Only("ComputeGas", c)) /\ NoGas(Nothing) /\ \A kk \in Kinds : kk = "StateGrowth" => Nothing[kk] = 0
    BY <2>2, AmountKinds DEF Nothing
  <2> QED BY <1>6, <2>1, <2>3, <2>4, <2>5
<1> QED BY <1>7, <1>8, <1>9, <1>10, <1>11

\* Growth and refund an SSTORE to slot s counts
Wrote(s, v)   == IF Original[s] = 0 /\ journal.store[s] = 0 /\ v # 0 THEN 1 ELSE 0
Cleared(s, v) == IF Original[s] = 0 /\ journal.store[s] # 0 /\ v = 0 THEN 1 ELSE 0

\* The steps of the top frame meter it; only SSTORE counts state growth.
LEMMA OpTracks ==
  ASSUME Base
  PROVE  /\ \A c \in OpCosts : PlainOp(c) \/ VolatileOp(c) => MeterStep(0, 0)
         /\ \A c \in OpCosts, s \in Slot, v \in {0, 1} :
              SStore(c, s, v) => IF record_compute_gas(al, c).exceeded = "tx" THEN MeterStep(0, 0)
                                 ELSE MeterStep(Wrote(s, v), Cleared(s, v))
         /\ \A c \in OpCosts, size \in LogSizes : Log(c, size) => MeterStep(0, 0)
         /\ \A c \in OpCosts, g \in ForwardGas, x \in Input : CallOp(c, g, x) => MeterStep(0, 0)
         /\ \A k \in {"ok", "revert", "halt"} : EndFrame(k) => MeterStep(0, 0)
         /\ \A c \in OpCosts, m \in {0, 1}, d \in BOOLEAN : SelfDestruct(c, m, d) => MeterStep(0, 0)
         /\ \A size \in CodeSizes \cup {0} : FrameFinish(size) => MeterStep(0, 0)
<1> DEFINE n == Len(frames)
<1>1. /\ OpCosts \subseteq Nat /\ LogSizes \subseteq Nat /\ VolatileCap \in Nat
      /\ CodeSizes \cup {0} \subseteq Nat
  BY Costs
<1>2. ASSUME pc \in {"run", "finish"} PROVE n \in Nat \ {0} /\ al \in AL /\ Deep(al, n)
  BY <1>2, BaseFacts DEF Base, Shape
<1> HIDE DEF n
<1>3. ASSUME NEW d, NEW r, NEW g, NEW h, NEW p, Gas(p), NoGas(d), NoGas(r), Meters(al, al', p, d, r),
             \A k \in Kinds : k = "StateGrowth" => d[k] = g /\ r[k] = h
      PROVE  MeterStep(g, h)
  BY <1>3 DEF MeterStep
<1>4. \A k \in Kinds : Nothing[k] = 0
  BY DEF Nothing
<1>5. ASSUME NEW c \in Nat, pc = "run", al'.tr = record_compute_gas(al, c).tr PROVE MeterStep(0, 0)
  <2>1. Meters(al, al', Only("ComputeGas", c), Nothing, Nothing)
    BY <1>2, <1>5, MeterFacts DEF Meters
  <2> QED BY <1>3, <1>4, <2>1, AmountKinds
\* compute gas, then something else
<1>6. ASSUME NEW c \in Nat, pc = "run", NEW b, NEW d, NEW r, NEW g, NEW h, NoGas(d), NoGas(r),
             Meters(record_compute_gas(al, c), al', Nothing, d, r),
             \A k \in Kinds : k = "StateGrowth" => d[k] = g /\ r[k] = h, g \in Nat, h \in Nat
      PROVE  MeterStep(g, h)
  <2> DEFINE a == record_compute_gas(al, c)
  <2>1. Meters(al, a, Only("ComputeGas", c), Nothing, Nothing)
    BY <1>2, <1>6, MeterFacts
  <2>2. d \in Amounts /\ r \in Amounts /\ Only("ComputeGas", c) \in Amounts /\ Nothing \in Amounts
    BY <1>6, AmountsTyped DEF NoGas
  <2>3. Meters(al, al', Sum(Only("ComputeGas", c), Nothing), Sum(Nothing, d), Sum(Nothing, r))
    BY <1>2, <1>6, <2>1, <2>2, MetersTwice
  <2>4. Gas(Sum(Only("ComputeGas", c), Nothing)) /\ NoGas(Sum(Nothing, d)) /\ NoGas(Sum(Nothing, r))
    BY <1>6, AmountKinds
  <2>5. \A k \in Kinds : k = "StateGrowth" => Sum(Nothing, d)[k] = g /\ Sum(Nothing, r)[k] = h
    BY <1>6 DEF Sum, Nothing
  <2> QED BY <1>3, <2>3, <2>4, <2>5
<1>7. ASSUME NEW c \in OpCosts, PlainOp(c) \/ VolatileOp(c) PROVE MeterStep(0, 0)
  <2> DEFINE a == record_compute_gas(al, c)
  <2>1. pc = "run" /\ c \in Nat
    BY <1>1, <1>7 DEF PlainOp, VolatileOp, CanPay
  <2>2. al' = a \/ al' = set_compute_gas_limit(a, VolatileCap)
    BY <1>7 DEF PlainOp, VolatileOp, Executed
  <2>3. a \in AL /\ Deep(a, n)
    BY <2>1, OpSteady DEF Steady, n
  <2>4. al'.tr = a.tr
    BY <1>1, <2>2, <2>3, DetainFacts
  <2> QED BY <1>5, <2>1, <2>4
<1>8. ASSUME NEW c \in OpCosts, NEW s \in Slot, NEW v \in {0, 1}, SStore(c, s, v)
      PROVE  IF record_compute_gas(al, c).exceeded = "tx" THEN MeterStep(0, 0)
             ELSE MeterStep(Wrote(s, v), Cleared(s, v))
  <2> DEFINE a == record_compute_gas(al, c)
             o == Original[s]
             q == journal.store[s]
  <2>1. pc = "run" /\ c \in Nat
    BY <1>1, <1>8 DEF SStore, CanPay
  <2>2. al' = IF a.exceeded = "tx" THEN a ELSE on_sstore(a, o, q, v)
    BY <1>8 DEF SStore, Executed
  <2>3. a \in AL /\ Deep(a, n)
    BY <2>1, OpSteady DEF Steady, n
  <2>4. o \in {0, 1} /\ q \in {0, 1}
    BY LimitAssumption, BaseFacts DEF Journal
  <2>5. CASE a.exceeded = "tx"
    BY <1>5, <2>1, <2>2, <2>5
  <2>6. CASE a.exceeded # "tx"
    <3>1. Meters(a, al', Nothing, Writes(o, q, v), Unwrites(o, q, v))
      <4>1. al' = on_sstore(a, o, q, v)
        BY <2>2, <2>6
      <4> HIDE DEF a, o, q
      <4> QED BY <1>2, <2>1, <2>3, <2>4, <4>1, MeterFacts
    <3>2. /\ NoGas(Writes(o, q, v)) /\ NoGas(Unwrites(o, q, v))
      BY AmountKinds
    <3>3. \A k \in Kinds : k = "StateGrowth" =>
            Writes(o, q, v)[k] = Wrote(s, v) /\ Unwrites(o, q, v)[k] = Cleared(s, v)
      BY <2>4 DEF Writes, Unwrites, Counts, Wrote, Cleared
    <3>4. Wrote(s, v) \in Nat /\ Cleared(s, v) \in Nat
      BY DEF Wrote, Cleared
    <3>5. MeterStep(Wrote(s, v), Cleared(s, v))
      BY <1>6, <2>1, <3>1, <3>2, <3>3, <3>4
    <3> QED BY <2>6, <3>5
  <2> QED BY <2>5, <2>6
<1>9. ASSUME NEW c \in OpCosts, NEW size \in LogSizes, Log(c, size) PROVE MeterStep(0, 0)
  <2> DEFINE a == record_compute_gas(al, c)
  <2>1. pc = "run" /\ c \in Nat /\ size \in Nat
    BY <1>1, <1>9 DEF Log, CanPay
  <2>2. al' = IF a.exceeded = "tx" THEN a ELSE on_log(a, size)
    BY <1>9 DEF Log, Executed
  <2>3. a \in AL /\ Deep(a, n)
    BY <2>1, OpSteady DEF Steady, n
  <2>4. CASE a.exceeded = "tx"
    BY <1>5, <2>1, <2>2, <2>4
  <2>5. CASE a.exceeded # "tx"
    <3>1. Meters(a, al', Nothing, Only("DataSize", size), Nothing)
      <4>1. al' = on_log(a, size)
        BY <2>2, <2>5
      <4> HIDE DEF a
      <4> QED BY <1>2, <2>1, <2>3, <4>1, MeterFacts
    <3>2. NoGas(Only("DataSize", size)) /\ NoGas(Nothing)
      BY <2>1, AmountKinds
    <3>3. \A k \in Kinds : k = "StateGrowth" => Only("DataSize", size)[k] = 0 /\ Nothing[k] = 0
      BY DEF Only, Nothing
    <3> QED BY <1>6, <2>1, <3>1, <3>2, <3>3
  <2> QED BY <2>4, <2>5
<1>10. ASSUME NEW c \in OpCosts, NEW g \in ForwardGas, NEW x \in Input, CallOp(c, g, x)
       PROVE  MeterStep(0, 0)
  <2>1. pc = "run" /\ c \in Nat /\ al' = record_compute_gas(al, c)
    BY <1>1, <1>10 DEF CallOp, CanPay
  <2> QED BY <1>5, <2>1
<1>11. ASSUME NEW k \in {"ok", "revert", "halt"}, EndFrame(k) PROVE MeterStep(0, 0)
  <2>1. pc = "run" /\ (al' = record_compute_gas(al, 0) \/ al' = al)
    BY <1>11 DEF EndFrame
  <2>2. CASE al' = record_compute_gas(al, 0)
    BY <1>5, <2>1, <2>2
  <2>3. CASE al' = al
    <3>1. Meters(al, al', Nothing, Nothing, Nothing)
      BY <1>2, <2>1, <2>3, MeterFacts
    <3> QED BY <1>3, <1>4, <3>1, AmountKinds
  <2> QED BY <2>1, <2>2, <2>3
<1>12. ASSUME NEW size \in CodeSizes \cup {0}, FrameFinish(size) PROVE MeterStep(0, 0)
  <2>1. PICK a1, b, kind, g, cost : Finish(a1, b, kind, g, cost, size)
    BY <1>12, FinishFacts
  <2>2. pc = "finish" /\ size \in Nat
    BY <1>1, <1>12 DEF FrameFinish
  <2>3. a1 \in AL /\ Deep(a1, n) /\ b \in AL /\ Deep(b, n) /\ cost \in Nat /\ g \in Nat
    BY <2>1 DEF Finish, Steady, n
  <2>4. a1 = after_frame_run_instructions(al, res.create, size) /\ b = record_compute_gas(a1, cost)
        /\ al' = try_rescue_gas(b, g)
    BY <2>1 DEF Finish
  <2>5. PICK d : NoGas(d) /\ Meters(al, a1, Nothing, d, Nothing) /\ \A k \in Kinds : k = "StateGrowth" => d[k] = 0
    <3>1. CASE res.create
      <4>1. a1 = after_frame_run_instructions(al, TRUE, size)
        BY <2>4, <3>1 DEF after_frame_run_instructions
      <4>2. Meters(al, a1, Nothing, Only("DataSize", size), Nothing)
        BY <1>2, <2>2, <4>1, MeterFacts
      <4>3. NoGas(Only("DataSize", size)) /\ \A k \in Kinds : k = "StateGrowth" => Only("DataSize", size)[k] = 0
        BY <2>2, AmountKinds DEF Only
      <4> QED BY <4>2, <4>3
    <3>2. CASE ~res.create
      <4>1. a1 = al
        BY <2>4, <3>2 DEF after_frame_run_instructions
      <4>2. Meters(al, a1, Nothing, Nothing, Nothing)
        BY <1>2, <2>2, <4>1, MeterFacts
      <4> QED BY <1>4, <4>2, AmountKinds
    <3> QED BY <3>1, <3>2
  <2>6. al'.tr = b.tr
    BY <2>3, <2>4, RescueFacts
  <2>7. Meters(a1, b, Only("ComputeGas", cost), Nothing, Nothing)
    BY <1>2, <2>2, <2>3, <2>4, MeterFacts
  <2>8. Meters(a1, al', Only("ComputeGas", cost), Nothing, Nothing)
    BY <2>6, <2>7 DEF Meters
  <2>9. d \in Amounts /\ Only("ComputeGas", cost) \in Amounts /\ Nothing \in Amounts
    BY <2>3, <2>5, AmountsTyped DEF NoGas
  <2>10. Meters(al, al', Sum(Nothing, Only("ComputeGas", cost)), Sum(d, Nothing), Sum(Nothing, Nothing))
    BY <1>2, <2>2, <2>5, <2>8, <2>9, MetersTwice
  <2>11. Gas(Sum(Nothing, Only("ComputeGas", cost))) /\ NoGas(Sum(d, Nothing)) /\ NoGas(Sum(Nothing, Nothing))
    BY <2>3, <2>5, AmountKinds
  <2>12. \A k \in Kinds : k = "StateGrowth" => Sum(d, Nothing)[k] = 0 /\ Sum(Nothing, Nothing)[k] = 0
    BY <2>5 DEF Sum, Nothing
  <2> QED BY <1>3, <2>10, <2>11, <2>12
<1>13. ASSUME NEW c \in OpCosts, NEW m \in {0, 1}, NEW d \in BOOLEAN, SelfDestruct(c, m, d)
       PROVE  MeterStep(0, 0)
  <2>1. PICK a, kind, x : Destroys(a, kind, c, x)
    BY <1>13, DestroyFacts
  <2>2. pc = "run" /\ c \in Nat /\ a = record_compute_gas(al, c)
        /\ (al' = a \/ al' = set_compute_gas_limit(a, VolatileCap))
    BY <2>1 DEF Destroys
  <2>3. a \in AL /\ Deep(a, n)
    BY <2>2, <1>13, OpSteady DEF Steady, n
  <2>4. al'.tr = a.tr
    BY <1>1, <2>2, <2>3, DetainFacts
  <2> QED BY <1>5, <2>2, <2>4
<1> QED BY <1>7, <1>8, <1>9, <1>10, <1>11, <1>12, <1>13

-----------------------------------------------------------------------------
(* The cause of the flag *)

\* Compute gas is never discarded and never refunded; the usage of a frame in any other
\* kind is never persistent; the transaction keeps its limit.
Plain(k, t) ==
  LET n == Len(t.frames)
  IN /\ t.tx.limit = TxLimit[k]
     /\ k = "ComputeGas" =>
          /\ \A i \in 0 .. n : RefundUpTo(t)[i] = 0
          /\ \A i \in 1 .. n : t.frames[i].discardable = 0 /\ t.frames[i].refund = 0
     /\ k # "ComputeGas" => \A i \in 1 .. n : t.frames[i].persistent = 0

\* What is added to kind k: persistent usage of compute gas, anything else of the others
Fits(k, p, d, r) ==
  /\ p \in Nat /\ d \in Nat /\ r \in Nat
  /\ k = "ComputeGas" => d = 0 /\ r = 0
  /\ k # "ComputeGas" => p = 0

\* Recording what fits the kind keeps it plain.
LEMMA PlainRecorded ==
  ASSUME NEW k, NEW t \in Tracker, Len(t.frames) # 0, Plain(k, t), NEW v,
         NEW p, NEW d, NEW r, Fits(k, p, d, r), Recorded(t, v, p, d, r)
  PROVE  Plain(k, v)
<1> DEFINE n == Len(t.frames)
<1>1. n \in Nat \ {0} /\ Len(v.frames) = n /\ v.tx = t.tx
  BY TopTyped DEF Recorded
<1>2. /\ \A i \in 1 .. n - 1 : v.frames[i] = t.frames[i]
      /\ v.frames[n].persistent = t.frames[n].persistent + p
      /\ v.frames[n].discardable = t.frames[n].discardable + d
      /\ v.frames[n].refund = t.frames[n].refund + r
      /\ \A i \in 0 .. n - 1 : RefundUpTo(v)[i] = RefundUpTo(t)[i]
      /\ RefundUpTo(v)[n] = RefundUpTo(t)[n] + r
  BY DEF Recorded
<1>3. t.tx.limit = TxLimit[k]
  BY DEF Plain
<1>4. ASSUME k = "ComputeGas"
      PROVE  /\ \A i \in 0 .. n : RefundUpTo(v)[i] = 0
             /\ \A i \in 1 .. n : v.frames[i].discardable = 0 /\ v.frames[i].refund = 0
  <2>1. /\ \A i \in 0 .. n : RefundUpTo(t)[i] = 0
        /\ \A i \in 1 .. n : t.frames[i].discardable = 0 /\ t.frames[i].refund = 0
    BY <1>4 DEF Plain
  <2>2. d = 0 /\ r = 0
    BY <1>4 DEF Fits
  <2> HIDE DEF n
  <2>3. RefundUpTo(v)[n] = 0 /\ v.frames[n].discardable = 0 /\ v.frames[n].refund = 0
    BY <1>1, <1>2, <2>1, <2>2
  <2> QED BY <1>1, <1>2, <2>1, <2>3
<1>5. ASSUME k # "ComputeGas"
      PROVE  \A i \in 1 .. n : v.frames[i].persistent = 0
  <2>1. (\A i \in 1 .. n : t.frames[i].persistent = 0) /\ p = 0
    BY <1>5 DEF Plain, Fits
  <2> HIDE DEF n
  <2>2. v.frames[n].persistent = 0
    BY <1>1, <1>2, <2>1
  <2> QED BY <1>1, <1>2, <2>1, <2>2
<1> QED BY <1>1, <1>3, <1>4, <1>5 DEF Plain

\* So does a new frame.
LEMMA PlainBegun ==
  ASSUME NEW k, NEW t \in Tracker, Plain(k, t), NEW v, NEW l,
         NEW p, NEW d, Fits(k, p, d, 0), Begun(t, v, l, p, d)
  PROVE  Plain(k, v)
<1> DEFINE n == Len(t.frames)
<1>1. n \in Nat /\ Len(v.frames) = n + 1 /\ v.tx = t.tx
  BY TrackerTyped DEF Begun
<1>2. /\ \A i \in 1 .. n : v.frames[i] = t.frames[i]
      /\ v.frames[n + 1].persistent = p
      /\ v.frames[n + 1].discardable = d
      /\ v.frames[n + 1].refund = 0
      /\ \A i \in 0 .. n : RefundUpTo(v)[i] = RefundUpTo(t)[i]
      /\ RefundUpTo(v)[n + 1] = RefundUpTo(t)[n]
  BY DEF Begun
<1>3. t.tx.limit = TxLimit[k]
  BY DEF Plain
<1>4. ASSUME k = "ComputeGas"
      PROVE  /\ \A i \in 0 .. n + 1 : RefundUpTo(v)[i] = 0
             /\ \A i \in 1 .. n + 1 : v.frames[i].discardable = 0 /\ v.frames[i].refund = 0
  <2>1. /\ \A i \in 0 .. n : RefundUpTo(t)[i] = 0
        /\ \A i \in 1 .. n : t.frames[i].discardable = 0 /\ t.frames[i].refund = 0
        /\ d = 0
    BY <1>4 DEF Plain, Fits
  <2> HIDE DEF n
  <2> QED BY <1>1, <1>2, <2>1
<1>5. ASSUME k # "ComputeGas"
      PROVE  \A i \in 1 .. n + 1 : v.frames[i].persistent = 0
  <2>1. (\A i \in 1 .. n : t.frames[i].persistent = 0) /\ p = 0
    BY <1>5 DEF Plain, Fits
  <2> HIDE DEF n
  <2> QED BY <1>1, <1>2, <2>1
<1> QED BY <1>1, <1>3, <1>4, <1>5 DEF Plain

\* So does a popped one: its discardable usage goes to the discardable usage of its caller.
LEMMA PlainPopped ==
  ASSUME NEW k, NEW t \in Tracker, Len(t.frames) # 0, Plain(k, t), NEW v, NEW success,
         Popped(t, v, success)
  PROVE  Plain(k, v)
<1> DEFINE n == Len(t.frames)
           c == t.frames[n]
           d == IF success THEN c.discardable ELSE 0
           r == IF success THEN c.refund ELSE 0
<1>1. n \in Nat \ {0} /\ Len(v.frames) = n - 1 /\ n \in 1 .. n
  BY TopTyped DEF Popped
<1>2. /\ n = 1 => Plus(t.tx, v.tx, c.persistent, d, r)
      /\ n > 1 => /\ v.tx = t.tx
                  /\ \A i \in 1 .. n - 2 : v.frames[i] = t.frames[i]
                  /\ Plus(t.frames[n - 1], v.frames[n - 1], c.persistent, d, r)
      /\ \A i \in 0 .. n - 2 : RefundUpTo(v)[i] = RefundUpTo(t)[i]
      /\ RefundUpTo(v)[n - 1] = RefundUpTo(t)[n - 1] + r
  BY DEF Popped
<1>3. v.tx.limit = TxLimit[k]
  <2>1. t.tx.limit = TxLimit[k]
    BY DEF Plain
  <2>2. n = 1 \/ n > 1
    <3> HIDE DEF n
    <3> QED BY <1>1
  <2>3. v.tx.limit = t.tx.limit
    <3> HIDE DEF n, c, d, r
    <3> QED BY <1>2, <2>2 DEF Plus
  <2> QED BY <2>1, <2>3
<1>4. ASSUME k = "ComputeGas"
      PROVE  /\ \A i \in 0 .. n - 1 : RefundUpTo(v)[i] = 0
             /\ \A i \in 1 .. n - 1 : v.frames[i].discardable = 0 /\ v.frames[i].refund = 0
  <2>1. /\ \A i \in 0 .. n : RefundUpTo(t)[i] = 0
        /\ \A i \in 1 .. n : t.frames[i].discardable = 0 /\ t.frames[i].refund = 0
    BY <1>4 DEF Plain
  <2>2. d = 0 /\ r = 0
    BY <1>1, <2>1
  <2> HIDE DEF n, c, d, r
  <2>3. RefundUpTo(v)[n - 1] = 0
    BY <1>1, <1>2, <2>1, <2>2
  <2>4. n > 1 => v.frames[n - 1].discardable = 0 /\ v.frames[n - 1].refund = 0
    BY <1>1, <1>2, <2>1, <2>2 DEF Plus
  <2>5. \A i \in 1 .. n - 1 : i = n - 1 \/ i \in 1 .. n - 2
    BY <1>1
  <2>6. \A i \in 0 .. n - 1 : i = n - 1 \/ i \in 0 .. n - 2
    BY <1>1
  <2>7. \A i \in 1 .. n - 1 : v.frames[i].discardable = 0 /\ v.frames[i].refund = 0
    BY <1>1, <1>2, <2>1, <2>4, <2>5
  <2>8. \A i \in 0 .. n - 1 : RefundUpTo(v)[i] = 0
    BY <1>1, <1>2, <2>1, <2>3, <2>6
  <2> QED BY <2>7, <2>8
<1>5. ASSUME k # "ComputeGas"
      PROVE  \A i \in 1 .. n - 1 : v.frames[i].persistent = 0
  <2>1. \A i \in 1 .. n : t.frames[i].persistent = 0
    BY <1>5 DEF Plain
  <2>2. c.persistent = 0
    BY <1>1, <2>1
  <2> HIDE DEF n, c, d, r
  <2>3. n > 1 => v.frames[n - 1].persistent = 0
    BY <1>1, <1>2, <2>1, <2>2 DEF Plus
  <2>4. \A i \in 1 .. n - 1 : i = n - 1 \/ i \in 1 .. n - 2
    BY <1>1
  <2> QED BY <1>1, <1>2, <2>1, <2>3, <2>4
<1> QED BY <1>1, <1>3, <1>4, <1>5 DEF Plain

\* The compute gas a transaction has used never shrinks: recording adds to it, and a
\* popped frame leaves it as it is, whether it succeeds or not.
LEMMA GasNeverShrinks ==
  ASSUME NEW t \in Tracker, Plain("ComputeGas", t), NEW v
  PROVE  /\ \A p, d, r : /\ Fits("ComputeGas", p, d, r) /\ Recorded(t, v, p, d, r)
                         /\ Len(t.frames) # 0
                         => net_usage(v) >= net_usage(t)
         /\ \A l, p, d : Fits("ComputeGas", p, d, 0) /\ Begun(t, v, l, p, d) =>
              net_usage(v) = net_usage(t) + p
         /\ \A s : Len(t.frames) # 0 /\ Popped(t, v, s) => net_usage(v) = net_usage(t)
<1> DEFINE n == Len(t.frames)
<1>1. ASSUME NEW u \in Tracker, Plain("ComputeGas", u)
      PROVE  /\ net_usage(u) = UsedUpTo(u)[Len(u.frames)] /\ UsedUpTo(u)[Len(u.frames)] \in Nat
             /\ Len(u.frames) \in Nat
  <2>1. /\ Len(u.frames) \in Nat /\ UsedUpTo(u)[Len(u.frames)] \in Nat
        /\ net_usage(u) = SatSub(UsedUpTo(u)[Len(u.frames)], RefundUpTo(u)[Len(u.frames)])
    BY <1>1, NetUsage
  <2>2. RefundUpTo(u)[Len(u.frames)] = 0
    <3>1. Len(u.frames) \in 0 .. Len(u.frames)
      BY <2>1
    <3> QED BY <1>1, <3>1 DEF Plain
  <2> QED BY <2>1, <2>2 DEF SatSub
<1>2. n \in Nat /\ UsedUpTo(t)[n] \in Nat /\ net_usage(t) = UsedUpTo(t)[n]
  BY <1>1
<1>3. ASSUME NEW p, NEW d, NEW r, Fits("ComputeGas", p, d, r), Recorded(t, v, p, d, r), n # 0
      PROVE  net_usage(v) >= net_usage(t)
  <2>1. Plain("ComputeGas", v)
    BY <1>3, PlainRecorded
  <2>2. v \in Tracker /\ Len(v.frames) = n
        /\ UsedUpTo(v)[n] = UsedUpTo(t)[n] + p + d /\ p \in Nat /\ d \in Nat
    BY <1>3 DEF Recorded, Fits
  <2>3. net_usage(v) = UsedUpTo(v)[n]
    BY <1>1, <2>1, <2>2
  <2> QED BY <1>2, <2>2, <2>3
<1>4. ASSUME NEW l, NEW p, NEW d, Fits("ComputeGas", p, d, 0), Begun(t, v, l, p, d)
      PROVE  net_usage(v) = net_usage(t) + p
  <2>1. Plain("ComputeGas", v) /\ v \in Tracker /\ Len(v.frames) = n + 1
        /\ UsedUpTo(v)[n + 1] = UsedUpTo(t)[n] + p + d /\ p \in Nat /\ d = 0
    BY <1>4, PlainBegun DEF Begun, Fits
  <2>2. net_usage(v) = UsedUpTo(v)[n + 1]
    BY <1>1, <2>1
  <2> QED BY <1>2, <2>1, <2>2
<1>5. ASSUME NEW s, n # 0, Popped(t, v, s) PROVE net_usage(v) = net_usage(t)
  <2> DEFINE c == t.frames[n]
  <2>1. n \in 1 .. n /\ c \in Entry /\ n - 1 \in 0 .. n
    BY <1>2, <1>5, TrackerTyped
  <2>2. c.discardable = 0 /\ c.persistent \in Nat /\ used(c) = c.persistent
    <3>1. c.discardable = 0
      BY <2>1 DEF Plain
    <3> QED BY <2>1, <3>1, EntryTyped DEF used
  <2>3. Plain("ComputeGas", v) /\ v \in Tracker /\ Len(v.frames) = n - 1
    BY <1>5, PlainPopped DEF Popped
  <2>4. UsedUpTo(v)[n - 1] = UsedUpTo(t)[n - 1] + c.persistent + (IF s THEN c.discardable ELSE 0)
    BY <1>5 DEF Popped
  <2>5. UsedUpTo(t)[n] = UsedUpTo(t)[n - 1] + used(c) /\ UsedUpTo(t)[n - 1] \in Nat
    BY <2>1, PrefixUsed
  <2>6. net_usage(v) = UsedUpTo(v)[n - 1]
    BY <1>1, <2>3
  <2> HIDE DEF c
  <2> QED BY <1>2, <2>2, <2>4, <2>5, <2>6
<1> QED BY <1>3, <1>4, <1>5

\* The top frame is over its budget.
LEMMA FrameExceeds ==
  ASSUME NEW t \in Tracker
  PROVE  exceeds_current_frame_limit(t) <=>
           Len(t.frames) # 0 /\ net(t.frames[Len(t.frames)]) > t.frames[Len(t.frames)].limit
<1>1. t.frames # <<>> <=> Len(t.frames) # 0
  BY TrackerTyped
<1> QED BY <1>1 DEF exceeds_current_frame_limit, has_active_frame, top

\* Recording without a refund never brings a frame back within its budget, recording
\* nothing never brings it over, and a new frame that has used nothing is within.
LEMMA ExceedsStays ==
  ASSUME NEW t \in Tracker, NEW v
  PROVE  /\ \A p, d \in Nat : Len(t.frames) # 0 /\ Recorded(t, v, p, d, 0) =>
              (exceeds_current_frame_limit(t) => exceeds_current_frame_limit(v))
         /\ Len(t.frames) # 0 /\ Recorded(t, v, 0, 0, 0) =>
              (exceeds_current_frame_limit(v) => exceeds_current_frame_limit(t))
         /\ \A l \in Nat : Begun(t, v, l, 0, 0) => ~exceeds_current_frame_limit(v)
<1> DEFINE n == Len(t.frames)
<1>1. ASSUME NEW p \in Nat, NEW d \in Nat, n # 0, Recorded(t, v, p, d, 0)
      PROVE  /\ v \in Tracker /\ Len(v.frames) = n
             /\ v.frames[n].limit = t.frames[n].limit /\ t.frames[n].limit \in Nat
             /\ net(v.frames[n]) >= net(t.frames[n])
             /\ p = 0 /\ d = 0 => net(v.frames[n]) = net(t.frames[n])
             /\ net(v.frames[n]) \in Nat /\ net(t.frames[n]) \in Nat
  <2>1. v \in Tracker /\ Len(v.frames) = n /\ n \in Nat \ {0} /\ n \in 1 .. n
    BY <1>1, TopTyped DEF Recorded
  <2>2. /\ v.frames[n].limit = t.frames[n].limit
        /\ v.frames[n].persistent = t.frames[n].persistent + p
        /\ v.frames[n].discardable = t.frames[n].discardable + d
        /\ v.frames[n].refund = t.frames[n].refund + 0
    BY <1>1 DEF Recorded
  <2>3. t.frames[n] \in Entry /\ v.frames[n] \in Entry
    BY <2>1, TrackerTyped
  <2> DEFINE e == t.frames[n]
             f == v.frames[n]
  <2> HIDE DEF e, f, n
  <2>4. /\ e.persistent \in Nat /\ e.discardable \in Nat /\ e.refund \in Nat /\ e.limit \in Nat
        /\ net(e) \in Nat /\ net(f) \in Nat
    BY <2>3, EntryTyped DEF e, f
  <2>5. /\ f.persistent = e.persistent + p /\ f.discardable = e.discardable + d
        /\ f.refund = e.refund + 0 /\ f.limit = e.limit
    BY <2>2 DEF e, f
  <2>6. net(f) >= net(e) /\ (p = 0 /\ d = 0 => net(f) = net(e))
    BY <2>4, <2>5 DEF net, used, SatSub
  <2> QED BY <2>1, <2>4, <2>5, <2>6 DEF e, f
<1>2. ASSUME NEW p \in Nat, NEW d \in Nat, n # 0, Recorded(t, v, p, d, 0), exceeds_current_frame_limit(t)
      PROVE  exceeds_current_frame_limit(v)
  <2>1. v \in Tracker /\ Len(v.frames) = n
    BY <1>1, <1>2
  <2>2. net(t.frames[n]) > t.frames[n].limit
    BY <1>2, FrameExceeds
  <2>3. net(v.frames[n]) > v.frames[n].limit
    <3> HIDE DEF n
    <3> QED BY <1>1, <1>2, <2>2
  <2> QED BY <1>2, <2>1, <2>3, FrameExceeds
<1>3. ASSUME n # 0, Recorded(t, v, 0, 0, 0), exceeds_current_frame_limit(v)
      PROVE  exceeds_current_frame_limit(t)
  <2>1. v \in Tracker /\ Len(v.frames) = n /\ v.frames[n].limit = t.frames[n].limit
        /\ net(v.frames[n]) = net(t.frames[n])
    BY <1>1, <1>3
  <2>2. net(v.frames[n]) > v.frames[n].limit
    BY <1>3, <2>1, FrameExceeds
  <2> QED BY <1>3, <2>1, <2>2, FrameExceeds
<1>4. ASSUME NEW l \in Nat, Begun(t, v, l, 0, 0) PROVE ~exceeds_current_frame_limit(v)
  <2>1. /\ v \in Tracker /\ Len(v.frames) = n + 1 /\ v.frames[n + 1].limit = l
        /\ v.frames[n + 1].persistent = 0 /\ v.frames[n + 1].discardable = 0
        /\ v.frames[n + 1].refund = 0
    BY <1>4 DEF Begun
  <2>2. net(v.frames[n + 1]) = 0
    BY <2>1 DEF net, used, SatSub
  <2> QED BY <2>1, <2>2, FrameExceeds
<1> QED BY <1>2, <1>3, <1>4

-----------------------------------------------------------------------------
\* Every kind is plain.
Plains(a) == \A k \in Kinds : Plain(k, a.tr[k])

\* The compute gas of the transaction is over its limit.
Over(a) == "ComputeGas" \in Kinds /\ net_usage(a.tr["ComputeGas"]) > tx_limit(a, "ComputeGas")

\* From Rex4 on the flag has its cause.
Caused(a) == Enabled(REX4) =>
  /\ a.exceeded = "frame" => \E k \in Kinds : exceeds_current_frame_limit(a.tr[k])
  /\ a.exceeded = "tx" => Over(a)

\* What holds of AdditionalLimit in every phase
Fit(a) == Plains(a) /\ Caused(a)

\* The flag is up to date.
Checked(a) == a.exceeded = "within" => Within(a)

\* From Rex4 on no top frame is over its budget.
Sober(a) == Enabled(REX4) => \A k \in Kinds : ~exceeds_current_frame_limit(a.tr[k])

\* A check brings the flag up to date, with its cause.
LEMMA CheckFit ==
  ASSUME NEW a \in AL
  PROVE  /\ Checked(check_limit(a))
         /\ Plains(a) => Plains(check_limit(a))
         /\ Caused(a) => Caused(check_limit(a))
         /\ check_limit(a).exceeded = "within" => Sober(check_limit(a)) /\ Sober(a)
<1> DEFINE b == check_limit(a)
<1>1. /\ b.tr = a.tr /\ b.detained = a.detained
      /\ a.exceeded # "within" => b.exceeded = a.exceeded
      /\ b.exceeded = "within" <=> a.exceeded = "within" /\ Within(a)
      /\ a.exceeded = "within" /\ b.exceeded # "within" =>
           \E k \in Kinds : kind_check(a, k) = b.exceeded
  BY CheckFacts
<1> HIDE DEF b
<1>2. Within(b) <=> Within(a)
  BY <1>1, KindCheckSame DEF Within
<1>3. Checked(b)
  BY <1>1, <1>2 DEF Checked
<1>4. Plains(a) => Plains(b)
  BY <1>1 DEF Plains
<1>5. ASSUME Caused(a) PROVE Caused(b)
  <2> SUFFICES ASSUME Enabled(REX4)
               PROVE  /\ b.exceeded = "frame" => \E k \in Kinds : exceeds_current_frame_limit(b.tr[k])
                      /\ b.exceeded = "tx" => Over(b)
    BY DEF Caused
  <2>1. CASE a.exceeded # "within"
    BY <1>1, <1>5, <2>1 DEF Caused, Over, tx_limit
  <2>2. CASE a.exceeded = "within" /\ b.exceeded # "within"
    <3>1. PICK k \in Kinds : kind_check(a, k) = b.exceeded
      BY <1>1, <2>2
    <3>2. b.exceeded = "frame" => exceeds_current_frame_limit(b.tr[k])
      BY <1>1, <3>1 DEF kind_check
    <3>3. b.exceeded = "tx" => k = "ComputeGas" /\ net_usage(b.tr[k]) > tx_limit(b, k)
      BY <1>1, <3>1 DEF kind_check, exceeds_tx_limit, tx_limit
    <3> QED BY <3>2, <3>3 DEF Over
  <2>3. CASE b.exceeded = "within"
    BY <2>3
  <2> QED BY <2>1, <2>2, <2>3
<1>6. ASSUME b.exceeded = "within" PROVE Sober(b) /\ Sober(a)
  BY <1>1, <1>6 DEF Sober, Within, kind_check
<1> QED BY <1>3, <1>4, <1>5, <1>6 DEF b

\* Adding to each tracker what fits its kind
LEMMA PlainsRecords ==
  ASSUME NEW a \in AL, NEW n \in Nat \ {0}, Deep(a, n), NEW m, NEW p, NEW d, NEW r,
         Gas(p), NoGas(d), NoGas(r), Records(a, m, p, d, r), Plains(a)
  PROVE  Plains(m) /\ \A k \in Kinds : Fits(k, p[k], d[k], r[k])
<1> SUFFICES ASSUME NEW k \in Kinds PROVE Plain(k, m.tr[k]) /\ Fits(k, p[k], d[k], r[k])
  BY DEF Plains
<1>1. a.tr[k] \in Tracker /\ Len(a.tr[k].frames) # 0 /\ Plain(k, a.tr[k])
  BY ALFields DEF Deep, Plains
<1>2. Fits(k, p[k], d[k], r[k])
  BY DEF Gas, NoGas, Amounts, Fits
<1>3. Recorded(a.tr[k], m.tr[k], p[k], d[k], r[k])
  BY DEF Records
<1>4. Plain(k, m.tr[k])
  BY <1>1, <1>2, <1>3, PlainRecorded
<1> QED BY <1>2, <1>4

\* The limit on compute gas is a natural, and follows the detained limit down.
LEMMA LimitTyped ==
  ASSUME NEW a \in AL, "ComputeGas" \in Kinds
  PROVE  /\ tx_limit(a, "ComputeGas") \in Nat
         /\ net_usage(a.tr["ComputeGas"]) \in Nat
         /\ \A b \in AL : b.detained <= a.detained => tx_limit(b, "ComputeGas") <= tx_limit(a, "ComputeGas")
<1>1. TxLimit["ComputeGas"] \in Nat
  BY LimitAssumption
<1>2. \A b \in AL : b.detained \in Nat
  BY ALFields
<1>3. net_usage(a.tr["ComputeGas"]) \in Nat
  BY ALFields, NetUsage
<1> QED BY <1>1, <1>2, <1>3 DEF tx_limit

\* More usage and no higher limit: what was over stays over.
LEMMA OverStays ==
  ASSUME NEW a \in AL, NEW b \in AL, Over(a), b.detained <= a.detained,
         net_usage(b.tr["ComputeGas"]) >= net_usage(a.tr["ComputeGas"])
  PROVE  Over(b)
<1>1. "ComputeGas" \in Kinds /\ net_usage(a.tr["ComputeGas"]) > tx_limit(a, "ComputeGas")
  BY DEF Over
<1>2. /\ tx_limit(b, "ComputeGas") <= tx_limit(a, "ComputeGas") /\ tx_limit(a, "ComputeGas") \in Nat
      /\ tx_limit(b, "ComputeGas") \in Nat /\ net_usage(b.tr["ComputeGas"]) \in Nat
      /\ net_usage(a.tr["ComputeGas"]) \in Nat
  BY <1>1, LimitTyped
<1>3. net_usage(b.tr["ComputeGas"]) > tx_limit(b, "ComputeGas")
  BY <1>1, <1>2
<1> QED BY <1>1, <1>3 DEF Over

\* Recording without a refund keeps a cause a cause.
LEMMA RecordsFit ==
  ASSUME NEW a \in AL, NEW n \in Nat \ {0}, Deep(a, n), NEW m, NEW p, NEW d,
         Gas(p), NoGas(d), Records(a, m, p, d, Nothing), Fit(a)
  PROVE  Fit(m) /\ Fit(check_limit(m)) /\ Checked(check_limit(m))
<1>1. m \in AL /\ Keeps(a, m) /\ NoGas(Nothing) /\ Plains(a)
  BY AmountKinds DEF Records, Fit
<1>2. Plains(m) /\ \A k \in Kinds : Fits(k, p[k], d[k], 0)
  <2>1. \A k \in Kinds : Nothing[k] = 0
    BY DEF Nothing
  <2> QED BY <1>1, <2>1, PlainsRecords
<1>3. \A k \in Kinds : /\ a.tr[k] \in Tracker /\ Len(a.tr[k].frames) # 0
                       /\ Recorded(a.tr[k], m.tr[k], p[k], d[k], 0) /\ p[k] \in Nat /\ d[k] \in Nat
  BY <1>2, ALFields DEF Deep, Records, Nothing, Fits
<1>4. \A k \in Kinds : exceeds_current_frame_limit(a.tr[k]) => exceeds_current_frame_limit(m.tr[k])
  BY <1>3, ExceedsStays
<1>5. Over(a) => Over(m)
  <2> SUFFICES ASSUME Over(a) PROVE Over(m)
    OBVIOUS
  <2>1. "ComputeGas" \in Kinds
    BY DEF Over
  <2>2. Plain("ComputeGas", a.tr["ComputeGas"])
    BY <1>1, <2>1 DEF Plains
  <2>3. net_usage(m.tr["ComputeGas"]) >= net_usage(a.tr["ComputeGas"])
    BY <1>2, <1>3, <2>1, <2>2, GasNeverShrinks
  <2>4. m.detained <= a.detained
    BY <1>1, ALFields DEF Keeps
  <2> QED BY <1>1, <2>3, <2>4, OverStays
<1>6. Caused(m)
  BY <1>1, <1>4, <1>5 DEF Caused, Keeps, Fit
<1> QED BY <1>1, <1>2, <1>6, CheckFit DEF Fit

\* A new frame is within a budget of its own: only compute gas of the transaction may be over.
LEMMA EntersFit ==
  ASSUME NEW a \in AL, NEW m, NEW d, NoGas(d), Enters(a, m, d), Fit(a), a.exceeded # "frame"
  PROVE  Fit(m) /\ Fit(check_limit(m)) /\ Checked(check_limit(m))
<1>1. m \in AL /\ Keeps(a, m) /\ Plains(a) /\ Caused(a)
  BY DEF Enters, Fit
<1>2. \A k \in Kinds : /\ a.tr[k] \in Tracker /\ Plain(k, a.tr[k]) /\ Fits(k, 0, d[k], 0)
                       /\ Begun(a.tr[k], m.tr[k], Budget(a.tr[k]), 0, d[k])
  <2> SUFFICES ASSUME NEW k \in Kinds
               PROVE  /\ a.tr[k] \in Tracker /\ Plain(k, a.tr[k]) /\ Fits(k, 0, d[k], 0)
                      /\ Begun(a.tr[k], m.tr[k], Budget(a.tr[k]), 0, d[k])
    OBVIOUS
  <2>1. a.tr[k] \in Tracker /\ Plain(k, a.tr[k]) /\ d[k] \in Nat /\ (k = "ComputeGas" => d[k] = 0)
    BY <1>1, ALFields DEF Plains, NoGas, Amounts
  <2>2. Begun(a.tr[k], m.tr[k], Budget(a.tr[k]), 0, d[k])
    BY <2>1, EnteredBegun DEF Enters
  <2> QED BY <2>1, <2>2 DEF Fits
<1>3. Plains(m)
  BY <1>2, PlainBegun DEF Plains
<1>4. Over(a) => Over(m)
  <2> SUFFICES ASSUME Over(a) PROVE Over(m)
    OBVIOUS
  <2>1. "ComputeGas" \in Kinds
    BY DEF Over
  <2>2. net_usage(m.tr["ComputeGas"]) = net_usage(a.tr["ComputeGas"]) + 0
    BY <1>2, <2>1, GasNeverShrinks
  <2>3. net_usage(m.tr["ComputeGas"]) >= net_usage(a.tr["ComputeGas"])
    BY <2>1, <2>2, LimitTyped
  <2>4. m.detained <= a.detained
    BY <1>1, ALFields DEF Keeps
  <2> QED BY <1>1, <2>3, <2>4, OverStays
<1>5. Caused(m)
  BY <1>1, <1>4 DEF Caused, Keeps
<1> QED BY <1>1, <1>3, <1>5, CheckFit DEF Fit

\* Each way of metering, with a frame on the stacks
LEMMA FitOps ==
  ASSUME NEW a \in AL, NEW n \in Nat \ {0}, Deep(a, n), Fit(a)
  PROVE  /\ \A c \in Nat : Fit(record_compute_gas(a, c)) /\ Checked(record_compute_gas(a, c))
         /\ \A c \in Nat : Fit(on_log(a, c)) /\ Checked(on_log(a, c))
         /\ \A c \in Nat, y \in BOOLEAN : Fit(after_frame_run_instructions(a, y, c))
         /\ \A x \in Input : Fit(after_frame_init(a, x))
         /\ \A g \in Nat : Fit(try_rescue_gas(a, g)) /\ Checked(try_rescue_gas(a, g))
         /\ \A c \in Nat : Fit(set_compute_gas_limit(a, c))
<1>1. ASSUME NEW c \in Nat PROVE Fit(record_compute_gas(a, c)) /\ Checked(record_compute_gas(a, c))
  BY AmountKinds, GasRecords, RecordsFit
<1>2. ASSUME NEW c \in Nat
      PROVE  /\ Fit(on_log(a, c)) /\ Checked(on_log(a, c))
             /\ Fit(after_frame_run_instructions(a, TRUE, c))
  <2>1. PICK m : /\ Records(a, m, Nothing, Only("DataSize", c), Nothing)
                 /\ on_log(a, c) = check_limit(m)
                 /\ after_frame_run_instructions(a, TRUE, c) = check_limit(m)
    BY SizeRecords
  <2>2. Fit(check_limit(m)) /\ Checked(check_limit(m))
    BY <2>1, AmountKinds, RecordsFit
  <2> QED BY <2>1, <2>2, Zenon
<1>3. ASSUME NEW c \in Nat, NEW y \in BOOLEAN PROVE Fit(after_frame_run_instructions(a, y, c))
  <2>1. CASE y = TRUE
    BY <1>2, <2>1
  <2>2. CASE y = FALSE
    <3>1. after_frame_run_instructions(a, y, c) = a
      BY <2>2 DEF after_frame_run_instructions
    <3> QED BY <3>1
  <2> QED BY <2>1, <2>2
<1>4. ASSUME NEW x \in Input PROVE Fit(after_frame_init(a, x))
  BY AmountKinds, CreatedRecords, RecordsFit
<1>5. ASSUME NEW g \in Nat PROVE Fit(try_rescue_gas(a, g)) /\ Checked(try_rescue_gas(a, g))
  <2> DEFINE b == try_rescue_gas(a, g)
             c == check_limit(a)
  <2>1. Fit(c) /\ Checked(c)
    BY CheckFit DEF Fit
  <2>2. c.tr = a.tr /\ c.detained = a.detained
    BY CheckFacts
  <2>3. b.tr = c.tr /\ b.detained = c.detained /\ b.exceeded = c.exceeded
    BY <2>2, RescueFacts
  <2> HIDE DEF b, c
  <2>4. Within(c) => Within(b)
    BY <2>3, KindCheckSame DEF Within
  <2>5. Fit(b) /\ Checked(b)
    BY <2>1, <2>3, <2>4 DEF Fit, Plains, Caused, Over, tx_limit, Checked
  <2> QED BY <2>5 DEF b
<1>6. ASSUME NEW c \in Nat PROVE Fit(set_compute_gas_limit(a, c))
  <2> DEFINE b == set_compute_gas_limit(a, c)
  <2>1. b \in AL /\ b.tr = a.tr /\ b.exceeded = a.exceeded /\ b.detained <= a.detained
    BY DetainFacts
  <2> HIDE DEF b
  <2>2. Over(a) => Over(b)
    <3> SUFFICES ASSUME Over(a) PROVE Over(b)
      OBVIOUS
    <3>1. net_usage(b.tr["ComputeGas"]) >= net_usage(a.tr["ComputeGas"])
      BY <2>1, LimitTyped DEF Over
    <3> QED BY <2>1, <3>1, OverStays
  <2>3. Fit(b)
    BY <2>1, <2>2 DEF Fit, Plains, Caused
  <2> QED BY <2>3 DEF b
<1> QED BY <1>1, <1>2, <1>3, <1>4, <1>5, <1>6

\* An SSTORE may refund, but only where compute gas is not the cause.
LEMMA FitSStore ==
  ASSUME NEW a \in AL, NEW n \in Nat \ {0}, Deep(a, n), Fit(a),
         \/ a.exceeded = "within"
         \/ /\ a.exceeded = "frame"
            /\ Enabled(REX4) => "ComputeGas" \in Kinds /\ exceeds_current_frame_limit(a.tr["ComputeGas"]),
         NEW o \in {0, 1}, NEW q \in {0, 1}, NEW w \in {0, 1}
  PROVE  Fit(on_sstore(a, o, q, w)) /\ Checked(on_sstore(a, o, q, w))
<1>1. PICK m : Records(a, m, Nothing, Writes(o, q, w), Unwrites(o, q, w))
               /\ on_sstore(a, o, q, w) = check_limit(m)
  BY SStoreRecords
<1>2. Gas(Nothing) /\ NoGas(Writes(o, q, w)) /\ NoGas(Unwrites(o, q, w))
  BY AmountKinds
<1>3. m \in AL /\ Keeps(a, m) /\ Plains(a)
  BY <1>1 DEF Records, Fit
<1>4. Plains(m)
  BY <1>1, <1>2, <1>3, PlainsRecords
<1>5. Caused(m)
  <2>1. CASE a.exceeded = "within"
    BY <1>3, <2>1 DEF Caused, Keeps
  <2>2. CASE a.exceeded = "frame" /\ Enabled(REX4)
    <3>1. "ComputeGas" \in Kinds /\ exceeds_current_frame_limit(a.tr["ComputeGas"])
      BY <2>2
    <3>2. /\ Nothing["ComputeGas"] = 0 /\ Writes(o, q, w)["ComputeGas"] = 0
          /\ Unwrites(o, q, w)["ComputeGas"] = 0
      BY <1>2, <3>1 DEF NoGas, Nothing
    <3>3. Recorded(a.tr["ComputeGas"], m.tr["ComputeGas"], 0, 0, 0)
      BY <1>1, <3>1, <3>2 DEF Records
    <3>4. a.tr["ComputeGas"] \in Tracker /\ Len(a.tr["ComputeGas"].frames) # 0
      BY <3>1, ALFields DEF Deep
    <3>5. exceeds_current_frame_limit(m.tr["ComputeGas"])
      BY <3>1, <3>3, <3>4, ExceedsStays
    <3> QED BY <1>3, <2>2, <3>1, <3>5 DEF Caused, Keeps
  <2>3. CASE a.exceeded = "frame" /\ ~Enabled(REX4)
    BY <2>3 DEF Caused
  <2> QED BY <2>1, <2>2, <2>3
<1> QED BY <1>1, <1>3, <1>4, <1>5, CheckFit DEF Fit

\* When compute gas is recorded while no frame is over its budget, a frame that comes to
\* be over it is so for its compute gas.
LEMMA GasIsCause ==
  ASSUME NEW a \in AL, NEW n \in Nat \ {0}, Deep(a, n), Fit(a), Sober(a), NEW c \in Nat,
         record_compute_gas(a, c).exceeded = "frame", Enabled(REX4)
  PROVE  "ComputeGas" \in Kinds /\ exceeds_current_frame_limit(record_compute_gas(a, c).tr["ComputeGas"])
<1> DEFINE b == record_compute_gas(a, c)
<1>1. Fit(b)
  BY FitOps
<1>2. PICK k \in Kinds : exceeds_current_frame_limit(b.tr[k])
  BY <1>1 DEF Fit, Caused
<1>3. Meters(a, b, Only("ComputeGas", c), Nothing, Nothing)
  BY MeterFacts
<1> HIDE DEF b
<1>4. CASE k # "ComputeGas"
  <2>1. Recorded(a.tr[k], b.tr[k], 0, 0, 0)
    BY <1>3, <1>4 DEF Meters, Only, Nothing
  <2>2. a.tr[k] \in Tracker /\ Len(a.tr[k].frames) # 0
    BY ALFields DEF Deep
  <2>3. exceeds_current_frame_limit(a.tr[k])
    BY <1>2, <2>1, <2>2, ExceedsStays
  <2> QED BY <2>3 DEF Sober
<1> QED BY <1>2, <1>4 DEF b

\* A popped frame leaves the compute gas of the transaction as it is.
LEMMA PopsPlain ==
  ASSUME NEW a \in AL, NEW n \in Nat \ {0}, Deep(a, n), NEW m, NEW s, Pops(a, m, s), Plains(a)
  PROVE  /\ Plains(m) /\ m \in AL
         /\ "ComputeGas" \in Kinds => net_usage(m.tr["ComputeGas"]) = net_usage(a.tr["ComputeGas"])
         /\ Over(a) <=> Over(m)
<1>1. m \in AL /\ Keeps(a, m)
  BY DEF Pops
<1>2. \A k \in Kinds : /\ a.tr[k] \in Tracker /\ Len(a.tr[k].frames) # 0 /\ Plain(k, a.tr[k])
                       /\ Popped(a.tr[k], m.tr[k], s)
  BY ALFields DEF Deep, Plains, Pops
<1>3. Plains(m)
  BY <1>2, PlainPopped DEF Plains
<1>4. "ComputeGas" \in Kinds => net_usage(m.tr["ComputeGas"]) = net_usage(a.tr["ComputeGas"])
  BY <1>2, GasNeverShrinks
<1>5. Over(a) <=> Over(m)
  BY <1>1, <1>4 DEF Over, Keeps, tx_limit
<1> QED BY <1>1, <1>3, <1>4, <1>5

\* The trackers of a transaction that starts
LEMMA StartFit ==
  ASSUME Base, NEW i \in IntrinsicCosts, NEW x \in Input, StartTx(i, x)
  PROVE  Fit(al') /\ Checked(al') /\ al'.exceeded # "frame" /\ Sober(al')
<1> DEFINE a == reset(al)
           b == before_tx_start(a)
           c == record_compute_gas(b, i)
<1>1. a \in AL /\ Deep(a, 0) /\ a.exceeded = "within" /\ i \in Nat
      /\ \A k \in Kinds : a.tr[k] = new_tracker(TxLimit[k])
  BY BaseFacts, ResetFacts, Costs
<1>2. ASSUME NEW t \in Tracker, NEW v, NEW k, NEW y, Plain(k, t), Len(t.frames) = 0, Len(v.frames) = 0,
             Plus(t.tx, v.tx, y, 0, 0), RefundUpTo(v)[0] = RefundUpTo(t)[0]
      PROVE  Plain(k, v)
  <2>1. t.tx.limit = TxLimit[k] /\ v.tx.limit = t.tx.limit
    BY <1>2 DEF Plain, Plus
  <2>2. k = "ComputeGas" => RefundUpTo(t)[0] = 0
    BY <1>2 DEF Plain
  <2> QED BY <1>2, <2>1, <2>2 DEF Plain
<1>3. Plains(a)
  <2> SUFFICES ASSUME NEW k \in Kinds PROVE Plain(k, a.tr[k])
    BY DEF Plains
  <2> DEFINE t == new_tracker(TxLimit[k])
  <2>1. TxLimit[k] \in Nat
    BY LimitAssumption
  <2>2. Len(t.frames) = 0 /\ t.tx.limit = TxLimit[k] /\ RefundUpTo(t)[0] = 0
    BY <2>1, NewTracker, NewEntryFacts
  <2> HIDE DEF t
  <2>3. Plain(k, t)
    BY <2>2 DEF Plain
  <2> QED BY <1>1, <2>3 DEF t
<1> HIDE DEF a
<1>4. PICK m : /\ m \in AL /\ Keeps(a, m) /\ Deep(m, 0) /\ b = check_limit(m)
               /\ \A k \in Kinds : /\ Plus(a.tr[k].tx, m.tr[k].tx, tx_charge(k), 0, 0)
                                    /\ RefundUpTo(m.tr[k])[0] = RefundUpTo(a.tr[k])[0]
  BY <1>1, TxStarts
<1>5. Plains(m)
  BY <1>1, <1>2, <1>3, <1>4, ALFields DEF Plains, Deep
<1>6. Caused(m)
  BY <1>1, <1>4 DEF Caused, Keeps
<1>7. Fit(b) /\ b \in AL /\ Deep(b, 0)
  BY <1>1, <1>4, <1>5, <1>6, CheckFit, CheckSteady DEF Fit, Steady
<1> HIDE DEF b
<1>8. PICK w : /\ w \in AL /\ Keeps(b, w) /\ Deep(w, 0) /\ c = check_limit(w)
               /\ \A k \in Kinds :
                    /\ Plus(b.tr[k].tx, w.tr[k].tx, Only("ComputeGas", i)[k], 0, 0)
                    /\ UsedUpTo(w.tr[k])[0] = UsedUpTo(b.tr[k])[0] + Only("ComputeGas", i)[k]
                    /\ RefundUpTo(w.tr[k])[0] = RefundUpTo(b.tr[k])[0]
  BY <1>1, <1>7, TxGasRecords
<1>9. Plains(w)
  BY <1>2, <1>7, <1>8, ALFields DEF Plains, Deep, Fit
<1>10. \A u \in AL : Deep(u, 0) => \A k \in Kinds : ~exceeds_current_frame_limit(u.tr[k])
  BY FrameExceeds, ALFields DEF Deep
<1>11. Caused(w)
  <2>1. Over(b) => Over(w)
    <3> SUFFICES ASSUME Over(b) PROVE Over(w)
      OBVIOUS
    <3> DEFINE t == b.tr["ComputeGas"]
               v == w.tr["ComputeGas"]
    <3>1. "ComputeGas" \in Kinds /\ Plain("ComputeGas", t) /\ Plain("ComputeGas", v)
          /\ t \in Tracker /\ v \in Tracker /\ Len(t.frames) = 0 /\ Len(v.frames) = 0
      BY <1>7, <1>8, <1>9, ALFields DEF Over, Plains, Fit, Deep
    <3>2. UsedUpTo(v)[0] = UsedUpTo(t)[0] + i
      BY <1>8, <3>1 DEF Only
    <3>3. RefundUpTo(t)[0] = 0 /\ RefundUpTo(v)[0] = 0
      BY <3>1 DEF Plain
    <3>4. /\ net_usage(t) = SatSub(UsedUpTo(t)[0], RefundUpTo(t)[0]) /\ UsedUpTo(t)[0] \in Nat
          /\ net_usage(v) = SatSub(UsedUpTo(v)[0], RefundUpTo(v)[0])
      BY <3>1, NetUsage
    <3> HIDE DEF t, v
    <3>5. net_usage(v) >= net_usage(t)
      BY <1>1, <3>2, <3>3, <3>4 DEF SatSub
    <3>6. w.detained <= b.detained
      BY <1>7, <1>8, ALFields DEF Keeps
    <3> QED BY <1>7, <1>8, <3>5, <3>6, OverStays DEF t, v
  <2>2. b.exceeded = "frame" => ~Enabled(REX4)
    BY <1>7, <1>10 DEF Fit, Caused
  <2> QED BY <1>7, <1>8, <2>1, <2>2 DEF Caused, Keeps, Fit
<1>12. Fit(c) /\ Checked(c) /\ c \in AL /\ Deep(c, 0)
  BY <1>7, <1>8, <1>9, <1>11, CheckFit, CheckSteady DEF Fit, Steady
<1>13. al' = c
  BY DEF StartTx, a, b
<1>14. Sober(c)
  BY <1>10, <1>12 DEF Sober
<1>15. c.exceeded # "frame"
  <2>1. CASE Enabled(REX4)
    BY <1>10, <1>12, <2>1 DEF Fit, Caused
  <2>2. CASE ~Enabled(REX4)
    <3>1. Sticks(a, b)
      BY <1>1, <1>4, CheckSticks
    <3>2. Sticks(b, c)
      BY <1>7, <1>8, CheckSticks
    <3> QED BY <1>1, <2>2, <3>1, <3>2 DEF Sticks
  <2> QED BY <2>1, <2>2
<1> QED BY <1>12, <1>13, <1>14, <1>15

\* A flag that is up to date and within: no frame is over its budget.
LEMMA CheckedSober ==
  ASSUME NEW a, Checked(a), a.exceeded = "within"
  PROVE  Sober(a)
BY DEF Checked, Sober, Within, kind_check

\* An empty frame does not make the flag out of date (Rex4).
LEMMA EmptyFrameChecked ==
  ASSUME NEW a \in AL, NEW m, Enters(a, m, Nothing), Plains(a), Checked(a), Enabled(REX4)
  PROVE  Checked(m)
<1> SUFFICES ASSUME m.exceeded = "within", NEW k \in Kinds PROVE kind_check(m, k) = "within"
  BY DEF Checked, Within
<1>1. a.exceeded = "within" /\ m.detained = a.detained
  BY DEF Enters, Keeps
<1>2. kind_check(a, k) = "within"
  BY <1>1 DEF Checked, Within
<1>3. a.tr[k] \in Tracker /\ Budget(a.tr[k]) \in Nat /\ Plain(k, a.tr[k])
  BY ALFields, BudgetTyped DEF Plains
<1>4. Begun(a.tr[k], m.tr[k], Budget(a.tr[k]), 0, 0)
  BY <1>3, EnteredBegun DEF Enters, Nothing
<1>5. ~exceeds_current_frame_limit(m.tr[k])
  BY <1>3, <1>4, ExceedsStays
<1>6. k = "ComputeGas" => net_usage(m.tr[k]) = net_usage(a.tr[k])
  <2> SUFFICES ASSUME k = "ComputeGas" PROVE net_usage(m.tr[k]) = net_usage(a.tr[k])
    OBVIOUS
  <2>1. Fits("ComputeGas", 0, 0, 0)
    BY DEF Fits
  <2>2. net_usage(m.tr[k]) = net_usage(a.tr[k]) + 0
    BY <1>3, <1>4, <2>1, GasNeverShrinks
  <2> QED BY <1>3, <2>2, NetUsage
<1>7. exceeds_tx_limit(m, k) => exceeds_tx_limit(a, k)
  BY <1>1, <1>6 DEF exceeds_tx_limit, tx_limit
<1> QED BY <1>2, <1>5, <1>7 DEF kind_check

\* What holds of the flag in each phase of the frame loop
Causes ==
  /\ Fit(al)
  /\ pc \in {"init", "resume", "done"} => al.exceeded # "frame"
  /\ pc = "last" /\ res.ran => al.exceeded # "frame"
  /\ pc \in {"init", "return"} => Checked(al)
  /\ pc = "last" => Checked(al) \/ (res.ran /\ res.kind = "revert")
  /\ pc \in {"init", "run"} => Sober(al)

\* What a step other than a start or a return does to it
Fitting ==
  /\ Fit(al')
  /\ pc' \in {"init", "resume"} => al'.exceeded # "frame"
  /\ pc' \in {"init", "return", "last"} => Checked(al')
  /\ pc' \in {"init", "run"} => Sober(al')

\* The steps that begin a frame
LEMMA InitFitting ==
  ASSUME Base, Causes
  PROVE  /\ \A k \in {"ok", "revert"} : Intercept(k) => Fitting
         /\ InitExceeds => Fitting
         /\ InitRuns => Fitting
         /\ \A k \in {"ok", "revert", "halt"} : InitEnds(k) => Fitting
         /\ \A k \in {"ok", "revert", "halt"}, c \in PrecompileCosts : InitPrecompile(k, c) => Fitting
<1> DEFINE x == req.input
           a == before_frame_init(al, x)
           n == Len(frames) + 1
<1>1. al \in AL /\ x \in Input /\ req.gas \in Nat /\ n \in Nat \ {0} /\ PrecompileCosts \subseteq Nat
  BY BaseFacts, Costs
<1>2. ASSUME pc = "init" PROVE Fit(al) /\ al.exceeded # "frame" /\ Checked(al) /\ Sober(al) /\ Plains(al)
  BY <1>2 DEF Causes, Fit
<1>3. ASSUME pc = "init" PROVE a \in AL /\ Deep(a, n) /\ Fit(a)
  <2>1. a \in AL /\ Deep(a, n)
    BY <1>3, InitSticks
  <2>2. PICK m : Enters(al, m, Charge(al, x)) /\ a = check_limit(m)
    BY <1>1, FrameEnters
  <2>3. NoGas(Charge(al, x))
    BY <1>1, AmountKinds
  <2>4. Fit(check_limit(m))
    BY <1>1, <1>2, <1>3, <2>2, <2>3, EntersFit
  <2> QED BY <2>1, <2>2, <2>4
<1> HIDE DEF a, n, x
<1>4. ASSUME NEW kind, NEW g, NEW late, EndAtOnce(kind, g, late), Fit(al'), Checked(al') PROVE Fitting
  BY <1>4 DEF EndAtOnce, Fitting
<1>5. ASSUME NEW k \in {"ok", "revert"}, Intercept(k) PROVE Fitting
  <2>1. pc = "init" /\ Enabled(REX4) /\ al' = push_empty_frame(al) /\ EndAtOnce(k, req.gas, FALSE)
    BY <1>5 DEF Intercept
  <2>2. Enters(al, al', Nothing)
    BY <1>1, <2>1, FrameEnters
  <2>3. Fit(al')
    BY <1>1, <1>2, <2>1, <2>2, AmountKinds, EntersFit
  <2>4. Checked(al')
    BY <1>1, <1>2, <2>1, <2>2, EmptyFrameChecked
  <2> QED BY <1>4, <2>1, <2>3, <2>4
<1>6. ASSUME InitExceeds PROVE Fitting
  <2>1. pc = "init" /\ al' = try_rescue_gas(a, req.gas) /\ EndAtOnce(exceeding_instruction_result(a), req.gas, FALSE)
    BY <1>6 DEF InitExceeds, a, x
  <2>2. Fit(al') /\ Checked(al')
    BY <1>1, <1>3, <2>1, FitOps
  <2> QED BY <1>4, <2>1, <2>2
<1>7. ASSUME InitRuns PROVE Fitting
  <2>1. pc = "init" /\ al' = after_frame_init(a, x) /\ a.exceeded = "within" /\ pc' = "resume"
    BY <1>7 DEF InitRuns, a, x
  <2>2. Fit(al')
    BY <1>1, <1>3, <2>1, FitOps
  <2>3. al'.exceeded = "within"
    BY <1>1, <1>3, <2>1, InitSteady
  <2> QED BY <2>1, <2>2, <2>3 DEF Fitting
<1>8. ASSUME NEW k \in {"ok", "revert", "halt"}, InitEnds(k) PROVE Fitting
  <2>1. pc = "init" /\ al' = try_rescue_gas(a, req.gas) /\ EndAtOnce(k, req.gas, FALSE)
    BY <1>8 DEF InitEnds, a, x
  <2>2. Fit(al') /\ Checked(al')
    BY <1>1, <1>3, <2>1, FitOps
  <2> QED BY <1>4, <2>1, <2>2
<1>9. ASSUME NEW k \in {"ok", "revert", "halt"}, NEW c \in PrecompileCosts, InitPrecompile(k, c) PROVE Fitting
  <2> DEFINE b    == record_compute_gas(a, c)
             late == k = "ok" /\ b.exceeded # "within"
  <2>1. /\ pc = "init" /\ al' = try_rescue_gas(b, req.gas - c) /\ EndAtOnce(k, req.gas - c, late)
        /\ c <= req.gas
    BY <1>9 DEF InitPrecompile, a, x
  <2>2. c \in Nat /\ req.gas - c \in Nat
    BY <1>1, <2>1
  <2>3. b \in AL /\ Deep(b, n) /\ Fit(b)
    BY <1>1, <1>3, <2>1, <2>2, GasSteady, FitOps DEF Steady
  <2> HIDE DEF b
  <2>4. Fit(al') /\ Checked(al')
    BY <1>1, <2>1, <2>2, <2>3, FitOps
  <2> QED BY <1>4, <2>1, <2>4
<1> QED BY <1>5, <1>6, <1>7, <1>8, <1>9

\* An opcode
LEMMA ExecutedFitting ==
  ASSUME NEW a, NEW c, Executed(a, c), pc = "run", Fit(a), a.exceeded = "within" => Sober(a)
  PROVE  Fitting
<1>1. al' = a /\ (pc' = "finish" \/ (pc' = pc /\ a.exceeded = "within"))
  BY DEF Executed, Return, ReturnWith
<1> QED BY <1>1 DEF Fitting

\* The steps of the top frame
LEMMA OpFitting ==
  ASSUME Base, Causes
  PROVE  /\ Resume => Fitting
         /\ \A c \in OpCosts : PlainOp(c) \/ VolatileOp(c) => Fitting
         /\ \A c \in OpCosts, s \in Slot, v \in {0, 1} : SStore(c, s, v) => Fitting
         /\ \A c \in OpCosts, size \in LogSizes : Log(c, size) => Fitting
         /\ \A c \in OpCosts, g \in ForwardGas, x \in Input : CallOp(c, g, x) => Fitting
         /\ \A k \in {"ok", "revert", "halt"} : EndFrame(k) => Fitting
         /\ \A c \in OpCosts, m \in {0, 1}, d \in BOOLEAN : SelfDestruct(c, m, d) => Fitting
         /\ \A size \in CodeSizes \cup {0} : FrameFinish(size) => Fitting
<1> DEFINE n == Len(frames)
<1>1. /\ OpCosts \subseteq Nat /\ LogSizes \subseteq Nat /\ VolatileCap \in Nat
      /\ CodeSizes \cup {0} \subseteq Nat /\ Fit(al) /\ al \in AL
  BY Costs, BaseFacts DEF Causes
<1>2. ASSUME pc \in {"run", "finish"} PROVE n \in Nat \ {0} /\ Deep(al, n)
  BY <1>2, BaseFacts DEF Base, Shape
<1> HIDE DEF n
<1>3. ASSUME NEW c \in Nat, pc = "run"
      PROVE  LET a == record_compute_gas(al, c)
             IN /\ a \in AL /\ Deep(a, n) /\ Fit(a) /\ Checked(a)
                /\ a.exceeded = "within" => Sober(a)
  BY <1>1, <1>2, <1>3, GasSteady, FitOps, CheckedSober DEF Steady
<1>4. ASSUME Resume PROVE Fitting
  <2> DEFINE a == check_limit(al)
  <2>1. al' = a /\ (pc' = "finish" \/ (pc' = "run" /\ a.exceeded = "within"))
    BY <1>4 DEF Resume, Return, ReturnWith
  <2>2. Fit(a) /\ (a.exceeded = "within" => Sober(a))
    BY <1>1, CheckFit DEF Fit
  <2> HIDE DEF a
  <2> QED BY <2>1, <2>2 DEF Fitting
<1>5. ASSUME NEW c \in OpCosts, PlainOp(c) \/ VolatileOp(c) PROVE Fitting
  <2> DEFINE a == record_compute_gas(al, c)
             b == set_compute_gas_limit(a, VolatileCap)
  <2>1. pc = "run" /\ c \in Nat /\ (Executed(a, c) \/ Executed(b, c))
    BY <1>1, <1>5 DEF PlainOp, VolatileOp, CanPay
  <2>2. a \in AL /\ Deep(a, n) /\ Fit(a) /\ (a.exceeded = "within" => Sober(a))
    BY <1>3, <2>1
  <2> HIDE DEF a
  <2>3. Fit(b) /\ b.tr = a.tr /\ b.exceeded = a.exceeded
    BY <1>1, <1>2, <2>1, <2>2, FitOps, DetainFacts
  <2>4. b.exceeded = "within" => Sober(b)
    BY <2>2, <2>3 DEF Sober
  <2> HIDE DEF b
  <2> QED BY <2>1, <2>2, <2>3, <2>4, ExecutedFitting
<1>6. ASSUME NEW c \in OpCosts, NEW s \in Slot, NEW v \in {0, 1}, SStore(c, s, v) PROVE Fitting
  <2> DEFINE a == record_compute_gas(al, c)
             o == Original[s]
             q == journal.store[s]
             b == on_sstore(a, o, q, v)
  <2>1. pc = "run" /\ c \in Nat /\ Executed(IF a.exceeded = "tx" THEN a ELSE b, c)
    BY <1>1, <1>6 DEF SStore, CanPay
  <2>2. a \in AL /\ Deep(a, n) /\ Fit(a) /\ (a.exceeded = "within" => Sober(a))
    BY <1>3, <2>1
  <2>3. o \in {0, 1} /\ q \in {0, 1}
    BY LimitAssumption, BaseFacts DEF Journal
  <2>4. a.exceeded = "frame" /\ Enabled(REX4) =>
          "ComputeGas" \in Kinds /\ exceeds_current_frame_limit(a.tr["ComputeGas"])
    <3>1. Sober(al)
      BY <2>1 DEF Causes
    <3> QED BY <1>1, <1>2, <2>1, <3>1, GasIsCause
  <2> HIDE DEF a, o, q
  <2>5. CASE a.exceeded = "tx"
    BY <2>1, <2>2, <2>5, ExecutedFitting
  <2>6. CASE a.exceeded # "tx"
    <3>1. a.exceeded \in {"within", "frame"}
      BY <2>2, <2>6, ALFields
    <3>2. Fit(b) /\ Checked(b)
      BY <1>2, <2>1, <2>2, <2>3, <2>4, <3>1, FitSStore
    <3>3. Executed(b, c)
      BY <2>1, <2>6
    <3> HIDE DEF b
    <3> QED BY <2>1, <3>2, <3>3, CheckedSober, ExecutedFitting
  <2> QED BY <2>5, <2>6
<1>7. ASSUME NEW c \in OpCosts, NEW size \in LogSizes, Log(c, size) PROVE Fitting
  <2> DEFINE a == record_compute_gas(al, c)
             b == on_log(a, size)
  <2>1. pc = "run" /\ c \in Nat /\ size \in Nat /\ (Executed(a, c) \/ Executed(b, c))
    BY <1>1, <1>7 DEF Log, CanPay
  <2>2. a \in AL /\ Deep(a, n) /\ Fit(a) /\ (a.exceeded = "within" => Sober(a))
    BY <1>3, <2>1
  <2> HIDE DEF a
  <2>3. Fit(b) /\ Checked(b)
    BY <1>2, <2>1, <2>2, FitOps
  <2> HIDE DEF b
  <2> QED BY <2>1, <2>2, <2>3, CheckedSober, ExecutedFitting
<1>8. ASSUME NEW c \in OpCosts, NEW g \in ForwardGas, NEW x \in Input, CallOp(c, g, x) PROVE Fitting
  <2> DEFINE a == record_compute_gas(al, c)
  <2>1. pc = "run" /\ c \in Nat /\ al' = a /\ (pc' = "finish" \/ (pc' = "init" /\ a.exceeded = "within"))
    BY <1>1, <1>8 DEF CallOp, CanPay, Return, ReturnWith
  <2>2. Fit(a) /\ Checked(a) /\ (a.exceeded = "within" => Sober(a))
    BY <1>3, <2>1
  <2> HIDE DEF a
  <2> QED BY <2>1, <2>2 DEF Fitting
<1>9. ASSUME NEW k \in {"ok", "revert", "halt"}, EndFrame(k) PROVE Fitting
  <2>1. pc = "run" /\ (al' = record_compute_gas(al, 0) \/ al' = al) /\ pc' = "finish"
    BY <1>9 DEF EndFrame, Return, ReturnWith
  <2>2. Fit(al')
    BY <1>1, <1>3, <2>1
  <2> QED BY <2>1, <2>2 DEF Fitting
<1>10. ASSUME NEW size \in CodeSizes \cup {0}, FrameFinish(size) PROVE Fitting
  <2>1. PICK a1, b, kind, g, cost : Finish(a1, b, kind, g, cost, size)
    BY <1>10, FinishFacts
  <2>2. pc = "finish" /\ size \in Nat /\ pc' = "return" /\ res.create \in BOOLEAN
    BY <1>1, <1>10, BaseFacts DEF FrameFinish, Result
  <2>3. a1 \in AL /\ Deep(a1, n) /\ b \in AL /\ Deep(b, n) /\ cost \in Nat /\ g \in Nat
    BY <2>1 DEF Finish, Steady, n
  <2>4. a1 = after_frame_run_instructions(al, res.create, size) /\ b = record_compute_gas(a1, cost)
        /\ al' = try_rescue_gas(b, g)
    BY <2>1 DEF Finish
  <2>5. Fit(a1)
    BY <1>1, <1>2, <2>2, <2>4, FitOps
  <2>6. Fit(b)
    BY <1>2, <2>2, <2>3, <2>4, <2>5, FitOps
  <2>7. Fit(al') /\ Checked(al')
    BY <1>2, <2>2, <2>3, <2>4, <2>6, FitOps
  <2> QED BY <2>2, <2>7 DEF Fitting
<1>11. ASSUME NEW c \in OpCosts, NEW m \in {0, 1}, NEW d \in BOOLEAN, SelfDestruct(c, m, d) PROVE Fitting
  <2> DEFINE b == record_compute_gas(al, c)
  <2>1. PICK a, kind, x : Destroys(a, kind, c, x)
    BY <1>11, DestroyFacts
  <2>2. /\ pc = "run" /\ c \in Nat /\ a = b /\ pc' = "finish"
        /\ (al' = a \/ al' = set_compute_gas_limit(a, VolatileCap))
    BY <2>1 DEF Destroys, ReturnWith
  <2>3. b \in AL /\ Deep(b, n) /\ Fit(b)
    BY <1>3, <2>2
  <2> HIDE DEF b
  <2>4. Fit(al')
    BY <1>1, <1>2, <2>2, <2>3, FitOps
  <2> QED BY <2>2, <2>4 DEF Fitting
<1> QED BY <1>4, <1>5, <1>6, <1>7, <1>8, <1>9, <1>10, <1>11

\* before_frame_return_result takes a frame-local exceed away with its cause.
LEMMA ReturnedFit ==
  ASSUME NEW a \in AL, NEW r, NEW n \in Nat, NEW phase, NEW ret, Deep(a, n), Fit(a),
         Returned(a, r, phase, n, ret), Kinds = {} => a.exceeded = "within",
         n = 0 => a.exceeded # "frame"
  PROVE  /\ Fit(ret.al)
         /\ ret.al.exceeded # "frame"
         /\ Checked(ret.al) \/ ret.res.kind = "revert"
<1> DEFINE dup == phase = "last" /\ (n = 0 \/ Kinds = {})
<1>1. PICK m \in AL :
        /\ Keeps(a, m)
        /\ n # 0 => Pops(a, m, r.kind = "ok")
        /\ n = 0 => m = a
        /\ ret.al.tr = m.tr
        /\ CASE check_limit(m).exceeded = "within" \/ dup ->
                  ret.al = check_limit(m) /\ ret.res = r
             [] check_limit(m).exceeded = "frame" /\ ~dup ->
                  ret.al.exceeded = "within" /\ ret.res.kind = "revert"
             [] check_limit(m).exceeded = "tx" /\ ~dup ->
                  ret.al.exceeded = "tx" /\ ret.res.kind = "halt"
  BY DEF Returned
<1>2. ret.al.detained = a.detained /\ ret.al \in AL
  BY DEF Returned
<1> DEFINE b == check_limit(m)
<1>3. /\ b \in AL /\ b.tr = m.tr /\ b.detained = m.detained
      /\ a.exceeded # "within" => b.exceeded = a.exceeded
      /\ b.exceeded \in {"within", "frame", "tx"} /\ Checked(b)
      /\ Caused(m) => Caused(b)
  BY <1>1, CheckFacts, CheckFit, ALFields DEF Keeps
<1>4. Plains(m) /\ (Over(a) => Over(m))
  <2>1. CASE n = 0
    BY <1>1, <2>1 DEF Fit
  <2>2. CASE n # 0
    BY <1>1, <2>2, PopsPlain DEF Fit
  <2> QED BY <2>1, <2>2
<1>5. Kinds = {} => b.exceeded = "within"
  BY <1>1, CheckSticks DEF Sticks
<1>6. a.exceeded # "frame" => Caused(m)
  BY <1>1, <1>4 DEF Caused, Fit, Keeps
<1> HIDE DEF b
<1>7. Plains(ret.al)
  BY <1>1, <1>4 DEF Plains
<1>8. CASE b.exceeded = "within" \/ dup
  <2>1. ret.al = b
    BY <1>1, <1>8 DEF b
  <2>2. b.exceeded = "within" \/ n = 0
    BY <1>5, <1>8
  <2>3. Caused(b)
    <3>1. CASE b.exceeded = "within"
      BY <3>1 DEF Caused
    <3>2. CASE n = 0
      BY <1>3, <1>6, <3>2
    <3> QED BY <2>2, <3>1, <3>2
  <2>4. b.exceeded # "frame"
    <3> SUFFICES ASSUME n = 0, b.exceeded = "frame" PROVE FALSE
      BY <2>2
    <3>1. a.exceeded = "within" /\ m = a
      BY <1>1, <1>3, ALFields
    <3>2. PICK k \in Kinds : kind_check(m, k) = "frame"
      BY <3>1, CheckFacts DEF b
    <3>3. exceeds_current_frame_limit(a.tr[k]) /\ Len(a.tr[k].frames) = 0 /\ a.tr[k] \in Tracker
      BY <3>1, <3>2, ALFields DEF kind_check, Deep
    <3> QED BY <3>3, FrameExceeds
  <2> QED BY <1>3, <1>7, <2>1, <2>3, <2>4 DEF Fit
<1>9. CASE b.exceeded = "frame" /\ ~dup
  <2>1. ret.al.exceeded = "within" /\ ret.res.kind = "revert"
    BY <1>1, <1>9 DEF b
  <2> QED BY <1>7, <2>1 DEF Fit, Caused
<1>10. CASE b.exceeded = "tx" /\ ~dup
  <2>1. ret.al.exceeded = "tx"
    BY <1>1, <1>10 DEF b
  <2>2. a.exceeded # "frame"
    BY <1>3, <1>10
  <2>3. Enabled(REX4) => Over(ret.al)
    <3>1. Enabled(REX4) => Over(b)
      BY <1>3, <1>6, <1>10, <2>2 DEF Caused
    <3>2. ret.al.tr = b.tr /\ ret.al.detained = b.detained
      BY <1>1, <1>2, <1>3 DEF Keeps
    <3> QED BY <3>1, <3>2 DEF Over, tx_limit
  <2> QED BY <1>7, <2>1, <2>3 DEF Fit, Caused, Checked
<1> QED BY <1>3, <1>8, <1>9, <1>10

\* The result of the first frame comes back when it has run.
LEMMA LastRan ==
  ASSUME Base, FrameReturn
  PROVE  pc' = "resume" \/ (pc' = "last" /\ res.ran /\ res'.ran)
<1>1. PICK ret, rest : Unwinds(ret, rest)
  BY ReturnSteps
<1>2. /\ Len(rest) = (Len(frames) + Pending) - 1 /\ res.ran = (Pending = 0)
      /\ res' = ret.res /\ (Len(rest) # 0 => pc' = "resume") /\ (Len(rest) = 0 => pc' = "last")
  BY <1>1 DEF Unwinds
<1>3. ret.res.ran = res.ran
  <2>1. Returned(al, res, "return", Len(frames) + Pending, ret)
    BY <1>1 DEF Unwinds
  <2> QED BY <2>1 DEF Returned
<1>4. Len(frames) \in Nat \ {0} /\ Pending \in {0, 1}
  BY BaseFacts DEF FrameReturn, Base, Shape, Pending
<1>5. Len(rest) = 0 => Pending = 0
  BY <1>2, <1>4
<1> QED BY <1>2, <1>3, <1>5

\* Every step keeps the causes.
LEMMA StepCauses == Base /\ Flags /\ Causes /\ [Next]_vars => Causes'
<1> SUFFICES ASSUME Base, Flags, Causes, [Next]_vars PROVE Causes'
  OBVIOUS
<1>1. spec' = spec
  BY SpecStays
<1>2. /\ Fit(al)' <=> Fit(al')
      /\ Checked(al)' <=> Checked(al')
      /\ Sober(al)' <=> Sober(al')
  BY <1>1 DEF Fit, Plains, Plain, Caused, Over, tx_limit, Enabled, Checked, Within, kind_check,
     exceeds_tx_limit, Sober
<1>3. ASSUME NEW i \in IntrinsicCosts, NEW x \in Input, StartTx(i, x) PROVE Causes'
  <2>1. Fit(al') /\ Checked(al') /\ al'.exceeded # "frame" /\ Sober(al') /\ pc' = "init"
    BY <1>3, StartFit DEF StartTx
  <2> QED BY <1>2, <2>1 DEF Causes
<1>4. CASE Metering
  <2>1. Fitting
    BY <1>4, InitFitting, OpFitting DEF Metering
  <2>2. pc' # "done" /\ (pc' = "last" => ~res'.ran)
    BY <1>4, MeteringHeld DEF Held
  <2> QED BY <1>2, <2>1, <2>2 DEF Causes, Fitting
<1>5. CASE FrameReturn
  <2>1. PICK ret, rest : Unwinds(ret, rest)
    BY <1>5, ReturnSteps
  <2> DEFINE d == Len(frames) + Pending
  <2>2. Returned(al, res, "return", d, ret) /\ al' = ret.al /\ res' = ret.res /\ d \in Nat \ {0}
    BY <2>1 DEF Unwinds
  <2>3. al \in AL /\ Deep(al, d) /\ Fit(al) /\ (Kinds = {} => al.exceeded = "within")
    BY BaseFacts DEF Causes, Flags
  <2> HIDE DEF d
  <2>6. /\ Fit(ret.al) /\ ret.al.exceeded # "frame"
        /\ Checked(ret.al) \/ ret.res.kind = "revert"
    BY <2>2, <2>3, ReturnedFit
  <2>4. Fit(al') /\ al'.exceeded # "frame" /\ (Checked(al') \/ res'.kind = "revert")
    BY <2>2, <2>6
  <2>5. pc' = "resume" \/ (pc' = "last" /\ res'.ran)
    BY <1>5, LastRan
  <2> QED BY <1>2, <2>4, <2>5 DEF Causes
<1>6. CASE LastFrameResult
  <2>1. PICK ret : /\ Returned(al, res, "last", Pending, ret)
                   /\ pc = "last" /\ Pending = (IF res.ran THEN 0 ELSE 1) /\ Deep(al, Pending)
                   /\ al' = ret.al
    BY <1>6, LastSteps
  <2>2. /\ al \in AL /\ Fit(al) /\ (Kinds = {} => al.exceeded = "within") /\ Pending \in Nat
        /\ Pending = 0 => al.exceeded # "frame"
    BY <2>1, BaseFacts DEF Causes, Flags
  <2>3. Fit(al') /\ al'.exceeded # "frame"
    BY <2>1, <2>2, ReturnedFit
  <2>4. pc' = "done"
    BY <1>6 DEF LastFrameResult
  <2> QED BY <1>2, <2>3, <2>4 DEF Causes
<1>7. CASE UNCHANGED vars
  <2>1. al' = al /\ pc' = pc /\ res' = res
    BY <1>7 DEF vars
  <2> QED BY <1>2, <2>1 DEF Causes
<1> QED BY <1>3, <1>4, <1>5, <1>6, <1>7, NextCases

\* So they are invariants.
LEMMA CausesAlways == Spec => [](Base /\ Flags /\ Causes)
<1>1. ASSUME Init PROVE Causes
  <2>1. pc = "done" /\ al.exceeded = "within" /\ \A k \in Kinds : al.tr[k] = new_tracker(TxLimit[k])
    BY <1>1 DEF Init
  <2>2. Plains(al)
    <3> SUFFICES ASSUME NEW k \in Kinds PROVE Plain(k, al.tr[k])
      BY DEF Plains
    <3> DEFINE t == new_tracker(TxLimit[k])
    <3>1. TxLimit[k] \in Nat
      BY LimitAssumption
    <3>2. Len(t.frames) = 0 /\ t.tx.limit = TxLimit[k] /\ RefundUpTo(t)[0] = 0
      BY <3>1, NewTracker, NewEntryFacts
    <3> HIDE DEF t
    <3>3. Plain(k, t)
      BY <3>2 DEF Plain
    <3> QED BY <2>1, <3>3 DEF t
  <2> QED BY <2>1, <2>2 DEF Causes, Fit, Caused
<1>2. Init => Base /\ Flags /\ Causes
  BY <1>1, InitBase DEF Init, Flags
<1>3. Base /\ Flags /\ Causes /\ [Next]_vars => (Base /\ Flags /\ Causes)'
  BY StepBase, StepFlags, StepCauses
<1> QED BY <1>2, <1>3, PTL DEF Spec

\* From Rex4 on the exceed flag tells the truth in every state, however frames fail and
\* return (check_limit, before_frame_return_result): a frame-local flag while the top
\* frame is over its budget, a transaction-level one while the compute gas is over.
THEOREM FlagIsHonest == Spec => []ExceedHasCause
<1>1. ASSUME Base, Causes PROVE ExceedHasCause
  <2> SUFFICES ASSUME Enabled(REX4)
               PROVE  /\ al.exceeded = "frame" =>
                           pc # "done" /\ \E k \in Kinds : exceeds_current_frame_limit(al.tr[k])
                      /\ al.exceeded = "tx" => \E k \in Kinds : net_usage(al.tr[k]) > tx_limit(al, k)
    BY DEF ExceedHasCause
  <2> QED BY <1>1 DEF Causes, Fit, Caused, Over
<1>2. Base /\ Flags /\ Causes => ExceedHasCause
  BY <1>1
<1> QED BY <1>2, CausesAlways, PTL

-----------------------------------------------------------------------------
(* Budgets *)

\* Every step between a start and a return begins a frame, meters the top frame, or
\* (Resume) leaves the trackers alone.
LEMMA MeteringTracks ==
  ASSUME Base, Metering
  PROVE  \/ \E g : BeginStep(g)
         \/ \E g, h : MeterStep(g, h) /\ pc \in {"run", "finish"}
         \/ al'.tr = al.tr /\ pc = "resume"
<1>1. ASSUME Resume PROVE al'.tr = al.tr /\ pc = "resume"
  BY <1>1, BaseFacts, CheckFacts DEF Resume
<1>2. ASSUME NEW c \in OpCosts, PlainOp(c) \/ VolatileOp(c) PROVE MeterStep(0, 0) /\ pc = "run"
  BY <1>2, OpTracks DEF PlainOp, VolatileOp, CanPay
<1>3. ASSUME NEW c \in OpCosts, NEW s \in Slot, NEW v \in {0, 1}, SStore(c, s, v)
      PROVE  pc = "run" /\ \E g, h : MeterStep(g, h)
  <2>1. pc = "run"
    BY <1>3 DEF SStore, CanPay
  <2>2. MeterStep(0, 0) \/ MeterStep(Wrote(s, v), Cleared(s, v))
    BY <1>3, OpTracks
  <2> QED BY <2>1, <2>2
<1>4. ASSUME NEW c \in OpCosts, NEW size \in LogSizes, Log(c, size) PROVE MeterStep(0, 0) /\ pc = "run"
  BY <1>4, OpTracks DEF Log, CanPay
<1>5. ASSUME NEW c \in OpCosts, NEW g \in ForwardGas, NEW x \in Input, CallOp(c, g, x)
      PROVE  MeterStep(0, 0) /\ pc = "run"
  BY <1>5, OpTracks DEF CallOp, CanPay
<1>6. ASSUME NEW k \in {"ok", "revert", "halt"}, EndFrame(k) PROVE MeterStep(0, 0) /\ pc = "run"
  BY <1>6, OpTracks DEF EndFrame
<1>7. ASSUME NEW size \in CodeSizes \cup {0}, FrameFinish(size) PROVE MeterStep(0, 0) /\ pc = "finish"
  BY <1>7, OpTracks DEF FrameFinish
<1>8. ASSUME NEW c \in OpCosts, NEW m \in {0, 1}, NEW d \in BOOLEAN, SelfDestruct(c, m, d)
      PROVE  MeterStep(0, 0) /\ pc = "run"
  BY <1>8, OpTracks DEF SelfDestruct, CanPay
<1> QED BY <1>1, <1>2, <1>3, <1>4, <1>5, <1>6, <1>7, <1>8, InitTracks DEF Metering

\* The budgets of the frames nest: a frame's budget and what its caller has used are
\* within the caller's budget.
Nested(t) ==
  \A i \in 1 .. Len(t.frames) - 1 : t.frames[i + 1].limit + net(t.frames[i]) <= t.frames[i].limit

\* The transaction entry holds what was charged before the first frame.
Fresh(k, t) == k # "ComputeGas" => used(t.tx) = tx_charge(k) /\ t.tx.refund = 0

\* The first frame has the transaction limit for a budget.
Rooted(k, t) == Len(t.frames) # 0 => Fresh(k, t) /\ t.frames[1].limit = TxLimit[k]

\* Recording in the top frame changes no caller.
LEMMA NestedRecorded ==
  ASSUME NEW k, NEW t \in Tracker, Len(t.frames) # 0, NEW v,
         NEW p, NEW d, NEW r, Recorded(t, v, p, d, r)
  PROVE  (Nested(t) => Nested(v)) /\ (Rooted(k, t) => Rooted(k, v))
<1> DEFINE n == Len(t.frames)
<1>1. n \in Nat \ {0} /\ Len(v.frames) = n /\ v.tx = t.tx
  BY TopTyped DEF Recorded
<1>2. /\ \A i \in 1 .. n - 1 : v.frames[i] = t.frames[i]
      /\ v.frames[n].limit = t.frames[n].limit
  BY DEF Recorded
<1> HIDE DEF n
<1>3. \A i \in 1 .. n : v.frames[i].limit = t.frames[i].limit
  BY <1>1, <1>2
<1>4. ASSUME Nested(t) PROVE Nested(v)
  <2> SUFFICES ASSUME NEW i \in 1 .. n - 1
               PROVE  v.frames[i + 1].limit + net(v.frames[i]) <= v.frames[i].limit
    BY <1>1 DEF Nested
  <2>1. t.frames[i + 1].limit + net(t.frames[i]) <= t.frames[i].limit
    BY <1>4 DEF Nested, n
  <2>2. i + 1 \in 1 .. n
    BY <1>1
  <2>3. v.frames[i + 1].limit = t.frames[i + 1].limit /\ v.frames[i] = t.frames[i]
    BY <1>2, <1>3, <2>2
  <2> QED BY <2>1, <2>3
<1>5. 1 \in 1 .. n
  BY <1>1
<1>6. v.frames[1].limit = t.frames[1].limit
  BY <1>3, <1>5
<1>7. ASSUME Rooted(k, t) PROVE Rooted(k, v)
  BY <1>1, <1>6, <1>7 DEF Rooted, Fresh
<1> QED BY <1>4, <1>7

\* The budget of a new frame is within what its caller has left.
LEMMA NestedBegun ==
  ASSUME NEW k, NEW t \in Tracker, NEW v, NEW p, NEW d, Begun(t, v, Budget(t), p, d),
         Enabled(REX4), Plain(k, t), Nested(t), Rooted(k, t), Len(t.frames) = 0 => Fresh(k, t),
         ~exceeds_current_frame_limit(t)
  PROVE  Nested(v) /\ Rooted(k, v)
<1> DEFINE n == Len(t.frames)
           l == max_forward_limit(t)
<1>1. n \in Nat /\ Len(v.frames) = n + 1 /\ v.tx = t.tx
  BY TrackerTyped DEF Begun
<1>2. (\A i \in 1 .. n : v.frames[i] = t.frames[i]) /\ v.frames[n + 1].limit = l
  BY DEF Begun, Budget
<1>3. ASSUME n # 0 PROVE l + net(t.frames[n]) <= t.frames[n].limit
  <2>1. l \in Nat /\ l <= remaining(t.frames[n])
    BY <1>3, ForwardLimit
  <2>2. t.frames[n] \in Entry
    BY <1>1, <1>3, TrackerTyped
  <2>3. ~(net(t.frames[n]) > t.frames[n].limit)
    BY <1>3, FrameExceeds
  <2>4. net(t.frames[n]) \in Nat /\ t.frames[n].limit \in Nat
    BY <2>2, EntryTyped
  <2> HIDE DEF l, n
  <2> QED BY <2>1, <2>3, <2>4 DEF remaining, SatSub
<1>4. n = 0 => l = TxLimit[k]
  BY <1>1, TrackerTyped DEF max_forward_limit, has_active_frame, Plain
<1>5. \A i \in 1 .. n - 1 : t.frames[i + 1].limit + net(t.frames[i]) <= t.frames[i].limit
  BY DEF Nested
<1>6. n # 0 => Fresh(k, t) /\ t.frames[1].limit = TxLimit[k]
  BY DEF Rooted
<1>7. n = 0 => Fresh(k, t)
  OBVIOUS
<1> HIDE DEF n, l
<1>8. Nested(v)
  <2> SUFFICES ASSUME NEW i \in 1 .. n
               PROVE  v.frames[i + 1].limit + net(v.frames[i]) <= v.frames[i].limit
    BY <1>1 DEF Nested
  <2>1. CASE i = n
    BY <1>1, <1>2, <1>3, <2>1
  <2>2. CASE i # n
    <3>1. i \in 1 .. n - 1 /\ i + 1 \in 1 .. n
      BY <1>1, <2>2
    <3> QED BY <1>2, <1>5, <3>1
  <2> QED BY <2>1, <2>2
<1>9. v.frames[1].limit = TxLimit[k]
  <2>1. CASE n = 0
    BY <1>2, <1>4, <2>1
  <2>2. CASE n # 0
    <3>1. 1 \in 1 .. n
      BY <1>1, <2>2
    <3> QED BY <1>2, <1>6, <2>2, <3>1
  <2> QED BY <2>1, <2>2
<1>10. Fresh(k, v)
  BY <1>1, <1>6, <1>7 DEF Fresh
<1> QED BY <1>8, <1>9, <1>10 DEF Rooted

\* What a popped frame leaves in its caller does not matter to those below.
LEMMA NestedPopped ==
  ASSUME NEW k, NEW t \in Tracker, Len(t.frames) # 0, NEW v, NEW success, Popped(t, v, success)
  PROVE  (Nested(t) => Nested(v)) /\ (Rooted(k, t) => Rooted(k, v))
<1> DEFINE n == Len(t.frames)
<1>1. n \in Nat \ {0} /\ Len(v.frames) = n - 1
  BY TopTyped DEF Popped
<1>2. n > 1 => /\ v.tx = t.tx
               /\ \A i \in 1 .. n - 2 : v.frames[i] = t.frames[i]
               /\ v.frames[n - 1].limit = t.frames[n - 1].limit
  BY DEF Popped, Plus
<1> HIDE DEF n
<1>3. \A i \in 1 .. n - 1 : v.frames[i].limit = t.frames[i].limit
  <2> SUFFICES ASSUME NEW i \in 1 .. n - 1 PROVE v.frames[i].limit = t.frames[i].limit
    OBVIOUS
  <2>1. n > 1 /\ (i = n - 1 \/ i \in 1 .. n - 2)
    BY <1>1
  <2> QED BY <1>2, <2>1
<1>4. ASSUME Nested(t) PROVE Nested(v)
  <2> SUFFICES ASSUME NEW i \in 1 .. (n - 1) - 1
               PROVE  v.frames[i + 1].limit + net(v.frames[i]) <= v.frames[i].limit
    BY <1>1 DEF Nested
  <2>1. i \in 1 .. n - 1 /\ i + 1 \in 1 .. n - 1 /\ i \in 1 .. n - 2 /\ n > 1
    BY <1>1
  <2>2. t.frames[i + 1].limit + net(t.frames[i]) <= t.frames[i].limit
    BY <1>4, <2>1 DEF Nested, n
  <2>3. v.frames[i + 1].limit = t.frames[i + 1].limit /\ v.frames[i] = t.frames[i]
    BY <1>2, <1>3, <2>1
  <2> QED BY <2>2, <2>3
<1>5. ASSUME Rooted(k, t), Len(v.frames) # 0 PROVE Fresh(k, v) /\ v.frames[1].limit = TxLimit[k]
  <2>1. n > 1 /\ 1 \in 1 .. n - 1
    BY <1>1, <1>5
  <2>2. v.tx = t.tx /\ v.frames[1].limit = t.frames[1].limit
    BY <1>2, <1>3, <2>1
  <2> QED BY <1>1, <1>5, <2>2 DEF Rooted, Fresh, n
<1> QED BY <1>4, <1>5 DEF Rooted

\* Two saturating differences are together at least that of the sums.
LEMMA SatSubAdds ==
  ASSUME NEW a \in Nat, NEW b \in Nat, NEW c \in Nat, NEW d \in Nat
  PROVE  /\ SatSub(a + c, b + d) <= SatSub(a, b) + SatSub(c, d)
         /\ SatSub(a, b) \in Nat /\ SatSub(c, d) \in Nat /\ SatSub(a + c, b + d) \in Nat
BY DEF SatSub

\* What nested budgets are for: the usage of frame i and of all frames above it is within
\* the budget of frame i when the top frame is within its own.
LEMMA NestedWithin ==
  ASSUME NEW t \in Tracker, Nested(t), ~exceeds_current_frame_limit(t),
         NEW i \in DOMAIN t.frames
  PROVE  net_usage([tx |-> t.frames[i], frames |-> SubSeq(t.frames, i + 1, Len(t.frames))])
           <= t.frames[i].limit
<1> DEFINE fs == t.frames
           n  == Len(t.frames)
           sub == SubSeq(fs, i + 1, n)
           u  == [tx |-> fs[i], frames |-> sub]
           m  == n - i
<1>1. n \in Nat /\ i \in 1 .. n /\ fs \in Seq(Entry) /\ \A j \in 1 .. n : fs[j] \in Entry
  BY TrackerTyped
<1>2. m \in Nat /\ sub \in Seq(Entry) /\ Len(sub) = m /\ \A j \in 1 .. m : sub[j] = fs[i + j]
  <2>1. \A j \in i + 1 .. n : fs[j] \in Entry
    BY <1>1
  <2> HIDE DEF fs
  <2>2. n = Len(fs)
    BY DEF fs
  <2> HIDE DEF n
  <2>3. m \in Nat /\ i \in Nat /\ i + 1 \in Nat /\ n = i + m
    BY <1>1
  <2>4. Len(sub) = m
    <3>1. CASE m = 0
      BY <1>1, <2>2, <2>3, <3>1
    <3>2. CASE m # 0
      BY <1>1, <2>2, <2>3, <3>2
    <3> QED BY <3>1, <3>2
  <2>5. \A j \in 1 .. m : sub[j] = fs[i + j]
    BY <1>1, <2>2, <2>3, SMTT(20)
  <2>6. sub \in Seq(Entry)
    BY <1>1, <2>1, <2>2
  <2> QED BY <2>3, <2>4, <2>5, <2>6
<1>3. u \in Tracker /\ u.frames = sub /\ u.tx = fs[i]
  BY <1>1, <1>2 DEF Tracker
<1>4. \A j \in 1 .. n - 1 : fs[j + 1].limit + net(fs[j]) <= fs[j].limit
  BY DEF Nested
<1>5. net(fs[n]) <= fs[n].limit
  <2>1. ~(net(fs[n]) > fs[n].limit) /\ fs[n] \in Entry
    BY <1>1, FrameExceeds
  <2> QED BY <2>1, EntryTyped
<1>6. \A j \in 1 .. n : fs[j].limit \in Nat /\ net(fs[j]) \in Nat /\ used(fs[j]) \in Nat /\ fs[j].refund \in Nat
  BY <1>1, EntryTyped
<1> DEFINE U == UsedUpTo(u)
           R == RefundUpTo(u)
<1>7. /\ U \in [0 .. m -> Nat] /\ U[0] = used(fs[i])
      /\ \A j \in 1 .. m : U[j] = U[j - 1] + used(fs[i + j])
      /\ R \in [0 .. m -> Nat] /\ R[0] = fs[i].refund
      /\ \A j \in 1 .. m : R[j] = R[j - 1] + fs[i + j].refund
  <2>1. /\ U \in [0 .. Len(u.frames) -> Nat] /\ U[0] = used(u.tx)
        /\ \A j \in 1 .. Len(u.frames) : U[j] = U[j - 1] + used(u.frames[j])
    BY <1>3, PrefixUsed
  <2>2. /\ R \in [0 .. Len(u.frames) -> Nat] /\ R[0] = u.tx.refund
        /\ \A j \in 1 .. Len(u.frames) : R[j] = R[j - 1] + u.frames[j].refund
    BY <1>3, PrefixRefund
  <2> HIDE DEF u, U, R, sub, m, n, fs
  <2> QED BY <1>2, <1>3, <2>1, <2>2
<1>8. net_usage(u) = SatSub(U[m], R[m])
  <2>1. net_usage(u) = SatSub(U[Len(u.frames)], R[Len(u.frames)])
    BY <1>3, NetUsage
  <2> HIDE DEF u, U, R, sub, m, n, fs
  <2> QED BY <1>2, <1>3, <2>1
<1> DEFINE P(j) == SatSub(U[j], R[j]) + fs[i + j].limit <= fs[i].limit + net(fs[i + j])
           T == {j \in Nat : j <= m => P(j)}
<1>9. P(0)
  <2>1. i + 0 = i /\ SatSub(U[0], R[0]) = net(fs[i])
    BY <1>1, <1>7 DEF net
  <2>2. fs[i].limit \in Nat /\ net(fs[i]) \in Nat
    BY <1>1, <1>6
  <2> HIDE DEF u, U, R, sub, m, n, fs
  <2>3. fs[i + 0] = fs[i]
    BY <2>1
  <2> QED BY <2>1, <2>2, <2>3
<1>10. ASSUME NEW j \in Nat, j + 1 <= m, P(j) PROVE P(j + 1)
  <2> DEFINE x == SatSub(U[j], R[j])
             y == SatSub(U[j + 1], R[j + 1])
             e == net(fs[i + j])
             f == net(fs[i + (j + 1)])
  <2>1. /\ j \in 0 .. m /\ j + 1 \in 1 .. m /\ j + 1 \in 0 .. m /\ (j + 1) - 1 = j
        /\ i + j \in 1 .. n /\ i + (j + 1) \in 1 .. n /\ i + j \in 1 .. n - 1
        /\ (i + j) + 1 = i + (j + 1)
    <3>1. j + 1 <= m /\ m = n - i /\ n \in Nat /\ i \in 1 .. n /\ m \in Nat
      BY <1>1, <1>2, <1>10
    <3> HIDE DEF u, U, R, sub, m, n, fs
    <3> QED BY <3>1
  <2> HIDE DEF u, U, R, sub, m, n, fs
  <2>2. /\ U[j + 1] = U[j] + used(fs[i + (j + 1)]) /\ R[j + 1] = R[j] + fs[i + (j + 1)].refund
        /\ U[j] \in Nat /\ R[j] \in Nat
    BY <1>7, <2>1
  <2>3. used(fs[i + (j + 1)]) \in Nat /\ fs[i + (j + 1)].refund \in Nat
    BY <1>6, <2>1
  <2>4. y <= x + f /\ x \in Nat /\ y \in Nat /\ f \in Nat
    BY <2>2, <2>3, SatSubAdds DEF net
  <2>5. fs[i + (j + 1)].limit + e <= fs[i + j].limit
    BY <1>4, <2>1
  <2>6. fs[i + (j + 1)].limit \in Nat /\ fs[i + j].limit \in Nat /\ fs[i].limit \in Nat /\ e \in Nat
    BY <1>1, <1>6, <2>1
  <2>7. x + fs[i + j].limit <= fs[i].limit + e
    BY <1>10
  <2> HIDE DEF x, y, e, f
  <2>8. y + fs[i + (j + 1)].limit <= fs[i].limit + f
    BY <2>4, <2>5, <2>6, <2>7
  <2> QED BY <2>8 DEF y, f
<1> HIDE DEF P
<1>11. Nat \subseteq T
  <2>1. 0 \in T
    BY <1>9
  <2>2. \A j \in Nat : j \in T => j + 1 \in T
    BY <1>2, <1>10
  <2> HIDE DEF T
  <2> QED BY <2>1, <2>2, Induct
<1>12. P(m)
  <2>1. m \in T
    BY <1>2, <1>11
  <2> QED BY <1>2, <2>1
<1>13. i + m = n
  BY <1>1
<1>14. SatSub(U[m], R[m]) + fs[n].limit <= fs[i].limit + net(fs[n])
  BY <1>12, <1>13 DEF P
<1>15. /\ fs[n].limit \in Nat /\ fs[i].limit \in Nat /\ net(fs[n]) \in Nat /\ net_usage(u) \in Nat
  <2>1. n \in 1 .. n
    BY <1>1
  <2>2. net_usage(u) \in Nat
    BY <1>3, NetUsage
  <2> HIDE DEF u, U, R, sub, m, n, fs
  <2> QED BY <1>1, <1>6, <2>1, <2>2
<1>16. net_usage(u) <= fs[i].limit
  <2> HIDE DEF u, U, R, sub, m, n, fs
  <2> QED BY <1>5, <1>8, <1>14, <1>15
<1> QED BY <1>16

\* The part of SuccessWithinLimits that is about the trackers
Before(k) == IF ~Enabled(REX4) THEN 0
             ELSE IF k = "DataSize" THEN TxSize ELSE IF k = "KVUpdate" THEN 1 ELSE 0
Bounded(a) == \A k \in Kinds : net_usage(a.tr[k]) <= tx_limit(a, k) + Before(k)

\* The limits and what is charged before the first frame are naturals.
LEMMA LimitsTyped ==
  ASSUME NEW a \in AL, NEW k \in Kinds
  PROVE  /\ TxLimit[k] \in Nat /\ tx_limit(a, k) \in Nat /\ Before(k) \in Nat
         /\ k # "ComputeGas" => tx_limit(a, k) = TxLimit[k]
         /\ Enabled(REX4) /\ k # "ComputeGas" => Before(k) = tx_charge(k)
<1>1. TxLimit[k] \in Nat /\ a.detained \in Nat /\ TxSize \in Nat /\ k \in LimitKind
  BY LimitAssumption, ALFields
<1>2. tx_limit(a, k) \in Nat /\ Before(k) \in Nat
  BY <1>1 DEF tx_limit, Before
<1>3. k # "ComputeGas" => tx_limit(a, k) = TxLimit[k]
  BY DEF tx_limit
<1>4. ASSUME Enabled(REX4), k # "ComputeGas" PROVE Before(k) = tx_charge(k)
  BY <1>1, <1>4 DEF Before, tx_charge, LimitKind
<1> QED BY <1>1, <1>2, <1>3, <1>4

\* The first frame returns within every limit: what it used is within its budget, which is
\* the limit of the transaction.
LEMMA PopBounded ==
  ASSUME NEW a \in AL, Deep(a, 1), Plains(a), Checked(a), NEW m, NEW s, Pops(a, m, s),
         check_limit(m).exceeded = "within",
         Enabled(REX4) => \A k \in Kinds : Rooted(k, a.tr[k])
  PROVE  Bounded(m)
<1>1. m \in AL /\ Keeps(a, m)
  BY DEF Pops
<1>2. a.exceeded = "within" /\ Within(m) /\ Within(a)
  BY <1>1, CheckFacts DEF Keeps, Checked
<1> SUFFICES ASSUME NEW k \in Kinds PROVE net_usage(m.tr[k]) <= tx_limit(m, k) + Before(k)
  BY DEF Bounded
<1> DEFINE t == a.tr[k]
           v == m.tr[k]
           c == t.frames[1]
<1>3. t \in Tracker /\ v \in Tracker /\ Len(t.frames) = 1 /\ net_usage(v) \in Nat
  BY <1>1, ALFields, NetUsage DEF Deep
<1>4. tx_limit(m, k) \in Nat /\ Before(k) \in Nat
  BY <1>1, LimitsTyped
<1>5. CASE k = "ComputeGas" \/ ~Enabled(REX4)
  <2>1. kind_check(m, k) = "within"
    BY <1>2 DEF Within
  <2>2. ~exceeds_tx_limit(m, k)
    BY <2>1 DEF kind_check
  <2>3. ~(net_usage(v) > tx_limit(m, k))
    BY <1>5, <2>2 DEF exceeds_tx_limit
  <2> HIDE DEF v
  <2>4. net_usage(v) <= tx_limit(m, k) + Before(k)
    BY <1>3, <1>4, <2>3
  <2> QED BY <2>4 DEF v
<1>6. CASE k # "ComputeGas" /\ Enabled(REX4)
  <2>1. kind_check(a, k) = "within"
    BY <1>2 DEF Within
  <2>2. ~exceeds_current_frame_limit(t)
    BY <1>6, <2>1 DEF kind_check
  <2>3. ~(net(c) > c.limit)
    BY <1>3, <2>2, FrameExceeds
  <2>4. Rooted(k, t) /\ Plain(k, t)
    BY <1>6 DEF Plains
  <2>5. c.limit = TxLimit[k] /\ used(t.tx) = tx_charge(k) /\ t.tx.refund = 0
    BY <1>3, <1>6, <2>4 DEF Rooted, Fresh
  <2>6. c.persistent = 0
    BY <1>3, <1>6, <2>4 DEF Plain
  <2>7. c \in Entry
    BY <1>3, TrackerTyped
  <2>8. /\ c.limit \in Nat /\ c.discardable \in Nat /\ c.refund \in Nat /\ net(c) \in Nat
    BY <2>7, EntryTyped
  <2>9. UsedUpTo(t)[0] = used(t.tx) /\ RefundUpTo(t)[0] = t.tx.refund /\ used(t.tx) \in Nat
    BY <1>3, PrefixUsed, PrefixRefund, TrackerTyped
  <2> DEFINE d == IF s THEN c.discardable ELSE 0
             r == IF s THEN c.refund ELSE 0
  <2>10. /\ Len(v.frames) = 0
         /\ UsedUpTo(v)[0] = UsedUpTo(t)[0] + c.persistent + d
         /\ RefundUpTo(v)[0] = RefundUpTo(t)[0] + r
    <3>1. Popped(t, v, s)
      BY DEF Pops
    <3> QED BY <1>3, <3>1 DEF Popped
  <2>11. net_usage(v) = SatSub(UsedUpTo(v)[0], RefundUpTo(v)[0])
    BY <1>3, <2>10, NetUsage
  <2>12. tx_charge(k) \in Nat
    BY <2>5, <2>9
  <2>13. (d = c.discardable /\ r = c.refund) \/ (d = 0 /\ r = 0)
    OBVIOUS
  <2>14. net(c) = SatSub(c.discardable, c.refund)
    BY <2>6, <2>8 DEF net, used
  <2> HIDE DEF t, v, c, d, r
  <2>15. net_usage(v) = SatSub(tx_charge(k) + d, r)
    BY <2>5, <2>6, <2>8, <2>9, <2>10, <2>11, <2>12, <2>13
  <2>16. net_usage(v) <= tx_charge(k) + net(c)
    BY <2>8, <2>12, <2>13, <2>14, <2>15 DEF SatSub
  <2>17. tx_limit(m, k) = c.limit /\ Before(k) = tx_charge(k)
    BY <1>1, <1>6, <2>5, LimitsTyped
  <2>18. net_usage(v) <= tx_limit(m, k) + Before(k)
    BY <1>3, <2>3, <2>8, <2>12, <2>16, <2>17
  <2> QED BY <2>18 DEF v
<1> QED BY <1>5, <1>6

\* A result that is still ok when the stacks are empty leaves every kind within its limit.
LEMMA ReturnedBounded ==
  ASSUME NEW a \in AL, NEW r, NEW n \in {0, 1}, NEW phase, NEW ret, Deep(a, n), Plains(a),
         Returned(a, r, phase, n, ret), n # 0 => Checked(a), n = 0 => phase = "last",
         n = 0 /\ r.kind = "ok" => Bounded(a),
         Enabled(REX4) => \A k \in Kinds : Rooted(k, a.tr[k]),
         ret.res.kind = "ok"
  PROVE  Bounded(ret.al)
<1> DEFINE dup == phase = "last" /\ (n = 0 \/ Kinds = {})
<1>1. PICK m \in AL :
        /\ Keeps(a, m)
        /\ n # 0 => Pops(a, m, r.kind = "ok")
        /\ n = 0 => m = a
        /\ ret.al.tr = m.tr
        /\ CASE check_limit(m).exceeded = "within" \/ dup ->
                  ret.al = check_limit(m) /\ ret.res = r
             [] check_limit(m).exceeded = "frame" /\ ~dup ->
                  ret.al.exceeded = "within" /\ ret.res.kind = "revert"
             [] check_limit(m).exceeded = "tx" /\ ~dup ->
                  ret.al.exceeded = "tx" /\ ret.res.kind = "halt"
  BY DEF Returned
<1>2. ret.al.detained = a.detained /\ m.detained = a.detained
  BY <1>1 DEF Returned, Keeps
<1>3. check_limit(m).exceeded \in {"within", "frame", "tx"}
  BY CheckFacts, ALFields
<1>4. Kinds = {} => Bounded(ret.al)
  BY DEF Bounded
<1>5. ASSUME Bounded(m) PROVE Bounded(ret.al)
  BY <1>1, <1>2, <1>5 DEF Bounded, tx_limit
<1>6. CASE n = 0
  <2>1. ret.res = r
    BY <1>1, <1>6
  <2> QED BY <1>1, <1>5, <1>6, <2>1
<1>7. CASE n = 1 /\ Kinds # {}
  <2>1. check_limit(m).exceeded = "within"
    <3>1. dup = FALSE
      BY <1>7
    <3> HIDE DEF dup
    <3>2. check_limit(m).exceeded = "frame" => ret.res.kind = "revert"
      BY <1>1, <3>1
    <3>3. check_limit(m).exceeded = "tx" => ret.res.kind = "halt"
      BY <1>1, <3>1
    <3> QED BY <1>3, <3>2, <3>3
  <2>2. Pops(a, m, r.kind = "ok")
    BY <1>1, <1>7
  <2> QED BY <1>5, <1>7, <2>1, <2>2, PopBounded
<1> QED BY <1>4, <1>6, <1>7

\* The invariant: budgets nest from the first frame on, and a transaction that ends well
\* ends within its limits.
Nests ==
  /\ Enabled(REX4) => \A k \in Kinds : Nested(al.tr[k]) /\ Rooted(k, al.tr[k])
  /\ Enabled(REX4) /\ pc = "init" => \A k \in Kinds : Fresh(k, al.tr[k])
  /\ pc = "done" \/ (pc = "last" /\ res.ran) => (res.kind = "ok" => Bounded(al))

\* A transaction starts with its charge in the transaction entries, and no frame.
LEMMA StartFresh ==
  ASSUME Base, NEW i \in IntrinsicCosts, NEW x \in Input, StartTx(i, x), NEW k \in Kinds
  PROVE  Fresh(k, al'.tr[k]) /\ Len(al'.tr[k].frames) = 0
<1> DEFINE a == reset(al)
           b == before_tx_start(a)
           c == record_compute_gas(b, i)
<1>1. a \in AL /\ Deep(a, 0) /\ i \in Nat /\ a.tr[k] = new_tracker(TxLimit[k]) /\ TxLimit[k] \in Nat
  BY BaseFacts, ResetFacts, Costs, LimitAssumption
<1>2. a.tr[k].tx \in Entry /\ used(a.tr[k].tx) = 0 /\ a.tr[k].tx.refund = 0
  <2> DEFINE l == TxLimit[k]
  <2>1. l \in Nat /\ a.tr[k] = new_tracker(l)
    BY <1>1
  <2> HIDE DEF l, a
  <2>2. a.tr[k].tx = NewEntry(l, FALSE)
    BY <2>1, NewTracker
  <2>3. /\ NewEntry(l, FALSE) \in Entry
        /\ used(NewEntry(l, FALSE)) = 0 /\ NewEntry(l, FALSE).refund = 0
    BY <2>1, NewEntryFacts
  <2> QED BY <2>2, <2>3
<1> HIDE DEF a
<1>3. PICK m : /\ m \in AL /\ Keeps(a, m) /\ Deep(m, 0) /\ b = check_limit(m)
               /\ Plus(a.tr[k].tx, m.tr[k].tx, tx_charge(k), 0, 0)
  BY <1>1, TxStarts
<1>4. b \in AL /\ Deep(b, 0) /\ b.tr = m.tr
  BY <1>1, <1>3, CheckFacts, CheckSteady DEF Steady
<1> HIDE DEF b
<1>5. PICK w : /\ w \in AL /\ Keeps(b, w) /\ Deep(w, 0) /\ c = check_limit(w)
               /\ Plus(b.tr[k].tx, w.tr[k].tx, Only("ComputeGas", i)[k], 0, 0)
  BY <1>1, <1>4, TxGasRecords
<1>6. al' = c /\ c.tr = w.tr
  BY <1>5, CheckFacts DEF StartTx, a, b
<1>7. tx_charge(k) \in Nat
  BY LimitAssumption DEF tx_charge, LimitKind
<1>8. m.tr[k].tx \in Entry /\ w.tr[k].tx \in Entry
  BY <1>3, <1>5, ALFields, TrackerTyped
<1>9. used(m.tr[k].tx) = tx_charge(k) /\ m.tr[k].tx.refund = 0
  <2>1. /\ used(m.tr[k].tx) = used(a.tr[k].tx) + tx_charge(k) + 0
        /\ m.tr[k].tx.refund = a.tr[k].tx.refund + 0
    BY <1>2, <1>3, <1>7, <1>8, PlusFacts
  <2> QED BY <1>2, <1>7, <2>1
<1>10. ASSUME k # "ComputeGas" PROVE used(w.tr[k].tx) = tx_charge(k) /\ w.tr[k].tx.refund = 0
  <2>1. Only("ComputeGas", i)[k] = 0
    BY <1>10 DEF Only
  <2>2. /\ used(w.tr[k].tx) = used(m.tr[k].tx) + 0 + 0
        /\ w.tr[k].tx.refund = m.tr[k].tx.refund + 0
    BY <1>4, <1>5, <1>8, <2>1, PlusFacts
  <2> QED BY <1>7, <1>9, <2>2
<1>11. Len(w.tr[k].frames) = 0
  BY <1>5 DEF Deep
<1> QED BY <1>6, <1>10, <1>11 DEF Fresh

\* Steps between a start and a return
LEMMA MeteringNests ==
  ASSUME Base, Causes, Nests, Metering, Enabled(REX4), NEW k \in Kinds
  PROVE  Nested(al'.tr[k]) /\ Rooted(k, al'.tr[k]) /\ Len(al'.tr[k].frames) # 0
<1> DEFINE t == al.tr[k]
           v == al'.tr[k]
<1>1. t \in Tracker /\ Nested(t) /\ Rooted(k, t) /\ Plain(k, t)
  BY BaseFacts, ALFields DEF Nests, Causes, Fit, Plains
<1>2. pc \in {"run", "finish", "resume"} => Len(t.frames) # 0
  <2> SUFFICES ASSUME pc \in {"run", "finish", "resume"} PROVE Len(t.frames) # 0
    OBVIOUS
  <2>1. frames # <<>> /\ Deep(al, Len(frames)) /\ Len(frames) # 0
    BY BaseFacts DEF Base, Shape
  <2> QED BY <2>1 DEF Deep
<1>3. CASE al'.tr = al.tr /\ pc = "resume"
  BY <1>1, <1>2, <1>3
<1>4. ASSUME NEW g, NEW h, MeterStep(g, h), pc \in {"run", "finish"}
      PROVE  Nested(v) /\ Rooted(k, v) /\ Len(v.frames) # 0
  <2>1. PICK p, d, r : Recorded(t, v, p, d, r)
    BY <1>4 DEF MeterStep, Meters
  <2>2. Len(v.frames) = Len(t.frames)
    BY <2>1 DEF Recorded
  <2> HIDE DEF t, v
  <2> QED BY <1>1, <1>2, <1>4, <2>1, <2>2, NestedRecorded
<1>5. ASSUME NEW g, BeginStep(g) PROVE Nested(v) /\ Rooted(k, v) /\ Len(v.frames) # 0
  <2>1. PICK p, d : Begun(t, v, Budget(t), p, d)
    BY <1>5 DEF BeginStep, Begins
  <2>2. Len(v.frames) = Len(t.frames) + 1
    BY <2>1 DEF Begun
  <2>3. ~exceeds_current_frame_limit(t) /\ Fresh(k, t)
    BY <1>5 DEF BeginStep, Causes, Sober, Nests
  <2>4. Len(v.frames) # 0
    BY <1>1, <2>2, TrackerTyped
  <2> HIDE DEF t, v
  <2> QED BY <1>1, <2>1, <2>3, <2>4, NestedBegun
<1> QED BY <1>3, <1>4, <1>5, MeteringTracks

\* The return of a frame pops it.
LEMMA ReturnedNests ==
  ASSUME NEW a \in AL, NEW r, NEW n \in Nat, NEW phase, NEW ret, Deep(a, n),
         Returned(a, r, phase, n, ret), NEW k \in Kinds, Nested(a.tr[k]), Rooted(k, a.tr[k])
  PROVE  Nested(ret.al.tr[k]) /\ Rooted(k, ret.al.tr[k])
<1>1. PICK m \in AL : /\ n # 0 => Pops(a, m, r.kind = "ok")
                      /\ n = 0 => m = a
                      /\ ret.al.tr = m.tr
  BY DEF Returned
<1>2. CASE n = 0
  BY <1>1, <1>2
<1>3. CASE n # 0
  <2>1. Popped(a.tr[k], m.tr[k], r.kind = "ok")
    BY <1>1, <1>3 DEF Pops
  <2>2. a.tr[k] \in Tracker /\ Len(a.tr[k].frames) # 0
    BY <1>3, ALFields DEF Deep
  <2>3. Nested(m.tr[k]) /\ Rooted(k, m.tr[k])
    BY <2>1, <2>2, NestedPopped
  <2> QED BY <1>1, <2>3
<1> QED BY <1>2, <1>3

\* Every step keeps the budgets nested.
LEMMA StepNests == Base /\ Flags /\ Causes /\ Nests /\ [Next]_vars => Nests'
<1> SUFFICES ASSUME Base, Flags, Causes, Nests, [Next]_vars PROVE Nests'
  OBVIOUS
<1>1. spec' = spec
  BY SpecStays
<1> DEFINE New ==
      /\ Enabled(REX4) => \A k \in Kinds : Nested(al'.tr[k]) /\ Rooted(k, al'.tr[k])
      /\ Enabled(REX4) /\ pc' = "init" => \A k \in Kinds : Fresh(k, al'.tr[k])
      /\ pc' = "done" \/ (pc' = "last" /\ res'.ran) => (res'.kind = "ok" => Bounded(al'))
<1>2. New => Nests'
  BY <1>1 DEF Nests, Enabled, Bounded, Before, Nested, Rooted, Fresh, tx_limit, tx_charge, net, used
<1>3. ASSUME NEW i \in IntrinsicCosts, NEW x \in Input, StartTx(i, x) PROVE New
  <2>1. pc' = "init"
    BY <1>3 DEF StartTx
  <2>2. \A k \in Kinds : Fresh(k, al'.tr[k]) /\ Len(al'.tr[k].frames) = 0
    BY <1>3, StartFresh
  <2>3. \A k \in Kinds : Nested(al'.tr[k]) /\ Rooted(k, al'.tr[k])
    BY <2>2 DEF Nested, Rooted
  <2> QED BY <2>1, <2>2, <2>3
<1>4. ASSUME Metering PROVE New
  <2>1. pc' # "done" /\ (pc' = "last" => ~res'.ran)
    BY <1>4, MeteringHeld DEF Held
  <2>2. Enabled(REX4) => \A k \in Kinds : /\ Nested(al'.tr[k]) /\ Rooted(k, al'.tr[k])
                                           /\ Len(al'.tr[k].frames) # 0
    BY <1>4, MeteringNests
  <2>3. Enabled(REX4) => \A k \in Kinds : Fresh(k, al'.tr[k])
    BY <2>2 DEF Rooted
  <2> QED BY <2>1, <2>2, <2>3
<1>5. ASSUME FrameReturn PROVE New
  <2>1. PICK ret, rest : Unwinds(ret, rest)
    BY <1>5, ReturnSteps
  <2> DEFINE d == Len(frames) + Pending
  <2>2. /\ Returned(al, res, "return", d, ret) /\ al' = ret.al /\ res' = ret.res
        /\ d \in Nat \ {0} /\ Len(rest) = d - 1 /\ (Len(rest) # 0 => pc' = "resume")
        /\ Len(rest) = 0 => pc' = "last"
    BY <2>1 DEF Unwinds
  <2>3. al \in AL /\ Deep(al, d) /\ Plains(al) /\ Checked(al)
    BY <1>5, BaseFacts DEF Causes, Fit, FrameReturn
  <2> HIDE DEF d
  <2>4. Enabled(REX4) => \A k \in Kinds : Nested(ret.al.tr[k]) /\ Rooted(k, ret.al.tr[k])
    BY <2>2, <2>3, ReturnedNests DEF Nests
  <2>5. pc' \in {"resume", "last"} /\ (pc' = "last" => d = 1)
    BY <2>2
  <2>6. d = 1 /\ ret.res.kind = "ok" => Bounded(ret.al)
    <3> SUFFICES ASSUME d = 1, ret.res.kind = "ok" PROVE Bounded(ret.al)
      OBVIOUS
    <3>1. d \in {0, 1} /\ d # 0
      OBVIOUS
    <3>2. Enabled(REX4) => \A k \in Kinds : Rooted(k, al.tr[k])
      BY DEF Nests
    <3> QED BY <2>2, <2>3, <3>1, <3>2, ReturnedBounded
  <2> QED BY <2>2, <2>4, <2>5, <2>6
<1>6. ASSUME LastFrameResult PROVE New
  <2>1. PICK ret : /\ Returned(al, res, "last", Pending, ret)
                   /\ pc = "last" /\ Pending = (IF res.ran THEN 0 ELSE 1) /\ Deep(al, Pending)
                   /\ al' = ret.al /\ res'.kind = ret.res.kind
    BY <1>6, LastSteps
  <2> DEFINE d == Pending
  <2>2. /\ al \in AL /\ Plains(al) /\ d \in {0, 1} /\ (d # 0 => Checked(al))
        /\ d = 0 /\ res.kind = "ok" => Bounded(al)
        /\ Enabled(REX4) => \A k \in Kinds : Nested(al.tr[k]) /\ Rooted(k, al.tr[k])
    BY <2>1, BaseFacts DEF Causes, Fit, Nests
  <2>3. Returned(al, res, "last", d, ret) /\ Deep(al, d)
    BY <2>1
  <2> HIDE DEF d
  <2>4. Enabled(REX4) => \A k \in Kinds : Nested(ret.al.tr[k]) /\ Rooted(k, ret.al.tr[k])
    BY <2>2, <2>3, ReturnedNests
  <2>5. ret.res.kind = "ok" => Bounded(ret.al)
    BY <2>2, <2>3, ReturnedBounded
  <2>6. pc' = "done"
    BY <1>6 DEF LastFrameResult
  <2> QED BY <2>1, <2>4, <2>5, <2>6
<1>7. ASSUME UNCHANGED vars PROVE New
  <2>1. al' = al /\ pc' = pc /\ res' = res
    BY <1>7 DEF vars
  <2> QED BY <2>1 DEF Nests
<1> QED BY <1>2, <1>3, <1>4, <1>5, <1>6, <1>7, NextCases

\* So it is an invariant.
LEMMA NestsAlways == Spec => [](Base /\ Flags /\ Causes /\ Nests)
<1>1. ASSUME Init PROVE Nests
  <2>1. res.kind = "none" /\ pc = "done"
    BY <1>1 DEF Init, NoResult
  <2>2. Deep(al, 0)
    BY <1>1, InitBase, BaseFacts DEF Init
  <2>3. \A k \in Kinds : Nested(al.tr[k]) /\ Rooted(k, al.tr[k])
    BY <2>2 DEF Deep, Nested, Rooted
  <2> QED BY <2>1, <2>3 DEF Nests
<1>2. Base /\ Flags /\ Causes /\ Nests /\ [Next]_vars => Nests'
  BY StepNests
<1>3. Init => Nests
  BY <1>1
<1> QED BY <1>2, <1>3, CausesAlways, PTL DEF Spec

\* From Rex4 on the budgets of the frames nest at any depth of calls (push_frame,
\* max_forward_limit): while a frame executes, no frame on the stack would be over its
\* budget if all frames above it returned successfully now.
THEOREM CallersStayWithin == Spec => []BudgetsNest
<1>1. ASSUME Base, Causes, Nests PROVE BudgetsNest
  <2> SUFFICES ASSUME Enabled(REX4), pc = "run", NEW k \in Kinds, NEW i \in DOMAIN al.tr[k].frames
               PROVE  net_usage([tx |-> al.tr[k].frames[i],
                                 frames |-> SubSeq(al.tr[k].frames, i + 1, Len(al.tr[k].frames))])
                        <= al.tr[k].frames[i].limit
    BY DEF BudgetsNest
  <2>1. al.tr[k] \in Tracker /\ Nested(al.tr[k]) /\ ~exceeds_current_frame_limit(al.tr[k])
    BY <1>1, BaseFacts, ALFields DEF Nests, Causes, Sober
  <2> QED BY <2>1, NestedWithin
<1>2. Base /\ Flags /\ Causes /\ Nests => BudgetsNest
  BY <1>1
<1> QED BY <1>2, NestsAlways, PTL

\* A transaction that ends with success has used no more than its limits, whatever frames
\* failed and returned in it (before_frame_return_result checks every kind when the first
\* frame returns).
THEOREM SuccessIsBounded == Spec => []SuccessWithinLimits
<1>1. Nests => SuccessWithinLimits
  BY DEF Nests, SuccessWithinLimits, Bounded, Before
<1> QED BY <1>1, NestsAlways, PTL

-----------------------------------------------------------------------------
(* Failed frames *)

\* What the frames below the top one used in kind k is within the transaction limit.
Below(k, t) ==
  \A i \in 0 .. Len(t.frames) - 1 : SatSub(UsedUpTo(t)[i], RefundUpTo(t)[i]) <= TxLimit[k]

\* Recording in the top frame and popping it do not change the sums below it; a new frame
\* adds the sum of a tracker that is within its limit.
LEMMA BelowFacts ==
  ASSUME NEW k, NEW t \in Tracker, NEW v, Below(k, t)
  PROVE  /\ \A p, d, r : Len(t.frames) # 0 /\ Recorded(t, v, p, d, r) => Below(k, v)
         /\ \A s : Len(t.frames) # 0 /\ Popped(t, v, s) => Below(k, v)
         /\ \A l, p, d : Begun(t, v, l, p, d) /\ net_usage(t) <= TxLimit[k] => Below(k, v)
<1> DEFINE n == Len(t.frames)
<1>1. n \in Nat
  BY TrackerTyped
<1>2. \A i \in 0 .. n - 1 : SatSub(UsedUpTo(t)[i], RefundUpTo(t)[i]) <= TxLimit[k]
  BY DEF Below
<1>3. ASSUME NEW p, NEW d, NEW r, n # 0, Recorded(t, v, p, d, r) PROVE Below(k, v)
  <2>1. Len(v.frames) = n /\ \A i \in 0 .. n - 1 : UsedUpTo(v)[i] = UsedUpTo(t)[i] /\ RefundUpTo(v)[i] = RefundUpTo(t)[i]
    BY <1>3 DEF Recorded
  <2> HIDE DEF n
  <2> QED BY <1>2, <2>1 DEF Below
<1>4. ASSUME NEW s, n # 0, Popped(t, v, s) PROVE Below(k, v)
  <2>1. Len(v.frames) = n - 1 /\ \A i \in 0 .. n - 2 : UsedUpTo(v)[i] = UsedUpTo(t)[i] /\ RefundUpTo(v)[i] = RefundUpTo(t)[i]
    BY <1>4 DEF Popped
  <2> HIDE DEF n
  <2>2. \A i \in 0 .. (n - 1) - 1 : i \in 0 .. n - 2 /\ i \in 0 .. n - 1
    BY <1>1
  <2> QED BY <1>2, <2>1, <2>2 DEF Below
<1>5. ASSUME NEW l, NEW p, NEW d, Begun(t, v, l, p, d), net_usage(t) <= TxLimit[k] PROVE Below(k, v)
  <2>1. Len(v.frames) = n + 1 /\ \A i \in 0 .. n : UsedUpTo(v)[i] = UsedUpTo(t)[i] /\ RefundUpTo(v)[i] = RefundUpTo(t)[i]
    BY <1>5 DEF Begun
  <2>2. SatSub(UsedUpTo(t)[n], RefundUpTo(t)[n]) <= TxLimit[k]
    BY <1>5, NetUsage
  <2> HIDE DEF n
  <2>3. \A i \in 0 .. (n + 1) - 1 : i \in 0 .. n /\ (i = n \/ i \in 0 .. n - 1)
    BY <1>1
  <2>4. \A i \in 0 .. (n + 1) - 1 : SatSub(UsedUpTo(t)[i], RefundUpTo(t)[i]) <= TxLimit[k]
    BY <1>2, <2>2, <2>3
  <2> QED BY <2>1, <2>3, <2>4 DEF Below
<1> QED BY <1>3, <1>4, <1>5

\* A frame that returns in a kind that is within brings neither its caller over its budget
\* nor the transaction over its limit.
LEMMA PopQuietKind ==
  ASSUME NEW a \in AL, NEW m \in AL, Keeps(a, m), NEW k \in Kinds, Len(a.tr[k].frames) # 0,
         NEW s, Popped(a.tr[k], m.tr[k], s), Plain(k, a.tr[k]), kind_check(a, k) = "within",
         Enabled(REX4) => Nested(a.tr[k]),
         ~Enabled(REX4) /\ k # "ComputeGas" => Below(k, a.tr[k]) \/ s
  PROVE  kind_check(m, k) = "within"
<1> DEFINE t == a.tr[k]
           v == m.tr[k]
           n == Len(t.frames)
           c == t.frames[n]
           d == IF s THEN c.discardable ELSE 0
           r == IF s THEN c.refund ELSE 0
<1>1. /\ t \in Tracker /\ v \in Tracker /\ n \in Nat \ {0} /\ n \in 1 .. n
      /\ c \in Entry /\ Len(v.frames) = n - 1 /\ v.frames \in Seq(Entry)
  BY ALFields, TrackerTyped, SMTT(20) DEF Popped
<1>2. /\ c.persistent \in Nat /\ c.discardable \in Nat /\ c.refund \in Nat /\ c.limit \in Nat
      /\ net(c) \in Nat /\ used(c) = c.persistent + c.discardable
  BY <1>1, EntryTyped DEF used
<1>3. /\ n > 1 => Plus(t.frames[n - 1], v.frames[n - 1], c.persistent, d, r)
      /\ UsedUpTo(v)[n - 1] = UsedUpTo(t)[n - 1] + c.persistent + d
      /\ RefundUpTo(v)[n - 1] = RefundUpTo(t)[n - 1] + r
  BY DEF Popped
<1>4. k = "ComputeGas" => c.discardable = 0 /\ c.refund = 0
  BY <1>1 DEF Plain
<1>5. k # "ComputeGas" => c.persistent = 0
  BY <1>1 DEF Plain
<1>6. (d = c.discardable /\ r = c.refund) \/ (d = 0 /\ r = 0 /\ c.persistent = 0)
  BY <1>4, <1>5
<1>7. s => d = c.discardable /\ r = c.refund
  OBVIOUS
<1>8. ~s => d = 0 /\ r = 0
  OBVIOUS
<1>9. ~exceeds_tx_limit(m, k)
  <2> SUFFICES ASSUME k = "ComputeGas" \/ ~Enabled(REX4) PROVE ~(net_usage(v) > tx_limit(m, k))
    BY DEF exceeds_tx_limit
  <2>1. ~exceeds_tx_limit(a, k)
    BY DEF kind_check
  <2>2. ~(net_usage(t) > tx_limit(a, k)) /\ tx_limit(m, k) = tx_limit(a, k)
    BY <2>1 DEF exceeds_tx_limit, Keeps, tx_limit
  <2>3. CASE k = "ComputeGas"
    <3>1. net_usage(v) = net_usage(t)
      BY <1>1, <2>3, GasNeverShrinks
    <3> QED BY <2>2, <3>1
  <2>4. CASE k # "ComputeGas" /\ s
    <3>1. /\ UsedUpTo(t)[n] = UsedUpTo(t)[n - 1] + used(c) /\ UsedUpTo(t)[n - 1] \in Nat
          /\ RefundUpTo(t)[n] = RefundUpTo(t)[n - 1] + c.refund /\ RefundUpTo(t)[n - 1] \in Nat
      <4>1. n - 1 \in 0 .. n
        <5> HIDE DEF n
        <5> QED BY <1>1
      <4> QED BY <1>1, <4>1, PrefixUsed, PrefixRefund
    <3>2. /\ net_usage(t) = SatSub(UsedUpTo(t)[n], RefundUpTo(t)[n])
          /\ net_usage(v) = SatSub(UsedUpTo(v)[n - 1], RefundUpTo(v)[n - 1])
      BY <1>1, NetUsage
    <3>3. d = c.discardable /\ r = c.refund
      BY <2>4
    <3> HIDE DEF t, v, n, c, d, r
    <3>4. UsedUpTo(v)[n - 1] = UsedUpTo(t)[n] /\ RefundUpTo(v)[n - 1] = RefundUpTo(t)[n]
      BY <1>2, <1>3, <3>1, <3>3
    <3> QED BY <2>2, <3>2, <3>4
  <2>5. CASE k # "ComputeGas" /\ ~s
    <3>1. Below(k, t)
      BY <2>5
    <3>2. n - 1 \in 0 .. n - 1 /\ n - 1 \in 0 .. n
      <4> HIDE DEF n
      <4> QED BY <1>1
    <3>3. SatSub(UsedUpTo(t)[n - 1], RefundUpTo(t)[n - 1]) <= TxLimit[k]
      BY <3>1, <3>2 DEF Below
    <3>4. net_usage(v) = SatSub(UsedUpTo(v)[n - 1], RefundUpTo(v)[n - 1])
      BY <1>1, NetUsage
    <3>5. UsedUpTo(t)[n - 1] \in Nat /\ RefundUpTo(t)[n - 1] \in Nat
      BY <1>1, <3>2, PrefixUsed, PrefixRefund
    <3>6. d = 0 /\ r = 0 /\ c.persistent = 0
      BY <1>5, <2>5
    <3>7. tx_limit(m, k) = TxLimit[k] /\ TxLimit[k] \in Nat
      BY <2>5, LimitsTyped
    <3> HIDE DEF t, v, n, c, d, r
    <3>8. UsedUpTo(v)[n - 1] = UsedUpTo(t)[n - 1] /\ RefundUpTo(v)[n - 1] = RefundUpTo(t)[n - 1]
      BY <1>3, <3>5, <3>6
    <3>9. SatSub(UsedUpTo(t)[n - 1], RefundUpTo(t)[n - 1]) \in Nat
      BY <3>5 DEF SatSub
    <3> QED BY <3>3, <3>4, <3>7, <3>8, <3>9
  <2> QED BY <2>3, <2>4, <2>5
<1>10. Enabled(REX4) => ~exceeds_current_frame_limit(v)
  <2> SUFFICES ASSUME Enabled(REX4), Len(v.frames) # 0,
                      net(v.frames[n - 1]) > v.frames[n - 1].limit
               PROVE  FALSE
    BY <1>1, FrameExceeds
  <2> DEFINE e == t.frames[n - 1]
             f == v.frames[n - 1]
  <2>1. n > 1 /\ n - 1 \in 1 .. n /\ n - 1 \in 1 .. n - 1 /\ (n - 1) + 1 = n
    <3>1. n - 1 # 0
      BY <1>1
    <3> HIDE DEF n
    <3> QED BY <1>1, <3>1
  <2>2. e \in Entry /\ f \in Entry
    <3>1. Len(v.frames) = n - 1
      BY <1>1
    <3>2. n - 1 \in 1 .. Len(v.frames)
      BY <2>1, <3>1
    <3> QED BY <1>1, <2>1, <3>2, TrackerTyped
  <2>3. c.limit + net(e) <= e.limit
    <3>1. t.frames[(n - 1) + 1].limit + net(t.frames[n - 1]) <= t.frames[n - 1].limit
      BY <2>1 DEF Nested
    <3> QED BY <2>1, <3>1
  <2>4. ~(net(c) > c.limit)
    <3>1. ~exceeds_current_frame_limit(t)
      BY DEF kind_check
    <3> QED BY <1>1, <3>1, FrameExceeds
  <2>5. d \in Nat /\ r \in Nat
    BY <1>2
  <2>6. Plus(e, f, c.persistent, d, r)
    BY <1>3, <2>1
  <2>7. used(f) = used(e) + c.persistent + d /\ f.refund = e.refund + r /\ f.limit = e.limit
    <3> HIDE DEF t, v, n, c, d, r, e, f
    <3>1. f.limit = e.limit
      BY <2>6 DEF Plus
    <3> QED BY <1>2, <2>2, <2>5, <2>6, <3>1, PlusFacts
  <2>8. used(e) \in Nat /\ e.refund \in Nat /\ net(e) \in Nat /\ e.limit \in Nat
    BY <2>2, EntryTyped
  <2>9. net(f) <= net(e) + net(c)
    <3> HIDE DEF t, v, n, c, d, r, e, f
    <3>1. CASE d = c.discardable /\ r = c.refund
      <4>1. used(f) = used(e) + used(c) /\ f.refund = e.refund + c.refund /\ used(c) \in Nat
        BY <1>2, <2>7, <2>8, <3>1
      <4> QED BY <1>2, <2>8, <4>1, SatSubAdds DEF net
    <3>2. CASE d = 0 /\ r = 0 /\ c.persistent = 0
      <4>1. used(f) = used(e) /\ f.refund = e.refund
        BY <2>7, <2>8, <3>2
      <4>2. net(f) = net(e)
        BY <4>1 DEF net
      <4> QED BY <1>2, <2>8, <4>2
    <3> QED BY <1>6, <3>1, <3>2
  <2>10. net(f) > f.limit /\ net(f) \in Nat
    BY <2>2, EntryTyped
  <2> HIDE DEF t, v, n, c, d, r, e, f
  <2> QED BY <1>2, <2>3, <2>4, <2>7, <2>8, <2>9, <2>10
<1> QED BY <1>9, <1>10 DEF kind_check

\* A success that returns within every limit raises no flag.
LEMMA PopQuiet ==
  ASSUME NEW a \in AL, NEW n \in Nat \ {0}, Deep(a, n), NEW m \in AL, NEW s, Pops(a, m, s), Plains(a),
         a.exceeded = "within", Checked(a), Enabled(REX4) => \A k \in Kinds : Nested(a.tr[k]),
         \A k \in Kinds : ~Enabled(REX4) /\ k # "ComputeGas" => Below(k, a.tr[k]) \/ s
  PROVE  check_limit(m).exceeded = "within"
<1>1. Keeps(a, m)
  BY DEF Pops
<1>2. Within(m)
  <2> SUFFICES ASSUME NEW k \in Kinds PROVE kind_check(m, k) = "within"
    BY DEF Within
  <2>1. /\ Len(a.tr[k].frames) # 0 /\ Popped(a.tr[k], m.tr[k], s) /\ Plain(k, a.tr[k])
        /\ kind_check(a, k) = "within" /\ (Enabled(REX4) => Nested(a.tr[k]))
        /\ ~Enabled(REX4) /\ k # "ComputeGas" => Below(k, a.tr[k]) \/ s
    BY DEF Deep, Pops, Plains, Checked, Within
  <2> QED BY <1>1, <2>1, PopQuietKind
<1> QED BY <1>1, <1>2, CheckFacts DEF Keeps

\* A check of what has been checked
LEMMA CheckAgain ==
  ASSUME NEW a \in AL, NEW n, Deep(a, n), Checked(a), a.exceeded = "within", NEW g \in Nat
  PROVE  check_limit(a).exceeded = "within" /\ try_rescue_gas(a, g).exceeded = "within"
BY CheckFacts, RescueFacts DEF Checked

\* A detained limit is never below what has been used.
LEMMA DetainedQuiet ==
  ASSUME NEW a \in AL, NEW n \in Nat \ {0}, Deep(a, n), NEW c \in Nat, Enabled(REX4),
         a.exceeded = "within", Checked(a)
  PROVE  LET b == set_compute_gas_limit(a, c) IN b.exceeded = "within" /\ Checked(b)
<1> DEFINE b == set_compute_gas_limit(a, c)
<1>1. b \in AL /\ b.tr = a.tr /\ b.exceeded = "within"
      /\ ("ComputeGas" \in Kinds =>
             b.detained = a.detained \/ b.detained = net_usage(a.tr["ComputeGas"]) + c)
  BY DetainFacts
<1> HIDE DEF b
<1>2. ASSUME NEW k \in Kinds PROVE kind_check(b, k) = "within"
  <2>1. kind_check(a, k) = "within"
    BY DEF Checked, Within
  <2>2. net_usage(a.tr[k]) \in Nat /\ a.detained \in Nat /\ b.detained \in Nat /\ TxLimit[k] \in Nat
    BY <1>1, ALFields, NetUsage, LimitAssumption
  <2>3. ~exceeds_tx_limit(a, k)
    BY <2>1 DEF kind_check
  <2>4. ~exceeds_tx_limit(b, k)
    <3>1. k = "ComputeGas" \/ (tx_limit(b, k) = TxLimit[k] /\ tx_limit(a, k) = TxLimit[k])
      BY DEF tx_limit
    <3>2. k # "ComputeGas" => ~exceeds_tx_limit(b, k)
      BY DEF exceeds_tx_limit
    <3>3. CASE k = "ComputeGas"
      <4>1. ~(net_usage(a.tr[k]) > tx_limit(a, k))
        BY <2>3, <3>3 DEF exceeds_tx_limit
      <4>2. ~(net_usage(b.tr[k]) > tx_limit(b, k))
        BY <1>1, <2>2, <3>3, <4>1 DEF tx_limit
      <4> QED BY <4>2 DEF exceeds_tx_limit
    <3> QED BY <3>2, <3>3
  <2>5. ~exceeds_current_frame_limit(b.tr[k])
    BY <1>1, <2>1 DEF kind_check
  <2> QED BY <2>4, <2>5 DEF kind_check
<1>3. Checked(b)
  BY <1>2 DEF Checked, Within
<1> QED BY <1>1, <1>3 DEF b

\* What undoes a failed frame: a result on its way back that is not ok has its checkpoint
\* for a journal, and one that is ok has it too unless no limit is exceeded.  What was
\* recorded after revm's commit is the exception, and its growth is not counted.
Undoing(j, r, a) ==
  \/ j = r.saved
  \/ r.kind = "ok" /\ a.exceeded = "within"
  \/ r.late /\ j.uncounted

Reverts ==
  /\ pc = "finish" /\ res.kind = "ok" => al.exceeded = "within" /\ Checked(al)
  /\ pc \in {"return", "last"} => Undoing(journal, res, al)
  /\ FailureMeansRevertedUnlessLate
  /\ pc \in {"resume", "done"} /\ res.kind \in {"revert", "halt"} =>
       journal = res.saved \/ journal.uncounted

\* What a step other than a start or a return does to it
Reverting ==
  /\ pc' = "finish" /\ res'.kind = "ok" => al'.exceeded = "within" /\ Checked(al')
  /\ pc' \in {"return", "last"} => Undoing(journal', res', al')
  /\ pc' = "resume" => res'.kind = "none"
  /\ pc' # "done"

\* before_frame_init checks.
LEMMA InitChecks ==
  ASSUME Base, pc = "init"
  PROVE  LET a == before_frame_init(al, req.input)
             n == Len(frames) + 1
         IN a \in AL /\ n \in Nat \ {0} /\ Deep(a, n) /\ Checked(a)
<1>1. al \in AL /\ req.input \in Input
  BY BaseFacts
<1>2. PICK m : Enters(al, m, Charge(al, req.input)) /\ before_frame_init(al, req.input) = check_limit(m)
  BY <1>1, FrameEnters
<1>3. Checked(check_limit(m))
  BY <1>2, CheckFit DEF Enters
<1> QED BY <1>2, <1>3, InitSticks

\* A frame that begins
LEMMA InitReverting ==
  ASSUME Base
  PROVE  /\ \A k \in {"ok", "revert"} : Intercept(k) => Reverting
         /\ InitExceeds => Reverting
         /\ InitRuns => Reverting
         /\ \A k \in {"ok", "revert", "halt"} : InitEnds(k) => Reverting
         /\ \A k \in {"ok", "revert", "halt"}, c \in PrecompileCosts : InitPrecompile(k, c) => Reverting
<1> DEFINE a == before_frame_init(al, req.input)
           n == Len(frames) + 1
<1>1. ASSUME pc = "init" PROVE a \in AL /\ n \in Nat \ {0} /\ Deep(a, n) /\ Checked(a)
  BY <1>1, InitChecks
<1>2. req.gas \in Nat /\ PrecompileCosts \subseteq Nat
  BY BaseFacts, Costs
<1>3. ASSUME NEW kind, NEW g, NEW late, EndAtOnce(kind, g, late)
      PROVE  /\ res'.saved = journal /\ res'.kind = kind /\ (late => res'.late)
             /\ pc' \in {"return", "last"}
  BY <1>3 DEF EndAtOnce
<1>4. ASSUME NEW kind, NEW g, NEW late, EndAtOnce(kind, g, late), journal' = journal PROVE Reverting
  BY <1>3, <1>4 DEF Reverting, Undoing
<1>5. ASSUME NEW g, NEW late, EndAtOnce("ok", g, late), al'.exceeded = "within" PROVE Reverting
  BY <1>3, <1>5 DEF Reverting, Undoing
<1>11. ASSUME NEW kind, NEW g, EndAtOnce(kind, g, TRUE), journal'.uncounted PROVE Reverting
  BY <1>3, <1>11 DEF Reverting, Undoing
<1> HIDE DEF a, n
<1>6. ASSUME NEW k \in {"ok", "revert"}, Intercept(k) PROVE Reverting
  BY <1>4, <1>6 DEF Intercept
<1>7. ASSUME InitExceeds PROVE Reverting
  BY <1>4, <1>7 DEF InitExceeds
<1>8. ASSUME InitRuns PROVE Reverting
  BY <1>8 DEF InitRuns, NoResult, Reverting
<1>9. ASSUME NEW k \in {"ok", "revert", "halt"}, InitEnds(k) PROVE Reverting
  <2>1. /\ pc = "init" /\ al' = try_rescue_gas(a, req.gas) /\ EndAtOnce(k, req.gas, FALSE)
        /\ a.exceeded = "within" /\ (k # "ok" => journal' = journal)
    BY <1>9 DEF InitEnds, a
  <2>2. al'.exceeded = "within"
    BY <1>1, <1>2, <2>1, CheckAgain
  <2>3. CASE k = "ok"
    BY <1>5, <2>1, <2>2, <2>3
  <2>4. CASE k # "ok"
    BY <1>4, <2>1, <2>4
  <2> QED BY <2>3, <2>4
<1>10. ASSUME NEW k \in {"ok", "revert", "halt"}, NEW c \in PrecompileCosts, InitPrecompile(k, c) PROVE Reverting
  <2> DEFINE b    == record_compute_gas(a, c)
             late == k = "ok" /\ b.exceeded # "within"
             x    == Births(req.input)
  <2>1. /\ pc = "init" /\ al' = try_rescue_gas(b, req.gas - c) /\ EndAtOnce(k, req.gas - c, late)
        /\ c <= req.gas /\ a.exceeded = "within"
    BY <1>10 DEF InitPrecompile, a
  <2>2. c \in Nat /\ req.gas - c \in Nat
    BY <1>2, <2>1
  <2>3. b \in AL /\ Deep(b, n) /\ Checked(b)
    <3>1. b \in AL /\ Deep(b, n)
      BY <1>1, <2>1, <2>2, GasSteady DEF Steady
    <3>2. PICK m : Records(a, m, Only("ComputeGas", c), Nothing, Nothing) /\ b = check_limit(m)
      BY <1>1, <2>1, <2>2, GasRecords
    <3>3. Checked(check_limit(m))
      BY <3>2, CheckFit DEF Records
    <3> QED BY <3>1, <3>2, <3>3
  <2>4. /\ x \in Nat /\ (k # "ok" => journal' = journal)
        /\ k = "ok" /\ b.exceeded # "within" => journal' = Uncounted(x)
    BY <1>10, PrecompileJournal DEF a
  <2> HIDE DEF b
  <2>5. CASE k # "ok"
    BY <1>4, <2>1, <2>4, <2>5
  <2>6. CASE k = "ok" /\ b.exceeded = "within"
    <3>1. al'.exceeded = "within"
      BY <2>1, <2>2, <2>3, <2>6, CheckAgain
    <3> QED BY <1>5, <2>1, <2>6, <3>1
  <2>7. CASE k = "ok" /\ b.exceeded # "within"
    <3>1. EndAtOnce(k, req.gas - c, TRUE)
      <4>1. late = TRUE
        BY <2>7
      <4> QED BY <2>1, <4>1
    <3>2. journal' = journal \/ journal'.uncounted
      BY <2>4, <2>7, BaseFacts DEF Uncounted, Journal
    <3> QED BY <1>4, <1>11, <3>1, <3>2
  <2> QED BY <2>5, <2>6, <2>7
<1> QED BY <1>6, <1>7, <1>8, <1>9, <1>10

\* The top frame: an opcode that exceeds ends it with another kind than ok.
LEMMA OpReverting ==
  ASSUME Base, Causes
  PROVE  /\ Resume => Reverting
         /\ \A c \in OpCosts : PlainOp(c) \/ VolatileOp(c) => Reverting
         /\ \A c \in OpCosts, s \in Slot, v \in {0, 1} : SStore(c, s, v) => Reverting
         /\ \A c \in OpCosts, size \in LogSizes : Log(c, size) => Reverting
         /\ \A c \in OpCosts, g \in ForwardGas, x \in Input : CallOp(c, g, x) => Reverting
         /\ \A k \in {"ok", "revert", "halt"} : EndFrame(k) => Reverting
         /\ \A c \in OpCosts, m \in {0, 1}, d \in BOOLEAN : SelfDestruct(c, m, d) => Reverting
<1>1. \A a : exceeding_instruction_result(a) \in {"revert", "halt"}
  BY DEF exceeding_instruction_result
<1>2. ASSUME NEW kind, NEW g, Return(kind, g), kind # "ok" PROVE Reverting
  BY <1>2 DEF Return, ReturnWith, Reverting
<1>3. ASSUME pc' \in {"run", "init"} PROVE Reverting
  BY <1>3 DEF Reverting
<1>4. ASSUME NEW a, NEW c, Executed(a, c), pc = "run" PROVE Reverting
  <2>1. Return(exceeding_instruction_result(a), top_frame.gas - c) \/ pc' = "run"
    BY <1>4 DEF Executed
  <2> QED BY <1>1, <1>2, <1>3, <2>1
<1>5. ASSUME Resume PROVE Reverting
  <2> DEFINE a == check_limit(al)
  <2>1. Return(exceeding_instruction_result(a), top_frame.gas) \/ pc' = "run"
    BY <1>5 DEF Resume
  <2> HIDE DEF a
  <2> QED BY <1>1, <1>2, <1>3, <2>1
<1>6. ASSUME NEW c \in OpCosts, PlainOp(c) \/ VolatileOp(c) PROVE Reverting
  BY <1>4, <1>6 DEF PlainOp, VolatileOp, CanPay
<1>7. ASSUME NEW c \in OpCosts, NEW s \in Slot, NEW v \in {0, 1}, SStore(c, s, v) PROVE Reverting
  BY <1>4, <1>7 DEF SStore, CanPay
<1>8. ASSUME NEW c \in OpCosts, NEW size \in LogSizes, Log(c, size) PROVE Reverting
  BY <1>4, <1>8 DEF Log, CanPay
<1>9. ASSUME NEW c \in OpCosts, NEW g \in ForwardGas, NEW x \in Input, CallOp(c, g, x) PROVE Reverting
  <2> DEFINE a == record_compute_gas(al, c)
  <2>1. Return(exceeding_instruction_result(a), top_frame.gas - c - g) \/ pc' = "init"
    BY <1>9 DEF CallOp
  <2> HIDE DEF a
  <2> QED BY <1>1, <1>2, <1>3, <2>1
<1>10. ASSUME NEW k \in {"ok", "revert", "halt"}, EndFrame(k) PROVE Reverting
  <2> DEFINE a == record_compute_gas(al, 0)
  <2>1. pc = "run"
    BY <1>10 DEF EndFrame
  <2>2. CASE k = "halt"
    <3>1. Return("halt", top_frame.gas)
      BY <1>10, <2>2 DEF EndFrame
    <3> QED BY <1>2, <3>1
  <2>3. CASE k # "halt"
    <3>1. al' = a /\ Return(IF a.exceeded # "within" THEN exceeding_instruction_result(a) ELSE k, top_frame.gas)
      BY <1>10, <2>3 DEF EndFrame
    <3>2. Checked(a)
      <4>1. frames # <<>> /\ al \in AL /\ Len(frames) \in Nat \ {0} /\ Deep(al, Len(frames))
        BY <2>1, BaseFacts DEF Base, Shape
      <4>2. Fit(al)
        BY DEF Causes
      <4> QED BY <4>1, <4>2, FitOps
    <3> HIDE DEF a
    <3>3. CASE a.exceeded # "within"
      BY <1>1, <1>2, <3>1, <3>3
    <3>4. CASE a.exceeded = "within"
      <4>1. pc' = "finish"
        BY <3>1 DEF Return, ReturnWith
      <4> QED BY <3>1, <3>2, <3>4, <4>1 DEF Reverting
    <3> QED BY <3>3, <3>4
  <2> QED BY <2>2, <2>3
<1>11. ASSUME NEW c \in OpCosts, NEW m \in {0, 1}, NEW d \in BOOLEAN, SelfDestruct(c, m, d) PROVE Reverting
  <2> DEFINE b == record_compute_gas(al, c)
  <2>1. PICK a, kind, x : Destroys(a, kind, c, x)
    BY <1>11, DestroyFacts
  <2>2. /\ pc = "run" /\ c \in Nat /\ a = b /\ pc' = "finish" /\ res'.kind = kind
        /\ kind = "ok" <=> a.exceeded = "within"
        /\ \/ al' = a
           \/ Enabled(REX4) /\ al' = set_compute_gas_limit(a, VolatileCap)
    BY <2>1 DEF Destroys, ReturnWith
  <2>3. al \in AL /\ Len(frames) \in Nat \ {0} /\ Deep(al, Len(frames)) /\ Fit(al) /\ VolatileCap \in Nat
    BY <2>2, BaseFacts, Costs DEF Base, Shape, Causes
  <2>4. b \in AL /\ Deep(b, Len(frames)) /\ Checked(b)
    BY <2>2, <2>3, GasSteady, FitOps DEF Steady
  <2> HIDE DEF b
  <2>5. kind = "ok" => al'.exceeded = "within" /\ Checked(al')
    BY <2>2, <2>3, <2>4, DetainedQuiet
  <2> QED BY <2>2, <2>5 DEF Reverting
<1> QED BY <1>5, <1>6, <1>7, <1>8, <1>9, <1>10, <1>11

\* A frame that is committed stays ok, unless what is recorded behind the commit makes it
\* fail; any other has its checkpoint restored.
LEMMA FinishReverting ==
  ASSUME Base, Causes, Reverts, NEW size \in CodeSizes \cup {0}, FrameFinish(size)
  PROVE  Reverting
<1>1. PICK a1, b, kind, g, cost : Finish(a1, b, kind, g, cost, size)
  BY FinishFacts
<1> DEFINE n == Len(frames)
<1>2. pc = "finish" /\ pc' = "return" /\ size \in Nat
  BY Costs DEF FrameFinish
<1>3. n \in Nat \ {0} /\ al \in AL /\ Deep(al, n) /\ Fit(al)
  BY <1>2, BaseFacts DEF Base, Shape, Causes
<1>4. /\ a1 \in AL /\ Deep(a1, n) /\ b \in AL /\ Deep(b, n) /\ cost \in Nat /\ g \in Nat
      /\ a1 = after_frame_run_instructions(al, res.create, size) /\ b = record_compute_gas(a1, cost)
      /\ al' = try_rescue_gas(b, g)
      /\ kind = "ok" => res.kind = "ok" /\ (res.create => a1.exceeded = "within")
      /\ res'.late <=> (kind = "ok" /\ a1.exceeded = "within" /\ b.exceeded # "within")
      /\ journal' = IF res'.late THEN [journal EXCEPT !.uncounted = TRUE]
                    ELSE IF kind = "ok" THEN journal ELSE res.saved
      /\ res'.saved = res.saved
      /\ res'.kind = IF b.exceeded # "within" THEN exceeding_instruction_result(b) ELSE kind
  BY <1>1 DEF Finish, Steady
<1> HIDE DEF n
<1>5. CASE kind # "ok"
  <2>1. ~res'.late /\ journal' = res'.saved
    BY <1>4, <1>5
  <2>2. res'.kind # "ok"
    BY <1>4, <1>5 DEF exceeding_instruction_result
  <2> QED BY <1>2, <2>1, <2>2 DEF Reverting, Undoing
<1>6. CASE kind = "ok"
  <2>1. al.exceeded = "within" /\ Checked(al)
    BY <1>2, <1>4, <1>6 DEF Reverts
  <2>2. a1.exceeded = "within" /\ Checked(a1)
    <3>1. CASE res.create
      <4>1. a1 = after_frame_run_instructions(al, TRUE, size)
        BY <1>4, <3>1 DEF after_frame_run_instructions
      <4>2. PICK m : Records(al, m, Nothing, Only("DataSize", size), Nothing) /\ a1 = check_limit(m)
        BY <1>2, <1>3, <4>1, SizeRecords
      <4>3. Checked(a1)
        BY <4>2, CheckFit DEF Records
      <4> QED BY <1>4, <1>6, <3>1, <4>3
    <3>2. CASE ~res.create
      BY <1>4, <2>1, <3>2 DEF after_frame_run_instructions
    <3> QED BY <3>1, <3>2
  <2>3. CASE b.exceeded = "within"
    <3>1. Checked(b)
      <4>1. PICK m : Records(a1, m, Only("ComputeGas", cost), Nothing, Nothing) /\ b = check_limit(m)
        BY <1>3, <1>4, GasRecords
      <4> QED BY <4>1, CheckFit DEF Records
    <3>2. al'.exceeded = "within" /\ res'.kind = "ok"
      BY <1>4, <1>6, <2>3, <3>1, CheckAgain
    <3> QED BY <1>2, <3>2 DEF Reverting, Undoing
  <2>4. CASE b.exceeded # "within"
    <3>1. res'.late /\ journal' = [journal EXCEPT !.uncounted = TRUE]
      BY <1>4, <1>6, <2>2, <2>4
    <3>2. journal'.uncounted
      BY <3>1, BaseFacts DEF Journal
    <3> QED BY <1>2, <3>1, <3>2 DEF Reverting, Undoing
  <2> QED BY <2>3, <2>4
<1> QED BY <1>5, <1>6

\* A success within every limit is returned as a success.
LEMMA OkReturned ==
  ASSUME NEW a \in AL, NEW r, NEW n \in Nat, NEW phase, NEW ret, Deep(a, n), Plains(a),
         Returned(a, r, phase, n, ret), n = 0 => phase = "last", n # 0 => Checked(a),
         r.kind = "ok", a.exceeded = "within",
         Enabled(REX4) => \A k \in Kinds : Nested(a.tr[k])
  PROVE  ret.res = r /\ (n # 0 => ret.al.exceeded = "within")
<1> DEFINE dup == phase = "last" /\ (n = 0 \/ Kinds = {})
<1>1. PICK m \in AL :
        /\ Keeps(a, m)
        /\ n # 0 => Pops(a, m, r.kind = "ok")
        /\ n = 0 => m = a
        /\ CASE check_limit(m).exceeded = "within" \/ dup ->
                  ret.al = check_limit(m) /\ ret.res = r
             [] check_limit(m).exceeded = "frame" /\ ~dup ->
                  ret.al.exceeded = "within" /\ ret.res.kind = "revert"
             [] check_limit(m).exceeded = "tx" /\ ~dup ->
                  ret.al.exceeded = "tx" /\ ret.res.kind = "halt"
  BY DEF Returned
<1>2. CASE n = 0
  BY <1>1, <1>2
<1>3. CASE n # 0
  <2>1. Pops(a, m, r.kind = "ok") /\ Checked(a) /\ n \in Nat \ {0}
    BY <1>1, <1>3
  <2>2. check_limit(m).exceeded = "within"
    BY <2>1, PopQuiet
  <2> QED BY <1>1, <2>2
<1> QED BY <1>2, <1>3

\* Every step keeps the journal of a failed frame reverted.
LEMMA StepReverts == Base /\ Flags /\ Causes /\ Nests /\ Reverts /\ [Next]_vars => Reverts'
<1> SUFFICES ASSUME Base, Flags, Causes, Nests, Reverts, [Next]_vars PROVE Reverts'
  OBVIOUS
<1>1. spec' = spec
  BY SpecStays
<1> DEFINE New ==
      /\ pc' = "finish" /\ res'.kind = "ok" => al'.exceeded = "within" /\ Checked(al')
      /\ pc' \in {"return", "last"} => Undoing(journal', res', al')
      /\ pc' \in {"resume", "done"} /\ res'.kind \in {"revert", "halt"} =>
           journal' = res'.saved \/ (res'.late /\ journal'.uncounted)
<1>2. New => Reverts'
  <2>1. Checked(al)' <=> Checked(al')
    BY <1>1 DEF Checked, Within, kind_check, exceeds_tx_limit, tx_limit, Enabled
  <2> QED BY <2>1 DEF Reverts, Undoing, FailureMeansRevertedUnlessLate, FailureMeansReverted
<1>3. ASSUME NEW i \in IntrinsicCosts, NEW x \in Input, StartTx(i, x) PROVE New
  BY <1>3 DEF StartTx
<1>4. ASSUME Metering PROVE New
  <2>1. Reverting
    BY <1>4, InitReverting, OpReverting, FinishReverting DEF Metering
  <2> QED BY <2>1 DEF Reverting
<1>5. ASSUME FrameReturn PROVE New
  <2>1. PICK ret, rest : Unwinds(ret, rest)
    BY <1>5, ReturnSteps
  <2> DEFINE d == Len(frames) + Pending
  <2>2. /\ Returned(al, res, "return", d, ret) /\ al' = ret.al /\ res' = ret.res /\ d \in Nat \ {0}
    BY <2>1 DEF Unwinds
  <2>3. /\ al \in AL /\ Deep(al, d) /\ Plains(al) /\ Checked(al) /\ Undoing(journal, res, al)
        /\ Enabled(REX4) => \A k \in Kinds : Nested(al.tr[k])
    BY <1>5, BaseFacts DEF Causes, Fit, FrameReturn, Reverts, Nests
  <2>4. ret.res.saved = res.saved /\ ret.res.late = res.late /\ journal' = journal
        /\ pc' \in {"resume", "last"}
    BY <1>5, <2>2 DEF Returned, FrameReturn
  <2> HIDE DEF d
  <2>5. CASE journal = res.saved
    BY <2>2, <2>4, <2>5 DEF Undoing
  <2>7. CASE res.late /\ journal.uncounted
    BY <2>2, <2>4, <2>7 DEF Undoing
  <2>6. CASE res.kind = "ok" /\ al.exceeded = "within"
    <3>1. ret.res = res /\ ret.al.exceeded = "within"
      BY <2>2, <2>3, <2>6, OkReturned
    <3> QED BY <2>2, <2>4, <2>6, <3>1 DEF Undoing
  <2> QED BY <2>3, <2>5, <2>6, <2>7 DEF Undoing
<1>6. ASSUME LastFrameResult PROVE New
  <2>1. PICK ret : /\ Returned(al, res, "last", Pending, ret)
                   /\ pc = "last" /\ Pending = (IF res.ran THEN 0 ELSE 1) /\ Deep(al, Pending)
                   /\ al' = ret.al /\ ret.res \in Result
                   /\ res' = [ret.res EXCEPT !.gas = Given(ret.res) + ret.al.rescued]
                   /\ res'.kind = ret.res.kind
    BY <1>6, LastSteps
  <2> DEFINE d == Pending
  <2>2. /\ al \in AL /\ Plains(al) /\ d \in Nat /\ (d # 0 => Checked(al)) /\ Undoing(journal, res, al)
        /\ Enabled(REX4) => \A k \in Kinds : Nested(al.tr[k])
    BY <2>1, BaseFacts DEF Causes, Fit, Nests, Reverts
  <2>3. Returned(al, res, "last", d, ret) /\ Deep(al, d)
    BY <2>1
  <2>4. res'.saved = res.saved /\ res'.late = res.late /\ journal' = journal /\ pc' = "done"
    <3>1. res'.saved = ret.res.saved /\ res'.late = ret.res.late
      BY <2>1 DEF Result
    <3>2. ret.res.saved = res.saved /\ ret.res.late = res.late
      BY <2>1 DEF Returned
    <3> QED BY <1>6, <3>1, <3>2 DEF LastFrameResult
  <2> HIDE DEF d
  <2>5. CASE journal = res.saved
    BY <2>4, <2>5
  <2>7. CASE res.late /\ journal.uncounted
    BY <2>4, <2>7
  <2>6. CASE res.kind = "ok" /\ al.exceeded = "within"
    <3>1. ret.res = res
      BY <2>2, <2>3, <2>6, OkReturned
    <3> QED BY <2>1, <2>4, <2>6, <3>1
  <2> QED BY <2>2, <2>5, <2>6, <2>7 DEF Undoing
<1>7. ASSUME UNCHANGED vars PROVE New
  <2>1. al' = al /\ pc' = pc /\ res' = res /\ journal' = journal
    BY <1>7 DEF vars
  <2> QED BY <2>1 DEF Reverts, Undoing, FailureMeansRevertedUnlessLate, FailureMeansReverted
<1> QED BY <1>2, <1>3, <1>4, <1>5, <1>6, <1>7, NextCases

\* So it is an invariant.
LEMMA RevertsAlways == Spec => [](Base /\ Flags /\ Causes /\ Nests /\ Reverts)
<1>1. Init => Reverts
  BY DEF Init, NoResult, Reverts, FailureMeansRevertedUnlessLate, FailureMeansReverted
<1>2. Base /\ Flags /\ Causes /\ Nests /\ Reverts /\ [Next]_vars => Reverts'
  BY StepReverts
<1> QED BY <1>1, <1>2, NestsAlways, PTL DEF Spec

\* A failed call or creation leaves no trace in the journal, at any depth, whichever limit
\* or error made it fail, but for a frame that was within every limit when revm committed
\* it: the code deposit (after_frame_run) and precompiles (frame_init) are the only places
\* where a limit is found exceeded so late.
THEOREM FailuresLeaveNoTrace == Spec => []FailureMeansRevertedUnlessLate
<1>1. Base /\ Flags /\ Causes /\ Nests /\ Reverts => FailureMeansRevertedUnlessLate
  BY DEF Reverts
<1> QED BY <1>1, RevertsAlways, PTL

-----------------------------------------------------------------------------
(* State growth *)

\* The state growth of a journal: slots that were zero and are not, and accounts born
Filled(store) == {s \in Slot : Original[s] = 0 /\ store[s] # 0}
Grown(j) == Cardinality(Filled(j.store)) + j.born

\* It is an integer.
LEMMA GrownTyped ==
  ASSUME NEW j \in Journal
  PROVE  /\ IsFiniteSet(Filled(j.store)) /\ Cardinality(Filled(j.store)) \in Nat
         /\ j.born \in Int /\ Grown(j) \in Int /\ j.store \in [Slot -> {0, 1}]
<1>1. IsFiniteSet(Slot)
  BY LimitAssumption
<1>2. IsFiniteSet(Filled(j.store))
  BY <1>1, FS_Subset DEF Filled
<1>3. Cardinality(Filled(j.store)) \in Nat
  BY <1>2, FS_CardinalityType
<1>4. j.born \in Int /\ j.store \in [Slot -> {0, 1}]
  BY DEF Journal
<1> QED BY <1>2, <1>3, <1>4 DEF Grown

\* Nothing has grown when a transaction starts.
LEMMA StartGrown == Grown(NoResult.saved) = 0
<1>1. NoResult.saved.store = Original /\ NoResult.saved.born = 0
  BY DEF NoResult
<1>2. Filled(NoResult.saved.store) = {}
  BY <1>1 DEF Filled
<1> QED BY <1>1, <1>2, FS_EmptySet DEF Grown

\* An account is born.
LEMMA BornGrown ==
  ASSUME NEW j \in Journal, NEW x \in Nat
  PROVE  LET w == [j EXCEPT !.born = @ + x]
         IN w \in Journal /\ w.uncounted = j.uncounted /\ Grown(w) = Grown(j) + x
<1> DEFINE w == [j EXCEPT !.born = @ + x]
<1>1. w \in Journal /\ w.store = j.store /\ w.born = j.born + x /\ w.uncounted = j.uncounted
  BY DEF Journal
<1>2. Cardinality(Filled(j.store)) \in Nat /\ j.born \in Int
  BY GrownTyped
<1> HIDE DEF w
<1>3. Grown(w) = Grown(j) + x
  BY <1>1, <1>2 DEF Grown
<1> QED BY <1>1, <1>3 DEF w

\* A slot is written.
LEMMA StoreGrown ==
  ASSUME NEW j \in Journal, NEW s \in Slot, NEW v \in {0, 1}
  PROVE  LET w == [j EXCEPT !.store[s] = v]
         IN /\ w \in Journal /\ w.uncounted = j.uncounted
            /\ Grown(w) + (IF Original[s] = 0 /\ j.store[s] # 0 /\ v = 0 THEN 1 ELSE 0)
                 = Grown(j) + (IF Original[s] = 0 /\ j.store[s] = 0 /\ v # 0 THEN 1 ELSE 0)
<1> DEFINE w == [j EXCEPT !.store[s] = v]
           F == Filled(j.store)
           H == Filled(w.store)
<1>1. w \in Journal /\ w.uncounted = j.uncounted /\ w.born = j.born /\ w.store = [j.store EXCEPT ![s] = v]
  BY DEF Journal
<1>2. /\ IsFiniteSet(F) /\ Cardinality(F) \in Nat /\ j.born \in Int
      /\ IsFiniteSet(H) /\ Cardinality(H) \in Nat /\ j.store \in [Slot -> {0, 1}]
  BY <1>1, GrownTyped
<1>3. \A y \in Slot : w.store[y] = IF y = s THEN v ELSE j.store[y]
  BY <1>1, <1>2
<1>4. Grown(w) = Cardinality(H) + j.born /\ Grown(j) = Cardinality(F) + j.born
  BY <1>1 DEF Grown
<1> HIDE DEF w
<1>5. CASE Original[s] = 0 /\ j.store[s] # 0 /\ v = 0
  <2>1. s \in F /\ H = F \ {s}
    BY <1>3, <1>5 DEF Filled
  <2>2. Cardinality(H) = Cardinality(F) - 1
    BY <1>2, <2>1, FS_RemoveElement
  <2> HIDE DEF F, H
  <2> QED BY <1>1, <1>2, <1>4, <1>5, <2>2 DEF w
<1>6. CASE Original[s] = 0 /\ j.store[s] = 0 /\ v # 0
  <2>1. s \notin F /\ H = F \cup {s}
    BY <1>3, <1>6 DEF Filled
  <2>2. Cardinality(H) = Cardinality(F) + 1
    BY <1>2, <2>1, FS_AddElement
  <2> HIDE DEF F, H
  <2> QED BY <1>1, <1>2, <1>4, <1>6, <2>2 DEF w
<1>7. CASE ~(Original[s] = 0 /\ j.store[s] # 0 /\ v = 0) /\ ~(Original[s] = 0 /\ j.store[s] = 0 /\ v # 0)
  <2>1. H = F
    BY <1>3, <1>7 DEF Filled
  <2> HIDE DEF F, H
  <2> QED BY <1>1, <1>2, <1>4, <1>7, <2>1 DEF w
<1> QED BY <1>5, <1>6, <1>7

\* Up to frame i the tracker has counted the growth of journal j, unless j holds growth
\* that is not counted at all.
Exact(t, i, j) == j.uncounted \/ UsedUpTo(t)[i] = RefundUpTo(t)[i] + Grown(j)

\* From journal j to w, g of growth and h of refund are counted.
Leads(j, w, g, h) == w.uncounted \/ (~j.uncounted /\ Grown(w) + h = Grown(j) + g)

\* A frame that begins, charged with g
LEMMA GrowBegun ==
  ASSUME NEW t \in Tracker, NEW v, NEW l, NEW g \in Nat, Begun(t, v, l, 0, g),
         NEW j \in Journal, NEW w \in Journal, Exact(t, Len(t.frames), j)
  PROVE  /\ \A i \in 0 .. Len(t.frames) : \A x : Exact(t, i, x) => Exact(v, i, x)
         /\ Leads(j, w, g, 0) => Exact(v, Len(t.frames) + 1, w)
<1> DEFINE n == Len(t.frames)
<1>1. /\ \A i \in 0 .. n : UsedUpTo(v)[i] = UsedUpTo(t)[i] /\ RefundUpTo(v)[i] = RefundUpTo(t)[i]
      /\ UsedUpTo(v)[n + 1] = UsedUpTo(t)[n] + 0 + g
      /\ RefundUpTo(v)[n + 1] = RefundUpTo(t)[n]
  BY DEF Begun
<1>2. UsedUpTo(t)[n] \in Nat /\ RefundUpTo(t)[n] \in Nat /\ Grown(j) \in Int /\ Grown(w) \in Int
  BY NetUsage, GrownTyped
<1>3. j.uncounted \/ UsedUpTo(t)[n] = RefundUpTo(t)[n] + Grown(j)
  BY DEF Exact
<1> HIDE DEF n
<1>4. ASSUME Leads(j, w, g, 0) PROVE Exact(v, n + 1, w)
  <2> SUFFICES ASSUME ~w.uncounted PROVE UsedUpTo(v)[n + 1] = RefundUpTo(v)[n + 1] + Grown(w)
    BY DEF Exact
  <2>2. ~j.uncounted /\ Grown(w) + 0 = Grown(j) + g
    BY <1>4 DEF Leads
  <2>1. UsedUpTo(v)[n + 1] = RefundUpTo(v)[n + 1] + Grown(w)
    BY <1>1, <1>2, <1>3, <2>2
  <2> QED BY <2>1
<1>5. \A i \in 0 .. n : \A x : Exact(t, i, x) => Exact(v, i, x)
  BY <1>1 DEF Exact
<1> QED BY <1>4, <1>5 DEF n

\* The top frame records g and h.
LEMMA GrowRecorded ==
  ASSUME NEW t \in Tracker, Len(t.frames) # 0, NEW v, NEW g \in Nat, NEW h \in Nat,
         Recorded(t, v, 0, g, h)
  PROVE  /\ \A i \in 0 .. Len(t.frames) - 1 : \A x : Exact(t, i, x) => Exact(v, i, x)
         /\ \A j, w \in Journal : Exact(t, Len(t.frames), j) /\ Leads(j, w, g, h)
              => Exact(v, Len(t.frames), w)
<1> DEFINE n == Len(t.frames)
<1>1. /\ \A i \in 0 .. n - 1 : UsedUpTo(v)[i] = UsedUpTo(t)[i] /\ RefundUpTo(v)[i] = RefundUpTo(t)[i]
      /\ UsedUpTo(v)[n] = UsedUpTo(t)[n] + 0 + g
      /\ RefundUpTo(v)[n] = RefundUpTo(t)[n] + h
  BY DEF Recorded
<1>2. UsedUpTo(t)[n] \in Nat /\ RefundUpTo(t)[n] \in Nat
  BY NetUsage
<1> HIDE DEF n
<1>4. ASSUME NEW j \in Journal, NEW w \in Journal, Exact(t, n, j), Leads(j, w, g, h)
      PROVE  Exact(v, n, w)
  <2> SUFFICES ASSUME ~w.uncounted PROVE UsedUpTo(v)[n] = RefundUpTo(v)[n] + Grown(w)
    BY DEF Exact
  <2>4. ~j.uncounted /\ Grown(w) + h = Grown(j) + g
    BY <1>4 DEF Leads
  <2>1. Grown(j) \in Int /\ Grown(w) \in Int
    BY GrownTyped
  <2>2. UsedUpTo(t)[n] = RefundUpTo(t)[n] + Grown(j)
    BY <1>4, <2>4 DEF Exact
  <2>3. UsedUpTo(v)[n] = RefundUpTo(v)[n] + Grown(w)
    BY <1>1, <1>2, <2>1, <2>2, <2>4, SMTT(20)
  <2> QED BY <2>3
<1>5. \A i \in 0 .. n - 1 : \A x : Exact(t, i, x) => Exact(v, i, x)
  BY <1>1 DEF Exact
<1> QED BY <1>4, <1>5 DEF n

\* The top frame is popped: a success keeps the total, a failure what was counted before.
LEMMA GrowPopped ==
  ASSUME NEW t \in Tracker, Len(t.frames) # 0, NEW v, NEW kind, Popped(t, v, kind = "ok"),
         Plain("StateGrowth", t)
  PROVE  /\ \A i \in 0 .. Len(t.frames) - 2 : \A x : Exact(t, i, x) => Exact(v, i, x)
         /\ kind = "ok" => \A x \in Journal : Exact(t, Len(t.frames), x) => Exact(v, Len(t.frames) - 1, x)
         /\ kind # "ok" => \A x \in Journal : Exact(t, Len(t.frames) - 1, x) => Exact(v, Len(t.frames) - 1, x)
<1> DEFINE n == Len(t.frames)
           c == t.frames[n]
           d == IF kind = "ok" THEN c.discardable ELSE 0
           r == IF kind = "ok" THEN c.refund ELSE 0
<1>1. /\ \A i \in 0 .. n - 2 : UsedUpTo(v)[i] = UsedUpTo(t)[i] /\ RefundUpTo(v)[i] = RefundUpTo(t)[i]
      /\ UsedUpTo(v)[n - 1] = UsedUpTo(t)[n - 1] + c.persistent + d
      /\ RefundUpTo(v)[n - 1] = RefundUpTo(t)[n - 1] + r
  BY DEF Popped
<1>2. n \in Nat \ {0} /\ n \in 1 .. n /\ n - 1 \in 0 .. n
  <2>1. n \in Nat \ {0}
    BY TrackerTyped
  <2> HIDE DEF n
  <2> QED BY <2>1
<1>3. /\ UsedUpTo(t)[n] = UsedUpTo(t)[n - 1] + used(c) /\ UsedUpTo(t)[n - 1] \in Nat
      /\ RefundUpTo(t)[n] = RefundUpTo(t)[n - 1] + c.refund /\ RefundUpTo(t)[n - 1] \in Nat
  BY <1>2, PrefixUsed, PrefixRefund
<1>4. c.persistent = 0 /\ c \in Entry
  BY <1>2, TrackerTyped DEF Plain
<1>5. c.discardable \in Nat /\ c.refund \in Nat /\ used(c) = c.discardable
  BY <1>4, EntryTyped DEF used
<1>6. ASSUME kind = "ok", NEW x \in Journal, Exact(t, n, x) PROVE Exact(v, n - 1, x)
  <2> SUFFICES ASSUME ~x.uncounted PROVE UsedUpTo(v)[n - 1] = RefundUpTo(v)[n - 1] + Grown(x)
    BY DEF Exact
  <2>1. UsedUpTo(t)[n] = RefundUpTo(t)[n] + Grown(x) /\ Grown(x) \in Int
    BY <1>6, GrownTyped DEF Exact
  <2>2. d = c.discardable /\ r = c.refund
    BY <1>6
  <2> HIDE DEF n, c, d, r
  <2>3. UsedUpTo(v)[n - 1] = RefundUpTo(v)[n - 1] + Grown(x)
    BY <1>1, <1>3, <1>4, <1>5, <2>1, <2>2
  <2> QED BY <2>3
<1>7. ASSUME kind # "ok", NEW x \in Journal, Exact(t, n - 1, x) PROVE Exact(v, n - 1, x)
  <2> SUFFICES ASSUME ~x.uncounted PROVE UsedUpTo(v)[n - 1] = RefundUpTo(v)[n - 1] + Grown(x)
    BY DEF Exact
  <2>1. UsedUpTo(t)[n - 1] = RefundUpTo(t)[n - 1] + Grown(x) /\ Grown(x) \in Int
    BY <1>7, GrownTyped DEF Exact
  <2>2. d = 0 /\ r = 0
    BY <1>7
  <2> HIDE DEF n, c, d, r
  <2>3. UsedUpTo(v)[n - 1] = RefundUpTo(v)[n - 1] + Grown(x)
    BY <1>1, <1>3, <1>4, <2>1, <2>2
  <2> QED BY <2>3
<1>8. \A i \in 0 .. n - 2 : \A x : Exact(t, i, x) => Exact(v, i, x)
  BY <1>1 DEF Exact
<1> QED BY <1>6, <1>7, <1>8

\* What the tracker of state growth has counted, in each phase: up to each frame the growth
\* of the checkpoint it began with, and with the top frame that of the journal, as far as
\* the frame may still be committed.
Tally(t, fs, p, r, j) ==
  LET n == Len(fs)
  IN /\ \A i \in 1 .. n : Exact(t, i - 1, fs[i].saved)
     /\ p \in {"init", "resume", "run"} => Exact(t, n, j)
     /\ p = "done" \/ (p = "last" /\ r.ran) => Exact(t, 0, j)
     /\ p = "finish" => r.saved = fs[n].saved /\ (r.kind = "ok" => Exact(t, n, j))
     /\ p = "return" /\ r.ran => Exact(t, n - 1, r.saved) /\ (r.kind = "ok" => Exact(t, n, j))
     /\ p \in {"return", "last"} /\ ~r.ran => Exact(t, n, r.saved) /\ (r.kind = "ok" => Exact(t, n + 1, j))
Grows == "StateGrowth" \in Kinds => Tally(al.tr["StateGrowth"], frames, pc, res, journal)
Growing == Tally(al'.tr["StateGrowth"], frames', pc', res', journal')

\* The tracker of state growth, when no result is pending
LEMMA GrowthTracker ==
  ASSUME Base, "StateGrowth" \in Kinds, Grows
  PROVE  LET t == al.tr["StateGrowth"]
         IN /\ t \in Tracker /\ Len(t.frames) = Len(frames) + Pending /\ Len(frames) \in Nat
            /\ pc \notin {"return", "last"} => Len(t.frames) = Len(frames)
            /\ Tally(t, frames, pc, res, journal)
  BY BaseFacts, ALFields DEF Deep, Grows

\* An account that is born, or gone again, counted and not, and nothing
LEMMA BornLeads ==
  ASSUME Base, NEW x \in Int
  PROVE  /\ x \in Nat => LET w == [journal EXCEPT !.born = @ + x] IN w \in Journal /\ Leads(journal, w, x, 0)
         /\ Uncounted(x) = journal \/ \A g, h : Leads(journal, Uncounted(x), g, h)
         /\ Leads(journal, Uncounted(x), x, 0)
         /\ Leads(journal, journal, 0, 0)
<1> DEFINE w == [journal EXCEPT !.born = @ + x]
           u == Uncounted(x)
<1>1. journal \in Journal /\ Grown(journal) \in Int
  BY BaseFacts, GrownTyped
<1>2. ASSUME x \in Nat PROVE w \in Journal /\ w.uncounted = journal.uncounted /\ Grown(w) = Grown(journal) + x
  BY <1>1, <1>2, BornGrown
<1>3. u = journal \/ u.uncounted
  BY <1>1 DEF Uncounted, Journal
<1>5. x # 0 => u.uncounted
  BY <1>1 DEF Uncounted, Journal
<1>9. x = 0 => u = journal
  BY DEF Uncounted
<1> HIDE DEF u, w
<1>4. (x \in Nat => Grown(w) + 0 = Grown(journal) + x) /\ Grown(journal) + 0 = Grown(journal) + 0
  BY <1>1, <1>2
<1>6. journal.uncounted \in BOOLEAN
  BY <1>1 DEF Journal
<1>7. (x \in Nat => Leads(journal, w, x, 0)) /\ Leads(journal, journal, 0, 0)
  BY <1>2, <1>4, <1>6 DEF Leads
<1>8. u = journal \/ \A g, h : Leads(journal, u, g, h)
  BY <1>3 DEF Leads
<1>10. Leads(journal, u, x, 0)
  BY <1>5, <1>7, <1>9 DEF Leads
<1> QED BY <1>2, <1>7, <1>8, <1>10 DEF u, w

\* A frame begins, and ends at once.
LEMMA EndGrowing ==
  ASSUME Base, Grows, "StateGrowth" \in Kinds, pc = "init", NEW kind, NEW c, NEW late, EndAtOnce(kind, c, late),
         NEW g \in Nat, BeginStep(g), journal' \in Journal,
         kind = "ok" => Leads(journal, journal', g, 0)
  PROVE  Growing
<1> DEFINE t == al.tr["StateGrowth"]
           v == al'.tr["StateGrowth"]
           n == Len(frames)
<1>1. t \in Tracker /\ Len(t.frames) = n /\ n \in Nat /\ Tally(t, frames, pc, res, journal)
  BY GrowthTracker
<1>2. PICK l : Begun(t, v, l, 0, g)
  BY DEF BeginStep, Begins, Gas
<1>3. (\A i \in 1 .. n : Exact(t, i - 1, frames[i].saved)) /\ Exact(t, n, journal)
  BY <1>1 DEF Tally
<1>4. journal \in Journal
  BY BaseFacts
<1>5. /\ \A i \in 0 .. n : \A x : Exact(t, i, x) => Exact(v, i, x)
      /\ Leads(journal, journal', g, 0) => Exact(v, n + 1, journal')
  <2> HIDE DEF t, v, n
  <2>1. Exact(t, Len(t.frames), journal)
    BY <1>1, <1>3
  <2> QED BY <1>1, <1>2, <1>4, <2>1, GrowBegun
<1>6. /\ res'.kind = kind /\ ~res'.ran /\ res'.saved = journal /\ pc' \in {"return", "last"} /\ frames' = frames
  BY DEF EndAtOnce
<1> HIDE DEF t, v, n
<1>7. \A i \in 1 .. n : Exact(v, i - 1, frames[i].saved)
  <2>1. \A i \in 1 .. n : i - 1 \in 0 .. n
    BY <1>1
  <2> QED BY <1>3, <1>5, <2>1
<1>8. Exact(v, n, journal)
  BY <1>1, <1>3, <1>5
<1> QED BY <1>5, <1>6, <1>7, <1>8 DEF Growing, Tally, v, n

\* A frame begins and is to run.
LEMMA RunsGrowing ==
  ASSUME Base, Grows, "StateGrowth" \in Kinds, InitRuns
  PROVE  Growing
<1> DEFINE t == al.tr["StateGrowth"]
           v == al'.tr["StateGrowth"]
           n == Len(frames)
           g == Births(req.input)
           f == [create |-> req.input = "create", gas |-> req.gas, saved |-> journal]
<1>1. t \in Tracker /\ Len(t.frames) = n /\ n \in Nat /\ Tally(t, frames, pc, res, journal) /\ pc = "init"
  BY GrowthTracker DEF InitRuns
<1>2. PICK l : Begun(t, v, l, 0, g)
  BY InitTracks DEF BeginStep, Begins, Gas
<1>3. (\A i \in 1 .. n : Exact(t, i - 1, frames[i].saved)) /\ Exact(t, n, journal)
  BY <1>1 DEF Tally
<1>4. journal \in Journal /\ g \in Nat /\ frames \in Seq(Frame)
  BY BaseFacts DEF Births
<1>5. journal' \in Journal /\ Leads(journal, journal', g, 0)
  BY <1>4, BornLeads DEF InitRuns
<1>6. /\ \A i \in 0 .. n : \A x : Exact(t, i, x) => Exact(v, i, x)
      /\ Exact(v, n + 1, journal')
  <2> HIDE DEF t, v, n, g
  <2>1. Exact(t, Len(t.frames), journal)
    BY <1>1, <1>3
  <2> QED BY <1>1, <1>2, <1>4, <1>5, <2>1, GrowBegun
<1>7. frames' = Append(frames, f) /\ pc' = "resume"
  BY DEF InitRuns
<1>8. Len(frames') = n + 1 /\ frames'[n + 1].saved = journal /\ \A i \in 1 .. n : frames'[i] = frames[i]
  BY <1>4, <1>7
<1> HIDE DEF t, v, n, g, f
<1>9. \A i \in 1 .. n + 1 : Exact(v, i - 1, frames'[i].saved)
  <2> SUFFICES ASSUME NEW i \in 1 .. n + 1 PROVE Exact(v, i - 1, frames'[i].saved)
    OBVIOUS
  <2>1. CASE i = n + 1
    <3>1. i - 1 = n
      BY <1>1, <2>1
    <3>2. Exact(v, n, journal)
      BY <1>1, <1>3, <1>6
    <3> QED BY <1>8, <2>1, <3>1, <3>2
  <2>2. CASE i # n + 1
    <3>1. i \in 1 .. n /\ i - 1 \in 0 .. n
      BY <1>1, <2>2
    <3> QED BY <1>3, <1>6, <1>8, <3>1
  <2> QED BY <2>1, <2>2
<1> QED BY <1>6, <1>7, <1>8, <1>9 DEF Growing, Tally, v

\* The top frame records; fs are its frames afterwards.
LEMMA MeterGrowing ==
  ASSUME Base, Grows, "StateGrowth" \in Kinds, pc \in {"run", "finish"},
         NEW g \in Nat, NEW h \in Nat, MeterStep(g, h), NEW w \in Journal
  PROVE  LET v == al'.tr["StateGrowth"]
             n == Len(frames)
         IN /\ n \in Nat \ {0}
            /\ \A i \in 1 .. n : Exact(v, i - 1, frames[i].saved)
            /\ (pc = "run" \/ res.kind = "ok") /\ Leads(journal, w, g, h) => Exact(v, n, w)
<1> DEFINE t == al.tr["StateGrowth"]
           v == al'.tr["StateGrowth"]
           n == Len(frames)
<1>1. t \in Tracker /\ Len(t.frames) = n /\ Tally(t, frames, pc, res, journal)
  BY GrowthTracker
<1>2. n \in Nat \ {0} /\ journal \in Journal
  BY BaseFacts DEF Base, Shape
<1>3. Recorded(t, v, 0, g, h)
  BY DEF MeterStep, Meters, Gas
<1>4. /\ \A i \in 1 .. n : Exact(t, i - 1, frames[i].saved)
      /\ pc = "run" \/ res.kind = "ok" => Exact(t, n, journal)
  BY <1>1 DEF Tally
<1> HIDE DEF t, v, n
<1>5. \A i \in 0 .. n - 1 : \A x : Exact(t, i, x) => Exact(v, i, x)
  BY <1>1, <1>2, <1>3, GrowRecorded
<1>6. Exact(t, n, journal) /\ Leads(journal, w, g, h) => Exact(v, n, w)
  BY <1>1, <1>2, <1>3, GrowRecorded
<1>7. \A i \in 1 .. n : i - 1 \in 0 .. n - 1
  BY <1>2
<1>8. \A i \in 1 .. n : Exact(v, i - 1, frames[i].saved)
  BY <1>4, <1>5, <1>7
<1> QED BY <1>2, <1>4, <1>6, <1>8 DEF v, n

\* A frame that pays keeps its checkpoint.
LEMMA PaySaved ==
  ASSUME Base, frames # <<>>, NEW e,
         NEW fs, fs = [frames EXCEPT ![Len(frames)].gas = e]
  PROVE  Len(fs) = Len(frames) /\ \A i \in 1 .. Len(frames) : fs[i].saved = frames[i].saved
<1>1. frames \in Seq(Frame) /\ Len(frames) \in 1 .. Len(frames)
  BY BaseFacts
<1>2. Len(fs) = Len(frames)
  BY <1>1
<1>3. ASSUME NEW i \in 1 .. Len(frames) PROVE fs[i].saved = frames[i].saved
  <2>1. frames[i] \in Frame
    BY <1>1, <1>3
  <2>2. fs[i] = IF i = Len(frames) THEN [frames[i] EXCEPT !.gas = e] ELSE frames[i]
    BY <1>1, <1>3
  <2> QED BY <2>1, <2>2 DEF Frame
<1> QED BY <1>2, <1>3

\* The top frame goes on, perhaps to make a call.
LEMMA OnGrowing ==
  ASSUME Base, Grows, "StateGrowth" \in Kinds, pc = "run",
         NEW g \in Nat, NEW h \in Nat, MeterStep(g, h), journal' \in Journal,
         Leads(journal, journal', g, h), pc' \in {"run", "init"},
         NEW e, frames' = [frames EXCEPT ![Len(frames)].gas = e]
  PROVE  Growing
<1> DEFINE v == al'.tr["StateGrowth"]
           n == Len(frames)
<1>1. /\ n \in Nat \ {0} /\ (\A i \in 1 .. n : Exact(v, i - 1, frames[i].saved)) /\ Exact(v, n, journal')
  BY MeterGrowing
<1>2. frames # <<>>
  BY DEF Base, Shape
<1>3. Len(frames') = n /\ \A i \in 1 .. n : frames'[i].saved = frames[i].saved
  BY <1>2, PaySaved
<1> HIDE DEF v, n
<1> QED BY <1>1, <1>3 DEF Growing, Tally, v

\* The top frame ends, not ok unless the journal is what was counted.
LEMMA EndingGrowing ==
  ASSUME Base, Grows, "StateGrowth" \in Kinds, pc = "run",
         NEW g \in Nat, NEW h \in Nat, MeterStep(g, h), journal' \in Journal,
         NEW kind, NEW e, NEW output, ReturnWith(kind, e, output),
         kind = "ok" => Leads(journal, journal', g, h)
  PROVE  Growing
<1> DEFINE v == al'.tr["StateGrowth"]
           n == Len(frames)
<1>1. /\ n \in Nat \ {0} /\ \A i \in 1 .. n : Exact(v, i - 1, frames[i].saved)
      /\ kind = "ok" => Exact(v, n, journal')
  BY MeterGrowing
<1>2. frames' = frames /\ pc' = "finish" /\ res'.saved = frames[n].saved /\ res'.kind = kind
  BY DEF ReturnWith, top_frame
<1> HIDE DEF v, n
<1> QED BY <1>1, <1>2 DEF Growing, Tally, v, n

\* An opcode
LEMMA ExecutedGrowing ==
  ASSUME Base, Grows, "StateGrowth" \in Kinds, pc = "run", NEW a, NEW c, Executed(a, c),
         NEW g \in Nat, NEW h \in Nat, MeterStep(g, h), journal' \in Journal,
         a.exceeded = "within" => Leads(journal, journal', g, h)
  PROVE  Growing
<1>1. CASE a.exceeded # "within"
  <2> DEFINE kind == exceeding_instruction_result(a)
  <2>1. ReturnWith(kind, top_frame.gas - c, TRUE) /\ kind # "ok"
    BY <1>1 DEF Executed, Return, exceeding_instruction_result
  <2> HIDE DEF kind
  <2> QED BY <2>1, EndingGrowing
<1>2. CASE a.exceeded = "within"
  <2>1. pc' = "run" /\ frames' = [frames EXCEPT ![Len(frames)].gas = @ - c]
    BY <1>2 DEF Executed
  <2>2. PICK e : frames' = [frames EXCEPT ![Len(frames)].gas = e]
    BY <2>1
  <2> QED BY <1>2, <2>1, <2>2, OnGrowing
<1> QED BY <1>1, <1>2

\* The steps that begin a frame
LEMMA InitGrowing ==
  ASSUME Base, Grows, "StateGrowth" \in Kinds
  PROVE  /\ \A k \in {"ok", "revert"} : Intercept(k) => Growing
         /\ InitExceeds => Growing
         /\ \A k \in {"ok", "revert", "halt"} : InitEnds(k) => Growing
         /\ \A k \in {"ok", "revert", "halt"}, c \in PrecompileCosts : InitPrecompile(k, c) => Growing
<1> DEFINE g == Births(req.input)
           born == [journal EXCEPT !.born = @ + g]
<1>1. journal \in Journal /\ g \in Nat /\ Grown(journal) \in Int
  BY BaseFacts, GrownTyped DEF Births
<1>2. born \in Journal /\ Leads(journal, born, g, 0) /\ Leads(journal, journal, 0, 0)
  BY <1>1, BornLeads
<1>3. ASSUME NEW k \in {"ok", "revert"}, Intercept(k) PROVE Growing
  <2>1. pc = "init" /\ EndAtOnce(k, req.gas, FALSE) /\ journal' = journal /\ BeginStep(0)
    BY <1>3, InitTracks DEF Intercept
  <2>2. Leads(journal, journal', 0, 0) /\ journal' \in Journal
    BY <1>1, <1>2, <2>1
  <2> QED BY <2>1, <2>2, EndGrowing
<1>4. ASSUME InitExceeds PROVE Growing
  <2> DEFINE a == before_frame_init(al, req.input)
  <2>1. pc = "init" /\ EndAtOnce(exceeding_instruction_result(a), req.gas, FALSE) /\ journal' = journal /\ BeginStep(g)
    BY <1>4, InitTracks DEF InitExceeds
  <2>2. exceeding_instruction_result(a) # "ok" /\ journal' \in Journal
    BY <1>1, <2>1 DEF exceeding_instruction_result
  <2> HIDE DEF a, g
  <2> QED BY <1>1, <2>1, <2>2, EndGrowing
<1>5. ASSUME NEW k \in {"ok", "revert", "halt"}, InitEnds(k) PROVE Growing
  <2>1. /\ pc = "init" /\ EndAtOnce(k, req.gas, FALSE) /\ BeginStep(g)
        /\ journal' = IF k = "ok" THEN born ELSE journal
    BY <1>5, InitTracks DEF InitEnds
  <2> HIDE DEF g, born
  <2>2. journal' \in Journal /\ (k = "ok" => Leads(journal, journal', g, 0))
    BY <1>1, <1>2, <2>1
  <2> QED BY <1>1, <2>1, <2>2, EndGrowing
<1>6. ASSUME NEW k \in {"ok", "revert", "halt"}, NEW c \in PrecompileCosts, InitPrecompile(k, c) PROVE Growing
  <2> DEFINE b    == record_compute_gas(before_frame_init(al, req.input), c)
             late == k = "ok" /\ b.exceeded # "within"
  <2>1. pc = "init" /\ EndAtOnce(k, req.gas - c, late) /\ BeginStep(g)
    BY <1>6, InitTracks DEF InitPrecompile
  <2>2. /\ journal' \in Journal
        /\ k = "ok" /\ b.exceeded # "within" => journal' = Uncounted(g)
        /\ k = "ok" /\ b.exceeded = "within" => journal' = born
    BY <1>6, PrecompileJournal
  <2> HIDE DEF g, born, b
  <2>3. k = "ok" => Leads(journal, journal', g, 0)
    <3>1. g \in Int
      BY <1>1
    <3>2. Leads(journal, Uncounted(g), g, 0)
      BY <3>1, BornLeads
    <3> QED BY <1>2, <2>2, <3>2
  <2> QED BY <1>1, <2>1, <2>2, <2>3, EndGrowing
<1> QED BY <1>3, <1>4, <1>5, <1>6

\* A frame goes on, or ends with its checkpoint.
LEMMA ResumeGrowing ==
  ASSUME Base, Grows, "StateGrowth" \in Kinds, Resume
  PROVE  Growing
<1> DEFINE a == check_limit(al)
           t == al.tr["StateGrowth"]
           n == Len(frames)
<1>1. Tally(t, frames, pc, res, journal) /\ pc = "resume" /\ frames # <<>>
  BY GrowthTracker DEF Resume, Base, Shape
<1>2. al'.tr = al.tr /\ frames' = frames /\ journal' = journal
  BY BaseFacts, CheckFacts DEF Resume, Return, ReturnWith
<1>3. \/ pc' = "run"
      \/ pc' = "finish" /\ res'.kind # "ok" /\ res'.saved = frames[n].saved
  BY DEF Resume, Return, ReturnWith, exceeding_instruction_result, top_frame
<1>4. (\A i \in 1 .. n : Exact(t, i - 1, frames[i].saved)) /\ Exact(t, n, journal)
  BY <1>1 DEF Tally
<1> HIDE DEF a, t, n
<1> QED BY <1>2, <1>3, <1>4 DEF Growing, Tally, t, n

\* The opcodes
LEMMA OpGrowing ==
  ASSUME Base, Grows, "StateGrowth" \in Kinds
  PROVE  /\ \A c \in OpCosts : PlainOp(c) \/ VolatileOp(c) => Growing
         /\ \A c \in OpCosts, s \in Slot, v \in {0, 1} : SStore(c, s, v) => Growing
         /\ \A c \in OpCosts, size \in LogSizes : Log(c, size) => Growing
         /\ \A c \in OpCosts, g \in ForwardGas, x \in Input : CallOp(c, g, x) => Growing
         /\ \A k \in {"ok", "revert", "halt"} : EndFrame(k) => Growing
         /\ \A c \in OpCosts, m \in {0, 1}, d \in BOOLEAN : SelfDestruct(c, m, d) => Growing
<1>1. journal \in Journal /\ Grown(journal) \in Int
  BY BaseFacts, GrownTyped
<1>2. ASSUME journal' = journal PROVE journal' \in Journal /\ Leads(journal, journal', 0, 0)
  BY <1>1, <1>2, BornLeads
<1>3. ASSUME NEW c \in OpCosts, PlainOp(c) \/ VolatileOp(c) PROVE Growing
  <2>1. MeterStep(0, 0) /\ pc = "run" /\ journal' = journal /\ \E a : Executed(a, c)
    BY <1>3, OpTracks DEF PlainOp, VolatileOp, CanPay
  <2> QED BY <1>2, <2>1, ExecutedGrowing
<1>4. ASSUME NEW c \in OpCosts, NEW size \in LogSizes, Log(c, size) PROVE Growing
  <2>1. MeterStep(0, 0) /\ pc = "run" /\ journal' = journal /\ \E a : Executed(a, c)
    BY <1>4, OpTracks DEF Log, CanPay
  <2> QED BY <1>2, <2>1, ExecutedGrowing
<1>5. ASSUME NEW c \in OpCosts, NEW s \in Slot, NEW v \in {0, 1}, SStore(c, s, v) PROVE Growing
  <2> DEFINE a == record_compute_gas(al, c)
             b == on_sstore(a, Original[s], journal.store[s], v)
  <2>1. /\ pc = "run" /\ journal' = [journal EXCEPT !.store[s] = v]
        /\ Executed(IF a.exceeded = "tx" THEN a ELSE b, c)
    BY <1>5 DEF SStore, CanPay
  <2>2. journal' \in Journal /\ Leads(journal, journal', Wrote(s, v), Cleared(s, v))
    <3>1. /\ journal' \in Journal /\ journal'.uncounted = journal.uncounted
          /\ Grown(journal') + Cleared(s, v) = Grown(journal) + Wrote(s, v)
      BY <1>1, <2>1, StoreGrown DEF Wrote, Cleared
    <3>2. journal.uncounted \in BOOLEAN
      BY <1>1 DEF Journal
    <3> QED BY <3>1, <3>2 DEF Leads
  <2>3. IF a.exceeded = "tx" THEN MeterStep(0, 0) ELSE MeterStep(Wrote(s, v), Cleared(s, v))
    BY <1>5, OpTracks
  <2>4. Wrote(s, v) \in Nat /\ Cleared(s, v) \in Nat
    BY DEF Wrote, Cleared
  <2> HIDE DEF a, b
  <2>5. CASE a.exceeded = "tx"
    <3>1. Executed(a, c) /\ MeterStep(0, 0) /\ a.exceeded # "within"
      BY <2>1, <2>3, <2>5
    <3> QED BY <2>1, <2>2, <3>1, ExecutedGrowing
  <2>6. CASE a.exceeded # "tx"
    <3>1. Executed(b, c) /\ MeterStep(Wrote(s, v), Cleared(s, v))
      BY <2>1, <2>3, <2>6
    <3> QED BY <2>1, <2>2, <2>4, <3>1, ExecutedGrowing
  <2> QED BY <2>5, <2>6
<1>6. ASSUME NEW c \in OpCosts, NEW g \in ForwardGas, NEW x \in Input, CallOp(c, g, x) PROVE Growing
  <2> DEFINE a == record_compute_gas(al, c)
  <2>1. MeterStep(0, 0) /\ pc = "run" /\ journal' = journal
    BY <1>6, OpTracks DEF CallOp, CanPay
  <2>2. CASE a.exceeded # "within"
    <3> DEFINE kind == exceeding_instruction_result(a)
    <3>1. ReturnWith(kind, top_frame.gas - c - g, TRUE) /\ kind # "ok"
      BY <1>6, <2>2 DEF CallOp, Return, exceeding_instruction_result
    <3> HIDE DEF kind
    <3> QED BY <1>2, <2>1, <3>1, EndingGrowing
  <2>3. CASE a.exceeded = "within"
    <3>1. pc' = "init" /\ frames' = [frames EXCEPT ![Len(frames)].gas = @ - c - g]
      BY <1>6, <2>3 DEF CallOp
    <3>2. PICK e : frames' = [frames EXCEPT ![Len(frames)].gas = e]
      BY <3>1
    <3> QED BY <1>2, <2>1, <3>1, <3>2, OnGrowing
  <2> QED BY <2>2, <2>3
<1>7. ASSUME NEW k \in {"ok", "revert", "halt"}, EndFrame(k) PROVE Growing
  <2>1. MeterStep(0, 0) /\ pc = "run" /\ journal' = journal /\ \E kind, e : ReturnWith(kind, e, TRUE)
    BY <1>7, OpTracks DEF EndFrame, Return
  <2> QED BY <1>2, <2>1, EndingGrowing
<1>8. ASSUME NEW c \in OpCosts, NEW m \in {0, 1}, NEW d \in BOOLEAN, SelfDestruct(c, m, d) PROVE Growing
  <2>1. PICK a, kind, x : Destroys(a, kind, c, x)
    BY <1>8, DestroyFacts
  <2>2. /\ MeterStep(0, 0) /\ pc = "run" /\ x \in Int /\ journal' = Uncounted(x)
        /\ \E e : ReturnWith(kind, e, FALSE)
    BY <1>8, <2>1, OpTracks DEF Destroys
  <2>3. journal' \in Journal /\ Leads(journal, journal', 0, 0)
    <3>1. journal' \in Journal
      BY <2>2, BornJournal
    <3>2. journal' = journal \/ Leads(journal, journal', 0, 0)
      BY <2>2, BornLeads
    <3> QED BY <1>2, <3>1, <3>2
  <2> QED BY <2>2, <2>3, EndingGrowing
<1> QED BY <1>3, <1>4, <1>5, <1>6, <1>7, <1>8

\* A frame is committed or reverted.
LEMMA FinishGrowing ==
  ASSUME Base, Grows, "StateGrowth" \in Kinds, NEW size \in CodeSizes \cup {0}, FrameFinish(size)
  PROVE  Growing
<1> DEFINE v == al'.tr["StateGrowth"]
           n == Len(frames)
<1>1. PICK a1, b, kind, g, cost : Finish(a1, b, kind, g, cost, size)
  BY FinishFacts
<1>2. /\ kind = "ok" => res.kind = "ok"
      /\ res'.kind = "ok" => journal' = journal
      /\ res'.saved = res.saved /\ res'.ran = res.ran
      /\ res'.kind = IF b.exceeded # "within" THEN exceeding_instruction_result(b) ELSE kind
  BY <1>1 DEF Finish, exceeding_instruction_result
<1>3. res'.kind = "ok" => kind = "ok"
  BY <1>2 DEF exceeding_instruction_result
<1>4. pc = "finish" /\ pc' = "return" /\ frames' = frames /\ MeterStep(0, 0)
  BY OpTracks DEF FrameFinish
<1>5. res.ran /\ journal \in Journal /\ Grown(journal) \in Int
  BY <1>4, BaseFacts, GrownTyped DEF Base, Shape
<1>6. res.saved = frames[n].saved
  BY <1>4, GrowthTracker DEF Tally
<1>7. Leads(journal, journal, 0, 0)
  <2>1. 0 \in Int
    OBVIOUS
  <2> QED BY <2>1, BornLeads
<1>8. /\ n \in Nat \ {0} /\ (\A i \in 1 .. n : Exact(v, i - 1, frames[i].saved))
      /\ res.kind = "ok" => Exact(v, n, journal)
  BY <1>4, <1>5, <1>7, MeterGrowing
<1> HIDE DEF v, n
<1>9. Exact(v, n - 1, res.saved)
  <2>1. n \in 1 .. n
    BY <1>8
  <2> QED BY <1>6, <1>8, <2>1
<1> QED BY <1>2, <1>3, <1>4, <1>5, <1>8, <1>9 DEF Growing, Tally, v, n

\* A result that pops a frame leaves the tracker with the growth of the journal.
LEMMA ReturnedGrowing ==
  ASSUME Base, Causes, Reverts, Grows, "StateGrowth" \in Kinds, pc \in {"return", "last"},
         NEW phase, NEW ret, Returned(al, res, phase, Len(frames) + Pending, ret),
         Len(frames) + Pending # 0
  PROVE  LET v == ret.al.tr["StateGrowth"]
             d == Len(frames) + Pending
         IN /\ \A i \in 1 .. d - 1 : Exact(v, i - 1, frames[i].saved)
            /\ Exact(v, d - 1, journal)
<1> DEFINE t == al.tr["StateGrowth"]
           v == ret.al.tr["StateGrowth"]
           d == Len(frames) + Pending
           n == Len(frames)
           kind == res.kind
<1>1. t \in Tracker /\ Len(t.frames) = d /\ Tally(t, frames, pc, res, journal) /\ n \in Nat
  BY GrowthTracker
<1>2. d \in Nat \ {0} /\ d - 1 <= n /\ (d = n \/ d = n + 1) /\ (pc = "last" => n = 0)
  BY BaseFacts DEF Pending, Base, Shape
<1>3. PICK m : Pops(al, m, kind = "ok") /\ ret.al.tr = m.tr
  BY DEF Returned
<1>4. Popped(t, v, kind = "ok")
  BY <1>3 DEF Pops
<1>5. Plain("StateGrowth", t)
  BY DEF Causes, Fit, Plains
<1>6. /\ \A i \in 1 .. n : Exact(t, i - 1, frames[i].saved)
      /\ Exact(t, d - 1, res.saved) /\ (kind = "ok" => Exact(t, d, journal))
  <2>1. \A i \in 1 .. n : Exact(t, i - 1, frames[i].saved)
    BY <1>1 DEF Tally
  <2>2. CASE res.ran
    <3>1. d = n /\ pc # "last"
      BY <1>2, <2>2 DEF Pending
    <3> HIDE DEF d
    <3> QED BY <1>1, <2>1, <2>2, <3>1 DEF Tally
  <2>3. CASE ~res.ran
    <3>1. d = n + 1
      BY <2>3 DEF Pending
    <3>2. d - 1 = n
      <4> HIDE DEF d, n
      <4> QED BY <1>1, <3>1
    <3> HIDE DEF d
    <3> QED BY <1>1, <2>1, <2>3, <3>1, <3>2 DEF Tally
  <2> QED BY <2>2, <2>3
<1>7. kind # "ok" => journal = res.saved \/ journal.uncounted
  BY DEF Reverts, Undoing
<1>8. journal \in Journal /\ res.saved \in Journal
  BY BaseFacts DEF Result
<1> HIDE DEF t, v, d, n, kind
<1>9. /\ \A i \in 0 .. d - 2 : \A x : Exact(t, i, x) => Exact(v, i, x)
      /\ kind = "ok" => \A x \in Journal : Exact(t, d, x) => Exact(v, d - 1, x)
      /\ kind # "ok" => \A x \in Journal : Exact(t, d - 1, x) => Exact(v, d - 1, x)
  BY <1>1, <1>2, <1>4, <1>5, GrowPopped
<1>10. Exact(v, d - 1, journal)
  <2>1. CASE journal.uncounted
    BY <2>1 DEF Exact
  <2>2. CASE ~journal.uncounted
    BY <1>6, <1>7, <1>8, <1>9, <2>2
  <2> QED BY <2>1, <2>2
<1>11. \A i \in 1 .. d - 1 : i \in 1 .. n /\ i - 1 \in 0 .. d - 2
  BY <1>1, <1>2
<1>12. \A i \in 1 .. d - 1 : Exact(v, i - 1, frames[i].saved)
  BY <1>6, <1>9, <1>11
<1> QED BY <1>10, <1>12 DEF v, d

\* A frame returns to its caller, or the first one ends.
LEMMA FrameReturnGrowing ==
  ASSUME Base, Causes, Reverts, Grows, "StateGrowth" \in Kinds, FrameReturn
  PROVE  Growing
<1>1. PICK ret, rest : Unwinds(ret, rest)
  BY ReturnSteps
<1> DEFINE v == al'.tr["StateGrowth"]
           d == Len(frames) + Pending
           n == Len(rest)
<1>2. /\ Returned(al, res, "return", d, ret) /\ al' = ret.al /\ d \in Nat \ {0} /\ n = d - 1
      /\ \A i \in 1 .. n : rest[i] = frames[i]
      /\ n = 0 => frames' = rest
      /\ n # 0 => Gave(rest, frames', Given(ret.res))
  BY <1>1 DEF Unwinds
<1>3. pc = "return" /\ journal' = journal
  BY DEF FrameReturn
<1>4. (\A i \in 1 .. d - 1 : Exact(v, i - 1, frames[i].saved)) /\ Exact(v, d - 1, journal)
  BY <1>2, <1>3, ReturnedGrowing
<1>5. pc' = "resume" \/ (pc' = "last" /\ n = 0 /\ res'.ran)
  BY <1>1, LastRan DEF Unwinds
<1>6. Len(frames') = n /\ \A i \in 1 .. n : frames'[i].saved = rest[i].saved
  <2>1. CASE n = 0
    BY <1>2, <2>1
  <2>2. CASE n # 0
    <3>1. /\ Len(frames') = n /\ frames'[n].saved = rest[n].saved
          /\ \A i \in 1 .. n - 1 : frames'[i] = rest[i]
      BY <1>2, <2>2 DEF Gave
    <3> HIDE DEF n, d
    <3> QED BY <1>2, <3>1
  <2> QED BY <2>1, <2>2
<1> HIDE DEF v, d, n
<1>7. \A i \in 1 .. n : Exact(v, i - 1, frames'[i].saved)
  BY <1>2, <1>4, <1>6
<1> QED BY <1>2, <1>3, <1>4, <1>5, <1>6, <1>7 DEF Growing, Tally, v

\* The transaction ends.
LEMMA LastGrowing ==
  ASSUME Base, Causes, Reverts, Grows, "StateGrowth" \in Kinds, LastFrameResult
  PROVE  Growing
<1>1. PICK ret : /\ Returned(al, res, "last", Pending, ret) /\ pc = "last"
                 /\ Pending = (IF res.ran THEN 0 ELSE 1) /\ al' = ret.al
  BY LastSteps
<1> DEFINE t == al.tr["StateGrowth"]
           v == al'.tr["StateGrowth"]
           d == Len(frames) + Pending
<1>2. frames = <<>> /\ frames' = <<>> /\ journal' = journal /\ pc' = "done" /\ Len(frames) = 0 /\ d = Pending
  BY <1>1, BaseFacts DEF LastFrameResult, Base, Shape, Pending
<1>3. Exact(v, 0, journal)
  <2>1. CASE res.ran
    <3>1. v = t
      BY <1>1, <2>1 DEF Returned
    <3>2. Tally(t, frames, pc, res, journal)
      BY GrowthTracker
    <3>3. Exact(t, 0, journal)
      BY <1>1, <2>1, <3>2 DEF Tally
    <3> QED BY <3>1, <3>3
  <2>2. CASE ~res.ran
    <3>1. d = 1 /\ Returned(al, res, "last", d, ret) /\ d # 0 /\ pc \in {"return", "last"}
      BY <1>1, <1>2, <2>2
    <3>2. Exact(ret.al.tr["StateGrowth"], d - 1, journal)
      BY <3>1, ReturnedGrowing
    <3>3. d - 1 = 0
      BY <3>1
    <3> HIDE DEF d
    <3> QED BY <1>1, <3>2, <3>3
  <2> QED BY <2>1, <2>2
<1>4. Len(frames') = 0 /\ \A i \in 1 .. 0 : FALSE
  BY <1>2
<1> HIDE DEF v
<1> QED BY <1>2, <1>3, <1>4 DEF Growing, Tally, v

\* A transaction begins with nothing grown and nothing counted.
LEMMA StartGrowing ==
  ASSUME Base, "StateGrowth" \in Kinds, NEW i \in IntrinsicCosts, NEW x \in Input, StartTx(i, x)
  PROVE  Growing
<1> DEFINE v == al'.tr["StateGrowth"]
<1>1. Fresh("StateGrowth", v) /\ Len(v.frames) = 0
  BY StartFresh
<1>2. al' \in AL /\ v \in Tracker
  BY StartTxBase, ALFields DEF Base, TypeOK, AL
<1>3. UsedUpTo(v)[0] = used(v.tx) /\ RefundUpTo(v)[0] = v.tx.refund
  BY <1>2, PrefixUsed, PrefixRefund
<1>4. used(v.tx) = 0 /\ v.tx.refund = 0
  BY <1>1 DEF Fresh, tx_charge
<1>5. Exact(v, 0, NoResult.saved)
  BY <1>3, <1>4, StartGrown DEF Exact
<1>6. frames' = <<>> /\ pc' = "init" /\ journal' = NoResult.saved /\ Len(frames') = 0
  BY DEF StartTx
<1>7. \A j \in 1 .. 0 : FALSE
  OBVIOUS
<1> HIDE DEF v
<1> QED BY <1>5, <1>6, <1>7 DEF Growing, Tally, v

\* Before the first transaction
LEMMA InitGrows == Init => Grows
<1> SUFFICES ASSUME Init, "StateGrowth" \in Kinds PROVE Tally(al.tr["StateGrowth"], frames, pc, res, journal)
  BY DEF Grows
<1> DEFINE v == al.tr["StateGrowth"]
           l == TxLimit["StateGrowth"]
<1>1. v = new_tracker(l) /\ l \in Nat
  BY LimitAssumption DEF Init
<1>2. v \in Tracker /\ v.tx = NewEntry(l, FALSE)
  BY <1>1, NewTracker
<1>3. UsedUpTo(v)[0] = used(v.tx) /\ RefundUpTo(v)[0] = v.tx.refund
  BY <1>2, PrefixUsed, PrefixRefund
<1>4. used(v.tx) = 0 /\ v.tx.refund = 0
  BY <1>1, <1>2, NewEntryFacts
<1>5. Exact(v, 0, NoResult.saved)
  BY <1>3, <1>4, StartGrown DEF Exact
<1>6. frames = <<>> /\ pc = "done" /\ journal = NoResult.saved /\ Len(frames) = 0
  BY DEF Init
<1>7. \A j \in 1 .. 0 : FALSE
  OBVIOUS
<1> HIDE DEF v
<1> QED BY <1>5, <1>6, <1>7 DEF Tally, v

\* Every step keeps the count exact.
LEMMA StepGrows == Base /\ Causes /\ Reverts /\ Grows /\ [Next]_vars => Grows'
<1> SUFFICES ASSUME Base, Causes, Reverts, Grows, [Next]_vars, "StateGrowth" \in Kinds PROVE Growing
  BY DEF Grows, Growing
<1>1. CASE UNCHANGED vars
  <2>1. al' = al /\ pc' = pc /\ res' = res /\ journal' = journal /\ frames' = frames
    BY <1>1 DEF vars
  <2>2. Tally(al.tr["StateGrowth"], frames, pc, res, journal)
    BY GrowthTracker
  <2> QED BY <2>1, <2>2 DEF Growing
<1>2. ASSUME Metering PROVE Growing
  BY <1>2, InitGrowing, RunsGrowing, ResumeGrowing, OpGrowing, FinishGrowing DEF Metering
<1> QED BY <1>1, <1>2, NextCases, StartGrowing, FrameReturnGrowing, LastGrowing

\* So it is an invariant.
LEMMA GrowsAlways ==
  Spec => [](Base /\ Flags /\ Causes /\ Nests /\ Reverts /\ Grows)
<1>1. Init => Grows
  BY InitGrows
<1>2. Base /\ Causes /\ Reverts /\ Grows /\ [Next]_vars => Grows'
  BY StepGrows
<1> QED BY <1>1, <1>2, RevertsAlways, PTL DEF Spec

\* State growth is exactly what the journal holds, slot by slot and account by account, at
\* any depth, however frames write, clear, fail and return (on_sstore, before_frame_init,
\* pop_frame), until SELFDESTRUCT brings an account to life or a frame fails behind revm's
\* commit; and again once a caller of theirs has failed.
THEOREM GrowthIsExact == Spec => []GrowthMatchesJournalIfCounted
<1>1. Base /\ Grows => GrowthMatchesJournalIfCounted
  <2> SUFFICES ASSUME Base, Grows, ~journal.uncounted, pc \in {"run", "done"}, "StateGrowth" \in Kinds
               PROVE  net_usage(al.tr["StateGrowth"]) = Grown(journal)
    BY DEF GrowthMatchesJournalIfCounted, GrowthMatchesJournal, Grown, Filled
  <2> DEFINE t == al.tr["StateGrowth"]
             n == Len(frames)
  <2>1. t \in Tracker /\ Len(t.frames) = n /\ Tally(t, frames, pc, res, journal)
    BY GrowthTracker
  <2>2. pc = "done" => n = 0
    BY BaseFacts DEF Base, Shape
  <2>3. Exact(t, n, journal)
    <3> HIDE DEF n
    <3> QED BY <2>1, <2>2 DEF Tally, n
  <2>4. Grown(journal) \in Nat
    BY BaseFacts, GrownTyped DEF Grown, Journal
  <2> HIDE DEF t, n
  <2>5. net_usage(t) = SatSub(UsedUpTo(t)[n], RefundUpTo(t)[n]) /\ UsedUpTo(t)[n] \in Nat /\ RefundUpTo(t)[n] \in Nat
    BY <2>1, NetUsage
  <2>6. UsedUpTo(t)[n] = RefundUpTo(t)[n] + Grown(journal)
    BY <2>3 DEF Exact
  <2> QED BY <2>4, <2>5, <2>6 DEF SatSub, t
<1> QED BY <1>1, GrowsAlways, PTL

-----------------------------------------------------------------------------
(* Gas *)

\* The gas of the frames 1 .. i, for each i
GasOf(fs)   == [i \in 0 .. Len(fs) |-> IF i = 0 THEN 0 ELSE fs[i].gas]
GasUpTo(fs) == CHOOSE g : g \in Running(Len(fs), GasOf(fs))

\* These sums are naturals and grow frame by frame.
LEMMA GasSums ==
  ASSUME NEW fs \in Seq(Frame)
  PROVE  /\ Len(fs) \in Nat
         /\ GasUpTo(fs) \in [0 .. Len(fs) -> Nat]
         /\ GasUpTo(fs)[0] = 0
         /\ \A i \in 1 .. Len(fs) : fs[i].gas \in Nat /\ GasUpTo(fs)[i] = GasUpTo(fs)[i - 1] + fs[i].gas
<1> DEFINE N == Len(fs)
<1>1. N \in Nat /\ \A i \in 1 .. N : fs[i].gas \in Nat
  <2>1. N \in Nat /\ \A i \in 1 .. N : fs[i] \in Frame
    OBVIOUS
  <2>2. \A f \in Frame : f.gas \in Nat
    BY DEF Frame
  <2> HIDE DEF N
  <2> QED BY <2>1, <2>2
<1>2. GasOf(fs) = [i \in 0 .. N |-> IF i = 0 THEN 0 ELSE fs[i].gas]
  BY DEF GasOf
<1>3. GasUpTo(fs) = CHOOSE g : g \in Running(N, GasOf(fs))
  BY DEF GasUpTo
<1> HIDE DEF N
<1>4. GasOf(fs) \in [0 .. N -> Nat] /\ GasOf(fs)[0] = 0 /\ \A i \in 1 .. N : GasOf(fs)[i] = fs[i].gas
  BY <1>1, <1>2
<1>5. GasUpTo(fs) \in Running(N, GasOf(fs))
  BY <1>1, <1>3, <1>4, RunningExists
<1>6. /\ GasUpTo(fs) \in [0 .. N -> Nat]
      /\ GasUpTo(fs)[0] = 0
      /\ \A i \in 1 .. N : GasUpTo(fs)[i] = GasUpTo(fs)[i - 1] + fs[i].gas
  BY <1>4, <1>5 DEF Running
<1> QED BY <1>1, <1>6 DEF N

\* Frames with the same gas have the same sums.
LEMMA GasAgree ==
  ASSUME NEW fs \in Seq(Frame), NEW gs \in Seq(Frame), NEW n \in Nat,
         n <= Len(fs), n <= Len(gs), \A i \in 1 .. n : fs[i].gas = gs[i].gas
  PROVE  \A i \in 0 .. n : GasUpTo(fs)[i] = GasUpTo(gs)[i]
<1> DEFINE F == GasUpTo(fs)
           G == GasUpTo(gs)
           a == GasOf(fs)
<1>1. /\ Len(fs) \in Nat /\ F[0] = 0 /\ \A i \in 1 .. Len(fs) : F[i] = F[i - 1] + fs[i].gas
      /\ Len(gs) \in Nat /\ G[0] = 0 /\ \A i \in 1 .. Len(gs) : G[i] = G[i - 1] + gs[i].gas
  BY GasSums
<1> HIDE DEF F, G
<1>2. \A i \in 1 .. n : i \in 1 .. Len(fs) /\ i \in 1 .. Len(gs) /\ a[i] = fs[i].gas
  BY <1>1 DEF GasOf
<1> HIDE DEF a
<1>3. Adds(n, F, a) /\ Adds(n, G, a) /\ F[0] = G[0]
  BY <1>1, <1>2 DEF Adds
<1>4. \A i \in 0 .. n : F[i] = G[i]
  BY <1>3, RunningAgree
<1> QED BY <1>4 DEF F, G

\* A frame is pushed with gas g, or the top frame's gas becomes g.
LEMMA GasPushed ==
  ASSUME NEW fs \in Seq(Frame), NEW gs \in Seq(Frame), Len(gs) = Len(fs) + 1,
         \A i \in 1 .. Len(fs) : gs[i] = fs[i]
  PROVE  GasUpTo(gs)[Len(gs)] = GasUpTo(fs)[Len(fs)] + gs[Len(gs)].gas
<1> DEFINE n == Len(fs)
           N == Len(gs)
<1>1. n \in Nat /\ N = n + 1 /\ \A i \in 1 .. n : gs[i].gas = fs[i].gas
  BY GasSums
<1>2. \A i \in 1 .. N : GasUpTo(gs)[i] = GasUpTo(gs)[i - 1] + gs[i].gas
  BY GasSums
<1> HIDE DEF n, N
<1>3. N \in 1 .. N /\ N - 1 = n /\ n \in 0 .. n /\ n <= N
  BY <1>1
<1>4. GasUpTo(gs)[n] = GasUpTo(fs)[n]
  BY <1>1, <1>3, GasAgree DEF n, N
<1> QED BY <1>2, <1>3, <1>4 DEF n, N

\* The top frame has other gas.
LEMMA GasTop ==
  ASSUME NEW fs \in Seq(Frame), NEW gs \in Seq(Frame), Len(gs) = Len(fs), Len(fs) # 0,
         \A i \in 1 .. Len(fs) - 1 : gs[i].gas = fs[i].gas
  PROVE  /\ GasUpTo(gs)[Len(fs)] = GasUpTo(fs)[Len(fs) - 1] + gs[Len(fs)].gas
         /\ GasUpTo(fs)[Len(fs)] = GasUpTo(fs)[Len(fs) - 1] + fs[Len(fs)].gas
         /\ GasUpTo(fs)[Len(fs) - 1] \in Nat /\ fs[Len(fs)].gas \in Nat /\ gs[Len(fs)].gas \in Nat
<1> DEFINE n == Len(fs)
<1>1. n \in Nat \ {0} /\ Len(gs) = n /\ \A i \in 1 .. n - 1 : gs[i].gas = fs[i].gas
  BY GasSums
<1>2. /\ \A i \in 1 .. n : gs[i].gas \in Nat /\ GasUpTo(gs)[i] = GasUpTo(gs)[i - 1] + gs[i].gas
      /\ \A i \in 1 .. n : fs[i].gas \in Nat /\ GasUpTo(fs)[i] = GasUpTo(fs)[i - 1] + fs[i].gas
      /\ GasUpTo(fs) \in [0 .. n -> Nat]
  BY GasSums
<1>a. n = Len(fs)
  OBVIOUS
<1> HIDE DEF n
<1>3. n \in 1 .. n /\ n - 1 \in Nat /\ n - 1 \in 0 .. n - 1 /\ n - 1 \in 0 .. n /\ n - 1 <= n
  BY <1>1
<1>4. GasUpTo(gs)[n - 1] = GasUpTo(fs)[n - 1]
  BY <1>a, <1>1, <1>3, GasAgree
<1>5. GasUpTo(fs)[n - 1] \in Nat
  BY <1>2, <1>3
<1> QED BY <1>2, <1>3, <1>4, <1>5 DEF n

-----------------------------------------------------------------------------
\* The gas a result on its way back still holds: none when it was rescued.
Due(a, r) == IF a.exceeded = "tx" THEN 0 ELSE r.gas

\* The gas that nobody has paid yet and that is not rescued, in each phase
Left(a, fs, p, g, r) ==
  LET n == Len(fs)
  IN CASE p = "init"              -> GasUpTo(fs)[n] + g
       [] p \in {"resume", "run"} -> GasUpTo(fs)[n]
       [] p = "finish"            -> GasUpTo(fs)[n - 1] + r.gas
       [] p = "return"            -> GasUpTo(fs)[IF r.ran THEN n - 1 ELSE n] + Due(a, r)
       [] OTHER                   -> Due(a, r)

\* The account: what is left, what was rescued and what was paid make up the gas limit.
Conserved ==
  /\ pc # "done" => Left(al, frames, pc, req.gas, res) + al.rescued + (spent + burned + lost) = GasLimit
  /\ GasIsAccountedFor
\* What a step other than the last one does to it
Conserving ==
  pc' # "done" /\ Left(al', frames', pc', req'.gas, res') + al'.rescued + (spent' + burned' + lost') = GasLimit

\* No flag is raised by the return of a frame: before Rex4 the usage up to each frame was
\* within the limits when the next one began.
Quiet ==
  /\ ~Enabled(REX4) /\ al.exceeded = "within" =>
       \A k \in Kinds : k # "ComputeGas" => Below(k, al.tr[k])
  /\ spec \in MegaSpecId

\* The account is balanced when of g, d is still due, r more was rescued, c was spent and
\* q was lost.
LEMMA Balance ==
  ASSUME NEW G \in Nat, NEW g, NEW d \in Nat, NEW c \in Nat, NEW R \in Nat, NEW r \in Nat,
         NEW s \in Nat, NEW b \in Nat, NEW l \in Nat, NEW q \in Nat, NEW T,
         g + R = d + c + r + q, G + g + R + (s + b + l) = T, g \in Nat
  PROVE  G + d + r + ((s + c) + b + (l + q)) = T
OBVIOUS

\* The same when c is spent of the gas of the top frame and q is handed on.
LEMMA BalancePaid ==
  ASSUME NEW G \in Nat, NEW e \in Nat, NEW c \in Nat, NEW q \in Nat, NEW R \in Nat,
         NEW s \in Nat, NEW b \in Nat, NEW l \in Nat, NEW T,
         G + (e + c + q) + R + (s + b + l) = T
  PROVE  /\ G + e + q + R + ((s + c) + b + l) = T
         /\ G + e + R + ((s + c) + b + (l + q)) = T
OBVIOUS

\* A frame begins and ends at once; c of its gas was spent, and l was lost.
LEMMA EndConserving ==
  ASSUME Base, Conserved, pc = "init", NEW kind, NEW g \in Nat, NEW late, EndAtOnce(kind, g, late),
         NEW c \in Nat, req.gas = g + c, al' \in AL,
         NEW l \in Nat, l = 0 \/ (l = g /\ al'.exceeded = "tx"),
         al'.rescued = IF al'.exceeded = "tx" /\ l = 0 THEN al.rescued + g ELSE al.rescued,
         spent' = spent + c, burned' = burned, lost' = lost + l
  PROVE  Conserving
<1> DEFINE n == Len(frames)
           G == GasUpTo(frames)[n]
<1>1. /\ frames \in Seq(Frame) /\ al.rescued \in Nat /\ spent \in Nat /\ burned \in Nat /\ lost \in Nat /\ n \in Nat
  BY BaseFacts, ALFields
<1>2. G \in Nat /\ (frames = <<>> => G = 0)
  <2>1. GasUpTo(frames) \in [0 .. n -> Nat] /\ GasUpTo(frames)[0] = 0
    BY <1>1, GasSums
  <2>2. frames = <<>> => n = 0
    OBVIOUS
  <2>3. n \in 0 .. n
    BY <1>1
  <2> HIDE DEF n
  <2> QED BY <2>1, <2>2, <2>3
<1>3. G + req.gas + al.rescued + (spent + burned + lost) = GasLimit
  BY DEF Conserved, Left
<1>4. /\ frames' = frames /\ res'.gas = g /\ ~res'.ran /\ pc' = IF frames = <<>> THEN "last" ELSE "return"
  BY DEF EndAtOnce
<1>5. Left(al', frames', pc', req'.gas, res') = G + Due(al', res')
  <2> HIDE DEF G
  <2>0. Due(al', res') \in Nat
    BY <1>4 DEF Due
  <2>1. CASE frames = <<>>
    <3>1. Left(al', frames', pc', req'.gas, res') = Due(al', res') /\ G = 0
      BY <1>2, <1>4, <2>1 DEF Left
    <3> QED BY <2>0, <3>1
  <2>2. CASE frames # <<>>
    <3>1. Left(al', frames', pc', req'.gas, res')
            = GasUpTo(frames)[Len(frames)] + Due(al', res')
      BY <1>4, <2>2 DEF Left
    <3> QED BY <3>1 DEF G
  <2> QED BY <2>1, <2>2
<1>6. Due(al', res') + al'.rescued + l = al.rescued + g
  BY <1>1, <1>4 DEF Due
<1>7. Due(al', res') \in Nat /\ al'.rescued \in Nat
  BY <1>4, ALFields DEF Due
<1>8. pc' # "done"
  BY <1>4
<1> DEFINE D == Due(al', res')
           R == al.rescued
           r == al'.rescued
           q == req.gas
<1>9. /\ D \in Nat /\ R \in Nat /\ r \in Nat /\ q \in Nat
      /\ q = g + c /\ D + r + l = R + g /\ G + q + R + (spent + burned + lost) = GasLimit
  BY <1>1, <1>3, <1>6, <1>7, BaseFacts
<1> HIDE DEF G, n, D, R, r, q
<1>10. q + R = D + c + r + l
  BY <1>9
<1>11. G + D + r + ((spent + c) + burned + (lost + l)) = GasLimit
  BY <1>1, <1>2, <1>9, <1>10, Balance
<1> QED BY <1>5, <1>8, <1>11 DEF Conserving, D, r

\* The steps that begin a frame
LEMMA InitConserving ==
  ASSUME Base, Conserved, Quiet
  PROVE  /\ \A k \in {"ok", "revert"} : Intercept(k) => Conserving
         /\ InitExceeds => Conserving
         /\ \A k \in {"ok", "revert", "halt"} : InitEnds(k) => Conserving
         /\ \A k \in {"ok", "revert", "halt"}, c \in PrecompileCosts : InitPrecompile(k, c) => Conserving
<1> DEFINE a == before_frame_init(al, req.input)
           n == Len(frames)
<1>1. /\ req.gas \in Nat /\ req.gas = req.gas + 0 /\ spent = spent + 0 /\ lost = lost + 0
      /\ al \in AL /\ n \in Nat /\ req.input \in Input /\ 0 \in Nat
  BY BaseFacts
<1>2. pc = "init" => Deep(al, n)
  BY BaseFacts
<1>3. pc = "init" => Steady(al, a, n + 1) /\ Steady(al, push_empty_frame(al), n + 1)
                     /\ push_empty_frame(al).exceeded = al.exceeded
  BY <1>1, <1>2, InitSteady
<1>4. ASSUME pc = "init", NEW g \in Nat
      PROVE  LET b == try_rescue_gas(a, g)
             IN b \in AL /\ b.rescued = IF b.exceeded = "tx" THEN al.rescued + g ELSE al.rescued
  <2>1. a \in AL /\ Deep(a, n + 1) /\ a.rescued = al.rescued
    BY <1>3, <1>4 DEF Steady
  <2> HIDE DEF a, n
  <2> QED BY <2>1, RescueFacts
<1>5. ASSUME NEW k \in {"ok", "revert"}, Intercept(k) PROVE Conserving
  <2> DEFINE l == IF al.exceeded = "tx" THEN req.gas ELSE 0
  <2>1. /\ pc = "init" /\ EndAtOnce(k, req.gas, FALSE) /\ al' = push_empty_frame(al)
        /\ spent' = spent /\ burned' = burned /\ lost' = lost + l
    BY <1>1, <1>5 DEF Intercept
  <2>2. al' \in AL /\ al'.rescued = al.rescued /\ al'.exceeded = al.exceeded
    BY <1>3, <2>1 DEF Steady
  <2>3. l \in Nat /\ (l = 0 \/ (l = req.gas /\ al'.exceeded = "tx"))
    BY <1>1, <2>2
  <2>4. al'.rescued = IF al'.exceeded = "tx" /\ l = 0 THEN al.rescued + req.gas ELSE al.rescued
    <3>1. al.rescued \in Nat
      BY <1>1, ALFields
    <3>2. al'.exceeded = "tx" => l = req.gas
      BY <2>2
    <3> HIDE DEF l
    <3>3. CASE al'.exceeded = "tx" /\ l = 0
      <4>2. l = req.gas /\ l = 0
        BY <3>2, <3>3
      <4>3. req.gas = 0
        BY <4>2
      <4>1. al.rescued + req.gas = al.rescued
        BY <3>1, <4>3
      <4> QED BY <2>2, <3>3, <4>1
    <3>4. CASE ~(al'.exceeded = "tx" /\ l = 0)
      BY <2>2, <3>4
    <3> QED BY <3>3, <3>4
  <2> HIDE DEF l
  <2> QED BY <1>1, <2>1, <2>2, <2>3, <2>4, EndConserving
<1>6. ASSUME InitExceeds PROVE Conserving
  <2>1. /\ pc = "init" /\ (\E k : EndAtOnce(k, req.gas, FALSE)) /\ al' = try_rescue_gas(a, req.gas)
        /\ spent' = spent /\ burned' = burned /\ lost' = lost
    BY <1>6 DEF InitExceeds, ghosts
  <2> HIDE DEF a
  <2>2. al' \in AL /\ al'.rescued = IF al'.exceeded = "tx" THEN al.rescued + req.gas ELSE al.rescued
    BY <1>1, <1>4, <2>1
  <2> QED BY <1>1, <2>1, <2>2, EndConserving
<1>7. ASSUME NEW k \in {"ok", "revert", "halt"}, InitEnds(k) PROVE Conserving
  <2>1. /\ pc = "init" /\ EndAtOnce(k, req.gas, FALSE) /\ al' = try_rescue_gas(a, req.gas)
        /\ spent' = spent /\ burned' = burned /\ lost' = lost
    BY <1>7 DEF InitEnds, ghosts
  <2> HIDE DEF a
  <2>2. al' \in AL /\ al'.rescued = IF al'.exceeded = "tx" THEN al.rescued + req.gas ELSE al.rescued
    BY <1>1, <1>4, <2>1
  <2> QED BY <1>1, <2>1, <2>2, EndConserving
<1>8. ASSUME NEW k \in {"ok", "revert", "halt"}, NEW c \in PrecompileCosts, InitPrecompile(k, c) PROVE Conserving
  <2> DEFINE b == record_compute_gas(a, c)
             g == req.gas - c
  <2>1. /\ pc = "init" /\ (\E late : EndAtOnce(k, g, late)) /\ al' = try_rescue_gas(b, g) /\ c <= req.gas
        /\ spent' = spent + c /\ burned' = burned /\ lost' = lost
    BY <1>8 DEF InitPrecompile
  <2>2. c \in Nat /\ g \in Nat /\ req.gas = g + c
    <3>1. c \in Nat
      BY Costs
    <3> QED BY <1>1, <2>1, <3>1
  <2>3. a \in AL /\ Deep(a, n + 1) /\ a.rescued = al.rescued /\ n + 1 \in Nat
    BY <1>1, <1>3, <2>1 DEF Steady
  <2> HIDE DEF a, n, g
  <2>4. b \in AL /\ Deep(b, n + 1) /\ b.rescued = al.rescued
    BY <2>2, <2>3, GasSteady DEF Steady
  <2> HIDE DEF b
  <2>5. al' \in AL /\ al'.rescued = IF al'.exceeded = "tx" THEN al.rescued + g ELSE al.rescued
    BY <2>1, <2>2, <2>4, RescueFacts
  <2>6. al'.rescued = IF al'.exceeded = "tx" /\ 0 = 0 THEN al.rescued + g ELSE al.rescued
    BY <2>5
  <2>7. PICK late : EndAtOnce(k, g, late)
    BY <2>1
  <2>8. lost' = lost + 0
    BY <1>1, <2>1
  <2> QED BY <1>1, <2>1, <2>2, <2>5, <2>6, <2>7, <2>8, EndConserving
<1> QED BY <1>5, <1>6, <1>7, <1>8

\* The gas of the top frame and of those below it, when a frame executes or resumes
LEMMA TopGas ==
  ASSUME Base, Conserved, pc \in {"run", "resume"}
  PROVE  LET n == Len(frames)
         IN /\ n \in Nat \ {0} /\ frames \in Seq(Frame) /\ frames # <<>>
            /\ GasUpTo(frames)[n - 1] \in Nat /\ top_frame.gas \in Nat /\ al.rescued \in Nat
            /\ GasUpTo(frames)[n - 1] + top_frame.gas + al.rescued + (spent + burned + lost) = GasLimit
<1> DEFINE n == Len(frames)
<1>1. n \in Nat \ {0} /\ frames \in Seq(Frame) /\ frames # <<>> /\ al.rescued \in Nat
  BY BaseFacts, ALFields DEF Base, Shape
<1>2. GasUpTo(frames)[n] + al.rescued + (spent + burned + lost) = GasLimit
  BY DEF Conserved, Left
<1>3. /\ GasUpTo(frames)[n] = GasUpTo(frames)[n - 1] + frames[n].gas
      /\ GasUpTo(frames)[n - 1] \in Nat /\ frames[n].gas \in Nat
  BY <1>1, GasTop
<1> HIDE DEF n
<1> QED BY <1>1, <1>2, <1>3 DEF n, top_frame

\* What the frames below hold is untouched when the top frame is left with e.
LEMMA PaidTop ==
  ASSUME NEW fs \in Seq(Frame), fs # <<>>, NEW e \in Nat
  PROVE  GasUpTo([fs EXCEPT ![Len(fs)].gas = e])[Len(fs)] = GasUpTo(fs)[Len(fs) - 1] + e
<1> DEFINE n == Len(fs)
           gs == [fs EXCEPT ![n].gas = e]
<1>1. n \in Nat \ {0} /\ fs[n] \in Frame
  OBVIOUS
<1>2. [fs[n] EXCEPT !.gas = e] \in Frame /\ [fs[n] EXCEPT !.gas = e].gas = e
  BY <1>1 DEF Frame
<1>3. gs = [fs EXCEPT ![n] = [fs[n] EXCEPT !.gas = e]]
  OBVIOUS
<1>4. gs \in Seq(Frame) /\ Len(gs) = n
  BY <1>1, <1>2, <1>3
<1>5. gs[n] = [fs[n] EXCEPT !.gas = e]
  BY <1>1, <1>3
<1>6. \A i \in 1 .. n - 1 : gs[i] = fs[i]
  BY <1>1, <1>3
<1> HIDE DEF gs
<1>7. GasUpTo(gs)[n] = GasUpTo(fs)[n - 1] + gs[n].gas
  BY <1>1, <1>4, <1>6, GasTop
<1> QED BY <1>2, <1>5, <1>7 DEF gs

\* The top frame pays c and forwards q.
LEMMA PayConserving ==
  ASSUME Base, Conserved, pc = "run", NEW e \in Nat, NEW c \in Nat, NEW q \in Nat,
         top_frame.gas = e + c + q, frames' = [frames EXCEPT ![Len(frames)].gas = e],
         al'.rescued = al.rescued, spent' = spent + c, burned' = burned, lost' = lost,
         (pc' = "run" /\ q = 0) \/ (pc' = "init" /\ req'.gas = q)
  PROVE  Conserving
<1> DEFINE n == Len(frames)
           B == GasUpTo(frames)[n - 1]
           R == al.rescued
           G == GasUpTo(frames')[n]
           L == Left(al', frames', pc', req'.gas, res')
<1>1. /\ n \in Nat \ {0} /\ frames \in Seq(Frame) /\ frames # <<>> /\ B \in Nat /\ R \in Nat
      /\ B + top_frame.gas + R + (spent + burned + lost) = GasLimit
  BY TopGas
<1>2. spent \in Nat /\ burned \in Nat /\ lost \in Nat
  BY BaseFacts
<1>3. frames' \in Seq(Frame) /\ Len(frames') = n
  BY <1>1, PayFrame
<1>5. G = B + e
  BY <1>1, PaidTop
<1>6. L = G + q
  <2>1. CASE pc' = "init"
    BY <1>3, <2>1 DEF Left
  <2>2. CASE pc' = "run"
    <3>1. L = G /\ q = 0
      BY <1>3, <2>2 DEF Left
    <3> HIDE DEF L, G, n, B
    <3> QED BY <1>1, <1>5, <3>1
  <2> QED BY <2>1, <2>2
<1> HIDE DEF n, B, R, G, L
<1>7. B + (e + c + q) + R + (spent + burned + lost) = GasLimit
  BY <1>1
<1>8. B + e + q + R + ((spent + c) + burned + lost) = GasLimit
  <2>1. B \in Nat /\ R \in Nat /\ e \in Nat /\ c \in Nat /\ q \in Nat
    BY <1>1
  <2> QED BY ONLY <1>2, <1>7, <2>1, BalancePaid
<1>9. L + R + ((spent + c) + burned + lost) = GasLimit
  BY <1>5, <1>6, <1>8
<1> QED BY <1>9 DEF Conserving, L, R

\* The top frame ends with gas e, after it paid c and lost q.
LEMMA EndingConserving ==
  ASSUME Base, Conserved, pc \in {"run", "resume"}, NEW e \in Nat, NEW c \in Nat, NEW q \in Nat,
         top_frame.gas = e + c + q, NEW kind, NEW output, ReturnWith(kind, e, output),
         al'.rescued = al.rescued, spent' = spent + c, burned' = burned, lost' = lost + q
  PROVE  Conserving
<1> DEFINE n == Len(frames)
           B == GasUpTo(frames)[n - 1]
           R == al.rescued
           L == Left(al', frames', pc', req'.gas, res')
<1>1. /\ n \in Nat \ {0} /\ B \in Nat /\ R \in Nat
      /\ B + top_frame.gas + R + (spent + burned + lost) = GasLimit
  BY TopGas
<1>2. spent \in Nat /\ burned \in Nat /\ lost \in Nat
  BY BaseFacts
<1>3. frames' = frames /\ pc' = "finish" /\ res'.gas = e
  BY DEF ReturnWith
<1>4. L = B + e
  BY <1>3 DEF Left
<1> HIDE DEF n, B, R, L
<1>5. B + (e + c + q) + R + (spent + burned + lost) = GasLimit
  BY <1>1
<1>6. B + e + R + ((spent + c) + burned + (lost + q)) = GasLimit
  BY <1>1, <1>2, <1>5
<1>7. L + R + ((spent + c) + burned + (lost + q)) = GasLimit
  BY <1>4, <1>6
<1> QED BY <1>3, <1>7 DEF Conserving, L, R

\* A frame begins to run.
LEMMA RunsConserving ==
  ASSUME Base, Conserved, InitRuns
  PROVE  Conserving
<1> DEFINE n == Len(frames)
           G == GasUpTo(frames)[n]
           H == GasUpTo(frames')[Len(frames')]
           f == [create |-> req.input = "create", gas |-> req.gas, saved |-> journal]
           a == before_frame_init(al, req.input)
           L == Left(al', frames', pc', req'.gas, res')
<1>1. /\ pc = "init" /\ pc' = "resume" /\ frames' = Append(frames, f) /\ al' = after_frame_init(a, req.input)
      /\ spent' = spent /\ burned' = burned /\ lost' = lost
  BY DEF InitRuns, ghosts
<1>2. /\ frames \in Seq(Frame) /\ req.gas \in Nat /\ journal \in Journal /\ al \in AL
      /\ Deep(al, n) /\ n \in Nat /\ req.input \in Input
  BY <1>1, BaseFacts
<1>3. f \in Frame
  BY <1>2 DEF Frame
<1>4. frames' \in Seq(Frame) /\ Len(frames') = n + 1 /\ frames'[n + 1] = f /\ \A i \in 1 .. n : frames'[i] = frames[i]
  BY <1>1, <1>2, <1>3
<1>5. H = G + req.gas
  <2>1. f.gas = req.gas
    OBVIOUS
  <2> HIDE DEF f
  <2> QED BY <1>2, <1>4, <2>1, GasPushed
<1>6. G + req.gas + al.rescued + (spent + burned + lost) = GasLimit
  BY <1>1 DEF Conserved, Left
<1>7. al'.rescued = al.rescued
  <2>1. Steady(al, a, n + 1)
    BY <1>2, InitSteady
  <2> HIDE DEF a, n
  <2>2. n + 1 \in Nat /\ n + 1 # 0
    BY <1>2
  <2>3. Steady(a, after_frame_init(a, req.input), n + 1)
    BY <1>2, <2>1, <2>2, InitSteady DEF Steady
  <2> QED BY <1>1, <2>1, <2>3 DEF Steady
<1>8. L = H
  BY <1>1 DEF Left
<1>9. L + al'.rescued + (spent' + burned' + lost') = GasLimit
  <2> HIDE DEF L, H, G, f, a, n
  <2> QED BY <1>1, <1>5, <1>6, <1>7, <1>8
<1> QED BY <1>1, <1>9 DEF Conserving

\* An opcode
LEMMA ExecutedConserving ==
  ASSUME Base, Conserved, NEW c \in Nat, CanPay(c), NEW a, Executed(a, c), a.rescued = al.rescued
  PROVE  Conserving
<1> DEFINE e == top_frame.gas - c
<1>1. pc = "run" /\ al' = a /\ spent' = spent + c /\ burned' = burned /\ lost' = lost /\ c <= top_frame.gas
  BY DEF Executed, CanPay
<1>2. top_frame.gas \in Nat /\ lost \in Nat
  BY <1>1, TopGas, BaseFacts
<1>3. e \in Nat /\ top_frame.gas = e + c + 0 /\ lost' = lost + 0
  <2> DEFINE g == top_frame.gas
  <2>1. g \in Nat /\ c <= g /\ e = g - c
    BY <1>1, <1>2
  <2> HIDE DEF g, e
  <2>2. e \in Nat /\ g = e + c + 0 /\ lost' = lost + 0
    BY <1>1, <1>2, <2>1
  <2> QED BY <2>2 DEF g
<1>4. CASE a.exceeded # "within"
  <2>1. \E kind : ReturnWith(kind, e, TRUE)
    BY <1>4 DEF Executed, Return
  <2> HIDE DEF e
  <2> QED BY <1>1, <1>3, <2>1, EndingConserving
<1>5. CASE a.exceeded = "within"
  <2>1. frames' = [frames EXCEPT ![Len(frames)].gas = e] /\ pc' = "run"
    BY <1>1, <1>5 DEF Executed, top_frame
  <2> HIDE DEF e
  <2> QED BY <1>1, <1>3, <2>1, PayConserving
<1> QED BY <1>4, <1>5

\* The steps of the top frame
LEMMA OpConserving ==
  ASSUME Base, Conserved
  PROVE  /\ Resume => Conserving
         /\ \A c \in OpCosts : PlainOp(c) \/ VolatileOp(c) => Conserving
         /\ \A c \in OpCosts, s \in Slot, v \in {0, 1} : SStore(c, s, v) => Conserving
         /\ \A c \in OpCosts, size \in LogSizes : Log(c, size) => Conserving
         /\ \A c \in OpCosts, g \in ForwardGas, x \in Input : CallOp(c, g, x) => Conserving
         /\ \A k \in {"ok", "revert", "halt"} : EndFrame(k) => Conserving
         /\ \A c \in OpCosts, m \in {0, 1}, d \in BOOLEAN : SelfDestruct(c, m, d) => Conserving
<1>1. ASSUME NEW c \in Nat, pc = "run"
      PROVE  LET a == record_compute_gas(al, c)
             IN /\ a.rescued = al.rescued /\ a \in AL
                /\ \A x \in Nat : set_compute_gas_limit(a, x).rescued = al.rescued
                /\ \A s \in Slot, v \in {0, 1} :
                     on_sstore(a, Original[s], journal.store[s], v).rescued = al.rescued
                /\ \A x \in Nat : on_log(a, x).rescued = al.rescued
  <2> DEFINE a == record_compute_gas(al, c)
             n == Len(frames)
  <2>1. /\ Steady(al, a, n)
        /\ \A s \in Slot, v \in {0, 1} : Steady(a, on_sstore(a, Original[s], journal.store[s], v), n)
        /\ \A x \in Nat : Steady(a, on_log(a, x), n)
    BY <1>1, OpSteady
  <2>2. a \in AL /\ Deep(a, n) /\ a.rescued = al.rescued
    BY <2>1 DEF Steady
  <2> HIDE DEF a, n
  <2>3. \A x \in Nat : set_compute_gas_limit(a, x).rescued = al.rescued
    BY <2>2, DetainFacts
  <2>4. \A s \in Slot, v \in {0, 1} : on_sstore(a, Original[s], journal.store[s], v).rescued = al.rescued
    BY <2>1, <2>2 DEF Steady
  <2>5. \A x \in Nat : on_log(a, x).rescued = al.rescued
    BY <2>1, <2>2 DEF Steady
  <2> QED BY <2>2, <2>3, <2>4, <2>5 DEF a
<1>2. \A c \in OpCosts : c \in Nat
  BY Costs
<1>3. ASSUME Resume PROVE Conserving
  <2> DEFINE a == check_limit(al)
             g == top_frame.gas
             n == Len(frames)
  <2>1. /\ pc = "resume" /\ al' = a /\ spent' = spent /\ burned' = burned /\ lost' = lost
        /\ (pc' = "run" /\ frames' = frames) \/ \E kind : ReturnWith(kind, g, TRUE)
    BY <1>3 DEF Resume, Return, ghosts
  <2>2. al'.rescued = al.rescued
    BY <2>1, BaseFacts, CheckFacts
  <2>3. g \in Nat /\ spent \in Nat /\ lost \in Nat
    BY <2>1, TopGas, BaseFacts
  <2>4. CASE \E kind : ReturnWith(kind, g, TRUE)
    <3>1. g = g + 0 + 0 /\ spent' = spent + 0 /\ lost' = lost + 0
      <4> HIDE DEF g
      <4> QED BY <2>1, <2>3
    <3> HIDE DEF a
    <3> QED BY <2>1, <2>2, <2>3, <2>4, <3>1, EndingConserving
  <2>5. CASE pc' = "run" /\ frames' = frames
    <3>1. GasUpTo(frames)[n] + al.rescued + (spent + burned + lost) = GasLimit
      BY <2>1 DEF Conserved, Left
    <3>2. Left(al', frames', pc', req'.gas, res') = GasUpTo(frames)[n]
      BY <2>5 DEF Left
    <3> HIDE DEF n, a
    <3> QED BY <2>1, <2>2, <2>5, <3>1, <3>2 DEF Conserving
  <2> QED BY <2>1, <2>4, <2>5
<1>4. ASSUME NEW c \in OpCosts, PlainOp(c) \/ VolatileOp(c) PROVE Conserving
  <2> DEFINE a == record_compute_gas(al, c)
             b == set_compute_gas_limit(a, VolatileCap)
  <2>1. c \in Nat /\ CanPay(c) /\ pc = "run" /\ (Executed(a, c) \/ Executed(b, c))
    BY <1>2, <1>4 DEF PlainOp, VolatileOp, CanPay
  <2>2. a.rescued = al.rescued /\ b.rescued = al.rescued
    BY <1>1, <2>1, Costs
  <2> HIDE DEF a, b
  <2> QED BY <2>1, <2>2, ExecutedConserving
<1>5. ASSUME NEW c \in OpCosts, NEW s \in Slot, NEW v \in {0, 1}, SStore(c, s, v) PROVE Conserving
  <2> DEFINE a == record_compute_gas(al, c)
             b == on_sstore(a, Original[s], journal.store[s], v)
  <2>1. c \in Nat /\ CanPay(c) /\ pc = "run" /\ (Executed(a, c) \/ Executed(b, c))
    BY <1>2, <1>5 DEF SStore, CanPay
  <2>2. a.rescued = al.rescued /\ b.rescued = al.rescued
    BY <1>1, <2>1
  <2> HIDE DEF a, b
  <2> QED BY <2>1, <2>2, ExecutedConserving
<1>6. ASSUME NEW c \in OpCosts, NEW size \in LogSizes, Log(c, size) PROVE Conserving
  <2> DEFINE a == record_compute_gas(al, c)
             b == on_log(a, size)
  <2>1. c \in Nat /\ CanPay(c) /\ pc = "run" /\ (Executed(a, c) \/ Executed(b, c)) /\ size \in Nat
    BY <1>2, <1>6, Costs DEF Log, CanPay
  <2>2. a.rescued = al.rescued /\ b.rescued = al.rescued
    BY <1>1, <2>1
  <2> HIDE DEF a, b
  <2> QED BY <2>1, <2>2, ExecutedConserving
<1>7. ASSUME NEW c \in OpCosts, NEW q \in ForwardGas, NEW x \in Input, CallOp(c, q, x) PROVE Conserving
  <2> DEFINE a == record_compute_gas(al, c)
             g == top_frame.gas
             e == g - c - q
  <2>1. /\ pc = "run" /\ c + q <= g /\ al' = a /\ spent' = spent + c /\ burned' = burned
        /\ \/ (\E kind : ReturnWith(kind, e, TRUE)) /\ lost' = lost + q
           \/ /\ frames' = [frames EXCEPT ![Len(frames)].gas = e] /\ lost' = lost
              /\ pc' = "init" /\ req'.gas = q
    <3>1. /\ pc = "run" /\ c + q <= g /\ al' = a /\ spent' = spent + c /\ burned' = burned
      BY <1>7 DEF CallOp, CanPay
    <3>2. CASE a.exceeded # "within"
      BY <1>7, <3>1, <3>2 DEF CallOp, Return
    <3>3. CASE a.exceeded = "within"
      <4>1. /\ frames' = [frames EXCEPT ![Len(frames)].gas = @ - c - q]
            /\ req' = [input |-> x, gas |-> q] /\ pc' = "init" /\ lost' = lost
        BY <1>7, <3>3 DEF CallOp
      <4>2. frames' = [frames EXCEPT ![Len(frames)].gas = e]
        BY <4>1 DEF top_frame
      <4> HIDE DEF a, e, g
      <4> QED BY <3>1, <4>1, <4>2
    <3> QED BY <3>1, <3>2, <3>3
  <2>2. c \in Nat /\ q \in Nat /\ g \in Nat
    BY <2>1, Costs, TopGas
  <2>3. al'.rescued = al.rescued
    BY <1>1, <2>1, <2>2
  <2>4. e \in Nat /\ g = e + c + q
    <3>1. e = g - c - q
      OBVIOUS
    <3> HIDE DEF e, g
    <3> QED BY <2>1, <2>2, <3>1
  <2> HIDE DEF a, e
  <2>5. CASE (\E kind : ReturnWith(kind, e, TRUE)) /\ lost' = lost + q
    BY <2>1, <2>2, <2>3, <2>4, <2>5, EndingConserving
  <2>6. CASE frames' = [frames EXCEPT ![Len(frames)].gas = e] /\ lost' = lost /\ pc' = "init" /\ req'.gas = q
    BY <2>1, <2>2, <2>3, <2>4, <2>6, PayConserving
  <2> QED BY <2>1, <2>5, <2>6
<1>8. ASSUME NEW k \in {"ok", "revert", "halt"}, EndFrame(k) PROVE Conserving
  <2> DEFINE a == record_compute_gas(al, 0)
             g == top_frame.gas
  <2>1. /\ pc = "run" /\ (al' = a \/ al' = al) /\ spent' = spent /\ burned' = burned /\ lost' = lost
        /\ \E kind : ReturnWith(kind, g, TRUE)
    BY <1>8 DEF EndFrame, Return, ghosts
  <2>2. al'.rescued = al.rescued
    BY <1>1, <2>1
  <2>3. g \in Nat /\ spent \in Nat /\ lost \in Nat
    BY <2>1, TopGas, BaseFacts
  <2>4. g = g + 0 + 0 /\ spent' = spent + 0 /\ lost' = lost + 0
    <3> HIDE DEF g
    <3> QED BY <2>1, <2>3
  <2> HIDE DEF a
  <2> QED BY <2>1, <2>2, <2>3, <2>4, EndingConserving
<1>9. ASSUME NEW c \in OpCosts, NEW m \in {0, 1}, NEW d \in BOOLEAN, SelfDestruct(c, m, d) PROVE Conserving
  <2> DEFINE a == record_compute_gas(al, c)
             b == set_compute_gas_limit(a, VolatileCap)
             g == top_frame.gas
             e == g - c
  <2>1. /\ pc = "run" /\ c <= g /\ (al' = a \/ al' = b) /\ spent' = spent + c
        /\ burned' = burned /\ lost' = lost /\ \E kind : ReturnWith(kind, e, FALSE)
    BY <1>9 DEF SelfDestruct, CanPay
  <2>2. c \in Nat /\ g \in Nat /\ VolatileCap \in Nat /\ lost \in Nat
    BY <2>1, Costs, TopGas, BaseFacts
  <2>3. al'.rescued = al.rescued
    BY <1>1, <2>1, <2>2
  <2>4. e \in Nat /\ g = e + c + 0 /\ lost' = lost + 0
    <3>1. e = g - c
      OBVIOUS
    <3> HIDE DEF e, g
    <3> QED BY <2>1, <2>2, <3>1
  <2> HIDE DEF a, b, e
  <2> QED BY <2>1, <2>2, <2>3, <2>4, EndingConserving
<1> QED BY <1>3, <1>4, <1>5, <1>6, <1>7, <1>8, <1>9

\* The output of a frame is paid for, and what is left rescued when a limit is exceeded.
LEMMA FinishConserving ==
  ASSUME Base, Conserved, NEW size \in CodeSizes \cup {0}, FrameFinish(size)
  PROVE  Conserving
<1> DEFINE n == Len(frames)
           B == GasUpTo(frames)[n - 1]
           R == al.rescued
           r == al'.rescued
           q == res.gas
           D == Due(al', res')
<1>1. PICK a1, b, kind, g, cost : Finish(a1, b, kind, g, cost, size)
  BY FinishFacts
<1>2. /\ pc = "finish" /\ pc' = "return" /\ frames' = frames /\ burned' = burned /\ lost' = lost
  BY DEF FrameFinish
<1>3. /\ Steady(al, a1, n) /\ Steady(a1, b, n) /\ g \in Nat /\ g <= q /\ spent' = spent + (q - g)
      /\ al' = try_rescue_gas(b, g) /\ res'.gas = g /\ res'.ran = res.ran
  BY <1>1 DEF Finish
<1>4. /\ res.ran /\ q \in Nat /\ R \in Nat /\ n \in Nat \ {0} /\ frames \in Seq(Frame)
      /\ spent \in Nat /\ burned \in Nat /\ lost \in Nat
  BY <1>2, BaseFacts, ALFields DEF Base, Shape, Result
<1>5. B \in Nat
  BY <1>4, GasTop
<1>6. B + q + R + (spent + burned + lost) = GasLimit
  BY <1>2 DEF Conserved, Left
<1>7. b \in AL /\ Deep(b, n) /\ b.rescued = R
  BY <1>3 DEF Steady
<1>8. al' \in AL /\ r = IF al'.exceeded = "tx" THEN R + g ELSE R
  <2> HIDE DEF R, n
  <2> QED BY <1>3, <1>7, RescueFacts
<1>9. D \in Nat /\ D + r = R + g /\ r \in Nat
  <2>1. D = IF al'.exceeded = "tx" THEN 0 ELSE g
    BY <1>3 DEF Due
  <2> HIDE DEF D, r, R
  <2> QED BY <1>3, <1>4, <1>8, <2>1
<1>10. Left(al', frames', pc', req'.gas, res') = B + D
  BY <1>2, <1>3, <1>4 DEF Left
<1> HIDE DEF n, B, R, r, q, D
<1> DEFINE c == q - g
<1>11. c \in Nat /\ q = g + c
  BY <1>3, <1>4
<1> HIDE DEF c
<1>12. q + R = D + c + r + 0
  BY <1>3, <1>4, <1>9, <1>11
<1>a. q \in Nat /\ R \in Nat /\ spent \in Nat /\ burned \in Nat /\ lost \in Nat /\ c \in Nat
      /\ r \in Nat /\ D \in Nat
  BY <1>4, <1>9, <1>11
<1>13. B + D + r + ((spent + c) + burned + lost) = GasLimit
  <2>1. B + D + r + ((spent + c) + burned + (lost + 0)) = GasLimit
    BY <1>a, <1>5, <1>6, <1>12, Balance
  <2> QED BY <1>a, <2>1
<1> QED BY <1>2, <1>3, <1>10, <1>13 DEF Conserving, r, c

\* The return of a frame raises no transaction-level flag.
LEMMA NoNewExceed ==
  ASSUME Base, Flags, Causes, Nests, Quiet, pc \in {"return", "last"},
         NEW phase, NEW n \in Nat \ {0}, NEW ret, Deep(al, n), Checked(al),
         Returned(al, res, phase, n, ret)
  PROVE  ret.al.exceeded = "tx" <=> al.exceeded = "tx"
<1> DEFINE s == res.kind = "ok"
<1>1. PICK m \in AL :
        /\ Keeps(al, m) /\ Pops(al, m, s)
        /\ check_limit(m).exceeded = "within" => ret.al = check_limit(m)
        /\ check_limit(m).exceeded = "frame" /\ Kinds # {} => ret.al.exceeded = "within"
  BY DEF Returned
<1>2. al \in AL /\ m.exceeded = al.exceeded /\ al.exceeded \in {"within", "frame", "tx"}
  BY <1>1, BaseFacts, ALFields DEF Keeps
<1>3. al.exceeded # "within" => check_limit(m).exceeded = al.exceeded
  BY <1>1, <1>2, CheckFacts
<1>4. Lifts(al, ret)
  BY <1>2, ReturnedFlags DEF Flags
<1>5. CASE al.exceeded = "tx"
  BY <1>4, <1>5 DEF Lifts
<1>6. CASE al.exceeded = "frame"
  <2>1. Kinds # {}
    BY <1>6 DEF Flags
  <2>2. ret.al.exceeded = "within"
    BY <1>1, <1>3, <1>6, <2>1
  <2> QED BY <1>6, <2>2
<1>7. CASE al.exceeded = "within"
  <2>1. \A k \in Kinds : ~Enabled(REX4) /\ k # "ComputeGas" => Below(k, al.tr[k]) \/ s
    BY <1>7 DEF Quiet
  <2>2. Plains(al) /\ (Enabled(REX4) => \A k \in Kinds : Nested(al.tr[k]))
    BY DEF Causes, Fit, Nests
  <2> HIDE DEF s
  <2>3. check_limit(m).exceeded = "within"
    BY <1>1, <1>2, <1>7, <2>1, <2>2, PopQuiet
  <2>4. ret.al.exceeded = "within"
    BY <1>1, <2>3
  <2> QED BY <1>7, <2>4
<1> QED BY <1>2, <1>5, <1>6, <1>7

\* A result is settled: its gas is given to the caller or burned, unless it was rescued.
LEMMA Settled ==
  ASSUME Base, Flags, Causes, Nests, Quiet, pc \in {"return", "last"},
         NEW phase, NEW n \in Nat, NEW ret, Deep(al, n), n # 0 => Checked(al),
         n = 0 => pc = "last" /\ res.ran /\ phase = "last",
         Returned(al, res, phase, n, ret)
  PROVE  /\ Given(ret.res) + Burns(ret.al, ret.res) = Due(al, res)
         /\ n # 0 => Due(ret.al, ret.res) = Due(al, res)
         /\ Due(al, res) \in Nat /\ ret.al.rescued = al.rescued
<1>1. /\ ret.res \in Result /\ ret.res.gas = res.gas /\ ret.al.rescued = al.rescued /\ res \in Result /\ al \in AL
      /\ res.kind # "none"
  BY BaseFacts DEF Returned, Base, Shape
<1>2. res.gas \in Nat /\ ret.res.kind \in {"none", "ok", "revert", "halt"}
  BY <1>1 DEF Result
<1>3. ret.res.kind # "none"
  <2> DEFINE dup == phase = "last" /\ (n = 0 \/ Kinds = {})
  <2>1. PICK m \in AL : /\ check_limit(m).exceeded = "within" \/ dup => ret.res = res
                        /\ check_limit(m).exceeded = "frame" /\ ~dup => ret.res.kind = "revert"
                        /\ check_limit(m).exceeded = "tx" /\ ~dup => ret.res.kind = "halt"
    BY DEF Returned
  <2>2. check_limit(m).exceeded \in {"within", "frame", "tx"}
    BY CheckFacts, ALFields
  <2> QED BY <1>1, <2>1, <2>2
<1>4. CASE n # 0
  <2>1. ret.al.exceeded = "tx" <=> al.exceeded = "tx"
    BY <1>4, NoNewExceed
  <2>2. ret.al.exceeded = "tx" => ret.res.kind = "halt"
    BY <1>1, <1>4, ReturnedFlags DEF Flags
  <2> QED BY <1>1, <1>2, <1>3, <2>1, <2>2 DEF Given, Burns, Due
<1>5. CASE n = 0
  <2>1. ret.res = res /\ ret.al = check_limit(al)
    <3>1. phase = "last"
      BY <1>5
    <3> QED BY <1>5, <3>1 DEF Returned
  <2>2. /\ al.exceeded # "within" => ret.al.exceeded = al.exceeded
        /\ al.exceeded = "within" /\ Checked(al) => ret.al.exceeded = "within"
    BY <1>1, <2>1, CheckFacts DEF Checked
  <2>3. Checked(al) \/ res.kind = "revert"
    BY <1>5 DEF Causes
  <2>4. al.exceeded = "tx" => res.kind = "halt"
    BY <1>5 DEF Flags
  <2>5. al.exceeded # "frame"
    BY <1>5 DEF Causes
  <2> QED BY <1>1, <1>2, <1>3, <1>5, <2>1, <2>2, <2>3, <2>4, <2>5, ALFields DEF Given, Burns, Due
<1> QED BY <1>4, <1>5

\* A frame returns to its caller, or the first one ends.
LEMMA ReturnConserving ==
  ASSUME Base, Flags, Causes, Nests, Quiet, Conserved, FrameReturn
  PROVE  Conserving
<1>1. PICK ret, rest : Unwinds(ret, rest)
  BY ReturnSteps
<1> DEFINE d == Len(frames) + Pending
           n == Len(rest)
           B == GasUpTo(frames)[n]
           R == al.rescued
           D == Due(al, res)
           g == Given(ret.res)
           u == Burns(ret.al, ret.res)
           L == Left(al', frames', pc', req'.gas, res')
<1>2. /\ Returned(al, res, "return", d, ret) /\ al' = ret.al /\ res' = ret.res
      /\ d \in Nat \ {0} /\ n = d - 1 /\ rest \in Seq(Frame)
      /\ \A i \in 1 .. n : rest[i] = frames[i]
      /\ res.ran = (Pending = 0)
      /\ g \in Nat /\ u \in Nat
      /\ n = 0 => pc' = "last" /\ frames' = rest /\ burned' = burned
      /\ n # 0 => pc' = "resume" /\ Gave(rest, frames', g) /\ burned' = burned + u
  BY <1>1 DEF Unwinds
<1>3. pc = "return" /\ spent' = spent /\ lost' = lost
  BY DEF FrameReturn
<1>4. Deep(al, d) /\ Checked(al) /\ frames \in Seq(Frame) /\ Len(frames) \in Nat /\ R \in Nat
      /\ spent \in Nat /\ burned \in Nat /\ lost \in Nat
  BY <1>3, BaseFacts, ALFields DEF Causes
<1>5. /\ g + u = D /\ D \in Nat /\ Due(al', res') = D /\ al'.rescued = R
  <2>1. d \in Nat /\ d # 0 /\ pc \in {"return", "last"}
    BY <1>2, <1>3
  <2> HIDE DEF d
  <2> QED BY <1>2, <1>4, <2>1, Settled
<1>6. n = IF res.ran THEN Len(frames) - 1 ELSE Len(frames)
  BY <1>2, <1>3, <1>4 DEF Pending
<1>7. B + D + R + (spent + burned + lost) = GasLimit
  BY <1>3, <1>6 DEF Conserved, Left
<1>8. n \in Nat /\ n <= Len(frames) /\ n \in 0 .. n /\ B \in Nat
  <2>1. n \in Nat /\ n <= Len(frames)
    BY <1>2, <1>4, <1>6
  <2>2. GasUpTo(frames) \in [0 .. Len(frames) -> Nat]
    BY <1>4, GasSums
  <2> HIDE DEF n
  <2>3. n \in 0 .. Len(frames) /\ n \in 0 .. n
    BY <1>4, <2>1
  <2> QED BY <2>1, <2>2, <2>3
<1>9. GasUpTo(rest)[n] = B
  <2>1. \A i \in 1 .. n : rest[i].gas = frames[i].gas
    BY <1>2
  <2>2. n <= Len(rest)
    BY <1>8
  <2> QED BY <1>2, <1>4, <1>8, <2>1, <2>2, GasAgree
<1>10. CASE n = 0
  <2>1. L = D
    BY <1>2, <1>5, <1>10 DEF Left
  <2>2. B = 0
    BY <1>4, <1>10, GasSums
  <2> HIDE DEF n, B, R, D, g, u, L
  <2>3. L + R + (spent + burned + lost) = GasLimit
    BY <1>5, <1>7, <2>1, <2>2
  <2> QED BY <1>2, <1>3, <1>5, <1>10, <2>3 DEF Conserving, L
<1>11. CASE n # 0
  <2>1. /\ frames' \in Seq(Frame) /\ Len(frames') = n /\ frames'[n].gas = rest[n].gas + g
        /\ \A i \in 1 .. n - 1 : frames'[i].gas = rest[i].gas
    BY <1>2, <1>11 DEF Gave
  <2>2. /\ GasUpTo(frames')[n] = GasUpTo(rest)[n - 1] + frames'[n].gas
        /\ GasUpTo(rest)[n] = GasUpTo(rest)[n - 1] + rest[n].gas
        /\ GasUpTo(rest)[n - 1] \in Nat /\ rest[n].gas \in Nat
    BY <1>2, <1>11, <2>1, GasTop
  <2>3. L = GasUpTo(frames')[n]
    BY <1>2, <1>11, <2>1 DEF Left
  <2> HIDE DEF n, B, R, D, g, u, L
  <2>4. L = B + g
    BY <1>2, <1>9, <2>1, <2>2, <2>3
  <2>5. L + R + (spent + (burned + u) + lost) = GasLimit
    <3>1. g \in Nat /\ u \in Nat /\ R \in Nat /\ spent \in Nat /\ burned \in Nat /\ lost \in Nat /\ B \in Nat
      BY <1>2, <1>4, <1>8
    <3>2. D = g + u
      BY <1>5
    <3> QED BY ONLY <1>7, <2>4, <3>1, <3>2
  <2> QED BY <1>2, <1>3, <1>5, <1>11, <2>5 DEF Conserving, L
<1> QED BY <1>10, <1>11

\* The transaction ends: the sender gets back what was given and what was rescued.
LEMMA LastConserved ==
  ASSUME Base, Flags, Causes, Nests, Quiet, Conserved, LastFrameResult
  PROVE  pc' = "done" /\ res'.gas + spent' + burned' + lost' = GasLimit
<1>1. PICK ret : /\ Returned(al, res, "last", Pending, ret)
                 /\ pc = "last" /\ Pending = (IF res.ran THEN 0 ELSE 1) /\ Deep(al, Pending)
                 /\ al' = ret.al /\ ret.res \in Result
                 /\ res' = [ret.res EXCEPT !.gas = Given(ret.res) + ret.al.rescued]
                 /\ burned' = burned + Burns(ret.al, ret.res)
  BY LastSteps
<1> DEFINE d == Pending
           R == al.rescued
           D == Due(al, res)
           g == Given(ret.res)
           u == Burns(ret.al, ret.res)
<1>2. d \in Nat /\ (d # 0 => Checked(al)) /\ (d = 0 => res.ran)
  BY <1>1 DEF Causes
<1>3. g + u = D /\ D \in Nat /\ ret.al.rescued = R
  <2>1. Returned(al, res, "last", d, ret) /\ Deep(al, d) /\ pc \in {"return", "last"} /\ pc = "last"
    BY <1>1
  <2> HIDE DEF d
  <2> QED BY <1>2, <2>1, Settled
<1>4. g \in Nat /\ u \in Nat
  BY <1>1 DEF Given, Burns, Result
<1>5. /\ spent' = spent /\ lost' = lost /\ pc' = "done"
  BY DEF LastFrameResult
<1>6. burned' = burned + u
  BY <1>1
<1>7. res'.gas = g + R
  BY <1>1, <1>3 DEF Result
<1>8. R \in Nat /\ spent \in Nat /\ burned \in Nat /\ lost \in Nat
  BY BaseFacts, ALFields
<1>9. D + R + (spent + burned + lost) = GasLimit
  BY <1>1 DEF Conserved, Left
<1> HIDE DEF R, D, g, u
<1>10. (g + R) + spent + (burned + u) + lost = GasLimit
  <2>1. D = g + u
    BY <1>3
  <2> QED BY ONLY <1>4, <1>8, <1>9, <2>1
<1> QED BY <1>5, <1>6, <1>7, <1>10

\* Every step keeps Quiet.
LEMMA StepQuiet ==
  Base /\ Flags /\ Causes /\ Quiet /\ [Next]_vars => Quiet'
<1> SUFFICES ASSUME Base, Flags, Causes, Quiet, [Next]_vars PROVE Quiet'
  OBVIOUS
<1>1. spec' = spec
  BY SpecStays
<1> DEFINE New ==
      ~Enabled(REX4) /\ al'.exceeded = "within" =>
        \A k \in Kinds : k # "ComputeGas" => Below(k, al'.tr[k])
<1>2. New => Quiet'
  BY <1>1 DEF Quiet, Enabled
<1>3. ASSUME NEW i \in IntrinsicCosts, NEW x \in Input, StartTx(i, x) PROVE New
  <2>1. ASSUME NEW k \in Kinds PROVE Below(k, al'.tr[k])
    <3>1. Len(al'.tr[k].frames) = 0
      BY <1>3, StartFresh
    <3> QED BY <3>1 DEF Below
  <2> QED BY <2>1
<1>4. ASSUME Metering PROVE New
  <2>1. ASSUME ~Enabled(REX4), al'.exceeded = "within", NEW k \in Kinds, k # "ComputeGas"
        PROVE  Below(k, al'.tr[k])
    <3>1. al.exceeded = "within"
      BY <1>4, <2>1, MeteringHeld DEF Held, Sticks
    <3>2. Below(k, al.tr[k]) /\ al.tr[k] \in Tracker
      BY <2>1, <3>1, BaseFacts, ALFields DEF Quiet
    <3>3. CASE al'.tr = al.tr
      BY <3>2, <3>3
    <3>4. CASE \E g : BeginStep(g)
      <4>1. PICK l, p, d : Begun(al.tr[k], al'.tr[k], l, p, d)
        BY <3>4 DEF BeginStep, Begins
      <4>2. pc = "init" /\ Checked(al)
        BY <3>4 DEF BeginStep, Causes
      <4>3. net_usage(al.tr[k]) <= TxLimit[k]
        <5>1. kind_check(al, k) = "within"
          BY <3>1, <4>2 DEF Checked, Within
        <5>2. ~(net_usage(al.tr[k]) > TxLimit[k])
          BY <2>1, <5>1 DEF kind_check, exceeds_tx_limit, tx_limit
        <5>3. net_usage(al.tr[k]) \in Nat /\ TxLimit[k] \in Nat
          BY <3>2, NetUsage, LimitAssumption DEF SatSub
        <5> QED BY <5>2, <5>3
      <4> QED BY <3>2, <4>1, <4>3, BelowFacts
    <3>5. CASE \E g, h : MeterStep(g, h) /\ pc \in {"run", "finish"}
      <4>1. PICK p, d, r : Recorded(al.tr[k], al'.tr[k], p, d, r)
        BY <3>5 DEF MeterStep, Meters
      <4>2. Len(al.tr[k].frames) # 0
        BY <3>5, BaseFacts DEF Base, Shape, Deep
      <4> QED BY <3>2, <4>1, <4>2, BelowFacts
    <3> QED BY <1>4, <3>3, <3>4, <3>5, MeteringTracks
  <2> QED BY <2>1
<1>5. ASSUME NEW phase, NEW d \in Nat, NEW ret, Returned(al, res, phase, d, ret), Deep(al, d),
             al' = ret.al, ~Enabled(REX4), al'.exceeded = "within", NEW k \in Kinds, k # "ComputeGas"
      PROVE  Below(k, al'.tr[k])
  <2>1. al.exceeded = "within"
    <3>1. Lifts(al, ret)
      BY <1>5, BaseFacts, ReturnedFlags DEF Flags
    <3> QED BY <1>5, <3>1, BaseFacts, ALFields DEF Lifts, Flags
  <2>2. Below(k, al.tr[k]) /\ al.tr[k] \in Tracker
    BY <1>5, <2>1, BaseFacts, ALFields DEF Quiet
  <2>3. CASE d = 0
    <3>1. al'.tr = al.tr
      BY <1>5, <2>3 DEF Returned
    <3> QED BY <2>2, <3>1
  <2>4. CASE d # 0
    <3>1. PICK s : Popped(al.tr[k], al'.tr[k], s)
      BY <1>5, <2>4 DEF Returned, Pops
    <3>2. Len(al.tr[k].frames) # 0
      BY <1>5, <2>4 DEF Deep
    <3> QED BY <2>2, <3>1, <3>2, BelowFacts
  <2> QED BY <2>3, <2>4
<1>6. ASSUME FrameReturn PROVE New
  <2>1. PICK ret, rest : Unwinds(ret, rest)
    BY <1>6, ReturnSteps
  <2> DEFINE d == Len(frames) + Pending
  <2>2. d \in Nat /\ Returned(al, res, "return", d, ret) /\ Deep(al, d) /\ al' = ret.al
    BY <2>1, BaseFacts DEF Unwinds
  <2> HIDE DEF d
  <2> QED BY <1>5, <2>2
<1>7. ASSUME LastFrameResult PROVE New
  <2>1. PICK ret : /\ Returned(al, res, "last", Pending, ret)
                   /\ Pending = (IF res.ran THEN 0 ELSE 1) /\ Deep(al, Pending)
                   /\ al' = ret.al
    BY <1>7, LastSteps
  <2> DEFINE d == Pending
  <2>2. d \in Nat /\ Returned(al, res, "last", d, ret) /\ Deep(al, d)
    BY <2>1
  <2> HIDE DEF d
  <2> QED BY <1>5, <2>1, <2>2
<1>8. ASSUME UNCHANGED vars PROVE New
  <2>1. al' = al /\ pc' = pc
    BY <1>8 DEF vars
  <2> QED BY <2>1 DEF Quiet
<1> QED BY <1>2, <1>3, <1>4, <1>6, <1>7, <1>8, NextCases

\* Every step keeps the account.
LEMMA StepConserved ==
  Base /\ Flags /\ Causes /\ Nests /\ Quiet /\ Conserved /\ [Next]_vars => Conserved'
<1> SUFFICES ASSUME Base, Flags, Causes, Nests, Quiet, Conserved, [Next]_vars PROVE Conserved'
  OBVIOUS
<1>1. Conserving => Conserved'
  BY DEF Conserving, Conserved, GasIsAccountedFor
<1>2. ASSUME NEW i \in IntrinsicCosts, NEW x \in Input, StartTx(i, x) PROVE Conserving
  <2>1. /\ pc' = "init" /\ frames' = <<>> /\ req'.gas = GasLimit /\ spent' = 0 /\ burned' = 0 /\ lost' = 0
    BY <1>2 DEF StartTx
  <2>2. al'.rescued = 0
    <3> DEFINE a == reset(al)
               b == before_tx_start(a)
    <3>1. a \in AL /\ Deep(a, 0) /\ a.rescued = 0 /\ i \in Nat
      BY BaseFacts, ResetFacts, Costs
    <3> HIDE DEF a
    <3>2. PICK m : m \in AL /\ Keeps(a, m) /\ Deep(m, 0) /\ b = check_limit(m)
      BY <3>1, TxStarts
    <3>3. Steady(a, b, 0)
      BY <3>1, <3>2, CheckSteady
    <3> HIDE DEF b
    <3>4. Steady(b, record_compute_gas(b, i), 0)
      BY <3>1, <3>3, GasSteady DEF Steady
    <3> QED BY <1>2, <3>1, <3>3, <3>4 DEF StartTx, Steady, a, b
  <2>3. Len(frames') = 0 /\ GasUpTo(frames')[0] = 0
    <3>1. frames' \in Seq(Frame)
      BY <2>1
    <3> QED BY <2>1, <3>1, GasSums
  <2>4. Left(al', frames', pc', req'.gas, res') = 0 + GasLimit
    BY <2>1, <2>3 DEF Left
  <2> QED BY <2>1, <2>2, <2>4, Costs DEF Conserving
<1>3. ASSUME Metering PROVE Conserving
  BY <1>3, InitConserving, RunsConserving, OpConserving, FinishConserving DEF Metering
<1>4. ASSUME LastFrameResult PROVE Conserved'
  BY <1>4, LastConserved DEF Conserved, GasIsAccountedFor
<1>5. ASSUME UNCHANGED vars PROVE Conserved'
  BY <1>5 DEF vars, ghosts, Conserved, GasIsAccountedFor, Left, Due
<1> QED BY <1>1, <1>2, <1>3, <1>4, <1>5, ReturnConserving, NextCases

\* At any depth and whatever is exceeded, no gas is made and none disappears but with a
\* call that a limit drops: when a transaction ends, the gas the sender gets back (given up
\* from frame to frame, or rescued by try_rescue_gas) and what was paid, burned by halts of
\* the EVM itself, or dropped (the call of a CALL that exceeds, and an intercepted first
\* call after the intrinsic gas exceeded) make up the gas limit.
THEOREM GasIsConserved == Spec => []GasIsAccountedFor
<1>1. Init => Quiet /\ Conserved
  <2> SUFFICES ASSUME Init PROVE Quiet /\ Conserved
    OBVIOUS
  <2>1. pc = "done" /\ res = NoResult /\ spec \in MegaSpecId
    BY LimitAssumption DEF Init
  <2>2. ASSUME NEW k \in Kinds PROVE Below(k, al.tr[k])
    <3>1. Len(al.tr[k].frames) = 0
      BY InitBase, BaseFacts DEF Deep, Init, Pending
    <3> QED BY <3>1 DEF Below
  <2> QED BY <2>1, <2>2 DEF Quiet, Conserved, GasIsAccountedFor
<1>2. Base /\ Flags /\ Causes /\ Quiet /\ [Next]_vars => Quiet'
  BY StepQuiet
<1>3. Base /\ Flags /\ Causes /\ Nests /\ Quiet /\ Conserved /\ [Next]_vars => Conserved'
  BY StepConserved
<1>4. Conserved => GasIsAccountedFor
  BY DEF Conserved
<1> QED BY <1>1, <1>2, <1>3, <1>4, NestsAlways, PTL DEF Spec
=============================================================================
