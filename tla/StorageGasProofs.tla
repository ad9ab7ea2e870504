-------------------------- MODULE StorageGasProofs --------------------------
(***************************************************************************)
(* Proofs about StorageGas, for any number of accounts, slots, buckets and *)
(* frames, whatever delegations there are between the accounts.            *)
(***************************************************************************)
EXTENDS StorageGas, ForwardGas, FiniteSetTheorems, WellFoundedInduction, TLAPS

-----------------------------------------------------------------------------
(* The split of gas between a caller and its callee *)

\* Both rules leave gas that adds up: Lesser picks one of its arguments, and a
\* fiftieth is at least a sixty-fourth, so the second rule decides (wrap_gas_cap).
THEOREM SplitsFairly ==
    ASSUME NEW gas \in Nat, NEW request \in Nat, NEW has_transfer \in BOOLEAN
    PROVE  SplitIsFair(gas, request, has_transfer)
BY SMT DEF SplitIsFair, forward, wrap_gas_cap, new_frame, Lesser, CALL_STIPEND

-----------------------------------------------------------------------------
(* Inspections *)

States == [Accounts -> Account \union {Absent}]
DbType == [Accounts -> [nonempty : BOOLEAN, nonce : Nonces, storage : [Keys -> Values]]]
ChainTyped == spec \in Specs /\ code \in Worlds /\ inline \in BOOLEAN /\ db \in DbType

\* Two accounts that differ in the code that is loaded at most
Same(x, y) == x.nonempty = y.nonempty /\ x.nonce = y.nonce /\ x.warm = y.warm
              /\ x.preloaded = y.preloaded /\ x.storage = y.storage

\* Inspecting loads accounts from the database, as they are there and cold, and changes
\* nothing of the others.
Inspects(s, t) ==
    /\ t \in States
    /\ \A x \in Accounts : s[x] # Absent => t[x] # Absent /\ Same(t[x], s[x])
    /\ \A x \in Accounts : s[x] = Absent /\ t[x] # Absent => Same(t[x], basic(x))

\* The parts of ChainTyped
LEMMA CodeTyped ==
    ASSUME ChainTyped, NEW x \in Accounts
    PROVE  code[x] \in Code
<1>1. code \in Worlds
    BY Zenon DEF ChainTyped
<1>2. Worlds \subseteq [Accounts -> Code]
    BY StorageGasAssumption, Zenon
<1>3. code \in [Accounts -> Code]
    BY <1>1, <1>2, Zenon
<1> QED BY <1>3, Zenon

\* An account from its parts
LEMMA AccountMade ==
    ASSUME NEW ne \in BOOLEAN, NEW no \in Nonces, NEW c \in Code \union {"not loaded"},
           NEW w \in BOOLEAN, NEW p \in BOOLEAN, NEW st \in [Keys -> Slot \union {Absent}]
    PROVE  [nonempty |-> ne, nonce |-> no, code |-> c, warm |-> w, preloaded |-> p, storage |-> st] \in Account
BY Zenon DEF Account

\* An account as the database has it
LEMMA BasicTyped ==
    ASSUME ChainTyped, NEW x \in Accounts
    PROVE  /\ basic(x) \in Account /\ basic(x) # Absent
           /\ basic(x).nonempty = db[x].nonempty /\ basic(x).nonce = db[x].nonce
           /\ basic(x).warm = FALSE /\ basic(x).preloaded = FALSE
           /\ basic(x).storage = [k \in Keys |-> Absent]
           /\ basic(x).code \in Accounts => basic(x).code = code[x]
<1>a. db \in DbType
    BY Zenon DEF ChainTyped
<1>b. code[x] \in Code
    BY CodeTyped
<1>1. db[x].nonempty \in BOOLEAN /\ db[x].nonce \in Nonces
    BY <1>a DEF DbType
<1> DEFINE c == IF inline \/ code[x] = "none" THEN code[x] ELSE "not loaded"
<1>2. c \in Code \union {"not loaded"} /\ (c \in Accounts => c = code[x])
    BY <1>b, StorageGasAssumption
<1> DEFINE st == [k \in Keys |-> Absent]
           ne == db[x].nonempty
           no == db[x].nonce
<1>c. st \in [Keys -> Slot \union {Absent}]
    OBVIOUS
<1> HIDE DEF c, st, ne, no
<1>3. basic(x) = [nonempty |-> ne, nonce |-> no, code |-> c, warm |-> FALSE, preloaded |-> FALSE,
                  storage |-> st]
    BY DEF basic, c, st, ne, no
<1>d. ne \in BOOLEAN /\ no \in Nonces
    BY <1>1, Zenon DEF ne, no
<1>4. basic(x) \in Account
    <2> DEFINE w == FALSE
    <2>1. w \in BOOLEAN
        OBVIOUS
    <2> HIDE DEF w
    <2>2. c \in Code \union {"not loaded"}
        BY <1>2
    <2>3. [nonempty |-> ne, nonce |-> no, code |-> c, warm |-> w, preloaded |-> w, storage |-> st] \in Account
        BY <1>c, <1>d, <2>1, <2>2, AccountMade, Zenon
    <2> QED BY <1>3, <2>3, Zenon DEF w
<1>5. basic(x) # Absent
    BY <1>4, AbsentAssumption
<1>6. basic(x).nonempty = ne /\ basic(x).nonce = no /\ basic(x).warm = FALSE /\ basic(x).storage = st
      /\ basic(x).code = c /\ basic(x).preloaded = FALSE
    BY <1>3
<1> QED BY <1>2, <1>4, <1>5, <1>6, Zenon DEF st, ne, no

\* Doing nothing is an inspection, and so are two in a row.
LEMMA InspectsNothing ==
    ASSUME NEW s \in States
    PROVE  Inspects(s, s)
BY DEF Inspects, Same

LEMMA InspectsTwice ==
    ASSUME NEW s, NEW t, NEW u, Inspects(s, t), Inspects(t, u)
    PROVE  Inspects(s, u)
<1>1. u \in States
    BY DEF Inspects
<1>2. ASSUME NEW x \in Accounts, s[x] # Absent PROVE u[x] # Absent /\ Same(u[x], s[x])
    <2>1. t[x] # Absent /\ Same(t[x], s[x])
        BY <1>2 DEF Inspects
    <2>2. u[x] # Absent /\ Same(u[x], t[x])
        BY <2>1 DEF Inspects
    <2> QED BY <2>1, <2>2 DEF Same
<1>3. ASSUME NEW x \in Accounts, s[x] = Absent, u[x] # Absent PROVE Same(u[x], basic(x))
    <2>1. CASE t[x] = Absent
        BY <1>3, <2>1 DEF Inspects
    <2>2. CASE t[x] # Absent
        <3>1. Same(t[x], basic(x)) /\ Same(u[x], t[x])
            BY <1>3, <2>2 DEF Inspects
        <3> QED BY <3>1 DEF Same
    <2> QED BY <2>1, <2>2
<1> QED BY <1>1, <1>2, <1>3 DEF Inspects

\* inspect_account finds the account, with its own code if any.
LEMMA InspectAccount ==
    ASSUME ChainTyped, NEW s \in States, NEW x \in Accounts
    PROVE  /\ Inspects(s, inspect_account(s, x))
           /\ inspect_account(s, x)[x] # Absent
           /\ inspect_account(s, x)[x].code \in Accounts => inspect_account(s, x)[x].code = code[x]
<1> DEFINE t == inspect_account(s, x)
<1>0. code[x] \in Code
    BY CodeTyped
<1>1. CASE s[x] = Absent
    <2>1. t = [s EXCEPT ![x] = basic(x)]
        BY <1>1 DEF inspect_account
    <2> HIDE DEF t
    <2>2. t \in States /\ t[x] = basic(x) /\ \A y \in Accounts : y # x => t[y] = s[y]
        BY <2>1, BasicTyped DEF States
    <2>3. t[x] # Absent /\ (t[x].code \in Accounts => t[x].code = code[x])
        BY <2>2, BasicTyped
    <2>4. Inspects(s, t)
        BY <1>1, <2>2 DEF Inspects, Same
    <2> QED BY <2>3, <2>4 DEF t
<1>2. CASE s[x] # Absent
    <2> DEFINE acc == [s[x] EXCEPT !.code = code[x]]
    <2>1. s[x] \in Account
        BY <1>2 DEF States
    <2>2. acc \in Account /\ acc.code = code[x] /\ Same(acc, s[x])
        BY <1>0, <2>1 DEF Account, Same
    <2>3. t = [s EXCEPT ![x] = acc]
        BY <1>2 DEF inspect_account
    <2> HIDE DEF t, acc
    <2>4. t \in States /\ t[x] = acc /\ \A y \in Accounts : y # x => t[y] = s[y]
        BY <2>2, <2>3 DEF States
    <2>5. acc # Absent
        BY <2>2, AbsentAssumption
    <2>6. Inspects(s, t)
        BY <1>2, <2>2, <2>4, <2>5 DEF Inspects, Same
    <2> QED BY <2>2, <2>4, <2>5, <2>6 DEF t
<1> QED BY <1>1, <1>2

-----------------------------------------------------------------------------
(* The walk along delegations *)

\* Every set of naturals that is not empty has a least element.
LEMMA LeastNat ==
    ASSUME NEW T \in SUBSET Nat, T # {}
    PROVE  \E n \in T : \A m \in T : n <= m
<1>1. PICK x \in T : \A y \in T : ~(<<y, x>> \in OpToRel(<, Nat))
    BY NatLessThanWellFounded, WFMin, Zenon
<1>2. \A y \in T : ~ (y < x)
    BY <1>1, Zenon DEF OpToRel
<1> QED BY <1>2

\* Induction on the naturals, with a set in place of a predicate
LEMMA Induct ==
    ASSUME NEW T, 0 \in T, \A n \in Nat : n \in T => n + 1 \in T
    PROVE  Nat \subseteq T
<1> SUFFICES ASSUME Nat \ T # {} PROVE FALSE
    OBVIOUS
<1>1. PICK n \in Nat \ T : \A m \in Nat \ T : n <= m
    BY LeastNat
<1>2. n # 0 /\ n - 1 \in Nat /\ n - 1 \in T
    BY <1>1
<1> QED BY <1>2

\* g holds the first n turns of the walk from start.
Walks(g, n, start) == g = [i \in 0 .. n |-> IF i = 0 THEN start ELSE follow(g[i - 1])]

LEMMA WalkExists ==
    ASSUME NEW N \in Nat, NEW start
    PROVE  \E g : Walks(g, N, start)
<1> DEFINE T == {n \in Nat : \E g : Walks(g, n, start)}
<1>1. 0 \in T
    <2> DEFINE g == [i \in 0 .. 0 |-> start]
    <2>1. Walks(g, 0, start)
        BY DEF Walks
    <2> HIDE DEF g
    <2> QED BY <2>1
<1>2. ASSUME NEW n \in Nat, n \in T PROVE n + 1 \in T
    <2>1. PICK g : Walks(g, n, start)
        BY <1>2
    <2> DEFINE F(f, i) == IF i = 0 THEN start ELSE follow(f[i - 1])
               h == [i \in 0 .. n + 1 |-> IF i = n + 1 THEN follow(g[n]) ELSE g[i]]
    <2>2. \A i \in 0 .. n : g[i] = F(g, i)
        <3>1. g = [i \in 0 .. n |-> F(g, i)]
            BY <2>1 DEF Walks
        <3> HIDE DEF F
        <3> QED BY <3>1
    <2>3. ASSUME NEW i \in 0 .. n + 1 PROVE h[i] = F(h, i)
        <3>1. CASE i = n + 1
            <4>1. h[i] = follow(g[n]) /\ h[n] = g[n] /\ i - 1 = n /\ i # 0
                BY <3>1
            <4> HIDE DEF h
            <4> QED BY <4>1
        <3>2. CASE i # n + 1 /\ i # 0
            <4>1. i \in 0 .. n /\ i - 1 \in 0 .. n + 1 /\ i - 1 # n + 1
                BY <3>2
            <4>2. h[i] = g[i] /\ h[i - 1] = g[i - 1]
                BY <3>2, <4>1
            <4> HIDE DEF h
            <4> QED BY <2>2, <3>2, <4>1, <4>2
        <3>3. CASE i = 0
            <4>1. h[0] = g[0] /\ g[0] = start
                BY <2>2
            <4> HIDE DEF h
            <4> QED BY <3>3, <4>1
        <3> QED BY <3>1, <3>2, <3>3
    <2>4. h = [i \in 0 .. n + 1 |-> h[i]]
        OBVIOUS
    <2>5. h = [i \in 0 .. n + 1 |-> F(h, i)]
        <3> HIDE DEF h, F
        <3> QED BY <2>3, <2>4
    <2>6. Walks(h, n + 1, start)
        <3> HIDE DEF h
        <3> QED BY <2>5 DEF Walks
    <2> HIDE DEF h
    <2> QED BY <2>6
<1>3. Nat \subseteq T
    <2> HIDE DEF T
    <2> QED BY <1>1, <1>2, Induct
<1> QED BY <1>3

WalkType == [state : States, at : Accounts, visited : SUBSET Accounts, ended : BOOLEAN]

\* A walk that ended at once
LEMMA WalkMade ==
    ASSUME NEW s \in States, NEW x \in Accounts
    PROVE  [state |-> s, at |-> x, visited |-> {}, ended |-> TRUE] \in WalkType
BY DEF WalkType

\* One turn: the walk ends where it is, or goes on to an account not visited before.
LEMMA FollowTurn ==
    ASSUME ChainTyped, NEW w \in WalkType
    PROVE  /\ follow(w) \in WalkType
           /\ Inspects(w.state, follow(w).state)
           /\ \/ /\ follow(w).ended = TRUE /\ follow(w).at = w.at
                 /\ follow(w).state[w.at] # Absent
              \/ /\ w.ended = FALSE /\ follow(w).ended = FALSE
                 /\ follow(w).at = code[w.at] /\ code[w.at] \notin w.visited
                 /\ follow(w).visited = w.visited \union {w.at}
<1> DEFINE s == inspect_account(w.state, w.at)
           next == s[w.at].code
<1>1. w.state \in States /\ w.at \in Accounts /\ w.visited \in SUBSET Accounts /\ w.ended \in BOOLEAN
    BY Zenon DEF WalkType
<1>2. Inspects(w.state, s) /\ s[w.at] # Absent /\ (next \in Accounts => next = code[w.at])
    BY <1>1, InspectAccount
<1>3. s \in States
    BY <1>2 DEF Inspects
<1>4. follow(w) = IF w.ended \/ next \notin Accounts \/ next \in w.visited
                  THEN [w EXCEPT !.state = s, !.ended = TRUE]
                  ELSE [state |-> s, at |-> next, visited |-> w.visited \union {w.at}, ended |-> FALSE]
    BY Zenon DEF follow
<1> HIDE DEF s, next
<1>5. CASE w.ended \/ next \notin Accounts \/ next \in w.visited
    <2> DEFINE f == [w EXCEPT !.state = s, !.ended = TRUE]
    <2>1. f \in WalkType /\ f.ended = TRUE /\ f.at = w.at /\ f.state = s
        BY <1>3 DEF WalkType
    <2>2. follow(w) = f
        BY <1>4, <1>5, Zenon
    <2> HIDE DEF f
    <2> QED BY <1>2, <2>1, <2>2, Zenon
<1>6. CASE ~(w.ended \/ next \notin Accounts \/ next \in w.visited)
    <2> DEFINE f == [state |-> s, at |-> next, visited |-> w.visited \union {w.at}, ended |-> FALSE]
    <2>1. next \in Accounts /\ w.visited \union {w.at} \in SUBSET Accounts
        BY <1>1, <1>6
    <2>2. f \in WalkType
        BY <1>3, <2>1, Zenon DEF WalkType
    <2>3. f.ended = FALSE /\ f.at = next /\ f.state = s /\ f.visited = w.visited \union {w.at}
        OBVIOUS
    <2>4. follow(w) = f
        BY <1>4, <1>6, Zenon
    <2>5. w.ended = FALSE /\ next = code[w.at] /\ next \notin w.visited
        BY <1>1, <1>2, <1>6, <2>1, Zenon
    <2> HIDE DEF f
    <2> QED BY <1>2, <2>2, <2>3, <2>4, <2>5, Zenon
<1> QED BY <1>5, <1>6

\* After n turns the walk has ended, or has n + 1 accounts behind it and is at another,
\* or is caught in a delegation of an account to itself.
Goes(n, w) ==
    \/ w.ended = TRUE
    \/ w.at \notin w.visited /\ Cardinality(w.visited) = n + 1
    \/ w.at \in w.visited /\ code[w.at] = w.at

GoodWalk(n, w, s) ==
    /\ w \in WalkType /\ Inspects(s, w.state) /\ Goes(n, w)
    /\ w.ended = TRUE => w.state[w.at] # Absent

LEMMA WalkGoesOn ==
    ASSUME ChainTyped, NEW n \in Nat, NEW w, NEW s, GoodWalk(n, w, s)
    PROVE  GoodWalk(n + 1, follow(w), s)
<1> DEFINE f == follow(w)
<1>0. w \in WalkType /\ Inspects(s, w.state) /\ Goes(n, w)
    BY DEF GoodWalk
<1>1. /\ f \in WalkType
      /\ Inspects(w.state, f.state)
      /\ \/ f.ended = TRUE /\ f.at = w.at /\ f.state[w.at] # Absent
         \/ /\ w.ended = FALSE /\ f.ended = FALSE
            /\ f.at = code[w.at] /\ code[w.at] \notin w.visited
            /\ f.visited = w.visited \union {w.at}
    BY <1>0, FollowTurn
<1>2. Inspects(s, f.state)
    BY <1>0, <1>1, InspectsTwice
<1> HIDE DEF f
<1>3. CASE f.ended = TRUE /\ f.at = w.at /\ f.state[w.at] # Absent
    BY <1>1, <1>2, <1>3 DEF GoodWalk, Goes, f
<1>4. CASE /\ w.ended = FALSE /\ f.ended = FALSE
           /\ f.at = code[w.at] /\ code[w.at] \notin w.visited
           /\ f.visited = w.visited \union {w.at}
    <2>1. w.at \notin w.visited /\ Cardinality(w.visited) = n + 1
        BY <1>0, <1>4 DEF Goes
    <2>a. IsFiniteSet(Accounts)
        BY StorageGasAssumption, Zenon
    <2>2. IsFiniteSet(w.visited)
        BY <1>0, <2>a, FS_Subset DEF WalkType
    <2>3. Cardinality(f.visited) = (n + 1) + 1
        BY <1>4, <2>1, <2>2, FS_AddElement
    <2>4. Goes(n + 1, f)
        BY <1>4, <2>3 DEF Goes
    <2> QED BY <1>1, <1>2, <1>4, <2>4 DEF GoodWalk, f
<1> QED BY <1>1, <1>3, <1>4

LEMMA WalkAllTheWay ==
    ASSUME ChainTyped, NEW N \in Nat, NEW g, NEW start, NEW s,
           Walks(g, N, start), GoodWalk(0, start, s)
    PROVE  \A n \in 0 .. N : GoodWalk(n, g[n], s)
<1>0. g[0] = start /\ \A i \in 1 .. N : g[i] = follow(g[i - 1])
    <2> DEFINE F(i) == IF i = 0 THEN start ELSE follow(g[i - 1])
    <2>1. g = [i \in 0 .. N |-> F(i)]
        BY DEF Walks
    <2>2. F(0) = start /\ \A i \in 1 .. N : F(i) = follow(g[i - 1])
        OBVIOUS
    <2> HIDE DEF F
    <2> QED BY <2>1, <2>2
<1> DEFINE T == {n \in Nat : n <= N => GoodWalk(n, g[n], s)}
<1>1. 0 \in T
    BY <1>0
<1>2. ASSUME NEW n \in Nat, n \in T PROVE n + 1 \in T
    <2> SUFFICES ASSUME n + 1 <= N PROVE GoodWalk(n + 1, g[n + 1], s)
        OBVIOUS
    <2>1. GoodWalk(n, g[n], s)
        BY <1>2
    <2>2. n + 1 \in 1 .. N /\ (n + 1) - 1 = n
        OBVIOUS
    <2>3. g[n + 1] = follow(g[n])
        BY <1>0, <2>2
    <2>4. GoodWalk(n + 1, follow(g[n]), s)
        BY <2>1, WalkGoesOn
    <2> QED BY <2>3, <2>4
<1>3. Nat \subseteq T
    <2> HIDE DEF T
    <2> QED BY <1>1, <1>2, Induct
<1> QED BY <1>3

\* The loop of inspect_account_delegated ends before it runs out of accounts.
LEMMA WalkEnds ==
    ASSUME ChainTyped, NEW n \in Nat, n = Cardinality(Accounts), NEW w, NEW s, GoodWalk(n, w, s)
    PROVE  follow(w).ended = TRUE
<1>0. w \in WalkType /\ Goes(n, w)
    BY DEF GoodWalk
<1>1. w.visited \in SUBSET Accounts
    BY <1>0 DEF WalkType
<1>2. Cardinality(w.visited) # n + 1
    <2>1. IsFiniteSet(Accounts)
        BY StorageGasAssumption, Zenon
    <2>2. IsFiniteSet(w.visited) /\ Cardinality(w.visited) <= Cardinality(Accounts)
        BY <1>1, <2>1, FS_Subset
    <2>3. Cardinality(w.visited) \in Nat
        BY <2>2, FS_CardinalityType
    <2> QED BY <2>2, <2>3
<1>3. \/ follow(w).ended = TRUE
      \/ w.ended = FALSE /\ code[w.at] \notin w.visited
    BY <1>0, FollowTurn
<1> QED BY <1>0, <1>2, <1>3 DEF Goes

\* An inspection with delegations, under any spec: it ends at an account that is loaded.
\* From Rex4 on one delegation is followed at most.
LEMMA InspectDelegated ==
    ASSUME ChainTyped, NEW s \in States, NEW x \in Accounts,
           NEW r, r = inspect_account_delegated(s, x)
    PROVE  /\ r \in WalkType /\ Inspects(s, r.state) /\ r.ended = TRUE
           /\ r.at \in Accounts /\ r.state[r.at] # Absent /\ r.state[x] # Absent
           /\ is_enabled(spec, REX4) => r.at = x \/ code[x] \in Accounts
<1> DEFINE s1 == inspect_account(s, x)
           delegate == s1[x].code
           start == [state |-> s1, at |-> delegate, visited |-> {x}, ended |-> FALSE]
           C == Cardinality(Accounts)
           W == CHOOSE g : Walks(g, C + 1, start)
<1>1. Inspects(s, s1) /\ s1[x] # Absent /\ (delegate \in Accounts => delegate = code[x]) /\ s1 \in States
    BY InspectAccount DEF Inspects
<1>2. C \in Nat
    <2>1. IsFiniteSet(Accounts)
        BY StorageGasAssumption, Zenon
    <2> QED BY <2>1, FS_CardinalityType
<1>3. r = IF delegate \notin Accounts THEN [state |-> s1, at |-> x, visited |-> {}, ended |-> TRUE]
          ELSE IF is_enabled(spec, REX4)
          THEN [state |-> inspect_account(s1, delegate), at |-> delegate, visited |-> {}, ended |-> TRUE]
          ELSE W[C + 1]
    BY Zenon DEF inspect_account_delegated, Walks
<1>4. CASE delegate \notin Accounts
    <2>1. r.state = s1 /\ r.at = x /\ r.ended = TRUE
        <3> HIDE DEF s1, delegate, W
        <3> QED BY <1>3, <1>4
    <2>2. r = [state |-> s1, at |-> x, visited |-> {}, ended |-> TRUE]
        BY <1>3, <1>4, Zenon
    <2> HIDE DEF s1, delegate, W
    <2>3. r \in WalkType
        BY <1>1, <2>2, WalkMade, Zenon
    <2> QED BY <1>1, <2>1, <2>3, Zenon
<1>5. CASE delegate \in Accounts /\ is_enabled(spec, REX4)
    <2> DEFINE s2 == inspect_account(s1, delegate)
    <2>1. Inspects(s1, s2) /\ s2[delegate] # Absent
        BY <1>1, <1>5, InspectAccount
    <2>2. Inspects(s, s2)
        BY <1>1, <2>1, InspectsTwice
    <2>3. s2[x] # Absent
        BY <1>1, <2>1 DEF Inspects
    <2>4. r = [state |-> s2, at |-> delegate, visited |-> {}, ended |-> TRUE]
        BY <1>3, <1>5, Zenon
    <2> HIDE DEF s1, delegate, s2, W
    <2>5. r.state = s2 /\ r.at = delegate /\ r.ended = TRUE
        BY <2>4
    <2>6. s2 \in States
        BY <2>2 DEF Inspects
    <2>7. r \in WalkType
        BY <1>5, <2>4, <2>6, WalkMade, Zenon
    <2> QED BY <1>1, <1>5, <2>1, <2>2, <2>3, <2>5, <2>7, Zenon
<1>6. CASE delegate \in Accounts /\ ~is_enabled(spec, REX4)
    <2>1. Walks(W, C + 1, start)
        <3>1. \E g : Walks(g, C + 1, start)
            BY <1>2, WalkExists
        <3> HIDE DEF start, C
        <3> QED BY <3>1
    <2>2. GoodWalk(0, start, s1)
        <3>1. start \in WalkType
            <4> HIDE DEF s1, delegate
            <4> QED BY <1>1, <1>6, Zenon DEF WalkType
        <3>2. start.state = s1 /\ start.at = delegate /\ start.visited = {x} /\ start.ended = FALSE
            <4> HIDE DEF s1, delegate
            <4> QED OBVIOUS
        <3> HIDE DEF start, s1, delegate
        <3>3. Cardinality({x}) = 0 + 1
            <4>1. Cardinality({x}) = 1
                BY FS_Singleton, Zenon
            <4> QED BY <4>1
        <3>4. Goes(0, start)
            BY <1>1, <1>6, <3>2, <3>3 DEF Goes
        <3>5. Inspects(s1, s1)
            BY <1>1, InspectsNothing
        <3> QED BY <3>1, <3>2, <3>4, <3>5, Zenon DEF GoodWalk
    <2> HIDE DEF start, s1, W, delegate, C
    <2>3. GoodWalk(C, W[C], s1) /\ GoodWalk(C + 1, W[C + 1], s1)
        BY <1>2, <2>1, <2>2, WalkAllTheWay
    <2>4. W[C + 1] = follow(W[C])
        <3> DEFINE F(i) == IF i = 0 THEN start ELSE follow(W[i - 1])
        <3>1. W = [i \in 0 .. C + 1 |-> F(i)]
            BY <2>1 DEF Walks
        <3>2. F(C + 1) = follow(W[C]) /\ C + 1 \in 0 .. C + 1
            BY <1>2
        <3> HIDE DEF F
        <3> QED BY <3>1, <3>2
    <2>5. W[C + 1].ended = TRUE
        BY <1>2, <2>3, <2>4, WalkEnds DEF C
    <2>6. r = W[C + 1]
        BY <1>3, <1>6, Zenon
    <2>7. r \in WalkType /\ Inspects(s1, r.state) /\ r.ended = TRUE /\ r.state[r.at] # Absent
        BY <2>3, <2>5, <2>6, Zenon DEF GoodWalk
    <2>8. r.state[x] # Absent
        BY <1>1, <2>7 DEF Inspects
    <2>9. Inspects(s, r.state)
        BY <1>1, <2>7, InspectsTwice
    <2>10. r.at \in Accounts
        BY <2>7, Zenon DEF WalkType
    <2> QED BY <1>6, <2>7, <2>8, <2>9, <2>10, Zenon
<1> QED BY <1>4, <1>5, <1>6

-----------------------------------------------------------------------------
(* States in which nothing has grown unseen   *)

PaidFor(ch, kinds, at) == \E c \in ch : c.kind \in kinds /\ c.at = at

\* Of an account x that is d in the database, with the charges ch under the spec v
SlotSound(v, x, k, slot, d, ch) ==
    slot # Absent /\ is_enabled(v, REX4) =>
        /\ slot.original = d.storage[k]
        /\ slot.present # 0 /\ d.storage[k] = 0 => PaidFor(ch, {"slot"}, <<x, k>>)

\* What there is among the charges for an account that has come to life
Entries == {"account", "contract", "selfdestruct"}

ExistsSound(v, x, ne, d, ch) ==
    /\ d.nonempty = TRUE => ne = TRUE
    /\ is_enabled(v, REX4) /\ ne = TRUE /\ d.nonempty = FALSE => PaidFor(ch, Entries, x)

AccountSound(v, x, acc, d, ch) ==
    /\ acc.preloaded = TRUE => x \in Preloaded
    /\ ExistsSound(v, x, acc.nonempty, d, ch)
    /\ \A k \in Keys : SlotSound(v, x, k, acc.storage[k], d, ch)

Sound(v, s, d, ch) == \A x \in Accounts : s[x] # Absent => AccountSound(v, x, s[x], d[x], ch)

\* A charge more makes no state unsound.
LEMMA SoundStays ==
    ASSUME NEW v, NEW s, NEW d, NEW ch, NEW more, ch \subseteq more, Sound(v, s, d, ch)
    PROVE  Sound(v, s, d, more)
<1>1. \A kinds, at : PaidFor(ch, kinds, at) => PaidFor(more, kinds, at)
    BY DEF PaidFor
<1> QED BY <1>1, Zenon DEF Sound, AccountSound, SlotSound, ExistsSound

\* What is loaded is sound.
LEMMA BasicSound ==
    ASSUME ChainTyped, NEW x \in Accounts, NEW ch
    PROVE  AccountSound(spec, x, basic(x), db[x], ch)
<1>1. /\ basic(x).nonempty = db[x].nonempty
      /\ basic(x).storage = [k \in Keys |-> Absent]
      /\ ~(basic(x).preloaded = TRUE)
    BY BasicTyped
<1>2. db[x].nonempty # TRUE \/ db[x].nonempty # FALSE
    OBVIOUS
<1>3. ExistsSound(spec, x, basic(x).nonempty, db[x], ch)
    BY <1>1, <1>2, Zenon DEF ExistsSound
<1>4. ASSUME NEW k \in Keys PROVE basic(x).storage[k] = Absent
    BY <1>1, <1>4
<1>5. \A k \in Keys : SlotSound(spec, x, k, basic(x).storage[k], db[x], ch)
    BY <1>4, Zenon DEF SlotSound
<1> QED BY <1>1, <1>3, <1>5, Zenon DEF AccountSound

LEMMA SameSound ==
    ASSUME NEW v, NEW x, NEW a, NEW b, NEW d, NEW ch, Same(a, b), AccountSound(v, x, b, d, ch)
    PROVE  AccountSound(v, x, a, d, ch)
BY Zenon DEF Same, AccountSound

\* Inspections keep a state sound.
LEMMA InspectsSound ==
    ASSUME ChainTyped, NEW s, NEW t, NEW ch, Inspects(s, t), Sound(spec, s, db, ch)
    PROVE  Sound(spec, t, db, ch)
<1> SUFFICES ASSUME NEW x \in Accounts, t[x] # Absent PROVE AccountSound(spec, x, t[x], db[x], ch)
    BY DEF Sound
<1>1. CASE s[x] = Absent
    <2>1. Same(t[x], basic(x))
        BY <1>1 DEF Inspects
    <2> QED BY <2>1, BasicSound, SameSound
<1>2. CASE s[x] # Absent
    <2>1. Same(t[x], s[x])
        BY <1>2 DEF Inspects
    <2>2. AccountSound(spec, x, s[x], db[x], ch)
        BY <1>2 DEF Sound
    <2> QED BY <2>1, <2>2, SameSound
<1> QED BY <1>1, <1>2

\* An account of a state, and a slot of an account, are replaced.
Put(s, x, acc) == [s EXCEPT ![x] = acc]
PutStorage(acc, k, slot) == [acc EXCEPT !.storage = [@ EXCEPT ![k] = slot]]

\* And so does the change of one account to a sound one.
LEMMA UpdateSound ==
    ASSUME NEW s \in States, NEW x \in Accounts, NEW acc \in Account, NEW v, NEW d, NEW ch,
           Sound(v, s, d, ch), AccountSound(v, x, acc, d[x], ch),
           NEW t, t = Put(s, x, acc)
    PROVE  /\ t \in States /\ Sound(v, t, d, ch)
           /\ t[x] = acc /\ t[x] # Absent
           /\ \A y \in Accounts : s[y] # Absent => t[y] # Absent
<1>1. t \in States /\ t[x] = acc /\ \A y \in Accounts : y # x => t[y] = s[y]
    BY DEF States, Put
<1>2. acc # Absent
    BY AbsentAssumption
<1>3. Sound(v, t, d, ch)
    <2> SUFFICES ASSUME NEW y \in Accounts, t[y] # Absent PROVE AccountSound(v, y, t[y], d[y], ch)
        BY DEF Sound
    <2>1. CASE y = x
        BY <1>1, <2>1, Zenon
    <2>2. CASE y # x
        BY <1>1, <2>2, Zenon DEF Sound
    <2> QED BY <2>1, <2>2
<1> QED BY <1>1, <1>2, <1>3, Zenon

\* A slot of an account is replaced by one that is sound.
LEMMA PutSlot ==
    ASSUME NEW acc \in Account, NEW k \in Keys, NEW slot \in Slot, NEW v, NEW x, NEW d, NEW ch,
           AccountSound(v, x, acc, d, ch), SlotSound(v, x, k, slot, d, ch),
           NEW b, b = PutStorage(acc, k, slot)
    PROVE  b \in Account /\ AccountSound(v, x, b, d, ch) /\ b.storage[k] = slot
<1> DEFINE st == [acc.storage EXCEPT ![k] = slot]
<1>1. acc.storage \in [Keys -> Slot \union {Absent}]
    BY DEF Account
<1>2. st \in [Keys -> Slot \union {Absent}] /\ st[k] = slot /\ \A j \in Keys : j # k => st[j] = acc.storage[j]
    BY <1>1
<1> HIDE DEF st
<1>3. b = [acc EXCEPT !.storage = st]
    BY DEF st, PutStorage
<1>4. b \in Account /\ b.storage = st /\ b.nonempty = acc.nonempty /\ b.preloaded = acc.preloaded
    BY <1>2, <1>3 DEF Account
<1>5. \A j \in Keys : SlotSound(v, x, j, st[j], d, ch)
    BY <1>2, Zenon DEF AccountSound
<1>6. AccountSound(v, x, b, d, ch)
    BY <1>4, <1>5, Zenon DEF AccountSound
<1> QED BY <1>2, <1>4, <1>6, Zenon

-----------------------------------------------------------------------------
(* What the operations on the journal do to a sound state *)

\* t is a state that is sound as s is, and in which everything is loaded that s has.
Follows(s, t, ch) ==
    /\ t \in States /\ Sound(spec, t, db, ch)
    /\ \A y \in Accounts : s[y] # Absent => t[y] # Absent

LEMMA InspectsFollows ==
    ASSUME ChainTyped, NEW s, NEW t, NEW ch, Inspects(s, t), Sound(spec, s, db, ch)
    PROVE  Follows(s, t, ch)
BY InspectsSound DEF Follows, Inspects

LEMMA FollowsTwice ==
    ASSUME NEW s, NEW t, NEW u, NEW ch, Follows(s, t, ch), Follows(t, u, ch)
    PROVE  Follows(s, u, ch)
BY Zenon DEF Follows

\* The slots of an account, and what the database has for them
LEMMA SlotTyped ==
    ASSUME NEW s \in States, NEW x \in Accounts, s[x] # Absent, NEW k \in Keys
    PROVE  s[x] \in Account /\ (s[x].storage[k] # Absent => s[x].storage[k] \in Slot)
<1>1. s[x] \in Account
    BY DEF States
<1>2. s[x].storage \in [Keys -> Slot \union {Absent}]
    BY <1>1 DEF Account
<1> QED BY <1>1, <1>2

LEMMA DbTyped ==
    ASSUME ChainTyped, NEW x \in Accounts
    PROVE  /\ db[x].nonempty \in BOOLEAN /\ db[x].nonce \in Nonces
           /\ \A k \in Keys : db[x].storage[k] \in Values
<1>1. db \in DbType
    BY Zenon DEF ChainTyped
<1>2. db[x] \in [nonempty : BOOLEAN, nonce : Nonces, storage : [Keys -> Values]]
    BY <1>1 DEF DbType
<1> QED BY <1>2

\* storage_owner finds an account, from Rex4 on the address itself.
LEMMA StorageOwner ==
    ASSUME ChainTyped, NEW s \in States, NEW x \in Accounts, NEW r, r = storage_owner(s, x)
    PROVE  /\ Inspects(s, r.state) /\ r.at \in Accounts
           /\ r.state[r.at] # Absent /\ r.state[x] # Absent
           /\ is_enabled(spec, REX4) => r.at = x
           /\ \A new : [r EXCEPT !.state = new].state = new /\ [r EXCEPT !.state = new].at = r.at
<1>1. CASE is_enabled(spec, REX4)
    <2> DEFINE t == inspect_account(s, x)
    <2>1. r = [state |-> t, at |-> x]
        BY <1>1 DEF storage_owner
    <2>2. Inspects(s, t) /\ t[x] # Absent
        BY InspectAccount
    <2> HIDE DEF t
    <2> QED BY <1>1, <2>1, <2>2
<1>2. CASE ~is_enabled(spec, REX4)
    <2>1. r = inspect_account_delegated(s, x)
        BY <1>2 DEF storage_owner
    <2>2. /\ r \in WalkType /\ Inspects(s, r.state)
          /\ r.at \in Accounts /\ r.state[r.at] # Absent /\ r.state[x] # Absent
        BY <2>1, InspectDelegated
    <2>3. \A new : [r EXCEPT !.state = new].state = new /\ [r EXCEPT !.state = new].at = r.at
        BY <2>2 DEF WalkType
    <2> QED BY <1>2, <2>2, <2>3
<1> QED BY <1>1, <1>2

LEMMA SlotMade ==
    ASSUME NEW o \in Values, NEW p \in Values, NEW w \in BOOLEAN
    PROVE  [original |-> o, present |-> p, warm |-> w] \in Slot
BY DEF Slot

\* A slot as the database has it
LEMMA DbSlotSound ==
    ASSUME ChainTyped, NEW x \in Accounts, NEW k \in Keys, NEW y, NEW ch, NEW w \in BOOLEAN,
           is_enabled(spec, REX4) => y = x,
           NEW slot, slot = [original |-> db[x].storage[k], present |-> db[x].storage[k], warm |-> w]
    PROVE  slot \in Slot /\ SlotSound(spec, y, k, slot, db[y], ch)
<1>1. db[x].storage[k] \in Values
    BY DbTyped
<1> DEFINE value == db[x].storage[k]
<1>2. slot = [original |-> value, present |-> value, warm |-> w] /\ value \in Values
    BY <1>1
<1> HIDE DEF value
<1>3. slot \in Slot
    BY <1>2, SlotMade, Zenon
<1>4. slot.original = value /\ slot.present = value
    BY <1>2
<1> QED BY <1>3, <1>4, Zenon DEF SlotSound, value

\* inspect_storage loads a slot, from Rex4 on where it belongs.
LEMMA InspectStorage ==
    ASSUME ChainTyped, NEW s \in States, NEW x \in Accounts, NEW k \in Keys, NEW ch,
           Sound(spec, s, db, ch), NEW r, r = inspect_storage(s, x, k)
    PROVE  /\ Follows(s, r.state, ch) /\ r.state[x] # Absent /\ r.at \in Accounts
           /\ is_enabled(spec, REX4) => r.at = x /\ r.state[x].storage[k] # Absent
<1> DEFINE first == storage_owner(s, x)
           second == storage_owner(first.state, x)
           slot == [original |-> db[x].storage[k], present |-> db[x].storage[k], warm |-> FALSE]
<1>1. /\ Inspects(s, first.state) /\ first.at \in Accounts
      /\ first.state[first.at] # Absent /\ first.state[x] # Absent
      /\ is_enabled(spec, REX4) => first.at = x
    BY StorageOwner
<1>2. first.state \in States
    BY <1>1 DEF Inspects
<1>3. /\ Inspects(first.state, second.state) /\ second.at \in Accounts
      /\ second.state[second.at] # Absent /\ second.state[x] # Absent
      /\ is_enabled(spec, REX4) => second.at = x
      /\ \A new : [second EXCEPT !.state = new].state = new /\ [second EXCEPT !.state = new].at = second.at
    BY <1>2, StorageOwner
<1>4. Follows(s, second.state, ch)
    BY <1>1, <1>3, InspectsTwice, InspectsFollows
<1>5. r = IF first.state[first.at].storage[k] # Absent THEN second
          ELSE [second EXCEPT !.state[second.at].storage[k] = slot]
    BY DEF inspect_storage
<1>6. slot \in Slot /\ SlotSound(spec, second.at, k, slot, db[second.at], ch)
    <2>1. FALSE \in BOOLEAN
        OBVIOUS
    <2> HIDE DEF second
    <2> QED BY <1>3, <2>1, DbSlotSound, Zenon
<1> HIDE DEF first, second, slot
<1>7. CASE first.state[first.at].storage[k] # Absent
    <2>1. r = second
        BY <1>5, <1>7
    <2>2. ASSUME is_enabled(spec, REX4) PROVE second.state[x].storage[k] # Absent
        BY <1>1, <1>3, <1>7, <2>2 DEF Inspects, Same
    <2> QED BY <1>3, <1>4, <2>1, <2>2
<1>8. CASE ~(first.state[first.at].storage[k] # Absent)
    <2> DEFINE s2 == second.state
               o == second.at
               b == [s2[o] EXCEPT !.storage = [@ EXCEPT ![k] = slot]]
               new == [s2 EXCEPT ![o] = b]
    <2>1. r = [second EXCEPT !.state = new]
        BY <1>5, <1>8
    <2>2. r.state = new /\ r.at = o
        BY <1>3, <2>1, Zenon
    <2>3. s2 \in States /\ Sound(spec, s2, db, ch) /\ o \in Accounts /\ s2[o] # Absent /\ s2[x] # Absent
        BY <1>3, <1>4 DEF Follows
    <2> HIDE DEF s2, o
    <2>4. s2[o] \in Account /\ AccountSound(spec, o, s2[o], db[o], ch)
        BY <2>3 DEF Sound, States
    <2>a. b = PutStorage(s2[o], k, slot) /\ new = Put(s2, o, b)
        BY DEF Put, PutStorage
    <2>b. slot \in Slot /\ SlotSound(spec, o, k, slot, db[o], ch)
        BY <1>6 DEF o
    <2> HIDE DEF b, new
    <2>5. b \in Account /\ AccountSound(spec, o, b, db[o], ch) /\ b.storage[k] = slot
        BY <2>4, <2>a, <2>b, PutSlot
    <2>6. /\ new \in States /\ Sound(spec, new, db, ch) /\ new[o] = b
          /\ \A y \in Accounts : s2[y] # Absent => new[y] # Absent
        BY <2>3, <2>5, <2>a, UpdateSound
    <2>7. Follows(s2, new, ch)
        BY <2>6 DEF Follows
    <2>8. Follows(s, new, ch)
        BY <1>4, <2>7, FollowsTwice DEF s2
    <2>9. ASSUME is_enabled(spec, REX4) PROVE o = x /\ new[x].storage[k] # Absent
        <3>1. o = x
            BY <1>3, <2>9 DEF o
        <3>2. slot # Absent
            BY <1>6, AbsentAssumption
        <3> QED BY <2>5, <2>6, <3>1, <3>2
    <2> QED BY <2>2, <2>3, <2>6, <2>8, <2>9
<1> QED BY <1>7, <1>8

\* The change of one account, as a step
LEMMA PutFollows ==
    ASSUME NEW s \in States, NEW ch, Sound(spec, s, db, ch), NEW x \in Accounts,
           NEW acc \in Account, AccountSound(spec, x, acc, db[x], ch), NEW t, t = Put(s, x, acc)
    PROVE  Follows(s, t, ch) /\ t[x] = acc /\ t[x] # Absent
BY UpdateSound DEF Follows

\* The account that is changed
LEMMA AccountOf ==
    ASSUME NEW s \in States, NEW ch, Sound(spec, s, db, ch), NEW x \in Accounts, s[x] # Absent
    PROVE  s[x] \in Account /\ AccountSound(spec, x, s[x], db[x], ch)
BY DEF Sound, States

\* SLOAD
LEMMA SloadFollows ==
    ASSUME ChainTyped, NEW s \in States, NEW ch, Sound(spec, s, db, ch),
           NEW x \in Accounts, s[x] # Absent, NEW k \in Keys, NEW t, t = sload(s, x, k)
    PROVE  Follows(s, t, ch) /\ t[x] # Absent /\ t[x].storage[k] \in Slot
<1> DEFINE slot == s[x].storage[k]
           db_slot == [original |-> db[x].storage[k], present |-> db[x].storage[k], warm |-> TRUE]
           warmed == [slot EXCEPT !.warm = TRUE]
           new == IF slot = Absent THEN db_slot ELSE warmed
           acc == PutStorage(s[x], k, new)
<1>1. s[x] \in Account /\ AccountSound(spec, x, s[x], db[x], ch)
    BY AccountOf
<1>2. db_slot \in Slot /\ SlotSound(spec, x, k, db_slot, db[x], ch)
    <2>1. TRUE \in BOOLEAN
        OBVIOUS
    <2> QED BY <2>1, DbSlotSound, Zenon
<1>3. ASSUME slot # Absent PROVE warmed \in Slot /\ SlotSound(spec, x, k, warmed, db[x], ch)
    <2>1. slot \in Slot
        BY <1>3, SlotTyped
    <2>2. SlotSound(spec, x, k, slot, db[x], ch)
        BY <1>1 DEF AccountSound
    <2> HIDE DEF slot
    <2>3. warmed \in Slot /\ warmed.original = slot.original /\ warmed.present = slot.present
        BY <2>1 DEF Slot
    <2> HIDE DEF warmed
    <2> QED BY <1>3, <2>2, <2>3, Zenon DEF SlotSound
<1>4. new \in Slot /\ SlotSound(spec, x, k, new, db[x], ch)
    <2> HIDE DEF slot, db_slot, warmed
    <2>1. CASE slot = Absent
        BY <1>2, <2>1, Zenon
    <2>2. CASE slot # Absent
        BY <1>3, <2>2, Zenon
    <2> QED BY <2>1, <2>2
<1>5. t = Put(s, x, acc)
    BY DEF sload, Put, PutStorage
<1> HIDE DEF new
<1>6. acc = PutStorage(s[x], k, new)
    OBVIOUS
<1> HIDE DEF acc
<1>7. acc \in Account /\ AccountSound(spec, x, acc, db[x], ch) /\ acc.storage[k] = new
    BY <1>1, <1>4, <1>6, PutSlot
<1>8. Follows(s, t, ch) /\ t[x] = acc /\ t[x] # Absent
    BY <1>5, <1>7, PutFollows
<1> QED BY <1>4, <1>7, <1>8

\* SSTORE, if what is added is paid for
LEMMA SstoreFollows ==
    ASSUME ChainTyped, NEW s \in States, NEW ch, Sound(spec, s, db, ch),
           NEW x \in Accounts, s[x] # Absent, NEW k \in Keys, NEW value \in Values,
           is_enabled(spec, REX4) /\ value # 0 /\ db[x].storage[k] = 0 => PaidFor(ch, {"slot"}, <<x, k>>),
           NEW t, t = sstore(s, x, k, value)
    PROVE  Follows(s, t, ch) /\ t[x] # Absent
<1> DEFINE u == sload(s, x, k)
           slot == u[x].storage[k]
           new == [slot EXCEPT !.present = value]
           acc == PutStorage(u[x], k, new)
<1>1. Follows(s, u, ch) /\ u[x] # Absent /\ slot \in Slot
    BY SloadFollows
<1>2. t = Put(u, x, acc)
    BY DEF sstore, Put, PutStorage
<1> HIDE DEF u
<1>3. u \in States /\ Sound(spec, u, db, ch)
    BY <1>1 DEF Follows
<1>4. u[x] \in Account /\ AccountSound(spec, x, u[x], db[x], ch)
    BY <1>1, <1>3, AccountOf
<1>5. SlotSound(spec, x, k, slot, db[x], ch)
    BY <1>4 DEF AccountSound
<1> HIDE DEF slot
<1>6. new \in Slot /\ new.original = slot.original /\ new.present = value
    BY <1>1 DEF Slot
<1>7. acc = PutStorage(u[x], k, new)
    OBVIOUS
<1> HIDE DEF new, acc
<1>8. slot # Absent
    BY <1>1, AbsentAssumption
<1>9. SlotSound(spec, x, k, new, db[x], ch)
    BY <1>5, <1>6, <1>8, Zenon DEF SlotSound
<1>10. acc \in Account /\ AccountSound(spec, x, acc, db[x], ch)
    BY <1>4, <1>6, <1>7, <1>9, PutSlot
<1>11. Follows(u, t, ch) /\ t[x] # Absent
    BY <1>2, <1>3, <1>10, PutFollows
<1> QED BY <1>1, <1>11, FollowsTwice

\* An account that revm loads itself
LEMMA FirstLoad ==
    ASSUME ChainTyped, NEW x \in Accounts, NEW ch
    PROVE  LET first == [basic(x) EXCEPT !.preloaded = (x \in Preloaded)]
           IN first \in Account /\ AccountSound(spec, x, first, db[x], ch)
<1> DEFINE b == basic(x)
           p == x \in Preloaded
           first == [b EXCEPT !.preloaded = p]
<1>1. b \in Account /\ AccountSound(spec, x, b, db[x], ch)
    BY BasicTyped, BasicSound, Zenon
<1>2. p \in BOOLEAN /\ (p = TRUE => x \in Preloaded)
    <2>1. CASE x \in Preloaded
        <3>1. p
            BY <2>1
        <3> QED BY <2>1, <3>1
    <2>2. CASE x \notin Preloaded
        <3>1. p = FALSE
            BY <2>2
        <3> QED BY <3>1
    <2> QED BY <2>1, <2>2
<1> HIDE DEF b, p
<1>3. first \in Account /\ first.nonempty = b.nonempty /\ first.storage = b.storage /\ first.preloaded = p
    BY <1>1, <1>2 DEF Account
<1> HIDE DEF first
<1>4. AccountSound(spec, x, first, db[x], ch)
    BY <1>1, <1>2, <1>3, Zenon DEF AccountSound
<1> QED BY <1>3, <1>4, Zenon DEF first, b, p

\* An account is loaded and made warm.
LEMMA LoadFollows ==
    ASSUME ChainTyped, NEW s \in States, NEW ch, Sound(spec, s, db, ch),
           NEW x \in Accounts, NEW t, t = load_account(s, x)
    PROVE  Follows(s, t, ch) /\ t[x] # Absent
<1> DEFINE first == [basic(x) EXCEPT !.preloaded = (x \in Preloaded)]
           old == IF s[x] # Absent THEN s[x] ELSE first
           acc == [old EXCEPT !.warm = TRUE, !.code = code[x]]
<1>0. first \in Account /\ AccountSound(spec, x, first, db[x], ch)
    BY FirstLoad
<1>1. old \in Account /\ AccountSound(spec, x, old, db[x], ch)
    <2> HIDE DEF first
    <2>1. CASE s[x] = Absent
        BY <1>0, <2>1, Zenon
    <2>2. CASE s[x] # Absent
        BY <2>2, AccountOf, Zenon
    <2> QED BY <2>1, <2>2
<1>2. t = Put(s, x, acc)
    BY DEF load_account, Put
<1> HIDE DEF old
<1>3. code[x] \in Code
    BY CodeTyped
<1>4. acc \in Account /\ acc.nonempty = old.nonempty /\ acc.storage = old.storage
      /\ acc.preloaded = old.preloaded
    BY <1>1, <1>3 DEF Account
<1> HIDE DEF acc
<1>5. AccountSound(spec, x, acc, db[x], ch)
    BY <1>1, <1>4, Zenon DEF AccountSound
<1> QED BY <1>2, <1>4, <1>5, PutFollows

LEMMA LoadDelegatedFollows ==
    ASSUME ChainTyped, NEW s \in States, NEW ch, Sound(spec, s, db, ch),
           NEW x \in Accounts, NEW t, t = load_account_delegated(s, x)
    PROVE  Follows(s, t, ch) /\ t[x] # Absent
<1> DEFINE u == load_account(s, x)
<1>1. Follows(s, u, ch) /\ u[x] # Absent
    BY LoadFollows
<1>2. CASE code[x] \in Accounts
    <2>1. t = load_account(u, code[x])
        BY <1>2 DEF load_account_delegated
    <2> HIDE DEF u
    <2>2. u \in States /\ Sound(spec, u, db, ch)
        BY <1>1 DEF Follows
    <2>3. Follows(u, t, ch)
        BY <1>2, <2>1, <2>2, LoadFollows
    <2> QED BY <1>1, <2>3, FollowsTwice DEF Follows
<1>3. CASE code[x] \notin Accounts
    BY <1>1, <1>3 DEF load_account_delegated
<1> QED BY <1>2, <1>3

\* An account comes into being, if it is paid for.
LEMMA TransferFollows ==
    ASSUME ChainTyped, NEW s \in States, NEW ch, Sound(spec, s, db, ch),
           NEW x \in Accounts, s[x] # Absent,
           is_enabled(spec, REX4) /\ db[x].nonempty = FALSE => PaidFor(ch, Entries, x),
           NEW t, t = [s EXCEPT ![x].nonempty = TRUE]
    PROVE  Follows(s, t, ch) /\ t[x] # Absent
<1> DEFINE acc == [s[x] EXCEPT !.nonempty = TRUE]
<1>1. s[x] \in Account /\ AccountSound(spec, x, s[x], db[x], ch)
    BY AccountOf
<1>2. t = Put(s, x, acc)
    BY DEF Put
<1>3. acc \in Account /\ acc.nonempty = TRUE /\ acc.storage = s[x].storage /\ acc.preloaded = s[x].preloaded
    BY <1>1 DEF Account
<1> HIDE DEF acc
<1>4. AccountSound(spec, x, acc, db[x], ch)
    BY <1>1, <1>3, Zenon DEF AccountSound, ExistsSound
<1>5. s \in States /\ Sound(spec, s, db, ch) /\ x \in Accounts
    OBVIOUS
<1> QED BY ONLY <1>2, <1>3, <1>4, <1>5, PutFollows

\* The nonce of a creator
LEMMA NonceFollows ==
    ASSUME NEW s \in States, NEW ch, Sound(spec, s, db, ch),
           NEW x \in Accounts, s[x] # Absent, NEW n \in Nonces, NEW t, t = [s EXCEPT ![x].nonce = n]
    PROVE  Follows(s, t, ch) /\ t[x] # Absent
<1> DEFINE acc == [s[x] EXCEPT !.nonce = n]
<1>1. s[x] \in Account /\ AccountSound(spec, x, s[x], db[x], ch)
    BY AccountOf
<1>2. t = Put(s, x, acc)
    BY DEF Put
<1>3. acc \in Account /\ acc.nonempty = s[x].nonempty /\ acc.storage = s[x].storage
      /\ acc.preloaded = s[x].preloaded
    BY <1>1 DEF Account
<1> HIDE DEF acc
<1>4. AccountSound(spec, x, acc, db[x], ch)
    BY <1>1, <1>3, Zenon DEF AccountSound
<1>5. s \in States /\ Sound(spec, s, db, ch) /\ x \in Accounts
    OBVIOUS
<1> QED BY ONLY <1>2, <1>3, <1>4, <1>5, PutFollows

\* A slot that is reverted is as the saved state has it, or as the database has it.
LEMMA RevertSlot ==
    ASSUME NEW slot \in Slot \union {Absent}, NEW old \in Slot \union {Absent},
           NEW v, NEW x, NEW k, NEW d, NEW ch,
           SlotSound(v, x, k, slot, d, ch), SlotSound(v, x, k, old, d, ch),
           NEW t, t = revert_slot(slot, old)
    PROVE  t \in Slot \union {Absent} /\ SlotSound(v, x, k, t, d, ch)
<1>1. CASE slot = Absent
    BY <1>1, Zenon DEF revert_slot, SlotSound
<1>2. CASE slot # Absent /\ old # Absent
    BY <1>2, Zenon DEF revert_slot
<1>3. CASE slot # Absent /\ old = Absent
    <2>1. t = [slot EXCEPT !.present = slot.original, !.warm = FALSE]
        BY <1>3 DEF revert_slot
    <2>2. slot \in Slot
        BY <1>3
    <2>3. t \in Slot /\ t.original = slot.original /\ t.present = slot.original
        BY <2>1, <2>2 DEF Slot
    <2> QED BY <1>3, <2>3, Zenon DEF SlotSound
<1> QED BY <1>1, <1>2, <1>3

LEMMA RevertAccount ==
    ASSUME ChainTyped, NEW x \in Accounts, NEW acc \in Account, NEW old \in Account \union {Absent}, NEW ch,
           AccountSound(spec, x, acc, db[x], ch),
           old # Absent => AccountSound(spec, x, old, db[x], ch),
           NEW t, t = revert_account(x, acc, old)
    PROVE  t \in Account /\ AccountSound(spec, x, t, db[x], ch)
<1> DEFINE before == IF old = Absent THEN basic(x) ELSE old
           st == [k \in Keys |-> revert_slot(acc.storage[k], before.storage[k])]
           w == before.warm \/ acc.preloaded
<1>1. before \in Account /\ AccountSound(spec, x, before, db[x], ch)
    <2>1. CASE old = Absent
        BY <2>1, BasicTyped, BasicSound, Zenon
    <2>2. CASE old # Absent
        BY <2>2, Zenon
    <2> QED BY <2>1, <2>2
<1>2. acc # Absent
    BY AbsentAssumption
<1>3. t = [before EXCEPT !.code = acc.code, !.warm = w, !.preloaded = acc.preloaded, !.storage = st]
    BY <1>2 DEF revert_account
<1> HIDE DEF before
<1>4. acc.storage \in [Keys -> Slot \union {Absent}] /\ before.storage \in [Keys -> Slot \union {Absent}]
      /\ acc.code \in Code \union {"not loaded"} /\ acc.preloaded \in BOOLEAN
    BY <1>1 DEF Account
<1>a. w \in BOOLEAN
    BY Zenon
<1>5. ASSUME NEW k \in Keys
      PROVE  LET slot == revert_slot(acc.storage[k], before.storage[k])
             IN slot \in Slot \union {Absent} /\ SlotSound(spec, x, k, slot, db[x], ch)
    <2>1. SlotSound(spec, x, k, acc.storage[k], db[x], ch) /\ SlotSound(spec, x, k, before.storage[k], db[x], ch)
        BY <1>1, Zenon DEF AccountSound
    <2>2. acc.storage[k] \in Slot \union {Absent} /\ before.storage[k] \in Slot \union {Absent}
        BY <1>4
    <2> QED BY <2>1, <2>2, RevertSlot
<1>6. st \in [Keys -> Slot \union {Absent}] /\ \A k \in Keys : SlotSound(spec, x, k, st[k], db[x], ch)
    BY <1>5
<1> HIDE DEF st, w
<1>7. t \in Account /\ t.storage = st /\ t.nonempty = before.nonempty /\ t.preloaded = acc.preloaded
    BY <1>1, <1>3, <1>4, <1>6, <1>a DEF Account
<1> QED BY <1>1, <1>6, <1>7, Zenon DEF AccountSound

\* A frame that fails goes back to a sound state.
LEMMA RevertFollows ==
    ASSUME ChainTyped, NEW s \in States, NEW saved \in States, NEW ch,
           Sound(spec, s, db, ch), Sound(spec, saved, db, ch), NEW t, t = checkpoint_revert(s, saved)
    PROVE  Follows(s, t, ch)
<1>1. t = [x \in Accounts |-> revert_account(x, s[x], saved[x])]
    BY DEF checkpoint_revert
<1>2. ASSUME NEW x \in Accounts, s[x] = Absent PROVE t[x] = Absent
    BY <1>1, <1>2 DEF revert_account
<1>3. ASSUME NEW x \in Accounts, s[x] # Absent
      PROVE  t[x] \in Account /\ AccountSound(spec, x, t[x], db[x], ch)
    <2>1. s[x] \in Account /\ AccountSound(spec, x, s[x], db[x], ch)
        BY <1>3, AccountOf
    <2>2. saved[x] \in Account \union {Absent}
        BY DEF States
    <2>3. saved[x] # Absent => AccountSound(spec, x, saved[x], db[x], ch)
        BY DEF Sound
    <2>4. t[x] = revert_account(x, s[x], saved[x])
        BY <1>1
    <2> QED BY <2>1, <2>2, <2>3, <2>4, RevertAccount
<1>4. \A x \in Accounts : t[x] \in Account \union {Absent}
    BY <1>2, <1>3
<1>5. t \in States
    BY <1>1, <1>4 DEF States
<1>6. \A x \in Accounts : s[x] # Absent => t[x] # Absent
    BY <1>3, AbsentAssumption
<1>7. Sound(spec, t, db, ch)
    BY <1>2, <1>3, Zenon DEF Sound
<1> QED BY <1>5, <1>6, <1>7 DEF Follows

\* An account with code exists in the database.
Deployed == \A x \in Accounts : code[x] # "none" => db[x].nonempty = TRUE

\* What a transaction leaves in the database
LEMMA CommitTyped ==
    ASSUME ChainTyped, Deployed, NEW s \in States, NEW ch, Sound(spec, s, db, ch), NEW d, d = commit(s)
    PROVE  d \in DbType /\ \A x \in Accounts : code[x] # "none" => d[x].nonempty = TRUE
<1> DEFINE st(x) == [k \in Keys |-> LET slot == s[x].storage[k]
                                    IN IF slot = Absent \/ slot.present = slot.original THEN db[x].storage[k]
                                       ELSE slot.present]
           new(x) == [nonempty |-> s[x].nonempty, nonce |-> s[x].nonce, storage |-> st(x)]
           row == [nonempty : BOOLEAN, nonce : Nonces, storage : [Keys -> Values]]
<1>1. d = [x \in Accounts |-> IF s[x] = Absent THEN db[x] ELSE new(x)]
    BY DEF commit
<1>2. ASSUME NEW x \in Accounts, s[x] # Absent
      PROVE  new(x) \in row /\ (code[x] # "none" => new(x).nonempty = TRUE)
    <2>1. s[x] \in Account /\ AccountSound(spec, x, s[x], db[x], ch)
        BY <1>2, AccountOf
    <2>2. ASSUME NEW k \in Keys PROVE st(x)[k] \in Values
        <3> DEFINE slot == s[x].storage[k]
        <3>1. slot # Absent => slot \in Slot
            BY <1>2, SlotTyped
        <3>2. db[x].storage[k] \in Values
            BY <1>2, DbTyped
        <3>3. st(x)[k] = IF slot = Absent \/ slot.present = slot.original THEN db[x].storage[k] ELSE slot.present
            BY <2>2
        <3> HIDE DEF slot, st
        <3> QED BY <3>1, <3>2, <3>3 DEF Slot
    <2>3. st(x) \in [Keys -> Values]
        BY <2>2
    <2> HIDE DEF st
    <2>4. s[x].nonempty \in BOOLEAN /\ s[x].nonce \in Nonces
        BY <2>1 DEF Account
    <2>5. new(x) \in row
        BY <2>3, <2>4, Zenon
    <2>6. new(x).nonempty = s[x].nonempty
        OBVIOUS
    <2>7. code[x] # "none" => s[x].nonempty = TRUE
        BY <1>2, <2>1, Zenon DEF Deployed, AccountSound, ExistsSound
    <2> HIDE DEF new
    <2> QED BY <2>5, <2>6, <2>7, Zenon
<1>3. db \in [Accounts -> row]
    BY Zenon DEF ChainTyped, DbType
<1> HIDE DEF new, row
<1>4. ASSUME NEW x \in Accounts PROVE d[x] \in row /\ (code[x] # "none" => d[x].nonempty = TRUE)
    <2>1. CASE s[x] = Absent
        <3>1. d[x] = db[x]
            BY <1>1, <2>1
        <3> QED BY <1>3, <1>4, <3>1, Zenon DEF Deployed
    <2>2. CASE s[x] # Absent
        <3>1. d[x] = new(x)
            BY <1>1, <2>2
        <3> QED BY <1>2, <1>4, <2>2, <3>1, Zenon
    <2> QED BY <2>1, <2>2
<1>5. d \in [Accounts -> row]
    BY <1>1, <1>4
<1> QED BY <1>4, <1>5, Zenon DEF DbType, row

-----------------------------------------------------------------------------
(* The inductive invariant *)

FrameType == [self : Accounts, runs : BOOLEAN, static : BOOLEAN, saved : States]

\* The frames fs run on accounts that are loaded in s, and saved sound states.
FramesFit(fs, s, ch) ==
    /\ fs \in Seq(FrameType)
    /\ \A i \in DOMAIN fs : s[fs[i].self] # Absent /\ Sound(spec, fs[i].saved, db, ch)

\* The journal: it is sound, and so is every state that a frame may go back to; between
\* transactions it is empty.
World ==
    /\ ChainTyped /\ Deployed /\ cold \in BOOLEAN /\ capacity \in SaltEnvs
    /\ state \in States /\ Sound(spec, state, db, charges)
    /\ FramesFit(frames, state, charges)
    /\ frames = <<>> => state = Empty /\ charges = {}

\* The prices: what is remembered of a bucket is its capacity at this block, and every
\* charge was made at that price.
Prices ==
    /\ multipliers \in [Buckets -> Nat \union {Absent}]
    /\ \A b \in Buckets : multipliers[b] # Absent => multipliers[b] = capacity[b] \div MIN_BUCKET_SIZE
    /\ \A c \in charges : c.kind # "selfdestruct" => c.gas = Price(c.kind, c.at)

StorageInv == World /\ Prices

LEMMA EmptySound ==
    /\ Empty \in States /\ \A v, d, ch : Sound(v, Empty, d, ch)
    /\ \A s, ch : FramesFit(<<>>, s, ch)
<1>1. Empty \in States /\ \A x \in Accounts : Empty[x] = Absent
    BY DEF Empty, States
<1>2. \A v, d, ch : Sound(v, Empty, d, ch)
    BY <1>1, Zenon DEF Sound
<1>3. \A s, ch : FramesFit(<<>>, s, ch)
    BY DEF FramesFit
<1> QED BY <1>1, <1>2, <1>3

\* A state that follows and more charges leave the frames fit.
LEMMA FramesStayFit ==
    ASSUME NEW fs, NEW s, NEW t, NEW ch, NEW more, FramesFit(fs, s, ch),
           ch \subseteq more, Follows(s, t, more)
    PROVE  FramesFit(fs, t, more)
<1>1. fs \in Seq(FrameType)
    BY DEF FramesFit
<1>2. ASSUME NEW i \in DOMAIN fs PROVE t[fs[i].self] # Absent /\ Sound(spec, fs[i].saved, db, more)
    <2>1. fs[i] \in FrameType
        BY <1>1, <1>2
    <2>2. fs[i].self \in Accounts
        BY <2>1, Zenon DEF FrameType
    <2>3. s[fs[i].self] # Absent /\ Sound(spec, fs[i].saved, db, ch)
        BY <1>2, Zenon DEF FramesFit
    <2> QED BY <2>2, <2>3, SoundStays, Zenon DEF Follows
<1> QED BY <1>1, <1>2, Zenon DEF FramesFit

\* And so does another frame.
LEMMA FrameAdded ==
    ASSUME NEW fs, NEW t, NEW ch, FramesFit(fs, t, ch), NEW self \in Accounts, NEW has_code \in BOOLEAN,
           NEW static \in BOOLEAN, NEW saved \in States, t[self] # Absent, Sound(spec, saved, db, ch),
           NEW gs, gs = Append(fs, Frame(self, has_code, static, saved))
    PROVE  FramesFit(gs, t, ch) /\ gs # <<>>
<1> DEFINE f == Frame(self, has_code, static, saved)
<1>1. f \in FrameType /\ f.self = self /\ f.saved = saved
    <2>1. [self |-> self, runs |-> has_code, static |-> static, saved |-> saved] \in FrameType
        BY Zenon DEF FrameType
    <2> QED BY <2>1 DEF Frame
<1>2. fs \in Seq(FrameType)
    BY DEF FramesFit
<1> HIDE DEF f
<1>3. /\ gs \in Seq(FrameType) /\ gs # <<>>
      /\ \A i \in DOMAIN gs : gs[i] = f \/ (i \in DOMAIN fs /\ gs[i] = fs[i])
    BY <1>1, <1>2 DEF f
<1>4. ASSUME NEW i \in DOMAIN gs PROVE t[gs[i].self] # Absent /\ Sound(spec, gs[i].saved, db, ch)
    <2>1. CASE gs[i] = f
        BY <1>1, <2>1, Zenon
    <2>2. CASE i \in DOMAIN fs /\ gs[i] = fs[i]
        BY <2>2, Zenon DEF FramesFit
    <2> QED BY <1>3, <2>1, <2>2
<1> QED BY <1>3, <1>4, Zenon DEF FramesFit

\* The frame that runs
LEMMA TopFacts ==
    ASSUME World, frames # <<>>
    PROVE  /\ Top \in FrameType /\ Top.self \in Accounts /\ Top.saved \in States /\ Top.static \in BOOLEAN
           /\ state[Top.self] # Absent /\ Sound(spec, Top.saved, db, charges)
           /\ frames \in Seq(FrameType) /\ Len(frames) \in Nat /\ Len(frames) > 0
<1>1. frames \in Seq(FrameType)
    BY Zenon DEF World, FramesFit
<1>2. Len(frames) \in DOMAIN frames /\ Len(frames) \in Nat /\ Len(frames) > 0
    BY <1>1
<1>3. Top \in FrameType
    BY <1>1, <1>2 DEF Top
<1>4. Top.self \in Accounts /\ Top.saved \in States /\ Top.static \in BOOLEAN
    BY <1>3, Zenon DEF FrameType
<1>5. state[Top.self] # Absent /\ Sound(spec, Top.saved, db, charges)
    BY <1>2, Zenon DEF World, FramesFit, Top
<1> QED BY <1>1, <1>2, <1>3, <1>4, <1>5

\* A step within a transaction
LEMMA StepInside ==
    ASSUME World, UNCHANGED <<chain, db, capacity>>, cold' \in BOOLEAN, charges \subseteq charges',
           Follows(state, state', charges'), FramesFit(frames', state', charges'), frames' # <<>>
    PROVE  World'
<1>1. spec' = spec /\ code' = code /\ inline' = inline /\ db' = db /\ capacity' = capacity
    BY DEF chain
<1>2. ChainTyped' /\ Deployed'
    BY <1>1, Zenon DEF World, ChainTyped, Deployed
<1>3. state' \in States /\ Sound(spec, state, db, charges)'
    BY <1>1, Zenon DEF Follows, Sound
<1>4. FramesFit(frames, state, charges)'
    BY <1>1, Zenon DEF FramesFit, Sound
<1> QED BY <1>1, <1>2, <1>3, <1>4, Zenon DEF World

\* The frames below the one that runs
Below(fs) == SubSeq(fs, 1, Len(fs) - 1)

LEMMA Shorter ==
    ASSUME NEW S, NEW fs \in Seq(S), Len(fs) > 1, NEW gs, gs = Below(fs)
    PROVE  /\ gs \in Seq(S) /\ gs # <<>>
           /\ \A i \in DOMAIN gs : i \in DOMAIN fs /\ gs[i] = fs[i]
<1> DEFINE n == Len(fs) - 1
<1>1. n \in Nat /\ n > 0 /\ n <= Len(fs) /\ Len(fs) \in Nat
    OBVIOUS
<1>2. /\ gs \in Seq(S) /\ Len(gs) = n
      /\ \A i \in 1 .. n : gs[i] = fs[i]
    BY <1>1 DEF Below
<1> HIDE DEF n
<1>3. DOMAIN gs = 1 .. n /\ gs # <<>>
    BY ONLY <1>1, <1>2
<1>4. DOMAIN fs = 1 .. Len(fs)
    OBVIOUS
<1>5. \A i \in 1 .. n : i \in 1 .. Len(fs)
    BY <1>1
<1> QED BY <1>2, <1>3, <1>4, <1>5, Zenon

\* The end of a frame, from the state that the wrapper has inspected
LEMMA LeaveKeeps ==
    ASSUME World, frames # <<>>, UNCHANGED <<chain, capacity>>, NEW s, Follows(state, s, charges),
           NEW ok \in BOOLEAN, Leave(s, ok)
    PROVE  World' /\ (charges' = {} \/ charges' = charges)
<1> DEFINE left == IF ok THEN s ELSE checkpoint_revert(s, Top.saved)
<1>0. /\ Top \in FrameType /\ Top.self \in Accounts /\ Top.saved \in States
      /\ Sound(spec, Top.saved, db, charges)
      /\ frames \in Seq(FrameType) /\ Len(frames) \in Nat /\ Len(frames) > 0
    BY TopFacts
<1>1. ChainTyped /\ Deployed /\ FramesFit(frames, state, charges) /\ capacity \in SaltEnvs
    BY Zenon DEF World
<1>2. s \in States /\ Sound(spec, s, db, charges)
    BY DEF Follows
<1>3. Follows(state, left, charges)
    <2>1. CASE ok
        BY <2>1, Zenon
    <2>2. CASE ~ok
        <3> DEFINE t == checkpoint_revert(s, Top.saved)
        <3>1. Follows(s, t, charges)
            BY <1>0, <1>1, <1>2, RevertFollows
        <3>2. Follows(state, t, charges)
            BY <3>1, FollowsTwice
        <3> QED BY <2>2, <3>2, Zenon
    <2> QED BY <2>1, <2>2
<1>4. /\ frames' = SubSeq(frames, 1, Len(frames) - 1) /\ cold' = FALSE
      /\ Len(frames) = 1 => db' = commit(left) /\ state' = Empty /\ charges' = {}
      /\ Len(frames) # 1 => state' = left /\ db' = db /\ charges' = charges
    BY Zenon DEF Leave
<1>5. left \in States /\ Sound(spec, left, db, charges)
    BY <1>3 DEF Follows
<1> HIDE DEF left
<1>6. spec' = spec /\ code' = code /\ inline' = inline /\ capacity' = capacity
    BY DEF chain
<1>7. CASE Len(frames) = 1
    <2>1. frames' = <<>>
        BY <1>0, <1>4, <1>7
    <2>2. db' \in DbType /\ \A x \in Accounts : code[x] # "none" => db'[x].nonempty = TRUE
        BY <1>1, <1>4, <1>5, <1>7, CommitTyped
    <2>3. ChainTyped' /\ Deployed'
        BY <1>1, <1>6, <2>2, Zenon DEF ChainTyped, Deployed
    <2>4. state' = Empty /\ charges' = {} /\ cold' \in BOOLEAN
        BY <1>4, <1>7
    <2>5. state' \in States /\ Sound(spec, state, db, charges)' /\ FramesFit(frames, state, charges)'
        <3>1. Empty' = Empty
            BY DEF Empty
        <3>2. frames' \in Seq(FrameType) /\ DOMAIN frames' = {}
            BY <2>1
        <3> QED BY <2>1, <2>4, <3>2, EmptySound, Zenon DEF Sound, FramesFit
    <2>6. Empty' = Empty
        BY DEF Empty
    <2> QED BY <1>1, <1>6, <2>1, <2>3, <2>4, <2>5, <2>6, Zenon DEF World
<1>8. CASE Len(frames) # 1
    <2>1. state' = left /\ db' = db /\ charges' = charges
        BY <1>4, <1>8
    <2>2. FramesFit(frames, left, charges)
        BY <1>1, <1>3, FramesStayFit
    <2>3. /\ frames' \in Seq(FrameType) /\ frames' # <<>>
          /\ \A i \in DOMAIN frames' : i \in DOMAIN frames /\ frames'[i] = frames[i]
        <3>1. frames' = Below(frames)
            BY <1>4, Zenon DEF Below
        <3>2. frames \in Seq(FrameType)
            BY <1>0, Zenon
        <3>3. Len(frames) > 1
            <4> DEFINE L == Len(frames)
            <4>1. L \in Nat /\ L > 0 /\ L # 1
                BY <1>0, <1>8, Zenon
            <4> HIDE DEF L
            <4>2. L > 1
                BY ONLY <4>1
            <4> QED BY <4>2, Zenon DEF L
        <3> QED BY ONLY <3>1, <3>2, <3>3, Shorter
    <2>4. FramesFit(frames', state', charges')
        BY <2>1, <2>2, <2>3, Zenon DEF FramesFit
    <2>5. Follows(state, state', charges') /\ charges \subseteq charges'
        BY <1>3, <2>1
    <2>6. cold' \in BOOLEAN
        BY <1>4, Zenon
    <2> QED BY <2>1, <2>3, <2>4, <2>5, <2>6, StepInside
<1> QED BY <1>7, <1>8

\* A transaction that is dropped
LEMMA DropKeeps ==
    ASSUME World, UNCHANGED <<chain, capacity>>, Drop
    PROVE  World' /\ charges' = {}
<1>1. /\ frames' = <<>> /\ state' = Empty /\ charges' = {} /\ cold' = FALSE /\ db' = db
      /\ spec' = spec /\ code' = code /\ inline' = inline /\ capacity' = capacity /\ Empty' = Empty
    BY DEF Drop, chain, Empty
<1>2. ChainTyped' /\ Deployed'
    BY <1>1, Zenon DEF World, ChainTyped, Deployed
<1>3. frames' \in Seq(FrameType) /\ DOMAIN frames' = {} /\ cold' \in BOOLEAN
    <2>1. <<>> \in Seq(FrameType) /\ DOMAIN <<>> = {}
        OBVIOUS
    <2> QED BY <1>1, <2>1, Zenon
<1>4. state' \in States /\ Sound(spec, state, db, charges)' /\ FramesFit(frames, state, charges)'
    BY <1>1, <1>3, EmptySound, Zenon DEF Sound, FramesFit
<1> QED BY <1>1, <1>2, <1>3, <1>4, Zenon DEF World

\* What a wrapper may charge for
Chargeable(kind, at) ==
    \/ kind = "slot" /\ at \in Accounts \X Keys
    \/ kind \in {"account", "contract"} /\ at \in Accounts \union Created

LEMMA BucketTyped ==
    ASSUME NEW kind, NEW at, Chargeable(kind, at)
    PROVE  bucket_of(kind, at) \in Buckets
<1>1. CASE kind = "slot" /\ at \in Accounts \X Keys
    <2>1. bucket_id_for_slot \in [Accounts \X Keys -> Buckets]
        BY StorageGasAssumption, Zenon
    <2> QED BY <1>1, <2>1, Zenon DEF bucket_of
<1>2. CASE kind \in {"account", "contract"} /\ at \in Accounts \union Created
    <2>1. bucket_id_for_account \in [Accounts \union Created -> Buckets]
        BY StorageGasAssumption, Zenon
    <2>2. kind # "slot"
        BY <1>2
    <2> QED BY <1>2, <2>1, <2>2, Zenon DEF bucket_of
<1> QED BY <1>1, <1>2 DEF Chargeable

\* The multiplier of a bucket is that of the block, remembered or not.
LEMMA LoadBucket ==
    ASSUME Prices, capacity \in SaltEnvs, NEW b \in Buckets
    PROVE  /\ load_bucket_cost_multiplier(b) = capacity[b] \div MIN_BUCKET_SIZE
           /\ load_bucket_cost_multiplier(b) \in Nat
<1>1. capacity \in [Buckets -> Nat]
    BY StorageGasAssumption, Zenon
<1>2. capacity[b] \div MIN_BUCKET_SIZE \in Nat
    BY <1>1 DEF MIN_BUCKET_SIZE
<1>3. load_bucket_cost_multiplier(b) = capacity[b] \div MIN_BUCKET_SIZE
    BY Zenon DEF Prices, load_bucket_cost_multiplier
<1> QED BY <1>2, <1>3

LEMMA PriceStays ==
    ASSUME UNCHANGED <<chain, capacity>>, NEW kind, NEW at
    PROVE  Price(kind, at)' = Price(kind, at)
BY DEF chain, Price, storage_gas

\* Charging nothing new
LEMMA PricesStay ==
    ASSUME Prices, UNCHANGED <<chain, capacity>>, multipliers' = multipliers, charges' \subseteq charges
    PROVE  Prices'
<1>1. \A c \in charges' : c.kind # "selfdestruct" => c.gas = Price(c.kind, c.at)
    BY Zenon DEF Prices
<1>2. \A c \in charges' : c.kind # "selfdestruct" => c.gas = Price(c.kind, c.at)'
    BY <1>1, PriceStays, Zenon
<1>3. capacity' = capacity
    OBVIOUS
<1>4. /\ multipliers' \in [Buckets -> Nat \union {Absent}]
      /\ \A b \in Buckets : multipliers'[b] # Absent => multipliers'[b] = capacity'[b] \div MIN_BUCKET_SIZE
    BY <1>3, Zenon DEF Prices
<1> QED BY <1>2, <1>4, Zenon DEF Prices, MIN_BUCKET_SIZE

\* Remembering a multiplier, and charging nothing new
LEMMA RememberKeeps ==
    ASSUME Prices, capacity \in SaltEnvs, UNCHANGED <<chain, capacity>>, NEW b \in Buckets,
           multipliers' = multipliers \/ remember(b), charges' \subseteq charges
    PROVE  Prices'
<1> DEFINE m == load_bucket_cost_multiplier(b)
<1>1. m = capacity[b] \div MIN_BUCKET_SIZE /\ m \in Nat
    BY LoadBucket
<1>2. multipliers' = multipliers \/ multipliers' = [multipliers EXCEPT ![b] = m]
    BY DEF remember
<1> HIDE DEF m
<1>3. /\ multipliers \in [Buckets -> Nat \union {Absent}]
      /\ \A x \in Buckets : multipliers[x] # Absent => multipliers[x] = capacity[x] \div MIN_BUCKET_SIZE
      /\ \A c \in charges : c.kind # "selfdestruct" => c.gas = Price(c.kind, c.at)
    BY DEF Prices
<1>4. multipliers' \in [Buckets -> Nat \union {Absent}]
    BY <1>1, <1>2, <1>3
<1>5. \A x \in Buckets : multipliers'[x] = multipliers[x] \/ (x = b /\ multipliers'[x] = m)
    BY <1>2, <1>3
<1>6. \A x \in Buckets : multipliers'[x] # Absent => multipliers'[x] = capacity[x] \div MIN_BUCKET_SIZE
    BY <1>1, <1>3, <1>5
<1>7. \A c \in charges' : c.kind # "selfdestruct" => c.gas = Price(c.kind, c.at)'
    <2>1. \A c \in charges' : c.kind # "selfdestruct" => c.gas = Price(c.kind, c.at)
        BY <1>3, Zenon
    <2> QED BY <2>1, PriceStays, Zenon
<1>8. capacity' = capacity
    OBVIOUS
<1>9. \A x \in Buckets : multipliers'[x] # Absent => multipliers'[x] = capacity'[x] \div MIN_BUCKET_SIZE
    BY ONLY <1>6, <1>8, Zenon
<1>10. MIN_BUCKET_SIZE' = MIN_BUCKET_SIZE
    BY DEF MIN_BUCKET_SIZE
<1> QED BY ONLY <1>4, <1>7, <1>9, <1>10, Zenon DEF Prices

\* A charge is made at the price of this block.
LEMMA PayKeeps ==
    ASSUME Prices, capacity \in SaltEnvs, UNCHANGED <<chain, capacity>>,
           NEW due \in BOOLEAN, NEW kind, NEW at, NEW grows, Chargeable(kind, at),
           Pay(Charge(due, kind, at, grows))
    PROVE  /\ Prices' /\ charges \subseteq charges'
           /\ due => PaidFor(charges', {kind}, at)
<1> DEFINE charge == Charge(due, kind, at, grows)
           b == bucket_of(kind, at)
           gas == storage_gas(kind, load_bucket_cost_multiplier(b))
           new == [kind |-> kind, at |-> at, grows |-> grows, gas |-> gas]
<1>1. charge.due = due /\ charge.kind = kind /\ charge.at = at /\ charge.grows = grows
    BY DEF Charge
<1>2. b \in Buckets
    BY BucketTyped
<1>3. gas = Price(kind, at)
    BY <1>2, LoadBucket, Zenon DEF Price
<1>4. IF due THEN remember(b) /\ charges' = charges \union {new}
      ELSE UNCHANGED <<multipliers, charges>>
    <2>1. Pay(charge)
        OBVIOUS
    <2> HIDE DEF charge
    <2> QED BY <1>1, <2>1, Zenon DEF Pay
<1> HIDE DEF charge, b, gas
<1>5. CASE due
    <2>1. remember(b) /\ charges' = charges \union {new}
        BY <1>4, <1>5, Zenon
    <2>2. new.kind = kind /\ new.at = at /\ new.gas = gas
        OBVIOUS
    <2> HIDE DEF new
    <2>3. \A c \in charges' : c.kind # "selfdestruct" => c.gas = Price(c.kind, c.at)'
        <3>1. \A c \in charges : c.kind # "selfdestruct" => c.gas = Price(c.kind, c.at)
            BY Zenon DEF Prices
        <3>2. new.gas = Price(new.kind, new.at)
            BY <1>3, <2>2, Zenon
        <3>3. \A c \in charges' : c.kind # "selfdestruct" => c.gas = Price(c.kind, c.at)
            BY <2>1, <3>1, <3>2, Zenon
        <3> QED BY <3>3, PriceStays, Zenon
    <2>4. /\ multipliers' \in [Buckets -> Nat \union {Absent}]
          /\ \A x \in Buckets : multipliers'[x] # Absent => multipliers'[x] = capacity[x] \div MIN_BUCKET_SIZE
        <3> DEFINE m == load_bucket_cost_multiplier(b)
        <3>1. m = capacity[b] \div MIN_BUCKET_SIZE /\ m \in Nat
            BY <1>2, LoadBucket
        <3>2. multipliers' = [multipliers EXCEPT ![b] = m]
            BY <2>1 DEF remember
        <3> HIDE DEF m
        <3>3. /\ multipliers \in [Buckets -> Nat \union {Absent}]
              /\ \A x \in Buckets : multipliers[x] # Absent => multipliers[x] = capacity[x] \div MIN_BUCKET_SIZE
            BY DEF Prices
        <3>4. multipliers' \in [Buckets -> Nat \union {Absent}]
            BY <3>1, <3>2, <3>3
        <3>5. \A x \in Buckets : multipliers'[x] = multipliers[x] \/ (x = b /\ multipliers'[x] = m)
            BY <3>2, <3>3
        <3> QED BY <3>1, <3>3, <3>4, <3>5
    <2>5. Prices'
        BY <2>3, <2>4, Zenon DEF Prices, MIN_BUCKET_SIZE
    <2>6. new \in charges' /\ charges \subseteq charges'
        BY <2>1, Zenon
    <2>7. PaidFor(charges', {kind}, at)
        BY <2>2, <2>6, Zenon DEF PaidFor
    <2> QED BY <2>5, <2>6, <2>7
<1>6. CASE ~due
    <2>1. multipliers' = multipliers /\ charges' = charges
        BY <1>4, <1>6
    <2>2. Prices'
        BY <1>2, <2>1, RememberKeeps
    <2> QED BY <1>6, <2>1, <2>2
<1> QED BY <1>5, <1>6

\* What a wrapper has to see to: that its instruction, once what is due is paid, leads
\* to a sound state and frames that fit it.
Fits(after, stack, due, kind, at) ==
    \A ch : charges \subseteq ch /\ (due => PaidFor(ch, {kind}, at)) =>
        Follows(state, after, ch) /\ FramesFit(stack, after, ch) /\ stack # <<>>

LEMMA WrapperKeeps ==
    ASSUME StorageInv, frames # <<>>, UNCHANGED <<chain, capacity>>,
           NEW seen_state, Follows(state, seen_state, charges),
           NEW due \in BOOLEAN, NEW kind, NEW at, NEW grows, Chargeable(kind, at), NEW is_cold \in BOOLEAN,
           NEW after, NEW stack, Fits(after, stack, due, kind, at),
           Wrapper(seen_state, Charge(due, kind, at, grows), is_cold, after, stack)
    PROVE  StorageInv'
<1> DEFINE charge == Charge(due, kind, at, grows)
<1>1. World /\ Prices /\ capacity \in SaltEnvs
    BY Zenon DEF StorageInv, World
<1>2. \/ Pay(charge) /\ state' = after /\ cold' = is_cold /\ frames' = stack /\ db' = db
      \/ remember(bucket_of(kind, at)) /\ Leave(seen_state, FALSE)
      \/ Drop
    <2>1. charge.kind = kind /\ charge.at = at
        BY DEF Charge
    <2>2. Wrapper(seen_state, charge, is_cold, after, stack)
        OBVIOUS
    <2> HIDE DEF charge
    <2> QED BY <2>1, <2>2, Zenon DEF Wrapper
<1>3. bucket_of(kind, at) \in Buckets
    BY BucketTyped
<1>4. CASE Pay(charge) /\ state' = after /\ cold' = is_cold /\ frames' = stack /\ db' = db
    <2>1. Prices' /\ charges \subseteq charges' /\ (due => PaidFor(charges', {kind}, at))
        BY <1>1, <1>4, PayKeeps, Zenon
    <2>2. Follows(state, after, charges') /\ FramesFit(stack, after, charges') /\ stack # <<>>
        BY <2>1, Zenon DEF Fits
    <2>3. /\ Follows(state, state', charges') /\ FramesFit(frames', state', charges') /\ frames' # <<>>
          /\ cold' \in BOOLEAN /\ UNCHANGED <<chain, db, capacity>>
        BY <1>4, <2>2
    <2>4. World'
        BY ONLY <1>1, <2>1, <2>3, StepInside, Zenon
    <2> QED BY <2>1, <2>4, Zenon DEF StorageInv
<1>5. CASE remember(bucket_of(kind, at)) /\ Leave(seen_state, FALSE)
    <2>1. FALSE \in BOOLEAN
        OBVIOUS
    <2>2. World' /\ (charges' = {} \/ charges' = charges)
        BY <1>1, <1>5, <2>1, LeaveKeeps, Zenon
    <2>3. charges' \subseteq charges
        BY <2>2
    <2>4. Prices'
        BY <1>1, <1>3, <1>5, <2>3, RememberKeeps, Zenon
    <2> QED BY <2>2, <2>4, Zenon DEF StorageInv
<1>6. CASE Drop
    <2>1. World' /\ charges' = {} /\ multipliers' = multipliers
        BY <1>1, <1>6, DropKeeps, Zenon DEF Drop
    <2>2. charges' \subseteq charges
        BY <2>1
    <2>3. Prices'
        BY <1>1, <1>3, <2>1, <2>2, RememberKeeps, Zenon
    <2> QED BY <2>1, <2>3, Zenon DEF StorageInv
<1> QED BY <1>2, <1>4, <1>5, <1>6, Zenon

\* A transaction starts on an empty journal.
LEMMA TransactionStarts ==
    ASSUME StorageInv, UNCHANGED <<chain, capacity, db>>,
           NEW due \in BOOLEAN, NEW kind, NEW at, NEW grows, Chargeable(kind, at), frames = <<>>,
           NEW after, NEW frame, Fits(after, <<frame>>, due, kind, at),
           Transaction(Charge(due, kind, at, grows), after, frame)
    PROVE  StorageInv'
<1> DEFINE charge == Charge(due, kind, at, grows)
<1>1. World /\ Prices /\ capacity \in SaltEnvs
    BY Zenon DEF StorageInv, World
<1>2. \/ Pay(charge) /\ state' = after /\ cold' = ~is_warm(state, frame.self) /\ frames' = <<frame>>
      \/ remember(bucket_of(kind, at)) /\ cold' = FALSE /\ UNCHANGED <<state, frames, charges>>
    <2>1. charge.kind = kind /\ charge.at = at
        BY DEF Charge
    <2>2. Transaction(charge, after, frame)
        OBVIOUS
    <2> HIDE DEF charge
    <2> QED BY <2>1, <2>2, Zenon DEF Transaction
<1>3. bucket_of(kind, at) \in Buckets
    BY BucketTyped
<1>4. CASE Pay(charge) /\ state' = after /\ cold' = ~is_warm(state, frame.self) /\ frames' = <<frame>>
    <2>0. UNCHANGED <<chain, capacity>>
        OBVIOUS
    <2>1. Prices' /\ charges \subseteq charges' /\ (due => PaidFor(charges', {kind}, at))
        BY <1>1, <1>4, <2>0, PayKeeps, Zenon
    <2>2. Follows(state, after, charges') /\ FramesFit(<<frame>>, after, charges') /\ <<frame>> # <<>>
        BY <2>1, Zenon DEF Fits
    <2>a. cold' \in BOOLEAN
        BY <1>4, Zenon
    <2>3. /\ Follows(state, state', charges') /\ FramesFit(frames', state', charges') /\ frames' # <<>>
        BY <1>4, <2>2, Zenon
    <2>b. UNCHANGED <<chain, db, capacity>>
        OBVIOUS
    <2>4. World'
        BY ONLY <1>1, <2>1, <2>3, <2>a, <2>b, StepInside, Zenon
    <2> QED BY <2>1, <2>4, Zenon DEF StorageInv
<1>5. CASE remember(bucket_of(kind, at)) /\ cold' = FALSE /\ UNCHANGED <<state, frames, charges>>
    <2>1. /\ spec' = spec /\ code' = code /\ inline' = inline /\ db' = db /\ capacity' = capacity
          /\ state' = state /\ frames' = frames /\ charges' = charges /\ Empty' = Empty
        BY <1>5 DEF chain, Empty
    <2>2. ChainTyped' /\ Deployed' /\ cold' \in BOOLEAN
        BY <1>1, <1>5, <2>1, Zenon DEF World, ChainTyped, Deployed
    <2>3. Sound(spec, state, db, charges)' /\ FramesFit(frames, state, charges)'
        BY <1>1, <2>1, Zenon DEF World, Sound, FramesFit
    <2>4. World'
        BY <1>1, <2>1, <2>2, <2>3, Zenon DEF World
    <2>5. charges' \subseteq charges /\ UNCHANGED <<chain, capacity>>
        BY <2>1
    <2>6. Prices'
        BY <1>1, <1>3, <1>5, <2>5, RememberKeeps, Zenon
    <2> QED BY <2>4, <2>6, Zenon DEF StorageInv
<1> QED BY <1>2, <1>4, <1>5, Zenon

-----------------------------------------------------------------------------
(* The instructions *)

LEMMA FollowsStays ==
    ASSUME NEW s, NEW t, NEW ch, NEW more, Follows(s, t, ch), ch \subseteq more
    PROVE  Follows(s, t, more)
BY SoundStays, Zenon DEF Follows

LEMMA NothingFollows ==
    ASSUME World
    PROVE  Follows(state, state, charges)
BY Zenon DEF World, Follows

LEMMA SloadKeeps ==
    ASSUME StorageInv, NEW key \in Keys, Sload(key)
    PROVE  StorageInv'
<1>1. World /\ Prices /\ capacity \in SaltEnvs /\ ChainTyped /\ state \in States
      /\ Sound(spec, state, db, charges) /\ FramesFit(frames, state, charges)
    BY Zenon DEF StorageInv, World
<1>2. /\ frames # <<>> /\ state' = sload(state, Top.self, key)
      /\ cold' = ~is_warm_slot(state, Top.self, key)
      /\ UNCHANGED <<chain, db, frames, capacity, multipliers, charges>>
    BY Zenon DEF Sload, Running
<1>3. Top.self \in Accounts /\ state[Top.self] # Absent
    BY <1>1, <1>2, TopFacts, Zenon
<1>4. Follows(state, state', charges)
    BY <1>1, <1>2, <1>3, SloadFollows, Zenon
<1>5. /\ charges' = charges /\ frames' = frames /\ multipliers' = multipliers
      /\ UNCHANGED <<chain, db, capacity>> /\ UNCHANGED <<chain, capacity>>
    BY <1>2, Zenon
<1>6. FramesFit(frames, state', charges)
    BY <1>1, <1>4, FramesStayFit, Zenon
<1>7. cold' \in BOOLEAN
    BY <1>2, Zenon
<1>8. charges \subseteq charges' /\ charges' \subseteq charges
    BY <1>5
<1>9. World'
    BY <1>1, <1>2, <1>4, <1>5, <1>6, <1>7, <1>8, StepInside, Zenon
<1>10. Prices'
    BY <1>1, <1>5, <1>8, PricesStay, Zenon
<1> QED BY <1>9, <1>10 DEF StorageInv

LEMMA SstoreKeeps ==
    ASSUME StorageInv, NEW key \in Keys, NEW value \in Values, Sstore(key, value)
    PROVE  StorageInv'
<1> DEFINE x == Top.self
           seen_now == inspect_storage(state, x, key)
           slot == seen_now.state[seen_now.at].storage[key]
           at == <<x, key>>
           due == slot.original = 0 /\ slot.present = 0 /\ value # 0
           after == sstore(seen_now.state, x, key, value)
           is_cold == ~is_warm_slot(seen_now.state, x, key)
<1>1. World /\ ChainTyped /\ state \in States
      /\ Sound(spec, state, db, charges) /\ FramesFit(frames, state, charges)
    BY Zenon DEF StorageInv, World
<1>2. /\ frames # <<>> /\ UNCHANGED <<chain, capacity>>
      /\ Wrapper(seen_now.state, Charge(due, "slot", at, at), is_cold, after, frames)
    BY Zenon DEF Sstore, Running
<1>3. x \in Accounts /\ state[x] # Absent
    BY <1>1, <1>2, TopFacts, Zenon
<1> HIDE DEF x
<1>4. /\ Follows(state, seen_now.state, charges) /\ seen_now.state[x] # Absent
      /\ is_enabled(spec, REX4) => seen_now.at = x /\ seen_now.state[x].storage[key] # Absent
    BY <1>1, <1>3, InspectStorage
<1>5. Chargeable("slot", at)
    BY <1>3, Zenon DEF Chargeable
<1>6. Fits(after, frames, due, "slot", at)
    <2> SUFFICES ASSUME NEW ch, charges \subseteq ch, due => PaidFor(ch, {"slot"}, at)
                 PROVE  Follows(state, after, ch) /\ FramesFit(frames, after, ch) /\ frames # <<>>
        BY Zenon DEF Fits
    <2>1. Follows(state, seen_now.state, ch)
        BY <1>4, FollowsStays, Zenon
    <2>2. seen_now.state \in States /\ Sound(spec, seen_now.state, db, ch)
        BY <2>1, Zenon DEF Follows
    <2>3. ASSUME is_enabled(spec, REX4), value # 0, db[x].storage[key] = 0
          PROVE  PaidFor(ch, {"slot"}, <<x, key>>)
        <3>1. AccountSound(spec, x, seen_now.state[x], db[x], ch)
            BY <1>3, <1>4, <2>2, Zenon DEF Sound
        <3>2. slot = seen_now.state[x].storage[key] /\ slot # Absent
            BY <1>4, <2>3, Zenon
        <3>3. SlotSound(spec, x, key, slot, db[x], ch)
            BY <3>1, <3>2, Zenon DEF AccountSound
        <3> HIDE DEF slot
        <3> QED BY <2>3, <3>2, <3>3, Zenon DEF SlotSound
    <2> DEFINE t == seen_now.state
    <2>4. Follows(t, after, ch)
        <3>1. t \in States /\ Sound(spec, t, db, ch) /\ t[x] # Absent /\ after = sstore(t, x, key, value)
            BY <1>4, <2>2, Zenon
        <3> HIDE DEF t, after
        <3> QED BY <1>1, <1>3, <2>3, <3>1, SstoreFollows, Zenon
    <2>5. Follows(state, after, ch)
        BY <2>1, <2>4, FollowsTwice, Zenon
    <2> QED BY <1>1, <1>2, <2>5, FramesStayFit, Zenon
<1>7. due \in BOOLEAN /\ is_cold \in BOOLEAN
    BY Zenon
<1> HIDE DEF due, after, is_cold, seen_now, at
<1> QED BY <1>2, <1>4, <1>5, <1>6, <1>7, WrapperKeeps, Zenon

\* runs is a truth value.
LEMMA RunsTyped ==
    ASSUME NEW to
    PROVE  runs(to) \in BOOLEAN
<1>1. CASE code[to] \in Accounts
    BY <1>1, Zenon DEF runs
<1>2. CASE code[to] \notin Accounts
    BY <1>2, Zenon DEF runs
<1> QED BY <1>1, <1>2

\* Once an account that does not exist yet is paid for, it may come into being.
LEMMA TransferIsPaid ==
    ASSUME World, NEW to \in Accounts, NEW s, NEW ch, Follows(state, s, ch), s[to] # Absent,
           NEW at, is_enabled(spec, REX4) => at = to \/ code[to] \in Accounts,
           s[at].nonempty = FALSE => PaidFor(ch, {"account"}, to),
           is_enabled(spec, REX4), db[to].nonempty = FALSE
    PROVE  PaidFor(ch, Entries, to)
<1>1. code[to] = "none"
    BY Zenon DEF World, Deployed
<1>2. "none" \notin Accounts
    BY StorageGasAssumption
<1>3. at = to
    BY <1>1, <1>2, Zenon
<1>4. s \in States /\ Sound(spec, s, db, ch)
    BY Zenon DEF Follows
<1>5. AccountSound(spec, to, s[to], db[to], ch) /\ s[to] \in Account
    BY <1>4, AccountOf, Zenon
<1>6. s[to].nonempty \in BOOLEAN
    BY <1>5 DEF Account
<1>7. CASE s[to].nonempty = TRUE
    BY <1>5, <1>7, Zenon DEF AccountSound, ExistsSound
<1>8. CASE s[to].nonempty = FALSE
    BY <1>3, <1>8, Zenon DEF PaidFor, Entries
<1> QED BY <1>6, <1>7, <1>8, Zenon

LEMMA CallKeeps ==
    ASSUME StorageInv, NEW opcode, NEW to \in Accounts, NEW has_transfer \in BOOLEAN,
           Call(opcode, to, has_transfer)
    PROVE  StorageInv'
<1> DEFINE wrapped == opcode = "CALL" \/ is_enabled(spec, REX)
           seen_now == IF wrapped THEN inspect_account_delegated(state, to) ELSE [state |-> state, at |-> to]
           u == seen_now.state
           o == seen_now.at
           due == wrapped /\ has_transfer /\ ~u[o].nonempty
           grows == IF due /\ ~u[to].nonempty THEN to ELSE Absent
           loaded == load_account_delegated(u, to)
           moved == IF opcode = "CALL" /\ has_transfer THEN [loaded EXCEPT ![to].nonempty = TRUE] ELSE loaded
           self == IF opcode \in {"CALL", "STATICCALL"} THEN to ELSE Top.self
           static == Top.static \/ opcode = "STATICCALL"
           is_cold == ~is_warm(u, to)
           stack == Append(frames, Frame(self, runs(to), static, loaded))
<1>1. World /\ ChainTyped /\ state \in States
      /\ Sound(spec, state, db, charges) /\ FramesFit(frames, state, charges)
    BY Zenon DEF StorageInv, World
<1>2. /\ frames # <<>> /\ UNCHANGED <<chain, capacity>>
      /\ Wrapper(u, Charge(due, "account", to, grows), is_cold, moved, stack)
    BY Zenon DEF Call, Running
<1>3. Top.self \in Accounts /\ state[Top.self] # Absent /\ Top.static \in BOOLEAN
    BY <1>1, <1>2, TopFacts, Zenon
<1>4. /\ Inspects(state, u) /\ o \in Accounts
      /\ wrapped => u[to] # Absent /\ u[o] # Absent
      /\ wrapped /\ is_enabled(spec, REX4) => o = to \/ code[to] \in Accounts
    <2>1. CASE wrapped
        <3>1. seen_now = inspect_account_delegated(state, to)
            BY <2>1, Zenon
        <3> QED BY <1>1, <3>1, InspectDelegated
    <2>2. CASE ~wrapped
        <3>1. u = state /\ o = to
            BY <2>2
        <3> QED BY <1>1, <2>2, <3>1, InspectsNothing
    <2> QED BY <2>1, <2>2
<1>5. Follows(state, u, charges)
    BY <1>1, <1>4, InspectsFollows, Zenon
<1>s. static \in BOOLEAN
    BY Zenon
<1>6. Chargeable("account", to)
    BY Zenon DEF Chargeable
<1>7. due \in BOOLEAN /\ is_cold \in BOOLEAN
    BY Zenon
<1>8. Fits(moved, stack, due, "account", to)
    <2> SUFFICES ASSUME NEW ch, charges \subseteq ch, due => PaidFor(ch, {"account"}, to)
                 PROVE  Follows(state, moved, ch) /\ FramesFit(stack, moved, ch) /\ stack # <<>>
        BY Zenon DEF Fits
    <2>1. Follows(state, u, ch)
        BY <1>5, FollowsStays, Zenon
    <2>2. u \in States /\ Sound(spec, u, db, ch)
        BY <2>1, Zenon DEF Follows
    <2>3. Follows(u, loaded, ch) /\ loaded[to] # Absent
        BY <1>1, <2>2, LoadDelegatedFollows, Zenon
    <2>4. loaded \in States /\ Sound(spec, loaded, db, ch)
        BY <2>3, Zenon DEF Follows
    <2>5. Follows(loaded, moved, ch) /\ moved[to] # Absent
        <3>1. CASE opcode = "CALL" /\ has_transfer
            <4>1. wrapped /\ (u[o].nonempty = FALSE => PaidFor(ch, {"account"}, to))
                BY <3>1, Zenon
            <4>2. is_enabled(spec, REX4) /\ db[to].nonempty = FALSE => PaidFor(ch, Entries, to)
                <5> HIDE DEF u, o, wrapped
                <5> QED BY <1>1, <1>4, <2>1, <4>1, TransferIsPaid
            <4>3. moved = [loaded EXCEPT ![to].nonempty = TRUE]
                BY <3>1, Zenon
            <4> HIDE DEF loaded, moved
            <4> QED BY <1>1, <2>3, <2>4, <4>2, <4>3, TransferFollows, Zenon
        <3>2. CASE ~(opcode = "CALL" /\ has_transfer)
            <4>1. moved = loaded
                BY <3>2, Zenon
            <4> HIDE DEF loaded, moved
            <4> QED BY <2>3, <2>4, <4>1, Zenon DEF Follows
        <3> QED BY <3>1, <3>2
    <2>6. Follows(state, moved, ch)
        <3> HIDE DEF loaded, moved, u
        <3> QED BY <2>1, <2>3, <2>5, FollowsTwice, Zenon
    <2>7. FramesFit(frames, moved, ch)
        <3> HIDE DEF moved
        <3> QED BY <1>1, <2>6, FramesStayFit, Zenon
    <2>8. self \in Accounts /\ moved[self] # Absent
        <3> HIDE DEF moved
        <3>1. CASE opcode \in {"CALL", "STATICCALL"}
            BY <2>5, <3>1, Zenon
        <3>2. CASE opcode \notin {"CALL", "STATICCALL"}
            BY <1>3, <2>6, <3>2, Zenon DEF Follows
        <3> QED BY <3>1, <3>2
    <2>9. runs(to) \in BOOLEAN /\ stack = Append(frames, Frame(self, runs(to), static, loaded))
        BY RunsTyped, Zenon
    <2>10. FramesFit(stack, moved, ch) /\ stack # <<>>
        <3> HIDE DEF stack, self, static, moved, loaded
        <3> QED BY <1>s, <2>4, <2>7, <2>8, <2>9, FrameAdded, Zenon
    <2> QED BY <2>6, <2>10, Zenon
<1> HIDE DEF due, moved, is_cold, u, stack, grows
<1> QED BY <1>2, <1>5, <1>6, <1>7, <1>8, WrapperKeeps, Zenon

LEMMA CreateKeeps ==
    ASSUME StorageInv, NEW is_create2 \in BOOLEAN, Create(is_create2)
    PROVE  StorageInv'
<1> DEFINE x == Top.self
           seen_now == inspect_account_delegated(state, x)
           nonce == state[x].nonce
           n == IF is_create2 THEN nonce ELSE seen_now.state[seen_now.at].nonce
           kind == IF is_enabled(spec, REX) THEN "contract" ELSE "account"
           after == [seen_now.state EXCEPT ![x].nonce = nonce + 1]
           u == seen_now.state
           o == seen_now.at
<1>1. World /\ ChainTyped /\ state \in States
      /\ Sound(spec, state, db, charges) /\ FramesFit(frames, state, charges)
    BY Zenon DEF StorageInv, World
<1>2. /\ frames # <<>> /\ nonce < MaxNonce /\ UNCHANGED <<chain, capacity>>
      /\ Wrapper(seen_now.state, Charge(TRUE, kind, <<x, n>>, <<x, nonce>>), FALSE, after, frames)
    BY Zenon DEF Create, Running
<1>3. x \in Accounts /\ state[x] # Absent
    BY <1>1, <1>2, TopFacts, Zenon
<1> HIDE DEF x
<1>4. Inspects(state, u) /\ u[x] # Absent /\ o \in Accounts /\ u[o] # Absent
    BY <1>1, <1>3, InspectDelegated
<1>5. Follows(state, u, charges)
    BY <1>1, <1>4, InspectsFollows, Zenon
<1>6. u \in States
    BY <1>5, Zenon DEF Follows
<1>7. nonce \in Nonces /\ u[o].nonce \in Nonces
    <2> HIDE DEF u, o
    <2>1. state[x] \in Account /\ u[o] \in Account
        BY <1>1, <1>3, <1>4, <1>6 DEF States
    <2> QED BY <2>1 DEF Account
<1>8. nonce + 1 \in Nonces
    <2>1. MaxNonce \in Nat /\ nonce \in Nonces /\ nonce < MaxNonce
        BY <1>2, <1>7, StorageGasAssumption
    <2> HIDE DEF nonce
    <2> QED BY <2>1 DEF Nonces
<1>9. Chargeable(kind, <<x, n>>)
    <2>1. n \in Nonces
        BY <1>7, Zenon
    <2>2. kind \in {"account", "contract"}
        BY Zenon
    <2> HIDE DEF n, kind
    <2> QED BY <1>3, <2>1, <2>2, Zenon DEF Chargeable, Created
<1>10. Fits(after, frames, TRUE, kind, <<x, n>>)
    <2> HIDE DEF kind
    <2> SUFFICES ASSUME NEW ch, charges \subseteq ch
                 PROVE  Follows(state, after, ch) /\ FramesFit(frames, after, ch) /\ frames # <<>>
        BY Zenon DEF Fits
    <2>1. Follows(state, u, ch)
        BY <1>5, FollowsStays, Zenon
    <2>2. u \in States /\ Sound(spec, u, db, ch)
        BY <2>1, Zenon DEF Follows
    <2> DEFINE m == nonce + 1
    <2>3. after = [u EXCEPT ![x].nonce = m]
        BY Zenon
    <2> HIDE DEF after, u, m
    <2>4. Follows(u, after, ch)
        BY <1>3, <1>4, <1>8, <2>2, <2>3, NonceFollows, Zenon DEF m
    <2>5. Follows(state, after, ch)
        BY <2>1, <2>4, FollowsTwice, Zenon
    <2> QED BY <1>1, <1>2, <2>5, FramesStayFit, Zenon
<1>11. TRUE \in BOOLEAN /\ FALSE \in BOOLEAN
    OBVIOUS
<1> HIDE DEF after, seen_now, kind, n, nonce
<1> QED BY <1>2, <1>5, <1>9, <1>10, <1>11, WrapperKeeps, Zenon DEF u

\* The frame that runs stops.
LEMMA FrameStops ==
    ASSUME NEW fs, NEW t, NEW ch, FramesFit(fs, t, ch), NEW n \in DOMAIN fs,
           NEW gs, gs = [fs EXCEPT ![n].runs = FALSE]
    PROVE  FramesFit(gs, t, ch) /\ gs # <<>>
<1>1. fs \in Seq(FrameType) /\ \A i \in DOMAIN fs : t[fs[i].self] # Absent /\ Sound(spec, fs[i].saved, db, ch)
    BY Zenon DEF FramesFit
<1> DEFINE f == [fs[n] EXCEPT !.runs = FALSE]
<1>2. fs[n] \in FrameType
    BY <1>1
<1>3. f \in FrameType /\ f.self = fs[n].self /\ f.saved = fs[n].saved
    <2> DEFINE S == States
    <2>1. fs[n] \in [self : Accounts, runs : BOOLEAN, static : BOOLEAN, saved : S]
        BY <1>2 DEF FrameType
    <2> HIDE DEF S
    <2>2. f \in [self : Accounts, runs : BOOLEAN, static : BOOLEAN, saved : S]
          /\ f.self = fs[n].self /\ f.saved = fs[n].saved
        BY <2>1
    <2> QED BY <2>2 DEF S, FrameType
<1>4. gs = [fs EXCEPT ![n] = f]
    OBVIOUS
<1> HIDE DEF f
<1>5. gs \in Seq(FrameType) /\ gs # <<>> /\ DOMAIN gs = DOMAIN fs
      /\ \A i \in DOMAIN gs : (gs[i] = f /\ i = n) \/ gs[i] = fs[i]
    <2> DEFINE L == Len(fs)
               F == FrameType
    <2>1. L \in Nat /\ DOMAIN fs = 1 .. L /\ fs \in [1 .. L -> F]
        BY <1>1
    <2>2. f \in F
        BY <1>3
    <2> HIDE DEF L, F
    <2>3. gs \in [1 .. L -> F] /\ \A i \in 1 .. L : (gs[i] = f /\ i = n) \/ gs[i] = fs[i]
        BY <1>4, <2>1, <2>2
    <2>4. gs \in Seq(F) /\ DOMAIN gs = 1 .. L
        BY <2>1, <2>3
    <2>5. n \in 1 .. L
        BY <2>1
    <2>6. gs # <<>>
        BY <2>4, <2>5
    <2> QED BY <2>1, <2>3, <2>4, <2>6 DEF F
<1>6. ASSUME NEW i \in DOMAIN gs PROVE t[gs[i].self] # Absent /\ Sound(spec, gs[i].saved, db, ch)
    <2>1. CASE gs[i] = f /\ i = n
        BY <1>1, <1>3, <2>1, Zenon
    <2>2. CASE gs[i] = fs[i]
        BY <1>1, <1>5, <2>2, Zenon
    <2> QED BY <1>5, <2>1, <2>2
<1> QED BY <1>5, <1>6, Zenon DEF FramesFit

\* What SELFDESTRUCT brings to life is entered among the charges, at no price.
LEMMA SelfDestructKeeps ==
    ASSUME StorageInv, NEW target \in Accounts, NEW has_balance \in BOOLEAN, SelfDestruct(target, has_balance)
    PROVE  StorageInv'
<1> DEFINE loaded == load_account(state, target)
           gives == has_balance /\ target # Top.self
           given == [kind |-> "selfdestruct", at |-> target, grows |-> target, gas |-> 0]
           n == Len(frames)
<1>1. World /\ Prices /\ ChainTyped /\ state \in States
      /\ Sound(spec, state, db, charges) /\ FramesFit(frames, state, charges)
    BY Zenon DEF StorageInv, World
<1>2. /\ frames # <<>> /\ UNCHANGED <<chain, db, capacity, multipliers>>
      /\ state' = IF gives THEN [loaded EXCEPT ![target].nonempty = TRUE] ELSE loaded
      /\ cold' = ~is_warm(state, target)
      /\ frames' = [frames EXCEPT ![n].runs = FALSE]
      /\ charges' = IF gives /\ ~loaded[target].nonempty THEN charges \union {given} ELSE charges
    BY Zenon DEF SelfDestruct, Running
<1>3. n \in DOMAIN frames
    <2>1. frames \in Seq(FrameType)
        BY <1>1, Zenon DEF FramesFit
    <2> QED BY <1>2, <2>1
<1>4. given.kind = "selfdestruct" /\ given.at = target
    OBVIOUS
<1> HIDE DEF given, gives, n
<1>5. charges \subseteq charges'
      /\ \A c \in charges' : c \in charges \/ c = given
    BY <1>2, Zenon
<1>6. Follows(state, loaded, charges') /\ loaded[target] # Absent
    <2>1. Follows(state, loaded, charges) /\ loaded[target] # Absent
        BY <1>1, LoadFollows, Zenon
    <2> QED BY <1>5, <2>1, FollowsStays, Zenon
<1>7. loaded \in States /\ Sound(spec, loaded, db, charges')
    BY <1>6, Zenon DEF Follows
<1>8. Follows(loaded, state', charges')
    <2>1. CASE gives
        <3>1. loaded[target] \in Account /\ AccountSound(spec, target, loaded[target], db[target], charges')
            BY <1>6, <1>7, AccountOf, Zenon
        <3>2. loaded[target].nonempty \in BOOLEAN
            BY <3>1 DEF Account
        <3>3. is_enabled(spec, REX4) /\ db[target].nonempty = FALSE => PaidFor(charges', Entries, target)
            <4>1. CASE loaded[target].nonempty = TRUE
                BY <3>1, <4>1, Zenon DEF AccountSound, ExistsSound
            <4>2. CASE loaded[target].nonempty = FALSE
                <5>1. given \in charges'
                    BY <1>2, <2>1, <4>2, Zenon
                <5>2. "selfdestruct" \in Entries
                    BY DEF Entries
                <5> QED BY <1>4, <5>1, <5>2, Zenon DEF PaidFor
            <4> QED BY <3>2, <4>1, <4>2, Zenon
        <3>4. state' = [loaded EXCEPT ![target].nonempty = TRUE]
            BY <1>2, <2>1, Zenon
        <3> HIDE DEF loaded
        <3> QED BY <1>1, <1>6, <1>7, <3>3, <3>4, TransferFollows, Zenon
    <2>2. CASE ~gives
        <3>1. state' = loaded
            BY <1>2, <2>2, Zenon
        <3> HIDE DEF loaded
        <3> QED BY <1>7, <3>1, Zenon DEF Follows
    <2> QED BY <2>1, <2>2
<1> HIDE DEF loaded
<1>9. Follows(state, state', charges')
    BY <1>6, <1>8, FollowsTwice, Zenon
<1>10. FramesFit(frames, state', charges')
    BY <1>1, <1>5, <1>9, FramesStayFit, Zenon
<1>11. FramesFit(frames', state', charges') /\ frames' # <<>>
    <2> DEFINE t == state'
               ch == charges'
               gs == frames'
    <2>1. FramesFit(frames, t, ch) /\ gs = [frames EXCEPT ![n].runs = FALSE]
        BY <1>2, <1>10, Zenon
    <2> HIDE DEF t, ch, gs
    <2>2. FramesFit(gs, t, ch) /\ gs # <<>>
        BY <1>3, <2>1, FrameStops
    <2> QED BY <2>2, Zenon DEF t, ch, gs
<1>12. cold' \in BOOLEAN /\ UNCHANGED <<chain, db, capacity>> /\ UNCHANGED <<chain, capacity>>
    BY <1>2, Zenon
<1>13. World'
    BY <1>1, <1>5, <1>9, <1>11, <1>12, StepInside, Zenon
<1>14. Prices'
    <2>1. \A c \in charges' : c.kind # "selfdestruct" => c.gas = Price(c.kind, c.at)
        BY <1>1, <1>4, <1>5, Zenon DEF Prices
    <2>2. \A c \in charges' : c.kind # "selfdestruct" => c.gas = Price(c.kind, c.at)'
        BY <1>12, <2>1, PriceStays, Zenon
    <2>3. multipliers' = multipliers /\ capacity' = capacity
        BY <1>2, Zenon
    <2>4. /\ multipliers' \in [Buckets -> Nat \union {Absent}]
          /\ \A b \in Buckets : multipliers'[b] # Absent => multipliers'[b] = capacity'[b] \div MIN_BUCKET_SIZE
        BY <1>1, <2>3, Zenon DEF Prices
    <2> QED BY <2>2, <2>4, Zenon DEF Prices, MIN_BUCKET_SIZE
<1> QED BY <1>13, <1>14, Zenon DEF StorageInv

LEMMA ReturnKeeps ==
    ASSUME StorageInv, NEW ok \in BOOLEAN, Return(ok)
    PROVE  StorageInv'
<1>1. World /\ Prices
    BY Zenon DEF StorageInv
<1>2. frames # <<>> /\ Leave(state, ok) /\ UNCHANGED <<chain, capacity>> /\ multipliers' = multipliers
    BY Zenon DEF Return
<1>3. Follows(state, state, charges)
    BY <1>1, NothingFollows
<1>4. World' /\ (charges' = {} \/ charges' = charges)
    BY <1>1, <1>2, <1>3, LeaveKeeps, Zenon
<1>5. charges' \subseteq charges
    BY <1>4
<1>6. Prices'
    BY <1>1, <1>2, <1>5, PricesStay, Zenon
<1> QED BY <1>4, <1>6, Zenon DEF StorageInv

-----------------------------------------------------------------------------
(* Transactions and blocks *)

\* The first frame fits, when an account that comes into being with it is paid for.
LEMMA FirstFrameFits ==
    ASSUME World, frames = <<>>, NEW to \in Accounts, NEW has_code \in BOOLEAN,
           NEW loaded, Follows(state, loaded, charges), loaded[to] # Absent,
           NEW due, NEW kind \in {"account", "contract"},
           NEW after, \/ after = loaded
                      \/ after = [loaded EXCEPT ![to].nonempty = TRUE] /\ (db[to].nonempty = FALSE => due)
    PROVE  Fits(after, <<Frame(to, has_code, FALSE, loaded)>>, due, kind, to)
<1> DEFINE stack == <<Frame(to, has_code, FALSE, loaded)>>
<1> SUFFICES ASSUME NEW ch, charges \subseteq ch, due => PaidFor(ch, {kind}, to)
             PROVE  Follows(state, after, ch) /\ FramesFit(stack, after, ch) /\ stack # <<>>
    BY Zenon DEF Fits
<1>1. ChainTyped
    BY Zenon DEF World
<1>2. Follows(state, loaded, ch)
    BY FollowsStays, Zenon
<1>3. loaded \in States /\ Sound(spec, loaded, db, ch)
    BY <1>2, Zenon DEF Follows
<1>4. PaidFor(ch, {kind}, to) => PaidFor(ch, Entries, to)
    BY Zenon DEF PaidFor, Entries
<1>5. Follows(loaded, after, ch) /\ after[to] # Absent
    <2>1. CASE after = loaded
        BY <1>3, <2>1, Zenon DEF Follows
    <2>2. CASE after = [loaded EXCEPT ![to].nonempty = TRUE] /\ (db[to].nonempty = FALSE => due)
        <3>1. is_enabled(spec, REX4) /\ db[to].nonempty = FALSE => PaidFor(ch, Entries, to)
            BY <1>4, <2>2, Zenon
        <3> QED BY <1>1, <1>3, <2>2, <3>1, TransferFollows, Zenon
    <2> QED BY <2>1, <2>2
<1>6. Follows(state, after, ch)
    BY <1>2, <1>5, FollowsTwice, Zenon
<1>7. FramesFit(<<>>, after, ch)
    BY EmptySound, Zenon
<1>8. stack = Append(<<>>, Frame(to, has_code, FALSE, loaded)) /\ FALSE \in BOOLEAN
    OBVIOUS
<1> HIDE DEF stack
<1>9. FramesFit(stack, after, ch) /\ stack # <<>>
    BY <1>3, <1>5, <1>7, <1>8, FrameAdded, Zenon
<1> QED BY <1>6, <1>9

LEMMA CallTransactionKeeps ==
    ASSUME StorageInv, NEW to \in Accounts, NEW has_transfer \in BOOLEAN, CallTransaction(to, has_transfer)
    PROVE  StorageInv'
<1> DEFINE due == has_transfer /\ ~db[to].nonempty
           loaded == load_account_delegated(state, to)
           after == IF has_transfer THEN [loaded EXCEPT ![to].nonempty = TRUE] ELSE loaded
           frame == Frame(to, runs(to), FALSE, loaded)
<1>1. World /\ ChainTyped /\ state \in States /\ Sound(spec, state, db, charges)
    BY Zenon DEF StorageInv, World
<1>2. Transaction(Charge(due, "account", to, to), after, frame)
    BY Zenon DEF CallTransaction
<1>3. frames = <<>> /\ UNCHANGED <<chain, capacity, db>>
    BY <1>2, Zenon DEF Transaction
<1>4. Follows(state, loaded, charges) /\ loaded[to] # Absent
    BY <1>1, LoadDelegatedFollows, Zenon
<1>5. runs(to) \in BOOLEAN /\ "account" \in {"account", "contract"}
    BY RunsTyped, Zenon
<1>6. \/ after = loaded
      \/ after = [loaded EXCEPT ![to].nonempty = TRUE] /\ (db[to].nonempty = FALSE => due)
    <2>1. CASE has_transfer
        BY <2>1, Zenon
    <2>2. CASE ~has_transfer
        BY <2>2, Zenon
    <2> QED BY <2>1, <2>2
<1>7. due \in BOOLEAN /\ Chargeable("account", to)
    BY Zenon DEF Chargeable
<1> HIDE DEF due, after, loaded
<1>8. Fits(after, <<frame>>, due, "account", to)
    BY <1>1, <1>3, <1>4, <1>5, <1>6, FirstFrameFits, Zenon
<1> QED BY <1>2, <1>3, <1>7, <1>8, TransactionStarts, Zenon

LEMMA CreateTransactionKeeps ==
    ASSUME StorageInv, CreateTransaction
    PROVE  StorageInv'
<1> DEFINE at == created_address
           kind == IF is_enabled(spec, REX) THEN "contract" ELSE "account"
           loaded == load_account(state, at)
           after == [loaded EXCEPT ![at].nonempty = TRUE]
           frame == Frame(at, TRUE, FALSE, loaded)
<1>1. World /\ ChainTyped /\ state \in States /\ Sound(spec, state, db, charges)
    BY Zenon DEF StorageInv, World
<1>2. Transaction(Charge(TRUE, kind, at, at), after, frame)
    BY Zenon DEF CreateTransaction
<1>3. frames = <<>> /\ UNCHANGED <<chain, capacity, db>>
    BY <1>2, Zenon DEF Transaction
<1>4. at \in Accounts
    BY StorageGasAssumption, Zenon
<1>5. Follows(state, loaded, charges) /\ loaded[at] # Absent
    BY <1>1, <1>4, LoadFollows, Zenon
<1>6. kind \in {"account", "contract"}
    BY Zenon
<1>7. TRUE \in BOOLEAN
    OBVIOUS
<1> HIDE DEF kind, loaded, at
<1>8. Fits(after, <<frame>>, TRUE, kind, at)
    BY <1>1, <1>3, <1>4, <1>5, <1>6, <1>7, FirstFrameFits, Zenon
<1>9. Chargeable(kind, at)
    BY <1>4, <1>6 DEF Chargeable
<1> HIDE DEF after
<1> QED BY <1>2, <1>3, <1>7, <1>8, <1>9, TransactionStarts, Zenon

\* Nothing is remembered of the block before.
LEMMA NextBlockKeeps ==
    ASSUME StorageInv, NEW salt_env \in SaltEnvs, NextBlock(salt_env)
    PROVE  StorageInv'
<1>1. World
    BY Zenon DEF StorageInv
<1>2. /\ spec' = spec /\ code' = code /\ inline' = inline /\ db' = db /\ capacity' = salt_env
      /\ state' = state /\ frames' = frames /\ charges' = charges /\ Empty' = Empty
      /\ frames = <<>> /\ multipliers' = [b \in Buckets |-> Absent] /\ cold' = FALSE
    BY DEF NextBlock, chain, Empty
<1>3. ChainTyped' /\ Deployed' /\ cold' \in BOOLEAN /\ capacity' \in SaltEnvs
    BY <1>1, <1>2, Zenon DEF World, ChainTyped, Deployed
<1>4. Sound(spec, state, db, charges)' /\ FramesFit(frames, state, charges)'
    BY <1>1, <1>2, Zenon DEF World, Sound, FramesFit
<1>5. World'
    BY <1>1, <1>2, <1>3, <1>4, Zenon DEF World
<1>6. charges' = {}
    BY <1>1, <1>2, Zenon DEF World
<1>7. multipliers' \in [Buckets -> Nat \union {Absent}] /\ \A b \in Buckets : multipliers'[b] = Absent
    BY <1>2
<1>8. Prices'
    BY <1>6, <1>7, Zenon DEF Prices
<1> QED BY <1>5, <1>8, Zenon DEF StorageInv

-----------------------------------------------------------------------------
(* The theorems *)

LEMMA InitInv == Init => StorageInv
<1> SUFFICES ASSUME Init PROVE StorageInv
    OBVIOUS
<1>1. /\ spec \in Specs /\ code \in Worlds /\ inline \in BOOLEAN /\ capacity \in SaltEnvs
      /\ state = Empty /\ cold = FALSE /\ frames = <<>> /\ charges = {}
      /\ multipliers = [b \in Buckets |-> Absent]
      /\ db \in [Accounts -> [nonempty : BOOLEAN, nonce : {0}, storage : [Keys -> Values]]]
      /\ \A x \in Accounts : code[x] # "none" => db[x].nonempty
    BY Zenon DEF Init
<1>2. {0} \subseteq Nonces
    <2>1. MaxNonce \in Nat
        BY StorageGasAssumption, Zenon
    <2> QED BY <2>1 DEF Nonces
<1>3. db \in DbType
    <2>1. \A n : [nonempty : BOOLEAN, nonce : {0}, storage : n] \subseteq [nonempty : BOOLEAN, nonce : Nonces, storage : n]
        BY <1>2
    <2> QED BY <1>1, <2>1 DEF DbType
<1>4. \A x \in Accounts : db[x].nonempty \in BOOLEAN
    BY <1>3 DEF DbType
<1>5. Deployed
    BY <1>1, <1>4, Zenon DEF Deployed
<1>6. cold \in BOOLEAN
    BY <1>1, Zenon
<1>7. World
    BY <1>1, <1>3, <1>5, <1>6, EmptySound, Zenon DEF World, ChainTyped
<1>8. multipliers \in [Buckets -> Nat \union {Absent}] /\ \A b \in Buckets : multipliers[b] = Absent
    BY <1>1
<1>9. Prices
    BY <1>1, <1>8, Zenon DEF Prices
<1> QED BY <1>7, <1>9, Zenon DEF StorageInv

LEMMA StutterKeeps ==
    ASSUME StorageInv, UNCHANGED vars
    PROVE  StorageInv'
<1>1. /\ spec' = spec /\ code' = code /\ inline' = inline /\ db' = db /\ capacity' = capacity
      /\ state' = state /\ frames' = frames /\ charges' = charges /\ Empty' = Empty
      /\ cold' = cold /\ multipliers' = multipliers /\ UNCHANGED <<chain, capacity>>
    BY DEF vars, chain, Empty
<1>2. World /\ Prices /\ charges' \subseteq charges
    BY <1>1, Zenon DEF StorageInv
<1>3. ChainTyped' /\ Deployed'
    BY <1>1, <1>2, Zenon DEF World, ChainTyped, Deployed
<1>4. Sound(spec, state, db, charges)' /\ FramesFit(frames, state, charges)'
    BY <1>1, <1>2, Zenon DEF World, Sound, FramesFit
<1>5. World'
    BY <1>1, <1>2, <1>3, <1>4, Zenon DEF World
<1>6. Prices'
    BY <1>1, <1>2, PricesStay, Zenon
<1> QED BY <1>5, <1>6, Zenon DEF StorageInv

\* The journal stays sound, whatever the instructions and the inspections of their wrappers
\* load, write and revert (host.rs, instructions.rs), and the charges are those of this
\* block's capacities (gas.rs).
THEOREM StorageIsInductive == Spec => []StorageInv
<1>1. StorageInv /\ [Next]_vars => StorageInv'
    <2> SUFFICES ASSUME StorageInv, [Next]_vars PROVE StorageInv'
        OBVIOUS
    <2>1. ASSUME NEW key \in Keys, Sload(key) PROVE StorageInv'
        BY <2>1, SloadKeeps, Zenon
    <2>2. ASSUME NEW key \in Keys, NEW value \in Values, Sstore(key, value) PROVE StorageInv'
        BY <2>2, SstoreKeeps, Zenon
    <2>3. ASSUME NEW opcode \in Calls, NEW to \in Accounts, NEW t \in BOOLEAN,
                 Call(opcode, to, t)
          PROVE  StorageInv'
        BY <2>3, CallKeeps, Zenon
    <2>4. ASSUME NEW is_create2 \in BOOLEAN, Create(is_create2) PROVE StorageInv'
        BY <2>4, CreateKeeps, Zenon
    <2>5. ASSUME NEW ok \in BOOLEAN, Return(ok) PROVE StorageInv'
        BY <2>5, ReturnKeeps, Zenon
    <2>6. ASSUME NEW to \in Accounts, NEW t \in BOOLEAN, CallTransaction(to, t) PROVE StorageInv'
        BY <2>6, CallTransactionKeeps, Zenon
    <2>7. CASE CreateTransaction
        BY <2>7, CreateTransactionKeeps, Zenon
    <2>8. ASSUME NEW salt_env \in SaltEnvs, NextBlock(salt_env) PROVE StorageInv'
        BY <2>8, NextBlockKeeps, Zenon
    <2>9. CASE UNCHANGED vars
        BY <2>9, StutterKeeps, Zenon
    <2>10. ASSUME NEW target \in Accounts, NEW t \in BOOLEAN, SelfDestruct(target, t) PROVE StorageInv'
        BY <2>10, SelfDestructKeeps, Zenon
    <2> QED BY <2>10, <2>1, <2>2, <2>3, <2>4, <2>5, <2>6, <2>7, <2>8, <2>9, Zenon DEF Next
<1> QED BY <1>1, InitInv, PTL DEF Spec

\* The maps of the journal and of the multipliers hold what their types say, and the journal
\* is empty between transactions.
THEOREM TypeCorrect == Spec => []TypeOK
<1>1. StorageInv => TypeOK
    BY Zenon DEF StorageInv, World, Prices, ChainTyped, States, DbType, TypeOK
<1> QED BY <1>1, StorageIsInductive, PTL

\* The walk over delegations of inspect_account_delegated ends at an account within as many
\* turns as there are accounts, whatever cycles the delegations form (host.rs:366-388).
THEOREM WalksEnd == Spec => []DelegationWalkEnds
<1>1. StorageInv => DelegationWalkEnds
    <2> SUFFICES ASSUME StorageInv, NEW at \in Accounts PROVE inspect_account_delegated(state, at).ended
        BY Zenon DEF DelegationWalkEnds
    <2>1. ChainTyped /\ state \in States
        BY Zenon DEF StorageInv, World
    <2>2. inspect_account_delegated(state, at).ended = TRUE
        BY <2>1, InspectDelegated, Zenon
    <2> QED BY <2>2, Zenon
<1> QED BY <1>1, StorageIsInductive, PTL

\* From Rex4 on, with any accounts, any delegations between them, any buckets and any nesting
\* of calls and reverts, no slot is added that was not charged for at the price of its own
\* bucket in this block, and no account but what a SELFDESTRUCT brought to life.
THEOREM GrowthPaidOrGiven == Spec => []GrowthIsPaidOrGiven
<1>1. StorageInv => GrowthIsPaidOrGiven
    <2> SUFFICES ASSUME StorageInv, is_enabled(spec, REX4) PROVE GrowthIsPaidOrGiven
        BY Zenon DEF GrowthIsPaidOrGiven
    <2>1. ChainTyped /\ state \in States /\ Sound(spec, state, db, charges)
        BY Zenon DEF StorageInv, World
    <2>2. ASSUME NEW kinds, NEW at, PaidFor(charges, kinds, at), "selfdestruct" \notin kinds
          PROVE  IsPaid(kinds, at)
        <3>1. PICK c \in charges : c.kind \in kinds /\ c.at = at
            BY <2>2, Zenon DEF PaidFor
        <3>2. c.gas = Price(c.kind, c.at)
            BY <2>2, <3>1, Zenon DEF StorageInv, Prices
        <3> QED BY <3>1, <3>2, Zenon DEF IsPaid
    <2>s. "selfdestruct" \notin {"slot"} /\ "selfdestruct" \notin {"account", "contract"}
        OBVIOUS
    <2>3. ASSUME NEW x \in Accounts, NEW k \in Keys,
                 seen_value(state, <<x, k>>) # 0, db[x].storage[k] = 0
          PROVE  IsPaid({"slot"}, <<x, k>>)
        <3>1. <<x, k>>[1] = x /\ <<x, k>>[2] = k
            OBVIOUS
        <3> DEFINE value == seen_value(state, <<x, k>>)
        <3>2. value = IF state[x] = Absent THEN db[x].storage[k]
                      ELSE IF state[x].storage[k] = Absent THEN db[x].storage[k]
                      ELSE state[x].storage[k].present
            BY <3>1 DEF seen_value
        <3>3. value # 0
            BY <2>3
        <3> HIDE DEF value
        <3>4. state[x] # Absent /\ state[x].storage[k] # Absent /\ state[x].storage[k].present # 0
            BY <2>3, <3>2, <3>3, Zenon
        <3>5. SlotSound(spec, x, k, state[x].storage[k], db[x], charges)
            BY <2>1, <3>4, Zenon DEF Sound, AccountSound
        <3>6. PaidFor(charges, {"slot"}, <<x, k>>)
            BY <2>3, <3>4, <3>5, Zenon DEF SlotSound
        <3> QED BY <2>s, <3>6, <2>2, Zenon
    <2>4. ASSUME NEW x \in seen_exists(state), ~db[x].nonempty
          PROVE  IsPaid({"account", "contract"}, x) \/ Given(x)
        <3>1. x \in Accounts /\ state[x] # Absent /\ state[x].nonempty
            BY <2>4, Zenon DEF seen_exists
        <3>2. state[x] \in Account /\ AccountSound(spec, x, state[x], db[x], charges)
            BY <2>1, <3>1, AccountOf, Zenon
        <3>3. state[x].nonempty \in BOOLEAN
            BY <3>2 DEF Account
        <3>4. state[x].nonempty = TRUE /\ db[x].nonempty = FALSE
            BY <2>1, <2>4, <3>1, <3>3, DbTyped, Zenon
        <3>5. PaidFor(charges, Entries, x)
            BY <3>2, <3>4, Zenon DEF AccountSound, ExistsSound
        <3>6. PICK c \in charges : c.kind \in Entries /\ c.at = x
            BY <3>5, Zenon DEF PaidFor
        <3>7. CASE c.kind = "selfdestruct"
            BY <3>6, <3>7, Zenon DEF Given
        <3>8. CASE c.kind \in {"account", "contract"}
            <4>1. PaidFor(charges, {"account", "contract"}, x)
                BY <3>6, <3>8, Zenon DEF PaidFor
            <4> QED BY <2>s, <4>1, <2>2, Zenon
        <3> QED BY <3>6, <3>7, <3>8 DEF Entries
    <2>5. ASSUME NEW slot \in Accounts \X Keys, seen_value(state, slot) # 0, db[slot[1]].storage[slot[2]] = 0
          PROVE  IsPaid({"slot"}, slot)
        <3>1. slot[1] \in Accounts /\ slot[2] \in Keys /\ slot = <<slot[1], slot[2]>>
            OBVIOUS
        <3> QED BY <2>3, <2>5, <3>1, Zenon
    <2> QED BY <2>4, <2>5, Zenon DEF GrowthIsPaidOrGiven, SlotsArePaid
<1> QED BY <1>1, StorageIsInductive, PTL

-----------------------------------------------------------------------------
(* What a program sees of a state, account by account *)

\* An account a of the address x above the database d, which may be Absent; whether a
\* preloaded address is warm is left open.
ValueOf(d, a, x, k) ==
    IF a = Absent THEN d[x].storage[k] ELSE IF a.storage[k] = Absent THEN d[x].storage[k] ELSE a.storage[k].present
ExistsOf(d, a, x) == IF a = Absent THEN d[x].nonempty ELSE a.nonempty
WarmOf(x, a) == x \notin Preloaded /\ a # Absent /\ a.warm = TRUE
WarmSlotOf(a, k) == a # Absent /\ a.storage[k] # Absent /\ a.storage[k].warm = TRUE

\* What is loaded in a is loaded in b.
CoversOf(a, b) ==
    a # Absent => b # Absent /\ \A k \in Keys : a.storage[k] # Absent => b.storage[k] # Absent
Covers(s, t) == \A x \in Accounts : CoversOf(s[x], t[x])

\* b shows the same as a, but for what has become warm.
Shows(d, x, a, b, X, P) ==
    /\ CoversOf(a, b)
    /\ ExistsOf(d, b, x) = ExistsOf(d, a, x)
    /\ WarmOf(x, b) <=> WarmOf(x, a) \/ x \in X
    /\ \A k \in Keys : ValueOf(d, b, x, k) = ValueOf(d, a, x, k)
    /\ \A k \in Keys : WarmSlotOf(b, k) <=> WarmSlotOf(a, k) \/ <<x, k>> \in P
Warms(d, s, t, X, P) == \A x \in Accounts : Shows(d, x, s[x], t[x], X, P)

\* Steps that make something warm, one after the other
LEMMA WarmsTwice ==
    ASSUME NEW d, NEW s, NEW t, NEW u, NEW X, NEW Y, NEW P, NEW Q, Warms(d, s, t, X, P), Warms(d, t, u, Y, Q)
    PROVE  Warms(d, s, u, X \union Y, P \union Q)
<1> SUFFICES ASSUME NEW x \in Accounts PROVE Shows(d, x, s[x], u[x], X \union Y, P \union Q)
    BY DEF Warms
<1>1. Shows(d, x, s[x], t[x], X, P) /\ Shows(d, x, t[x], u[x], Y, Q)
    BY Zenon DEF Warms
<1>2. CoversOf(s[x], u[x])
    BY <1>1, Zenon DEF Shows, CoversOf
<1>3. ExistsOf(d, u[x], x) = ExistsOf(d, s[x], x)
    BY <1>1, Zenon DEF Shows
<1>4. WarmOf(x, u[x]) <=> WarmOf(x, s[x]) \/ x \in X \union Y
    BY <1>1, Zenon DEF Shows
<1>5. \A k \in Keys : ValueOf(d, u[x], x, k) = ValueOf(d, s[x], x, k)
    BY <1>1, Zenon DEF Shows
<1>6. \A k \in Keys : WarmSlotOf(u[x], k) <=> WarmSlotOf(s[x], k) \/ <<x, k>> \in P \union Q
    BY <1>1, Zenon DEF Shows
<1> QED BY <1>2, <1>3, <1>4, <1>5, <1>6, Zenon DEF Shows

\* Nothing has become warm where nothing has changed.
LEMMA ShowsItself ==
    ASSUME NEW d, NEW x, NEW a, NEW X, NEW P, x \notin X, \A k \in Keys : <<x, k>> \notin P
    PROVE  Shows(d, x, a, a, X, P)
BY Zenon DEF Shows, CoversOf

\* An account that differs in its code or its nonce shows the same.
LEMMA SameShows ==
    ASSUME NEW d, NEW x, NEW a, NEW b, a # Absent, b # Absent,
           b.nonempty = a.nonempty, b.warm = a.warm, b.storage = a.storage
    PROVE  Shows(d, x, a, b, {}, {})
BY Zenon DEF Shows, CoversOf, ExistsOf, WarmOf, ValueOf, WarmSlotOf

\* An account that is loaded shows what the database has.
LEMMA BasicShows ==
    ASSUME ChainTyped, NEW x \in Accounts, NEW b, b # Absent,
           b.nonempty = db[x].nonempty, b.warm = FALSE, b.storage = [k \in Keys |-> Absent]
    PROVE  Shows(db, x, Absent, b, {}, {})
<1>1. \A k \in Keys : b.storage[k] = Absent
    OBVIOUS
<1>2. ~(b.warm = TRUE)
    OBVIOUS
<1> QED BY <1>1, <1>2, Zenon DEF Shows, CoversOf, ExistsOf, WarmOf, ValueOf, WarmSlotOf

\* An inspection of accounts shows nothing.
LEMMA InspectsWarmsNothing ==
    ASSUME ChainTyped, NEW s, NEW t, Inspects(s, t)
    PROVE  Warms(db, s, t, {}, {})
<1> SUFFICES ASSUME NEW x \in Accounts PROVE Shows(db, x, s[x], t[x], {}, {})
    BY DEF Warms
<1>1. CASE s[x] # Absent
    <2>1. t[x] # Absent /\ Same(t[x], s[x])
        BY <1>1, Zenon DEF Inspects
    <2> QED BY <1>1, <2>1, SameShows, Zenon DEF Same
<1>2. CASE s[x] = Absent /\ t[x] = Absent
    BY <1>2, ShowsItself, Zenon
<1>3. CASE s[x] = Absent /\ t[x] # Absent
    <2>1. Same(t[x], basic(x))
        BY <1>3, Zenon DEF Inspects
    <2>2. t[x].nonempty = db[x].nonempty /\ t[x].warm = FALSE /\ t[x].storage = [k \in Keys |-> Absent]
        BY <2>1, BasicTyped, Zenon DEF Same
    <2> QED BY <1>3, <2>2, BasicShows, Zenon
<1> QED BY <1>1, <1>2, <1>3, Zenon

\* One account is replaced.
LEMMA PutWarms ==
    ASSUME NEW d, NEW s \in States, NEW x \in Accounts, NEW acc, NEW t, t = Put(s, x, acc), NEW X, NEW P,
           Shows(d, x, s[x], acc, X, P),
           \A y \in Accounts : y # x => y \notin X /\ \A k \in Keys : <<y, k>> \notin P
    PROVE  Warms(d, s, t, X, P)
<1>1. t[x] = acc /\ \A y \in Accounts : y # x => t[y] = s[y]
    BY DEF States, Put
<1> SUFFICES ASSUME NEW y \in Accounts PROVE Shows(d, y, s[y], t[y], X, P)
    BY DEF Warms
<1>2. CASE y = x
    BY <1>1, <1>2, Zenon
<1>3. CASE y # x
    BY <1>1, <1>3, ShowsItself, Zenon
<1> QED BY <1>2, <1>3, Zenon

\* A slot of an account is replaced.
LEMMA PutSlotFacts ==
    ASSUME NEW acc \in Account, NEW k \in Keys, NEW slot, NEW b, b = PutStorage(acc, k, slot)
    PROVE  /\ b.nonempty = acc.nonempty /\ b.warm = acc.warm
           /\ b.storage[k] = slot /\ \A j \in Keys : j # k => b.storage[j] = acc.storage[j]
BY DEF Account, PutStorage

\* A slot is the only member of its singleton.
LEMMA Pairs ==
    \A x, y, j, k : <<y, j>> \in {<<x, k>>} <=> y = x /\ j = k
OBVIOUS

\* The slot that an instruction loads, if it is not there, and makes warm if w says so
LEMMA SlotShows ==
    ASSUME NEW d, NEW x, NEW acc \in Account, acc # Absent, NEW k \in Keys, NEW slot, slot # Absent,
           NEW w \in BOOLEAN, NEW b, b # Absent, b = PutStorage(acc, k, slot),
           slot.warm = TRUE <=> w \/ WarmSlotOf(acc, k),
           slot.present = IF acc.storage[k] = Absent THEN d[x].storage[k] ELSE acc.storage[k].present
    PROVE  Shows(d, x, acc, b, {}, IF w THEN {<<x, k>>} ELSE {})
<1> DEFINE P == IF w THEN {<<x, k>>} ELSE {}
<1>1. /\ b.nonempty = acc.nonempty /\ b.warm = acc.warm
      /\ b.storage[k] = slot /\ \A j \in Keys : j # k => b.storage[j] = acc.storage[j]
    BY PutSlotFacts
<1>2. \A j \in Keys : <<x, j>> \in P <=> w /\ j = k
    <2>1. CASE w
        <3>1. P = {<<x, k>>}
            BY <2>1
        <3> HIDE DEF P
        <3> QED BY <2>1, <3>1, Pairs, Zenon
    <2>2. CASE ~w
        <3>1. P = {}
            BY <2>2
        <3> HIDE DEF P
        <3> QED BY <2>2, <3>1, Zenon
    <2> QED BY <2>1, <2>2
<1> HIDE DEF P
<1>3. CoversOf(acc, b)
    BY <1>1, Zenon DEF CoversOf
<1>4. ExistsOf(d, b, x) = ExistsOf(d, acc, x) /\ (WarmOf(x, b) <=> WarmOf(x, acc) \/ x \in {})
    BY <1>1, Zenon DEF ExistsOf, WarmOf
<1>5. ASSUME NEW j \in Keys
      PROVE  ValueOf(d, b, x, j) = ValueOf(d, acc, x, j) /\ (WarmSlotOf(b, j) <=> WarmSlotOf(acc, j) \/ <<x, j>> \in P)
    <2>1. CASE j = k
        BY <1>1, <1>2, <2>1, Zenon DEF ValueOf, WarmSlotOf
    <2>2. CASE j # k
        BY <1>1, <1>2, <2>2, Zenon DEF ValueOf, WarmSlotOf
    <2> QED BY <2>1, <2>2, Zenon
<1>6. Shows(d, x, acc, b, {}, P)
    BY <1>3, <1>4, <1>5, Zenon DEF Shows
<1> QED BY <1>6, Zenon DEF P

\* SLOAD
LEMMA SloadWarms ==
    ASSUME ChainTyped, NEW s \in States, NEW x \in Accounts, s[x] # Absent, NEW k \in Keys,
           NEW t, t = sload(s, x, k)
    PROVE  Warms(db, s, t, {}, {<<x, k>>})
<1> DEFINE slot == s[x].storage[k]
           db_slot == [original |-> db[x].storage[k], present |-> db[x].storage[k], warm |-> TRUE]
           warmed == [slot EXCEPT !.warm = TRUE]
           new == IF slot = Absent THEN db_slot ELSE warmed
           acc == PutStorage(s[x], k, new)
<1>1. s[x] \in Account /\ (slot # Absent => slot \in Slot)
    BY SlotTyped
<1>2. db_slot \in Slot /\ db_slot.warm = TRUE /\ db_slot.present = db[x].storage[k]
    <2>1. TRUE \in BOOLEAN
        OBVIOUS
    <2> QED BY <2>1, DbSlotSound
<1>3. slot # Absent => warmed \in Slot /\ warmed.warm = TRUE /\ warmed.present = slot.present
    BY <1>1 DEF Slot
<1>4. t = Put(s, x, acc)
    BY DEF sload, Put, PutStorage
<1> HIDE DEF db_slot, warmed
<1>5. new \in Slot /\ new.warm = TRUE /\ new.present = IF slot = Absent THEN db[x].storage[k] ELSE slot.present
    BY <1>2, <1>3
<1>6. new # Absent
    BY <1>5, AbsentAssumption
<1> HIDE DEF new
<1>7. acc \in Account
    <2>1. s[x].storage \in [Keys -> Slot \union {Absent}]
        BY <1>1 DEF Account
    <2>2. [s[x].storage EXCEPT ![k] = new] \in [Keys -> Slot \union {Absent}]
        BY <1>5, <2>1
    <2> QED BY <1>1, <2>2 DEF PutStorage, Account
<1>8. acc # Absent
    BY <1>7, AbsentAssumption
<1>9. acc = PutStorage(s[x], k, new)
    OBVIOUS
<1> HIDE DEF acc
<1>10. Shows(db, x, s[x], acc, {}, IF TRUE THEN {<<x, k>>} ELSE {})
    <2>1. new.warm = TRUE <=> TRUE \/ WarmSlotOf(s[x], k)
        BY <1>5, Zenon
    <2>2. TRUE \in BOOLEAN
        OBVIOUS
    <2> QED BY <1>1, <1>5, <1>6, <1>8, <1>9, <2>1, <2>2, SlotShows DEF slot
<1>11. Shows(db, x, s[x], acc, {}, {<<x, k>>})
    BY <1>10
<1>12. \A y \in Accounts : y # x => y \notin {} /\ \A j \in Keys : <<y, j>> \notin {<<x, k>>}
    BY Pairs, Zenon
<1> QED BY <1>4, <1>11, <1>12, PutWarms

\* SSTORE: one slot has another value, and is warm.
Writes(d, s, t, x, k, v) == \A y \in Accounts :
    /\ CoversOf(s[y], t[y])
    /\ ExistsOf(d, t[y], y) = ExistsOf(d, s[y], y)
    /\ WarmOf(y, t[y]) <=> WarmOf(y, s[y])
    /\ \A j \in Keys :
         /\ y = x /\ j = k => ValueOf(d, t[y], y, j) = v
         /\ ~(y = x /\ j = k) => ValueOf(d, t[y], y, j) = ValueOf(d, s[y], y, j)
         /\ WarmSlotOf(t[y], j) <=> WarmSlotOf(s[y], j) \/ (y = x /\ j = k)

LEMMA SstoreWrites ==
    ASSUME ChainTyped, NEW s \in States, NEW ch, Sound(spec, s, db, ch),
           NEW x \in Accounts, s[x] # Absent, NEW k \in Keys, NEW v \in Values, NEW t, t = sstore(s, x, k, v)
    PROVE  Writes(db, s, t, x, k, v)
<1> DEFINE u == sload(s, x, k)
           slot == u[x].storage[k]
           new == [slot EXCEPT !.present = v]
           acc == PutStorage(u[x], k, new)
<1>1. Follows(s, u, ch) /\ u[x] # Absent /\ slot \in Slot
    BY SloadFollows
<1>2. Warms(db, s, u, {}, {<<x, k>>})
    BY SloadWarms
<1>3. t = Put(u, x, acc)
    BY DEF sstore, Put, PutStorage
<1> HIDE DEF u
<1>4. u \in States /\ u[x] \in Account
    BY <1>1 DEF Follows, States
<1> HIDE DEF slot
<1>5. new \in Slot /\ new.warm = slot.warm /\ new.present = v
    BY <1>1 DEF Slot
<1>6. new # Absent /\ slot # Absent
    BY <1>1, <1>5, AbsentAssumption
<1>7. acc = PutStorage(u[x], k, new)
    OBVIOUS
<1> HIDE DEF new, acc
<1>8. acc \in Account
    <2>1. u[x].storage \in [Keys -> Slot \union {Absent}]
        BY <1>4 DEF Account
    <2>2. [u[x].storage EXCEPT ![k] = new] \in [Keys -> Slot \union {Absent}]
        BY <1>5, <2>1
    <2> QED BY <1>4, <1>7, <2>2 DEF PutStorage, Account
<1>9. acc # Absent
    BY <1>8, AbsentAssumption
<1>10. /\ acc.nonempty = u[x].nonempty /\ acc.warm = u[x].warm
       /\ acc.storage[k] = new /\ \A j \in Keys : j # k => acc.storage[j] = u[x].storage[j]
    BY <1>4, <1>7, PutSlotFacts
<1>11. t[x] = acc /\ \A y \in Accounts : y # x => t[y] = u[y]
    BY <1>3, <1>4 DEF States, Put
<1>12. ASSUME NEW y \in Accounts
       PROVE  /\ CoversOf(u[y], t[y]) /\ ExistsOf(db, t[y], y) = ExistsOf(db, u[y], y)
              /\ WarmOf(y, t[y]) <=> WarmOf(y, u[y])
    <2>1. CASE y = x
        BY <1>1, <1>6, <1>9, <1>10, <1>11, <2>1, Zenon DEF CoversOf, ExistsOf, WarmOf
    <2>2. CASE y # x
        BY <1>11, <2>2, Zenon DEF CoversOf
    <2> QED BY <2>1, <2>2, Zenon
<1>13. ASSUME NEW y \in Accounts, NEW j \in Keys
       PROVE  /\ y = x /\ j = k => ValueOf(db, t[y], y, j) = v
              /\ ~(y = x /\ j = k) => ValueOf(db, t[y], y, j) = ValueOf(db, u[y], y, j)
              /\ WarmSlotOf(t[y], j) <=> WarmSlotOf(u[y], j)
    <2>1. CASE y = x /\ j = k
        BY <1>1, <1>5, <1>6, <1>9, <1>10, <1>11, <2>1, Zenon DEF ValueOf, WarmSlotOf, slot
    <2>2. CASE y = x /\ j # k
        BY <1>1, <1>9, <1>10, <1>11, <2>2, Zenon DEF ValueOf, WarmSlotOf
    <2>3. CASE y # x
        BY <1>11, <2>3, Zenon
    <2> QED BY <2>1, <2>2, <2>3, Zenon
<1> SUFFICES ASSUME NEW y \in Accounts
             PROVE  /\ CoversOf(s[y], t[y])
                    /\ ExistsOf(db, t[y], y) = ExistsOf(db, s[y], y)
                    /\ WarmOf(y, t[y]) <=> WarmOf(y, s[y])
                    /\ \A j \in Keys :
                         /\ y = x /\ j = k => ValueOf(db, t[y], y, j) = v
                         /\ ~(y = x /\ j = k) => ValueOf(db, t[y], y, j) = ValueOf(db, s[y], y, j)
                         /\ WarmSlotOf(t[y], j) <=> WarmSlotOf(s[y], j) \/ (y = x /\ j = k)
    BY Zenon DEF Writes
<1>14. Shows(db, y, s[y], u[y], {}, {<<x, k>>})
    BY <1>2, Zenon DEF Warms
<1>15. CoversOf(s[y], t[y])
    BY <1>12, <1>14, Zenon DEF Shows, CoversOf
<1>16. ExistsOf(db, t[y], y) = ExistsOf(db, s[y], y) /\ (WarmOf(y, t[y]) <=> WarmOf(y, s[y]))
    BY <1>12, <1>14, Zenon DEF Shows
<1>17. ASSUME NEW j \in Keys
       PROVE  /\ ValueOf(db, u[y], y, j) = ValueOf(db, s[y], y, j)
              /\ WarmSlotOf(u[y], j) <=> WarmSlotOf(s[y], j) \/ (y = x /\ j = k)
    BY <1>14, Pairs, Zenon DEF Shows
<1> QED BY <1>13, <1>15, <1>16, <1>17, Zenon

\* From Rex4 on the inspection of a slot shows nothing.
LEMMA InspectStorageWarmsNothing ==
    ASSUME ChainTyped, is_enabled(spec, REX4), NEW s \in States, NEW x \in Accounts, NEW k \in Keys,
           NEW r, r = inspect_storage(s, x, k)
    PROVE  Warms(db, s, r.state, {}, {})
<1> DEFINE first == storage_owner(s, x)
           second == storage_owner(first.state, x)
           slot == [original |-> db[x].storage[k], present |-> db[x].storage[k], warm |-> FALSE]
<1>1. Inspects(s, first.state) /\ first.at = x /\ first.state[x] # Absent
    BY StorageOwner
<1>2. first.state \in States
    BY <1>1 DEF Inspects
<1>3. /\ Inspects(first.state, second.state) /\ second.at = x /\ second.state[x] # Absent
      /\ \A new : [second EXCEPT !.state = new].state = new /\ [second EXCEPT !.state = new].at = second.at
    BY <1>2, StorageOwner
<1>4. Warms(db, s, second.state, {}, {})
    BY <1>1, <1>3, InspectsTwice, InspectsWarmsNothing
<1>5. r = IF first.state[first.at].storage[k] # Absent THEN second
          ELSE [second EXCEPT !.state[second.at].storage[k] = slot]
    BY DEF inspect_storage
<1>6. slot \in Slot /\ slot.warm = FALSE /\ slot.present = db[x].storage[k]
    <2>1. FALSE \in BOOLEAN
        OBVIOUS
    <2> HIDE DEF first, second
    <2> QED BY <2>1, DbSlotSound
<1> HIDE DEF first, second, slot
<1>7. CASE first.state[x].storage[k] # Absent
    <2>1. r = second
        BY <1>1, <1>5, <1>7
    <2> QED BY <1>4, <2>1
<1>8. CASE first.state[x].storage[k] = Absent
    <2> DEFINE s2 == second.state
               b == [s2[x] EXCEPT !.storage = [@ EXCEPT ![k] = slot]]
               new == [s2 EXCEPT ![x] = b]
    <2>1. r = [second EXCEPT !.state = new]
        BY <1>1, <1>3, <1>5, <1>8
    <2>2. r.state = new
        BY <1>3, <2>1, Zenon
    <2>3. s2 \in States /\ s2[x] # Absent /\ Same(s2[x], first.state[x])
        BY <1>1, <1>3, Zenon DEF Inspects
    <2> HIDE DEF s2
    <2>4. s2[x] \in Account /\ s2[x].storage[k] = Absent
        BY <1>8, <2>3 DEF States, Same
    <2>5. b = PutStorage(s2[x], k, slot) /\ new = Put(s2, x, b)
        BY DEF Put, PutStorage
    <2> HIDE DEF b, new
    <2>6. b \in Account
        <3>1. s2[x].storage \in [Keys -> Slot \union {Absent}]
            BY <2>4 DEF Account
        <3>2. [s2[x].storage EXCEPT ![k] = slot] \in [Keys -> Slot \union {Absent}]
            BY <1>6, <3>1
        <3> QED BY <2>4, <2>5, <3>2 DEF PutStorage, Account
    <2>7. b # Absent /\ slot # Absent
        BY <1>6, <2>6, AbsentAssumption
    <2>8. Shows(db, x, s2[x], b, {}, {})
        <3>1. slot.warm = TRUE <=> FALSE \/ WarmSlotOf(s2[x], k)
            BY <1>6, <2>4 DEF WarmSlotOf
        <3>2. FALSE \in BOOLEAN
            OBVIOUS
        <3>3. Shows(db, x, s2[x], b, {}, IF FALSE THEN {<<x, k>>} ELSE {})
            BY <1>6, <2>3, <2>4, <2>5, <2>7, <3>1, <3>2, SlotShows
        <3> QED BY <3>3
    <2>9. Warms(db, s2, new, {}, {})
        BY <2>3, <2>5, <2>8, PutWarms
    <2>10. Warms(db, s, new, {} \union {}, {} \union {})
        BY <1>4, <2>9, WarmsTwice, Zenon DEF s2
    <2> QED BY <2>2, <2>10
<1> QED BY <1>7, <1>8, Zenon

\* An account that is loaded for the first time
LEMMA FirstLoaded ==
    ASSUME ChainTyped, NEW x \in Accounts
    PROVE  LET first == [basic(x) EXCEPT !.preloaded = (x \in Preloaded)]
           IN /\ first \in Account /\ first.nonempty = db[x].nonempty /\ first.warm = FALSE
              /\ first.storage = [k \in Keys |-> Absent]
<1> DEFINE b == basic(x)
           p == x \in Preloaded
           none == [k \in Keys |-> Absent]
           first == [b EXCEPT !.preloaded = p]
<1>1. b \in Account /\ b.nonempty = db[x].nonempty /\ b.warm = FALSE /\ b.storage = none
    BY BasicTyped, Zenon
<1>2. p \in BOOLEAN
    OBVIOUS
<1> HIDE DEF b, p, none
<1>3. /\ first \in Account /\ first.nonempty = b.nonempty /\ first.storage = b.storage
      /\ first.warm = b.warm
    BY <1>1, <1>2 DEF Account
<1> HIDE DEF first
<1>4. first \in Account /\ first.nonempty = db[x].nonempty /\ first.warm = FALSE /\ first.storage = none
    BY <1>1, <1>3, Zenon
<1> QED BY <1>4, Zenon DEF first, b, p, none

\* An account is loaded and made warm.
LEMMA LoadWarms ==
    ASSUME ChainTyped, NEW s \in States, NEW x \in Accounts, NEW t, t = load_account(s, x)
    PROVE  Warms(db, s, t, {x} \ Preloaded, {}) /\ t \in States
<1> DEFINE first == [basic(x) EXCEPT !.preloaded = (x \in Preloaded)]
           old == IF s[x] # Absent THEN s[x] ELSE first
           acc == [old EXCEPT !.warm = TRUE, !.code = code[x]]
           X == {x} \ Preloaded
<1>a. /\ first \in Account /\ first.nonempty = db[x].nonempty /\ first.warm = FALSE
      /\ first.storage = [k \in Keys |-> Absent]
    BY FirstLoaded, Zenon
<1>2. t = Put(s, x, acc)
    BY DEF load_account, Put
<1> HIDE DEF first
<1>1. old \in Account
    BY <1>a DEF States
<1>3. Shows(db, x, s[x], old, {}, {})
    <2>1. CASE s[x] = Absent
        <3>1. first # Absent
            BY <1>a, AbsentAssumption
        <3> QED BY <1>a, <2>1, <3>1, BasicShows, Zenon
    <2>2. CASE s[x] # Absent
        BY <2>2, ShowsItself, Zenon
    <2> QED BY <2>1, <2>2
<1> HIDE DEF old
<1>4. code[x] \in Code
    BY CodeTyped
<1>5. /\ acc \in Account /\ acc.nonempty = old.nonempty /\ acc.storage = old.storage
      /\ acc.warm = TRUE
    BY <1>1, <1>4 DEF Account
<1> HIDE DEF acc
<1>6. acc # Absent /\ old # Absent
    BY <1>1, <1>5, AbsentAssumption
<1>b. x \in X <=> x \notin Preloaded
    OBVIOUS
<1>10. \A y \in Accounts : y # x => y \notin X /\ \A k \in Keys : <<y, k>> \notin {}
    OBVIOUS
<1> HIDE DEF X
<1>7. Shows(db, x, old, acc, X, {})
    <2>1. WarmOf(x, acc) <=> x \in X
        BY <1>5, <1>6, <1>b, Zenon DEF WarmOf
    <2>2. WarmOf(x, old) => x \in X
        BY <1>b, Zenon DEF WarmOf
    <2> QED BY <1>5, <1>6, <2>1, <2>2, Zenon DEF Shows, CoversOf, ExistsOf, ValueOf, WarmSlotOf
<1>8. Shows(db, x, s[x], acc, X, {})
    <2>1. CoversOf(s[x], acc)
        BY <1>3, <1>7, Zenon DEF Shows, CoversOf
    <2>2. \A k \in Keys : WarmSlotOf(acc, k) <=> WarmSlotOf(s[x], k) \/ <<x, k>> \in {}
        BY <1>3, <1>7, Zenon DEF Shows
    <2> QED BY <1>3, <1>7, <2>1, <2>2, Zenon DEF Shows
<1>9. t \in States
    BY <1>2, <1>5 DEF States, Put
<1> QED BY <1>2, <1>8, <1>9, <1>10, PutWarms, Zenon DEF X

\* A callee is loaded with the account it delegates to.
LEMMA LoadDelegatedWarms ==
    ASSUME ChainTyped, NEW s \in States, NEW x \in Accounts, NEW t, t = load_account_delegated(s, x)
    PROVE  Warms(db, s, t, ({x} \union ({code[x]} \intersect Accounts)) \ Preloaded, {}) /\ t \in States
<1> DEFINE u == load_account(s, x)
           X == {x} \ Preloaded
           Y == {code[x]} \ Preloaded
<1>1. Warms(db, s, u, X, {}) /\ u \in States
    BY LoadWarms
<1>2. CASE code[x] \in Accounts
    <2>1. t = load_account(u, code[x])
        BY <1>2 DEF load_account_delegated
    <2> HIDE DEF u
    <2>2. Warms(db, u, t, Y, {}) /\ t \in States
        BY <1>1, <1>2, <2>1, LoadWarms
    <2>4. ({x} \union ({code[x]} \intersect Accounts)) \ Preloaded = X \union Y /\ {} \union {} = {}
        BY <1>2
    <2> HIDE DEF X, Y
    <2>3. Warms(db, s, t, X \union Y, {} \union {})
        BY <1>1, <2>2, WarmsTwice, Zenon
    <2> QED BY <2>2, <2>3, <2>4
<1>3. CASE code[x] \notin Accounts
    <2>1. t = u
        BY <1>3 DEF load_account_delegated
    <2>2. ({x} \union ({code[x]} \intersect Accounts)) \ Preloaded = X
        BY <1>3
    <2> QED BY <1>1, <2>1, <2>2
<1> QED BY <1>2, <1>3

\* One account comes into being.
Brings(d, s, t, x) == \A y \in Accounts :
    /\ CoversOf(s[y], t[y])
    /\ ExistsOf(d, t[y], y) = TRUE <=> ExistsOf(d, s[y], y) = TRUE \/ y = x
    /\ WarmOf(y, t[y]) <=> WarmOf(y, s[y])
    /\ \A j \in Keys : /\ ValueOf(d, t[y], y, j) = ValueOf(d, s[y], y, j)
                       /\ WarmSlotOf(t[y], j) <=> WarmSlotOf(s[y], j)

LEMMA TransferBrings ==
    ASSUME NEW d, NEW s \in States, NEW x \in Accounts, s[x] # Absent,
           NEW t, t = [s EXCEPT ![x].nonempty = TRUE]
    PROVE  Brings(d, s, t, x)
<1> DEFINE acc == [s[x] EXCEPT !.nonempty = TRUE]
<1>1. s[x] \in Account
    BY DEF States
<1>2. acc \in Account /\ acc.nonempty = TRUE /\ acc.storage = s[x].storage /\ acc.warm = s[x].warm
    BY <1>1 DEF Account
<1>3. t[x] = acc /\ \A y \in Accounts : y # x => t[y] = s[y]
    BY DEF States
<1> HIDE DEF acc
<1>4. acc # Absent
    BY <1>2, AbsentAssumption
<1> SUFFICES ASSUME NEW y \in Accounts
             PROVE  /\ CoversOf(s[y], t[y])
                    /\ ExistsOf(d, t[y], y) = TRUE <=> ExistsOf(d, s[y], y) = TRUE \/ y = x
                    /\ WarmOf(y, t[y]) <=> WarmOf(y, s[y])
                    /\ \A j \in Keys : /\ ValueOf(d, t[y], y, j) = ValueOf(d, s[y], y, j)
                                       /\ WarmSlotOf(t[y], j) <=> WarmSlotOf(s[y], j)
    BY Zenon DEF Brings
<1>5. CASE y = x
    <2>1. CoversOf(s[x], acc) /\ (WarmOf(x, acc) <=> WarmOf(x, s[x]))
        BY <1>2, <1>4, Zenon DEF CoversOf, WarmOf
    <2>2. ExistsOf(d, acc, x) = TRUE
        BY <1>2, <1>4, Zenon DEF ExistsOf
    <2>3. \A j \in Keys : /\ ValueOf(d, acc, x, j) = ValueOf(d, s[x], x, j)
                          /\ WarmSlotOf(acc, j) <=> WarmSlotOf(s[x], j)
        BY <1>2, <1>4, Zenon DEF ValueOf, WarmSlotOf
    <2> QED BY <1>3, <1>5, <2>1, <2>2, <2>3, Zenon
<1>6. CASE y # x
    BY <1>3, <1>6, Zenon DEF CoversOf
<1> QED BY <1>5, <1>6, Zenon

\* The nonce of a creator is not shown.
LEMMA NonceWarmsNothing ==
    ASSUME NEW d, NEW s \in States, NEW x \in Accounts, s[x] # Absent, NEW n \in Nonces,
           NEW t, t = [s EXCEPT ![x].nonce = n]
    PROVE  Warms(d, s, t, {}, {})
<1> DEFINE acc == [s[x] EXCEPT !.nonce = n]
<1>1. s[x] \in Account
    BY DEF States
<1>2. acc \in Account /\ acc.nonempty = s[x].nonempty /\ acc.storage = s[x].storage /\ acc.warm = s[x].warm
    BY <1>1 DEF Account
<1>3. t = Put(s, x, acc)
    BY DEF Put
<1> HIDE DEF acc
<1>4. acc # Absent
    BY <1>2, AbsentAssumption
<1>5. Shows(d, x, s[x], acc, {}, {})
    BY <1>2, <1>4, SameShows
<1> QED BY <1>3, <1>5, PutWarms

\* A revert shows what was saved: what has been loaded since is loaded still, and as the
\* database has it.
LEMMA RevertShows ==
    ASSUME ChainTyped, is_enabled(spec, REX4), NEW x \in Accounts, NEW acc \in Account \union {Absent},
           NEW old \in Account \union {Absent}, NEW ch, CoversOf(old, acc),
           acc # Absent => AccountSound(spec, x, acc, db[x], ch),
           NEW t, t = revert_account(x, acc, old)
    PROVE  Shows(db, x, old, t, {}, {}) /\ CoversOf(acc, t)
<1>1. CASE acc = Absent
    <2>1. old = Absent /\ t = Absent
        BY <1>1, Zenon DEF CoversOf, revert_account
    <2> QED BY <1>1, <2>1, ShowsItself, Zenon DEF CoversOf
<1>2. CASE acc # Absent
    <2> DEFINE before == IF old = Absent THEN basic(x) ELSE old
               st == [k \in Keys |-> revert_slot(acc.storage[k], before.storage[k])]
               w == before.warm \/ acc.preloaded
    <2>1. t = [before EXCEPT !.code = acc.code, !.warm = w, !.preloaded = acc.preloaded, !.storage = st]
        BY <1>2 DEF revert_account
    <2>2. before \in Account
        BY BasicTyped
    <2>3. Shows(db, x, old, before, {}, {})
        <3>1. CASE old = Absent
            BY <3>1, BasicTyped, BasicShows, Zenon
        <3>2. CASE old # Absent
            BY <3>2, ShowsItself, Zenon
        <3> QED BY <3>1, <3>2
    <2>a. old = Absent => \A k \in Keys : before.storage[k] = Absent
        BY BasicTyped
    <2>4. \A k \in Keys : before.storage[k] # Absent => acc.storage[k] # Absent
        <3>1. CASE old = Absent
            BY <2>a, <3>1, Zenon
        <3>2. CASE old # Absent
            BY <3>2, Zenon DEF CoversOf
        <3> QED BY <3>1, <3>2
    <2> HIDE DEF before
    <2>5. /\ acc \in Account /\ AccountSound(spec, x, acc, db[x], ch)
          /\ acc.storage \in [Keys -> Slot \union {Absent}] /\ before.storage \in [Keys -> Slot \union {Absent}]
          /\ acc.code \in Code \union {"not loaded"}
          /\ acc.preloaded \in BOOLEAN /\ before.warm \in BOOLEAN
        BY <1>2, <2>2 DEF Account
    <2>b. w \in BOOLEAN /\ (x \notin Preloaded => (w = TRUE <=> before.warm = TRUE))
        <3>1. x \notin Preloaded => acc.preloaded = FALSE
            BY <2>5 DEF AccountSound
        <3> QED BY <2>5, <3>1
    <2>6. ASSUME NEW k \in Keys
          PROVE  LET slot == acc.storage[k]
                     b == before.storage[k]
                     r == revert_slot(slot, b)
                 IN /\ r \in Slot \union {Absent}
                    /\ slot # Absent => r # Absent
                    /\ b # Absent => r # Absent /\ r.present = b.present /\ r.warm = b.warm
                    /\ b = Absent /\ r # Absent => r.present = db[x].storage[k] /\ ~(r.warm = TRUE)
        <3> DEFINE slot == acc.storage[k]
                   b == before.storage[k]
                   r == revert_slot(slot, b)
        <3>1. slot \in Slot \union {Absent} /\ b \in Slot \union {Absent} /\ (b # Absent => slot # Absent)
            BY <2>4, <2>5
        <3>2. slot # Absent => slot.original = db[x].storage[k]
            BY <2>5, Zenon DEF AccountSound, SlotSound
        <3> HIDE DEF slot, b
        <3>3. CASE slot = Absent
            <4>1. r = Absent /\ b = Absent
                BY <3>1, <3>3, Zenon DEF revert_slot
            <4> HIDE DEF r
            <4> QED BY <3>3, <4>1, Zenon DEF slot, b, r
        <3>4. CASE slot # Absent /\ b # Absent
            <4>1. r = b
                BY <3>4, Zenon DEF revert_slot
            <4> HIDE DEF r
            <4> QED BY <3>1, <3>4, <4>1, Zenon DEF slot, b, r
        <3>5. CASE slot # Absent /\ b = Absent
            <4>1. r = [slot EXCEPT !.present = slot.original, !.warm = FALSE]
                BY <3>5 DEF revert_slot
            <4>2. slot \in Slot
                BY <3>1, <3>5
            <4>3. r \in Slot /\ r.present = slot.original /\ r.warm = FALSE
                BY <4>1, <4>2 DEF Slot
            <4>4. r # Absent /\ ~(r.warm = TRUE)
                BY <4>3, AbsentAssumption
            <4> HIDE DEF r
            <4> QED BY <3>2, <3>5, <4>3, <4>4, Zenon DEF slot, b, r
        <3> QED BY <3>3, <3>4, <3>5
    <2>7. st \in [Keys -> Slot \union {Absent}]
        BY <2>6
    <2> HIDE DEF w
    <2>8. t \in Account /\ t.nonempty = before.nonempty /\ t.warm = w /\ t.storage = st
        BY <2>1, <2>2, <2>5, <2>7, <2>b DEF Account
    <2>9. t # Absent /\ before # Absent
        BY <2>2, <2>8, AbsentAssumption
    <2>10. \A k \in Keys : t.storage[k] = revert_slot(acc.storage[k], before.storage[k])
        BY <2>8
    <2> HIDE DEF st
    <2>11. Shows(db, x, before, t, {}, {})
        <3>1. CoversOf(before, t)
            BY <2>6, <2>9, <2>10, Zenon DEF CoversOf
        <3>2. ExistsOf(db, t, x) = ExistsOf(db, before, x) /\ (WarmOf(x, t) <=> WarmOf(x, before))
            BY <2>8, <2>9, <2>b, Zenon DEF ExistsOf, WarmOf
        <3>3. ASSUME NEW k \in Keys
              PROVE  ValueOf(db, t, x, k) = ValueOf(db, before, x, k) /\ (WarmSlotOf(t, k) <=> WarmSlotOf(before, k))
            BY <2>6, <2>9, <2>10, Zenon DEF ValueOf, WarmSlotOf
        <3> QED BY <3>1, <3>2, <3>3, Zenon DEF Shows
    <2>12. Shows(db, x, old, t, {}, {})
        <3>1. CoversOf(old, t)
            BY <2>3, <2>11, Zenon DEF Shows, CoversOf
        <3> QED BY <2>3, <2>11, <3>1, Zenon DEF Shows
    <2>13. CoversOf(acc, t)
        BY <2>6, <2>9, <2>10, Zenon DEF CoversOf
    <2> QED BY <2>12, <2>13
<1> QED BY <1>1, <1>2

LEMMA RevertGoesBack ==
    ASSUME ChainTyped, is_enabled(spec, REX4), NEW s \in States, NEW saved \in States, NEW ch,
           Sound(spec, s, db, ch), Covers(saved, s), NEW t, t = checkpoint_revert(s, saved)
    PROVE  Warms(db, saved, t, {}, {}) /\ Covers(s, t)
<1>1. ASSUME NEW x \in Accounts PROVE Shows(db, x, saved[x], t[x], {}, {}) /\ CoversOf(s[x], t[x])
    <2>1. t[x] = revert_account(x, s[x], saved[x])
        BY DEF checkpoint_revert
    <2>2. s[x] \in Account \union {Absent} /\ saved[x] \in Account \union {Absent}
        BY DEF States
    <2>3. CoversOf(saved[x], s[x]) /\ (s[x] # Absent => AccountSound(spec, x, s[x], db[x], ch))
        BY Zenon DEF Covers, Sound
    <2> QED BY <2>1, <2>2, <2>3, RevertShows
<1> QED BY <1>1, Zenon DEF Warms, Covers

\* From Rex4 on the database has after a transaction what was shown before.
LEMMA CommitShows ==
    ASSUME ChainTyped, is_enabled(spec, REX4), NEW s \in States, NEW ch, Sound(spec, s, db, ch),
           NEW d, d = commit(s), NEW x \in Accounts
    PROVE  /\ d[x].nonempty = ExistsOf(db, s[x], x)
           /\ \A k \in Keys : d[x].storage[k] = ValueOf(db, s[x], x, k)
<1>1. CASE s[x] = Absent
    <2>1. d[x] = db[x]
        BY <1>1 DEF commit
    <2> QED BY <1>1, <2>1, Zenon DEF ExistsOf, ValueOf
<1>2. CASE s[x] # Absent
    <2> DEFINE st == [k \in Keys |-> LET slot == s[x].storage[k]
                                     IN IF slot = Absent \/ slot.present = slot.original THEN db[x].storage[k]
                                        ELSE slot.present]
    <2>1. d[x] = [nonempty |-> s[x].nonempty, nonce |-> s[x].nonce, storage |-> st]
        BY <1>2 DEF commit
    <2>2. AccountSound(spec, x, s[x], db[x], ch)
        BY <1>2, Zenon DEF Sound
    <2>3. ASSUME NEW k \in Keys PROVE st[k] = ValueOf(db, s[x], x, k)
        <3>1. s[x].storage[k] # Absent => s[x].storage[k].original = db[x].storage[k]
            BY <2>2, Zenon DEF AccountSound, SlotSound
        <3>2. st[k] = IF s[x].storage[k] = Absent \/ s[x].storage[k].present = s[x].storage[k].original
                      THEN db[x].storage[k] ELSE s[x].storage[k].present
            OBVIOUS
        <3> HIDE DEF st
        <3> QED BY <1>2, <3>1, <3>2, Zenon DEF ValueOf
    <2> HIDE DEF st
    <2>4. d[x].nonempty = s[x].nonempty /\ d[x].storage = st
        BY <2>1
    <2> QED BY <1>2, <2>3, <2>4, Zenon DEF ExistsOf
<1> QED BY <1>1, <1>2

-----------------------------------------------------------------------------
(* What is seen of a whole state *)

\* Of a state s above the database d, and of the states that the frames fs saved
ValuesIn(d, s) == [slot \in Accounts \X Keys |-> ValueOf(d, s[slot[1]], slot[1], slot[2])]
WarmIn(s) == seen_warm(s) \ Preloaded
ExistsIn(d, s) == {x \in Accounts : ExistsOf(d, s[x], x) = TRUE}
SeenIn(d, s) == [value |-> ValuesIn(d, s), exists |-> ExistsIn(d, s), warm |-> WarmIn(s)]
Marks(d, fs) == [i \in DOMAIN fs |-> SeenIn(d, fs[i].saved)]

\* The values of a state are truth values where they should be.
LEMMA Truths ==
    ASSUME NEW s \in States, NEW x \in Accounts
    PROVE  /\ s[x] # Absent => s[x].nonempty \in BOOLEAN /\ s[x].warm \in BOOLEAN
           /\ \A k \in Keys : s[x] # Absent /\ s[x].storage[k] # Absent => s[x].storage[k].warm \in BOOLEAN
           /\ x \notin Preloaded => (is_warm(s, x) <=> WarmOf(x, s[x]))
           /\ \A k \in Keys : is_warm_slot(s, x, k) <=> WarmSlotOf(s[x], k)
<1>1. s[x] # Absent => s[x].nonempty \in BOOLEAN /\ s[x].warm \in BOOLEAN
    BY DEF States, Account
<1>2. \A k \in Keys : s[x] # Absent /\ s[x].storage[k] # Absent => s[x].storage[k].warm \in BOOLEAN
    BY SlotTyped DEF Slot
<1>3. x \notin Preloaded => (is_warm(s, x) <=> WarmOf(x, s[x]))
    BY <1>1 DEF is_warm, WarmOf
<1>4. \A k \in Keys : is_warm_slot(s, x, k) <=> WarmSlotOf(s[x], k)
    BY <1>2 DEF is_warm_slot, WarmSlotOf
<1> QED BY <1>1, <1>2, <1>3, <1>4

\* What is warm, as a set: an account is never taken for a slot.
LEMMA WarmMembers ==
    ASSUME NEW s \in States
    PROVE  /\ \A x \in Accounts : x \in WarmIn(s) <=> WarmOf(x, s[x])
           /\ \A x \in Accounts, k \in Keys : <<x, k>> \in WarmIn(s) <=> WarmSlotOf(s[x], k)
           /\ WarmIn(s) \subseteq Accounts \union (Accounts \X Keys)
<1>1. \A e : e \in seen_warm(s) <=> \/ e \in Accounts /\ is_warm(s, e)
                                    \/ \E y \in Accounts : e \in warm_slots(s, y)
    BY Zenon DEF seen_warm
<1>2. \A e, y : e \in warm_slots(s, y) <=> \E j \in Keys : e = <<y, j>> /\ is_warm_slot(s, y, j)
    BY DEF warm_slots
<1>3. \A x \in Accounts, y \in Accounts, j \in Keys : x # <<y, j>>
    BY StorageGasAssumption
<1>a. \A e : e \in WarmIn(s) <=> e \in seen_warm(s) /\ e \notin Preloaded
    BY DEF WarmIn
<1>4. ASSUME NEW x \in Accounts PROVE x \in WarmIn(s) <=> WarmOf(x, s[x])
    <2>1. ASSUME NEW y \in Accounts, x \in warm_slots(s, y) PROVE FALSE
        <3>1. PICK j \in Keys : x = <<y, j>>
            BY <1>2, <2>1
        <3> QED BY <1>3, <3>1
    <2>2. x \in seen_warm(s) <=> is_warm(s, x)
        BY <1>1, <2>1, Zenon
    <2>3. CASE x \in Preloaded
        BY <1>a, <2>3, Zenon DEF WarmOf
    <2>4. CASE x \notin Preloaded
        BY <1>a, <2>2, <2>4, Truths, Zenon
    <2> QED BY <2>3, <2>4
<1>5. ASSUME NEW x \in Accounts, NEW k \in Keys PROVE <<x, k>> \in WarmIn(s) <=> WarmSlotOf(s[x], k)
    <2>1. <<x, k>> \notin Accounts
        BY <1>3, Zenon
    <2>2. \A y, j : <<x, k>> = <<y, j>> <=> x = y /\ k = j
        OBVIOUS
    <2>3. <<x, k>> \in seen_warm(s) <=> \E y \in Accounts : \E j \in Keys : <<x, k>> = <<y, j>> /\ is_warm_slot(s, y, j)
        BY <1>1, <1>2, <2>1, Zenon
    <2>4. <<x, k>> \in seen_warm(s) <=> is_warm_slot(s, x, k)
        BY <2>2, <2>3, Zenon
    <2>5. <<x, k>> \notin Preloaded
        BY <2>1, StorageGasAssumption
    <2> QED BY <1>a, <2>4, <2>5, Truths, Zenon
<1>6. \A y \in Accounts, j \in Keys : <<y, j>> \in Accounts \X Keys
    OBVIOUS
<1>7. ASSUME NEW e \in WarmIn(s), e \notin Accounts PROVE e \in Accounts \X Keys
    <2>1. PICK y \in Accounts : e \in warm_slots(s, y)
        BY <1>1, <1>7, <1>a, Zenon
    <2>2. PICK j \in Keys : e = <<y, j>>
        BY <1>2, <2>1
    <2> QED BY <1>6, <2>2
<1> QED BY <1>4, <1>5, <1>7

\* Two sets of accounts and slots that agree on both
LEMMA SameWarm ==
    ASSUME NEW A, NEW B, A \subseteq Accounts \union (Accounts \X Keys), B \subseteq Accounts \union (Accounts \X Keys),
           \A x \in Accounts : x \in A <=> x \in B,
           \A x \in Accounts, k \in Keys : <<x, k>> \in A <=> <<x, k>> \in B
    PROVE  A = B
<1>1. \A e \in Accounts \X Keys : e \in A <=> e \in B
    <2> SUFFICES ASSUME NEW e \in Accounts \X Keys PROVE e \in A <=> e \in B
        OBVIOUS
    <2>1. PICK x \in Accounts, k \in Keys : e = <<x, k>>
        OBVIOUS
    <2> QED BY <2>1, Zenon
<1> QED BY <1>1

LEMMA WarmsSeen ==
    ASSUME NEW d, NEW s \in States, NEW t \in States, NEW X, NEW P, Warms(d, s, t, X, P),
           X \subseteq Accounts, P \subseteq Accounts \X Keys
    PROVE  /\ Covers(s, t) /\ ValuesIn(d, t) = ValuesIn(d, s) /\ ExistsIn(d, t) = ExistsIn(d, s)
           /\ WarmIn(t) = WarmIn(s) \union X \union P
<1>1. Covers(s, t)
    BY Zenon DEF Warms, Shows, Covers
<1>2. ValuesIn(d, t) = ValuesIn(d, s)
    <2>1. \A slot \in Accounts \X Keys : slot[1] \in Accounts /\ slot[2] \in Keys
        OBVIOUS
    <2>2. \A slot \in Accounts \X Keys :
            ValueOf(d, t[slot[1]], slot[1], slot[2]) = ValueOf(d, s[slot[1]], slot[1], slot[2])
        BY <2>1, Zenon DEF Warms, Shows
    <2> QED BY <2>2, Zenon DEF ValuesIn
<1>3. ExistsIn(d, t) = ExistsIn(d, s)
    <2>1. \A x \in Accounts : ExistsOf(d, t[x], x) = ExistsOf(d, s[x], x)
        BY Zenon DEF Warms, Shows
    <2> QED BY <2>1, Zenon DEF ExistsIn
<1>4. WarmIn(t) = WarmIn(s) \union X \union P
    <2> DEFINE B == WarmIn(s) \union X \union P
    <2>1. \A x \in Accounts : x \notin P
        BY StorageGasAssumption
    <2>2. \A x \in Accounts, k \in Keys : <<x, k>> \notin X
        <3>1. \A x \in Accounts, k \in Keys : <<x, k>> \in Accounts \X Keys
            OBVIOUS
        <3> QED BY <3>1, StorageGasAssumption
    <2>3. \A x \in Accounts : x \in WarmIn(t) <=> x \in B
        BY <2>1, WarmMembers, Zenon DEF Warms, Shows
    <2>4. \A x \in Accounts, k \in Keys : <<x, k>> \in WarmIn(t) <=> <<x, k>> \in B
        BY <2>2, WarmMembers, Zenon DEF Warms, Shows
    <2>5. WarmIn(t) \subseteq Accounts \union (Accounts \X Keys) /\ B \subseteq Accounts \union (Accounts \X Keys)
        BY WarmMembers
    <2> HIDE DEF B
    <2>6. WarmIn(t) = B
        BY <2>3, <2>4, <2>5, SameWarm, Zenon
    <2> QED BY <2>6 DEF B
<1> QED BY <1>1, <1>2, <1>3, <1>4

LEMMA WritesSeen ==
    ASSUME NEW d, NEW s \in States, NEW t \in States, NEW x \in Accounts, NEW k \in Keys, NEW v,
           Writes(d, s, t, x, k, v)
    PROVE  /\ Covers(s, t) /\ ValuesIn(d, t) = [ValuesIn(d, s) EXCEPT ![<<x, k>>] = v]
           /\ ExistsIn(d, t) = ExistsIn(d, s) /\ WarmIn(t) = WarmIn(s) \union {<<x, k>>}
<1>1. Covers(s, t)
    BY Zenon DEF Writes, Covers
<1>2. ValuesIn(d, t) = [ValuesIn(d, s) EXCEPT ![<<x, k>>] = v]
    <2>1. \A slot \in Accounts \X Keys : /\ slot[1] \in Accounts /\ slot[2] \in Keys
                                         /\ slot = <<x, k>> <=> slot[1] = x /\ slot[2] = k
        OBVIOUS
    <2>2. \A slot \in Accounts \X Keys :
            ValueOf(d, t[slot[1]], slot[1], slot[2]) =
                IF slot = <<x, k>> THEN v ELSE ValueOf(d, s[slot[1]], slot[1], slot[2])
        BY <2>1, Zenon DEF Writes
    <2>3. [ValuesIn(d, s) EXCEPT ![<<x, k>>] = v] = [slot \in Accounts \X Keys |->
            IF slot = <<x, k>> THEN v ELSE ValueOf(d, s[slot[1]], slot[1], slot[2])]
        BY DEF ValuesIn
    <2>4. ValuesIn(d, t) = [slot \in Accounts \X Keys |->
            IF slot = <<x, k>> THEN v ELSE ValueOf(d, s[slot[1]], slot[1], slot[2])]
        BY <2>2, Zenon DEF ValuesIn
    <2> QED BY <2>3, <2>4, Zenon
<1>3. ExistsIn(d, t) = ExistsIn(d, s)
    <2>1. \A y \in Accounts : ExistsOf(d, t[y], y) = ExistsOf(d, s[y], y)
        BY Zenon DEF Writes
    <2> QED BY <2>1, Zenon DEF ExistsIn
<1>4. WarmIn(t) = WarmIn(s) \union {<<x, k>>}
    <2> DEFINE B == WarmIn(s) \union {<<x, k>>}
    <2>1. \A y \in Accounts : y # <<x, k>>
        BY StorageGasAssumption
    <2>2. \A y \in Accounts : y \in WarmIn(t) <=> y \in B
        BY <2>1, WarmMembers, Zenon DEF Writes
    <2>3. \A y \in Accounts, j \in Keys : <<y, j>> \in WarmIn(t) <=> <<y, j>> \in B
        BY Pairs, WarmMembers, Zenon DEF Writes
    <2>4. WarmIn(t) \subseteq Accounts \union (Accounts \X Keys) /\ B \subseteq Accounts \union (Accounts \X Keys)
        BY WarmMembers
    <2> HIDE DEF B
    <2>5. WarmIn(t) = B
        BY <2>2, <2>3, <2>4, SameWarm, Zenon
    <2> QED BY <2>5 DEF B
<1> QED BY <1>1, <1>2, <1>3, <1>4

LEMMA BringsSeen ==
    ASSUME NEW d, NEW s \in States, NEW t \in States, NEW x \in Accounts, Brings(d, s, t, x)
    PROVE  /\ Covers(s, t) /\ ValuesIn(d, t) = ValuesIn(d, s)
           /\ ExistsIn(d, t) = ExistsIn(d, s) \union {x} /\ WarmIn(t) = WarmIn(s)
<1>1. Covers(s, t)
    BY Zenon DEF Brings, Covers
<1>2. ValuesIn(d, t) = ValuesIn(d, s)
    <2>1. \A slot \in Accounts \X Keys : slot[1] \in Accounts /\ slot[2] \in Keys
        OBVIOUS
    <2>2. \A slot \in Accounts \X Keys :
            ValueOf(d, t[slot[1]], slot[1], slot[2]) = ValueOf(d, s[slot[1]], slot[1], slot[2])
        BY <2>1, Zenon DEF Brings
    <2> QED BY <2>2, Zenon DEF ValuesIn
<1>3. \A y : y \in ExistsIn(d, t) <=> y \in ExistsIn(d, s) \union {x}
    BY Zenon DEF ExistsIn, Brings
<1>4. WarmIn(t) = WarmIn(s)
    <2>1. \A y \in Accounts : y \in WarmIn(t) <=> y \in WarmIn(s)
        BY WarmMembers, Zenon DEF Brings
    <2>2. \A y \in Accounts, j \in Keys : <<y, j>> \in WarmIn(t) <=> <<y, j>> \in WarmIn(s)
        BY WarmMembers, Zenon DEF Brings
    <2> QED BY <2>1, <2>2, WarmMembers, SameWarm, Zenon
<1> QED BY <1>1, <1>2, <1>3, <1>4

\* The frames of a state and what they saved, as sequences
LEMMA MarksFacts ==
    ASSUME NEW fs \in Seq(FrameType), NEW d
    PROVE  /\ DOMAIN Marks(d, fs) = 1 .. Len(fs) /\ Len(Marks(d, fs)) = Len(fs) /\ Len(fs) \in Nat
           /\ \A i \in 1 .. Len(fs) : Marks(d, fs)[i] = SeenIn(d, fs[i].saved)
           /\ Marks(d, fs) = <<>> <=> fs = <<>>
<1> DEFINE m(i) == SeenIn(d, fs[i].saved)
<1>1. Marks(d, fs) = [i \in 1 .. Len(fs) |-> m(i)] /\ Len(fs) \in Nat
    BY DEF Marks
<1> HIDE DEF m
<1>2. /\ DOMAIN Marks(d, fs) = 1 .. Len(fs) /\ Len(Marks(d, fs)) = Len(fs)
      /\ \A i \in 1 .. Len(fs) : Marks(d, fs)[i] = m(i)
    BY <1>1
<1>3. Marks(d, fs) = <<>> <=> fs = <<>>
    <2>1. fs = <<>> => Marks(d, fs) = <<>>
        BY <1>1
    <2>2. Marks(d, fs) = <<>> => fs = <<>>
        BY <1>2
    <2> QED BY <2>1, <2>2
<1> QED BY <1>1, <1>2, <1>3 DEF m

LEMMA MarksAppend ==
    ASSUME NEW fs \in Seq(FrameType), NEW f \in FrameType, NEW d
    PROVE  Marks(d, Append(fs, f)) = Append(Marks(d, fs), SeenIn(d, f.saved))
<1> DEFINE gs == Append(fs, f)
           m(i) == SeenIn(d, fs[i].saved)
           last == SeenIn(d, f.saved)
<1>1. /\ gs \in Seq(FrameType) /\ Len(gs) = Len(fs) + 1 /\ Len(fs) \in Nat
      /\ gs[Len(fs) + 1] = f /\ \A i \in 1 .. Len(fs) : gs[i] = fs[i]
    OBVIOUS
<1> HIDE DEF gs
<1>2. Marks(d, fs) = [i \in 1 .. Len(fs) |-> m(i)]
    BY <1>1 DEF Marks
<1>3. Marks(d, gs) = [i \in 1 .. Len(fs) + 1 |-> SeenIn(d, gs[i].saved)]
    BY <1>1 DEF Marks
<1>4. \A i \in 1 .. Len(fs) : SeenIn(d, gs[i].saved) = m(i)
    BY <1>1, Zenon
<1>5. SeenIn(d, gs[Len(fs) + 1].saved) = last
    BY <1>1, Zenon
<1> HIDE DEF m, last
<1>6. Append(Marks(d, fs), last) = [i \in 1 .. Len(fs) + 1 |-> IF i = Len(fs) + 1 THEN last ELSE m(i)]
    BY <1>1, <1>2
<1>7. \A i \in 1 .. Len(fs) + 1 : SeenIn(d, gs[i].saved) = IF i = Len(fs) + 1 THEN last ELSE m(i)
    BY <1>1, <1>4, <1>5
<1>8. Marks(d, gs) = [i \in 1 .. Len(fs) + 1 |-> IF i = Len(fs) + 1 THEN last ELSE m(i)]
    BY <1>3, <1>7, Zenon
<1> QED BY <1>6, <1>8 DEF gs, last

LEMMA MarksBelow ==
    ASSUME NEW fs \in Seq(FrameType), fs # <<>>, NEW d
    PROVE  Marks(d, SubSeq(fs, 1, Len(fs) - 1)) = SubSeq(Marks(d, fs), 1, Len(fs) - 1)
<1> DEFINE n == Len(fs) - 1
           m(i) == SeenIn(d, fs[i].saved)
           gs == SubSeq(fs, 1, n)
<1>1. n \in Nat /\ Len(fs) = n + 1
    OBVIOUS
<1> HIDE DEF n
<1>2. gs \in Seq(FrameType) /\ Len(gs) = n /\ \A i \in 1 .. n : gs[i] = fs[i]
    BY <1>1
<1> HIDE DEF gs
<1>3. Marks(d, fs) = [i \in 1 .. n + 1 |-> m(i)]
    BY <1>1 DEF Marks
<1>4. Marks(d, gs) = [i \in 1 .. n |-> SeenIn(d, gs[i].saved)]
    BY <1>2 DEF Marks
<1>5. \A i \in 1 .. n : SeenIn(d, gs[i].saved) = m(i)
    BY <1>2, Zenon
<1>6. Marks(d, gs) = [i \in 1 .. n |-> m(i)]
    BY <1>4, <1>5, Zenon
<1> HIDE DEF m
<1>7. SubSeq(Marks(d, fs), 1, n) = [i \in 1 .. n |-> m(i)]
    BY <1>1, <1>3
<1> QED BY <1>6, <1>7 DEF gs, n

\* The variables that PlainJournal is instantiated with, now and after a step
LEMMA Now ==
    StorageInv =>
        /\ seen_values(state) = ValuesIn(db, state) /\ seen_exists(state) = ExistsIn(db, state)
        /\ [i \in DOMAIN frames |-> seen(frames[i].saved, Preloaded)] = Marks(db, frames)
<1> SUFFICES ASSUME StorageInv
             PROVE  /\ seen_values(state) = ValuesIn(db, state) /\ seen_exists(state) = ExistsIn(db, state)
                    /\ [i \in DOMAIN frames |-> seen(frames[i].saved, Preloaded)] = Marks(db, frames)
    OBVIOUS
<1>1. ChainTyped /\ state \in States /\ frames \in Seq(FrameType)
    BY Zenon DEF StorageInv, World, FramesFit
<1>2. ASSUME NEW s \in States PROVE seen_values(s) = ValuesIn(db, s) /\ seen_exists(s) = ExistsIn(db, s)
    <2>1. seen_values(s) = ValuesIn(db, s)
        BY Zenon DEF seen_values, seen_value, ValuesIn, ValueOf
    <2>2. ASSUME NEW x \in Accounts
          PROVE  (IF s[x] = Absent THEN db[x].nonempty ELSE s[x].nonempty) <=> ExistsOf(db, s[x], x) = TRUE
        <3>1. db[x].nonempty \in BOOLEAN /\ (s[x] # Absent => s[x].nonempty \in BOOLEAN)
            BY <1>1, DbTyped, Truths
        <3> QED BY <3>1 DEF ExistsOf
    <2>3. seen_exists(s) = ExistsIn(db, s)
        BY <2>2 DEF seen_exists, ExistsIn
    <2> QED BY <2>1, <2>3
<1>3. ASSUME NEW i \in DOMAIN frames PROVE seen(frames[i].saved, Preloaded) = SeenIn(db, frames[i].saved)
    <2>1. frames[i] \in FrameType
        BY <1>1, <1>3
    <2>2. frames[i].saved \in States
        BY <2>1, Zenon DEF FrameType
    <2> QED BY <1>2, <2>2, Zenon DEF seen, SeenIn, WarmIn
<1> QED BY <1>1, <1>2, <1>3, Zenon DEF Marks

\* And after a step
LEMMA Then ==
    ASSUME StorageInv'
    PROVE  /\ seen_values(state)' = ValuesIn(db', state') /\ seen_exists(state)' = ExistsIn(db', state')
           /\ [i \in DOMAIN frames |-> seen(frames[i].saved, Preloaded)]' = Marks(db', frames')
<1>1. (StorageInv =>
          /\ seen_values(state) = ValuesIn(db, state) /\ seen_exists(state) = ExistsIn(db, state)
          /\ [i \in DOMAIN frames |-> seen(frames[i].saved, Preloaded)] = Marks(db, frames))'
    BY Now, PTL
<1> QED BY <1>1

\* What the frames saved: nothing that is not loaded any more, and the first of them what
\* the database has.
AsBefore(d, s) == ValuesIn(d, s) = ValuesIn(d, Empty) /\ ExistsIn(d, s) = ExistsIn(d, Empty)
ViewInv(d, s, fs) ==
    /\ \A i \in DOMAIN fs : Covers(fs[i].saved, s)
    /\ fs # <<>> => AsBefore(d, fs[1].saved)

\* Covering is transitive, and what the frames saved stays covered while more is loaded.
LEMMA CoversTwice ==
    ASSUME NEW s, NEW t, NEW u, Covers(s, t), Covers(t, u)
    PROVE  Covers(s, u)
BY Zenon DEF Covers, CoversOf

LEMMA ViewStays ==
    ASSUME NEW d, NEW s, NEW t, NEW fs, ViewInv(d, s, fs), Covers(s, t)
    PROVE  ViewInv(d, t, fs)
BY CoversTwice, Zenon DEF ViewInv

\* A frame starts: it saves a state that is loaded, the first one the state before.
LEMMA ViewAdded ==
    ASSUME NEW d, NEW s, NEW t, NEW fs \in Seq(FrameType), NEW f \in FrameType, ViewInv(d, s, fs),
           Covers(s, t), Covers(f.saved, t), fs = <<>> => AsBefore(d, f.saved)
    PROVE  ViewInv(d, t, Append(fs, f))
<1> DEFINE gs == Append(fs, f)
<1>1. /\ \A i \in DOMAIN gs : gs[i] = f \/ (i \in DOMAIN fs /\ gs[i] = fs[i])
      /\ fs = <<>> => gs[1] = f
      /\ fs # <<>> => gs[1] = fs[1]
    OBVIOUS
<1> HIDE DEF gs
<1>2. \A i \in DOMAIN gs : Covers(gs[i].saved, t)
    BY <1>1, CoversTwice, Zenon DEF ViewInv
<1>3. AsBefore(d, gs[1].saved)
    BY <1>1, Zenon DEF ViewInv
<1> QED BY <1>2, <1>3, Zenon DEF ViewInv, gs

\* A frame ends, or the last one does.
LEMMA ViewBelow ==
    ASSUME NEW d, NEW s, NEW t, NEW fs \in Seq(FrameType), fs # <<>>, ViewInv(d, s, fs), Covers(s, t)
    PROVE  ViewInv(d, t, SubSeq(fs, 1, Len(fs) - 1))
<1> DEFINE gs == SubSeq(fs, 1, Len(fs) - 1)
<1>1. /\ \A i \in DOMAIN gs : i \in DOMAIN fs /\ gs[i] = fs[i]
      /\ gs # <<>> => gs[1] = fs[1]
    OBVIOUS
<1> HIDE DEF gs
<1>2. \A i \in DOMAIN gs : Covers(gs[i].saved, t)
    BY <1>1, CoversTwice, Zenon DEF ViewInv
<1>3. gs # <<>> => AsBefore(d, gs[1].saved)
    BY <1>1, Zenon DEF ViewInv
<1> QED BY <1>2, <1>3, Zenon DEF ViewInv, gs

LEMMA ViewEmpty ==
    ASSUME NEW d, NEW s
    PROVE  ViewInv(d, s, <<>>)
<1>1. DOMAIN <<>> = {}
    OBVIOUS
<1> QED BY <1>1, Zenon DEF ViewInv

-----------------------------------------------------------------------------
(* The steps of PlainJournal, by what is seen of the journal *)

\* Other, Read and Write
LEMMA PlainOther ==
    ASSUME StorageInv, StorageInv', code' = code, cold' = FALSE,
           ValuesIn(db', state') = ValuesIn(db, state), ExistsIn(db', state') = ExistsIn(db, state),
           WarmIn(state') = WarmIn(state), Marks(db', frames') = Marks(db, frames)
    PROVE  Plain!Next
<1>1. Plain!Other
    BY Now, Then DEF Plain!Other, WarmIn
<1> QED BY <1>1 DEF Plain!Next

LEMMA PlainRead ==
    ASSUME StorageInv, StorageInv', code' = code, frames # <<>>, NEW slot \in Accounts \X Keys,
           cold' = (slot \notin WarmIn(state)),
           ValuesIn(db', state') = ValuesIn(db, state), ExistsIn(db', state') = ExistsIn(db, state),
           WarmIn(state') = WarmIn(state) \union {slot}, Marks(db', frames') = Marks(db, frames)
    PROVE  Plain!Next
<1>1. frames \in Seq(FrameType)
    BY Zenon DEF StorageInv, World, FramesFit
<1>2. Marks(db, frames) # <<>>
    BY <1>1, MarksFacts
<1>3. Plain!Read(slot)
    BY <1>2, Now, Then DEF Plain!Read, WarmIn
<1>4. slot \in Plain!Slots
    BY DEF Plain!Slots
<1> QED BY <1>3, <1>4 DEF Plain!Next

LEMMA PlainWrite ==
    ASSUME StorageInv, StorageInv', code' = code, frames # <<>>, NEW slot \in Accounts \X Keys, NEW v \in Values,
           cold' = (slot \notin WarmIn(state)),
           ValuesIn(db', state') = [ValuesIn(db, state) EXCEPT ![slot] = v],
           ExistsIn(db', state') = ExistsIn(db, state),
           WarmIn(state') = WarmIn(state) \union {slot}, Marks(db', frames') = Marks(db, frames)
    PROVE  Plain!Next
<1>1. frames \in Seq(FrameType)
    BY Zenon DEF StorageInv, World, FramesFit
<1>2. Marks(db, frames) # <<>>
    BY <1>1, MarksFacts
<1>3. Plain!Write(slot, v)
    BY <1>2, Now, Then DEF Plain!Write, WarmIn
<1>4. slot \in Plain!Slots
    BY DEF Plain!Slots
<1> QED BY <1>3, <1>4 DEF Plain!Next

\* Enter: the checkpoint has the new warmth and the values and accounts of before.
LEMMA PlainEnter ==
    ASSUME StorageInv, StorageInv', code' = code, NEW to \in Accounts, NEW created \in SUBSET {to},
           NEW w, w = Plain!Warmed({to} \union ({code[to]} \intersect Accounts)),
           cold' \in Plain!MayCost(to),
           ValuesIn(db', state') = ValuesIn(db, state),
           ExistsIn(db', state') = ExistsIn(db, state) \union created,
           WarmIn(state') = w,
           Marks(db', frames') = Append(Marks(db, frames),
               [value |-> ValuesIn(db, state), exists |-> ExistsIn(db, state), warm |-> w])
    PROVE  Plain!Next
<1>1. [Plain!View EXCEPT !.warm = w] = [value |-> ValuesIn(db, state), exists |-> ExistsIn(db, state), warm |-> w]
    <2>1. Plain!View = [value |-> ValuesIn(db, state), exists |-> ExistsIn(db, state), warm |-> WarmIn(state)]
        BY Now DEF Plain!View, WarmIn
    <2> DEFINE a == ValuesIn(db, state)
               b == ExistsIn(db, state)
               c == WarmIn(state)
               view == Plain!View
    <2>2. view = [value |-> a, exists |-> b, warm |-> c]
        BY <2>1
    <2> HIDE DEF a, b, c, view
    <2>3. [view EXCEPT !.warm = w] = [[value |-> a, exists |-> b, warm |-> c] EXCEPT !.warm = w]
        BY ONLY <2>2, Zenon
    <2>4. [[value |-> a, exists |-> b, warm |-> c] EXCEPT !.warm = w] = [value |-> a, exists |-> b, warm |-> w]
        BY ONLY TRUE
    <2> QED BY <2>3, <2>4, Zenon DEF a, b, view
<1>2. Plain!Enter(to, created)
    BY <1>1, Now, Then DEF Plain!Enter, WarmIn
<1> QED BY <1>2 DEF Plain!Next

\* Give: the checkpoints stay.
LEMMA PlainGive ==
    ASSUME StorageInv, StorageInv', code' = code, frames # <<>>, NEW to \in Accounts, NEW created \in SUBSET {to},
           cold' \in Plain!MayCost(to),
           ValuesIn(db', state') = ValuesIn(db, state),
           ExistsIn(db', state') = ExistsIn(db, state) \union created,
           WarmIn(state') = Plain!Warmed({to}), Marks(db', frames') = Marks(db, frames)
    PROVE  Plain!Next
<1>1. frames \in Seq(FrameType)
    BY Zenon DEF StorageInv, World, FramesFit
<1>2. Marks(db, frames) # <<>>
    BY <1>1, MarksFacts
<1>3. Plain!Give(to, created)
    BY <1>2, Now, Then DEF Plain!Give, WarmIn
<1> QED BY <1>3 DEF Plain!Next

\* Succeed and Fail, and Abort
LEMMA PlainLeave ==
    ASSUME StorageInv, StorageInv', code' = code, frames # <<>>, cold' = FALSE, NEW ok \in BOOLEAN,
           NEW s, s = IF ok THEN state ELSE Top.saved,
           ValuesIn(db', state') = ValuesIn(db, s), ExistsIn(db', state') = ExistsIn(db, s),
           WarmIn(state') = IF Len(frames) = 1 THEN {} ELSE WarmIn(s),
           Marks(db', frames') = SubSeq(Marks(db, frames), 1, Len(frames) - 1)
    PROVE  Plain!Next
<1>1. frames \in Seq(FrameType)
    BY Zenon DEF StorageInv, World, FramesFit
<1>2. /\ Marks(db, frames) # <<>> /\ Len(Marks(db, frames)) = Len(frames)
      /\ Len(frames) \in Nat /\ Len(frames) \in 1 .. Len(frames)
    BY <1>1, MarksFacts
<1>3. Marks(db, frames)[Len(frames)] = SeenIn(db, Top.saved)
    BY <1>1, <1>2, MarksFacts, Zenon DEF Top
<1>a. Len(frames) > 0
    BY <1>2
<1>4. CASE ok
    <2>1. Plain!View = SeenIn(db, state)
        BY Now DEF Plain!View, SeenIn, WarmIn
    <2>2. Plain!Leave(SeenIn(db, state))
        BY <1>2, <1>a, <1>4, Now, Then DEF Plain!Leave, SeenIn, WarmIn
    <2>3. Plain!Succeed
        BY <1>2, <2>1, <2>2, Now DEF Plain!Succeed
    <2> QED BY <2>3 DEF Plain!Next
<1>5. CASE ~ok
    <2>2. Plain!Leave(SeenIn(db, Top.saved))
        BY <1>2, <1>a, <1>5, Now, Then DEF Plain!Leave, SeenIn, WarmIn
    <2>3. Plain!Fail
        BY <1>2, <1>3, <2>2, Now DEF Plain!Fail
    <2> QED BY <2>3 DEF Plain!Next
<1> QED BY <1>4, <1>5

LEMMA PlainAbort ==
    ASSUME StorageInv, StorageInv', code' = code, frames # <<>>, cold' = FALSE,
           ValuesIn(db', state') = ValuesIn(db, frames[1].saved),
           ExistsIn(db', state') = ExistsIn(db, frames[1].saved),
           WarmIn(state') = {}, frames' = <<>>
    PROVE  Plain!Next
<1>1. frames \in Seq(FrameType)
    BY Zenon DEF StorageInv, World, FramesFit
<1>2. Marks(db, frames) # <<>> /\ 1 \in 1 .. Len(frames)
    BY <1>1, MarksFacts
<1>3. Marks(db, frames)[1] = SeenIn(db, frames[1].saved)
    BY <1>1, <1>2, MarksFacts, Zenon
<1>4. Marks(db', frames') = <<>>
    <2>1. <<>> \in Seq(FrameType)
        OBVIOUS
    <2> QED BY <2>1, MarksFacts, Zenon
<1>5. Plain!Abort
    BY <1>2, <1>3, <1>4, Now, Then DEF Plain!Abort, SeenIn, WarmIn
<1> QED BY <1>5 DEF Plain!Next

\* Nothing is warm in an empty journal, and it shows the database, into which the end of a
\* transaction writes what the journal showed.
LEMMA EmptySeen == WarmIn(Empty) = {}
<1>1. Empty \in States /\ \A x \in Accounts : Empty[x] = Absent
    BY EmptySound DEF Empty
<1>2. \A x \in Accounts : x \notin WarmIn(Empty) /\ \A k \in Keys : <<x, k>> \notin WarmIn(Empty)
    BY <1>1, WarmMembers, Zenon DEF WarmOf, WarmSlotOf
<1>3. WarmIn(Empty) \subseteq Accounts \union (Accounts \X Keys)
    BY <1>1, WarmMembers, Zenon
<1> QED BY <1>2, <1>3, SameWarm

LEMMA CommitSeen ==
    ASSUME ChainTyped, is_enabled(spec, REX4), NEW s \in States, NEW ch, Sound(spec, s, db, ch),
           NEW d, d = commit(s)
    PROVE  ValuesIn(d, Empty) = ValuesIn(db, s) /\ ExistsIn(d, Empty) = ExistsIn(db, s)
<1>1. \A x \in Accounts : Empty[x] = Absent
    BY DEF Empty
<1>2. \A x \in Accounts : /\ d[x].nonempty = ExistsOf(db, s[x], x)
                          /\ \A k \in Keys : d[x].storage[k] = ValueOf(db, s[x], x, k)
    BY CommitShows
<1>3. \A x \in Accounts : /\ ExistsOf(d, Empty[x], x) = ExistsOf(db, s[x], x)
                          /\ \A k \in Keys : ValueOf(d, Empty[x], x, k) = ValueOf(db, s[x], x, k)
    BY <1>1, <1>2, Zenon DEF ExistsOf, ValueOf
<1>4. \A slot \in Accounts \X Keys :
        ValueOf(d, Empty[slot[1]], slot[1], slot[2]) = ValueOf(db, s[slot[1]], slot[1], slot[2])
    <2> SUFFICES ASSUME NEW slot \in Accounts \X Keys
                 PROVE  ValueOf(d, Empty[slot[1]], slot[1], slot[2]) = ValueOf(db, s[slot[1]], slot[1], slot[2])
        OBVIOUS
    <2>1. slot[1] \in Accounts /\ slot[2] \in Keys
        OBVIOUS
    <2> QED BY <1>3, <2>1, Zenon
<1> QED BY <1>3, <1>4, Zenon DEF ValuesIn, ExistsIn

\* Two states that show the same, as functions and sets
LEMMA NothingSeen ==
    ASSUME NEW d, NEW s \in States, NEW t \in States, Warms(d, s, t, {}, {})
    PROVE  /\ Covers(s, t) /\ ValuesIn(d, t) = ValuesIn(d, s) /\ ExistsIn(d, t) = ExistsIn(d, s)
           /\ WarmIn(t) = WarmIn(s)
<1> DEFINE none == {}
<1>1. none \subseteq Accounts /\ none \subseteq Accounts \X Keys /\ Warms(d, s, t, none, none)
    OBVIOUS
<1>2. \A A : A \union none \union none = A
    OBVIOUS
<1> HIDE DEF none
<1>3. /\ Covers(s, t) /\ ValuesIn(d, t) = ValuesIn(d, s) /\ ExistsIn(d, t) = ExistsIn(d, s)
      /\ WarmIn(t) = WarmIn(s) \union none \union none
    BY ONLY <1>1, s \in States, t \in States, WarmsSeen
<1> QED BY <1>2, <1>3

-----------------------------------------------------------------------------
(* The ends of the frames *)

\* A frame that ends keeps what is shown, or goes back to what it saved; the last one writes
\* that to the database (checkpoint_revert, commit).
LEMMA LeaveShows ==
    ASSUME StorageInv, StorageInv', is_enabled(spec, REX4), ViewInv(db, state, frames), frames # <<>>,
           UNCHANGED <<chain, capacity>>, NEW s, Follows(state, s, charges), Warms(db, state, s, {}, {}),
           NEW ok \in BOOLEAN, Leave(s, ok)
    PROVE  Plain!Next /\ ViewInv(db', state', frames')
<1> DEFINE left == IF ok THEN s ELSE checkpoint_revert(s, Top.saved)
           goal == IF ok THEN state ELSE Top.saved
<1>1. /\ World /\ ChainTyped /\ state \in States /\ code' = code
      /\ s \in States /\ Sound(spec, s, db, charges)
    BY Zenon DEF StorageInv, World, Follows, chain
<1>2. /\ Top.saved \in States /\ frames \in Seq(FrameType)
      /\ Len(frames) \in Nat /\ Len(frames) > 0
    BY <1>1, TopFacts, Zenon
<1>3. /\ frames' = SubSeq(frames, 1, Len(frames) - 1) /\ cold' = FALSE
      /\ Len(frames) = 1 => db' = commit(left) /\ state' = Empty
      /\ Len(frames) # 1 => state' = left /\ db' = db
    BY Zenon DEF Leave
<1>4. Covers(state, s)
    BY Zenon DEF Warms, Shows, Covers
<1>5. /\ Warms(db, goal, left, {}, {}) /\ Covers(state, left)
      /\ left \in States /\ Sound(spec, left, db, charges) /\ goal \in States
    <2>1. CASE ok
        BY <1>1, <1>4, <2>1, Zenon
    <2>2. CASE ~ok
        <3> DEFINE t == checkpoint_revert(s, Top.saved)
        <3>1. Len(frames) \in DOMAIN frames
            BY <1>2
        <3>2. Covers(Top.saved, s)
            BY <1>4, <3>1, CoversTwice, Zenon DEF ViewInv, Top
        <3>3. Warms(db, Top.saved, t, {}, {}) /\ Covers(s, t)
            BY <1>1, <1>2, <3>2, RevertGoesBack, Zenon
        <3>4. Sound(spec, Top.saved, db, charges)
            BY <1>1, TopFacts, Zenon
        <3>5. Follows(s, t, charges)
            BY <1>1, <1>2, <3>4, RevertFollows, Zenon
        <3>6. Covers(state, t)
            BY <1>4, <3>3, CoversTwice, Zenon
        <3>7. left = t /\ goal = Top.saved
            BY <2>2, Zenon
        <3> HIDE DEF t, left, goal
        <3> QED BY <1>2, <3>3, <3>5, <3>6, <3>7, Zenon DEF Follows
    <2> QED BY <2>1, <2>2
<1>a. goal = IF ok THEN state ELSE Top.saved
    OBVIOUS
<1> HIDE DEF left, goal
<1>6. /\ ValuesIn(db, left) = ValuesIn(db, goal) /\ ExistsIn(db, left) = ExistsIn(db, goal)
      /\ WarmIn(left) = WarmIn(goal)
    BY <1>5, NothingSeen, Zenon
<1>7. CASE Len(frames) = 1
    <2>1. db' = commit(left) /\ state' = Empty
        BY <1>3, <1>7
    <2>2. /\ ValuesIn(db', state') = ValuesIn(db, goal) /\ ExistsIn(db', state') = ExistsIn(db, goal)
          /\ WarmIn(state') = {}
        <3>1. ValuesIn(db', Empty) = ValuesIn(db, left) /\ ExistsIn(db', Empty) = ExistsIn(db, left)
            BY <1>1, <1>5, <2>1, CommitSeen
        <3> QED BY <1>6, <2>1, <3>1, EmptySeen
    <2>3. frames' = <<>>
        BY <1>2, <1>3, <1>7
    <2>4. Marks(db', frames') = SubSeq(Marks(db, frames), 1, Len(frames) - 1)
        <3>1. <<>> \in Seq(FrameType)
            OBVIOUS
        <3>2. Marks(db', frames') = <<>>
            BY <2>3, <3>1, MarksFacts, Zenon
        <3>3. SubSeq(Marks(db, frames), 1, 0) = <<>>
            OBVIOUS
        <3> QED BY <1>7, <3>2, <3>3
    <2>5. Plain!Next
        BY <1>1, <1>3, <1>7, <1>a, <2>2, <2>4, PlainLeave
    <2> QED BY <2>3, <2>5, ViewEmpty, Zenon
<1>8. CASE Len(frames) # 1
    <2>1. db' = db /\ state' = left
        BY <1>3, <1>8
    <2>2. Marks(db', frames') = SubSeq(Marks(db, frames), 1, Len(frames) - 1)
        BY <1>2, <1>3, <2>1, MarksBelow
    <2>3. ViewInv(db', state', frames')
        BY <1>2, <1>3, <1>5, <2>1, ViewBelow
    <2>4. Plain!Next
        BY <1>1, <1>3, <1>6, <1>8, <1>a, <2>1, <2>2, PlainLeave
    <2> QED BY <2>3, <2>4
<1> QED BY <1>7, <1>8

\* A fatal error drops the transaction, and with it what the first frame saved.
LEMMA DropShows ==
    ASSUME StorageInv, StorageInv', ViewInv(db, state, frames), frames # <<>>, UNCHANGED chain, Drop
    PROVE  Plain!Next /\ ViewInv(db', state', frames')
<1>1. frames' = <<>> /\ state' = Empty /\ cold' = FALSE /\ db' = db /\ code' = code
    BY DEF Drop, chain
<1>2. /\ ValuesIn(db', state') = ValuesIn(db, frames[1].saved)
      /\ ExistsIn(db', state') = ExistsIn(db, frames[1].saved)
    BY <1>1, Zenon DEF ViewInv, AsBefore
<1>3. WarmIn(state') = {}
    BY <1>1, EmptySeen, Zenon
<1>4. Plain!Next
    BY <1>1, <1>2, <1>3, PlainAbort
<1> QED BY <1>1, <1>4, ViewEmpty, Zenon

\* A wrapper whose instruction ends shows as the instruction does; otherwise its frame fails,
\* or the transaction is dropped.
LEMMA WrapperShows ==
    ASSUME StorageInv, StorageInv', is_enabled(spec, REX4), ViewInv(db, state, frames), frames # <<>>,
           UNCHANGED <<chain, capacity>>, NEW s, Follows(state, s, charges), Warms(db, state, s, {}, {}),
           NEW charge, NEW is_cold, NEW after, NEW stack, Wrapper(s, charge, is_cold, after, stack),
           state' = after /\ cold' = is_cold /\ frames' = stack /\ db' = db =>
               Plain!Next /\ ViewInv(db', state', frames')
    PROVE  Plain!Next /\ ViewInv(db', state', frames')
<1>1. \/ state' = after /\ cold' = is_cold /\ frames' = stack /\ db' = db
      \/ Leave(s, FALSE)
      \/ Drop
    BY Zenon DEF Wrapper
<1>2. CASE Leave(s, FALSE)
    <2>1. FALSE \in BOOLEAN
        OBVIOUS
    <2> QED BY <1>2, <2>1, LeaveShows
<1>3. CASE Drop
    <2>1. UNCHANGED chain
        OBVIOUS
    <2> QED BY <1>3, <2>1, DropShows
<1> QED BY <1>1, <1>2, <1>3, Zenon

\* A state shows what it shows.
LEMMA NothingShown ==
    ASSUME NEW d, NEW s
    PROVE  Warms(d, s, s, {}, {})
<1>1. \A x : x \notin {} /\ \A k \in Keys : <<x, k>> \notin {}
    OBVIOUS
<1> QED BY <1>1, ShowsItself, Zenon DEF Warms

\* A frame from its parts
LEMMA FrameMade ==
    ASSUME NEW self \in Accounts, NEW has_code \in BOOLEAN, NEW static \in BOOLEAN, NEW saved \in States
    PROVE  /\ Frame(self, has_code, static, saved) \in FrameType
           /\ Frame(self, has_code, static, saved).saved = saved
<1>1. [self |-> self, runs |-> has_code, static |-> static, saved |-> saved] \in FrameType
    BY Zenon DEF FrameType
<1> QED BY <1>1 DEF Frame

\* Whether something is cold, from what is seen
LEMMA ColdSeen ==
    ASSUME NEW s \in States, NEW x \in Accounts
    PROVE  /\ x \notin Preloaded => (~is_warm(s, x)) = (x \notin WarmIn(s))
           /\ \A k \in Keys : (~is_warm_slot(s, x, k)) = (<<x, k>> \notin WarmIn(s))
<1>1. x \notin Preloaded => (is_warm(s, x) <=> x \in WarmIn(s))
    BY Truths, WarmMembers, Zenon
<1>2. \A k \in Keys : is_warm_slot(s, x, k) <=> <<x, k>> \in WarmIn(s)
    BY Truths, WarmMembers, Zenon
<1>3. x \notin Preloaded => (~is_warm(s, x)) = (x \notin WarmIn(s))
    BY <1>1
<1>4. \A k \in Keys : (~is_warm_slot(s, x, k)) = (<<x, k>> \notin WarmIn(s))
    BY <1>2, Zenon
<1> QED BY <1>3, <1>4

\* What an access to an account may cost
LEMMA CostSeen ==
    ASSUME NEW s \in States, NEW x \in Accounts, WarmIn(s) = WarmIn(state), cold' = ~is_warm(s, x), cold' \in BOOLEAN
    PROVE  cold' \in Plain!MayCost(x)
<1>1. CASE x \in Preloaded
    BY <1>1 DEF Plain!MayCost
<1>2. CASE x \notin Preloaded
    <2>1. (~is_warm(s, x)) = (x \notin WarmIn(s))
        BY <1>2, ColdSeen, Zenon
    <2>2. cold' = (x \notin WarmIn(state))
        BY ONLY WarmIn(s) = WarmIn(state), cold' = ~is_warm(s, x), <2>1, Zenon
    <2> QED BY <1>2, <2>2 DEF Plain!MayCost, WarmIn
<1> QED BY <1>1, <1>2

\* A frame that starts, after the callee is loaded and perhaps brought into existence
LEMMA EnterShows ==
    ASSUME StorageInv, StorageInv', ViewInv(db, state, frames), code' = code, db' = db,
           NEW to \in Accounts, NEW u, Follows(state, u, charges), Warms(db, state, u, {}, {}),
           NEW loaded, loaded = load_account_delegated(u, to),
           NEW self \in Accounts, NEW has_code \in BOOLEAN, NEW static \in BOOLEAN,
           frames' = Append(frames, Frame(self, has_code, static, loaded)),
           state' = loaded \/ state' = [loaded EXCEPT ![to].nonempty = TRUE],
           cold' = ~is_warm(u, to)
    PROVE  Plain!Next /\ ViewInv(db', state', frames')
<1> DEFINE X == ({to} \union ({code[to]} \intersect Accounts)) \ Preloaded
           none == {}
<1>1. /\ World /\ ChainTyped /\ state \in States /\ frames \in Seq(FrameType)
      /\ u \in States /\ Sound(spec, u, db, charges)
      /\ frames = <<>> => state = Empty
    BY Zenon DEF StorageInv, World, Follows, FramesFit
<1>2. state' \in States
    BY Zenon DEF StorageInv, World
<1>3. /\ Covers(state, u) /\ ValuesIn(db, u) = ValuesIn(db, state) /\ ExistsIn(db, u) = ExistsIn(db, state)
      /\ WarmIn(u) = WarmIn(state)
    BY <1>1, NothingSeen, Zenon
<1>4. Warms(db, u, loaded, X, none) /\ loaded \in States /\ loaded[to] # Absent
    BY <1>1, LoadDelegatedWarms, LoadDelegatedFollows, Zenon
<1>5. X \subseteq Accounts /\ none \subseteq Accounts \X Keys
    OBVIOUS
<1>a. WarmIn(state) \union X \union none = Plain!Warmed({to} \union ({code[to]} \intersect Accounts))
    BY DEF Plain!Warmed, WarmIn
<1> HIDE DEF none, X
<1>6. /\ Covers(u, loaded) /\ ValuesIn(db, loaded) = ValuesIn(db, u) /\ ExistsIn(db, loaded) = ExistsIn(db, u)
      /\ WarmIn(loaded) = WarmIn(u) \union X \union none
    BY ONLY <1>1, <1>4, <1>5, WarmsSeen
<1>7. PICK created \in SUBSET {to} :
        /\ Covers(loaded, state') /\ ValuesIn(db, state') = ValuesIn(db, loaded)
        /\ ExistsIn(db, state') = ExistsIn(db, loaded) \union created /\ WarmIn(state') = WarmIn(loaded)
    <2>1. CASE state' = loaded
        <3>1. Covers(loaded, loaded)
            BY Zenon DEF Covers, CoversOf
        <3>2. {} \in SUBSET {to} /\ ExistsIn(db, loaded) = ExistsIn(db, loaded) \union {}
            OBVIOUS
        <3> QED BY <2>1, <3>1, <3>2, Zenon
    <2>2. CASE state' = [loaded EXCEPT ![to].nonempty = TRUE]
        <3>1. Brings(db, loaded, state', to)
            BY <1>4, <2>2, TransferBrings, Zenon
        <3>2. {to} \in SUBSET {to}
            OBVIOUS
        <3>3. /\ Covers(loaded, state') /\ ValuesIn(db, state') = ValuesIn(db, loaded)
              /\ ExistsIn(db, state') = ExistsIn(db, loaded) \union {to} /\ WarmIn(state') = WarmIn(loaded)
            BY ONLY <1>2, <1>4, <3>1, to \in Accounts, BringsSeen
        <3> QED BY <3>2, <3>3, Zenon
    <2> QED BY <2>1, <2>2
<1> DEFINE f == Frame(self, has_code, static, loaded)
           w == WarmIn(loaded)
<1>8. f \in FrameType /\ f.saved = loaded
    <2>1. [self |-> self, runs |-> has_code, static |-> static, saved |-> loaded] \in FrameType
        BY <1>4, Zenon DEF FrameType
    <2>2. f = [self |-> self, runs |-> has_code, static |-> static, saved |-> loaded]
        BY Zenon DEF Frame
    <2> HIDE DEF f
    <2> QED BY <2>1, <2>2
<1>9. w = Plain!Warmed({to} \union ({code[to]} \intersect Accounts))
    BY <1>3, <1>6, <1>a, Zenon
<1>10. frames' = Append(frames, f)
    OBVIOUS
<1>b. cold' \in Plain!MayCost(to)
    <2>1. cold' \in BOOLEAN
        BY Zenon DEF StorageInv, World
    <2> QED BY <1>1, <1>3, <2>1, CostSeen, Zenon
<1> HIDE DEF f
<1>11. Marks(db', frames') = Append(Marks(db, frames),
           [value |-> ValuesIn(db, state), exists |-> ExistsIn(db, state), warm |-> w])
    <2>1. SeenIn(db, f.saved) = [value |-> ValuesIn(db, state), exists |-> ExistsIn(db, state), warm |-> w]
        BY <1>3, <1>6, <1>8, Zenon DEF SeenIn
    <2>2. Marks(db, Append(frames, f)) = Append(Marks(db, frames), SeenIn(db, f.saved))
        BY <1>1, <1>8, MarksAppend, Zenon
    <2> QED BY <1>10, <2>1, <2>2
<1> HIDE DEF w
<1>12. Plain!Next
    <2>1. /\ ValuesIn(db', state') = ValuesIn(db, state)
          /\ ExistsIn(db', state') = ExistsIn(db, state) \union created
        BY <1>3, <1>6, <1>7
    <2>2. WarmIn(state') = w
        BY <1>7 DEF w
    <2> QED BY <1>9, <1>11, <1>b, <2>1, <2>2, PlainEnter
<1>13. ViewInv(db, state', Append(frames, f))
    <2>1. Covers(state, state')
        BY <1>3, <1>6, <1>7, CoversTwice, Zenon
    <2>2. frames = <<>> => AsBefore(db, f.saved)
        BY <1>1, <1>3, <1>6, <1>8, Zenon DEF AsBefore
    <2>3. Covers(f.saved, state')
        BY <1>7, <1>8, Zenon
    <2> QED BY <1>1, <1>8, <2>1, <2>2, <2>3, ViewAdded, Zenon
<1> QED BY <1>10, <1>12, <1>13

\* A slot has become warm, as functions and sets.
LEMMA SlotSeen ==
    ASSUME NEW d, NEW s \in States, NEW t \in States, NEW x \in Accounts, NEW k \in Keys,
           Warms(d, s, t, {}, {<<x, k>>})
    PROVE  /\ Covers(s, t) /\ ValuesIn(d, t) = ValuesIn(d, s) /\ ExistsIn(d, t) = ExistsIn(d, s)
           /\ WarmIn(t) = WarmIn(s) \union {<<x, k>>}
<1> DEFINE none == {}
           P == {<<x, k>>}
<1>1. none \subseteq Accounts /\ P \subseteq Accounts \X Keys /\ Warms(d, s, t, none, P)
    OBVIOUS
<1>2. \A A : A \union none \union P = A \union P
    OBVIOUS
<1> HIDE DEF none, P
<1>3. /\ Covers(s, t) /\ ValuesIn(d, t) = ValuesIn(d, s) /\ ExistsIn(d, t) = ExistsIn(d, s)
      /\ WarmIn(t) = WarmIn(s) \union none \union P
    BY ONLY <1>1, s \in States, t \in States, WarmsSeen
<1> QED BY <1>2, <1>3 DEF P

\* SLOAD reads.
LEMMA SloadShows ==
    ASSUME StorageInv, StorageInv', ViewInv(db, state, frames), NEW key \in Keys, Sload(key)
    PROVE  Plain!Next /\ ViewInv(db', state', frames')
<1> DEFINE x == Top.self
<1>1. World /\ ChainTyped /\ state \in States /\ state' \in States
    BY Zenon DEF StorageInv, World
<1>2. /\ frames # <<>> /\ state' = sload(state, x, key) /\ cold' = ~is_warm_slot(state, x, key)
      /\ db' = db /\ frames' = frames /\ code' = code
    BY DEF Sload, Running, chain
<1>3. x \in Accounts /\ state[x] # Absent
    BY <1>1, <1>2, TopFacts, Zenon
<1> HIDE DEF x
<1>4. Warms(db, state, state', {}, {<<x, key>>})
    BY <1>1, <1>2, <1>3, SloadWarms, Zenon
<1>5. /\ Covers(state, state') /\ ValuesIn(db, state') = ValuesIn(db, state)
      /\ ExistsIn(db, state') = ExistsIn(db, state)
      /\ WarmIn(state') = WarmIn(state) \union {<<x, key>>}
    BY ONLY <1>1, <1>3, <1>4, key \in Keys, SlotSeen
<1>6. cold' = (<<x, key>> \notin WarmIn(state))
    <2>1. (~is_warm_slot(state, x, key)) = (<<x, key>> \notin WarmIn(state))
        BY <1>1, <1>3, ColdSeen, Zenon
    <2> QED BY ONLY <1>2, <2>1, Zenon
<1>7. Plain!Next
    <2>1. <<x, key>> \in Accounts \X Keys
        BY <1>3
    <2>2. Marks(db', frames') = Marks(db, frames)
        BY <1>2
    <2> QED BY <1>2, <1>5, <1>6, <2>1, <2>2, PlainRead
<1> QED BY <1>2, <1>5, <1>7, ViewStays

\* SSTORE inspects, and writes unless the frame fails or the transaction is dropped.
LEMMA SstoreShows ==
    ASSUME StorageInv, StorageInv', is_enabled(spec, REX4), ViewInv(db, state, frames),
           NEW key \in Keys, NEW value \in Values, Sstore(key, value)
    PROVE  Plain!Next /\ ViewInv(db', state', frames')
<1> DEFINE x == Top.self
           seen_now == inspect_storage(state, x, key)
           slot == seen_now.state[seen_now.at].storage[key]
           at == <<x, key>>
           due == slot.original = 0 /\ slot.present = 0 /\ value # 0
           charge == Charge(due, "slot", at, at)
           u == seen_now.state
           after == sstore(seen_now.state, x, key, value)
           is_cold == ~is_warm_slot(seen_now.state, x, key)
<1>1. World /\ ChainTyped /\ state \in States /\ state' \in States
      /\ Sound(spec, state, db, charges)
    BY Zenon DEF StorageInv, World
<1>2. /\ frames # <<>> /\ UNCHANGED <<chain, capacity>>
      /\ Wrapper(u, charge, is_cold, after, frames)
    BY Zenon DEF Sstore, Running
<1>3. x \in Accounts /\ state[x] # Absent
    BY <1>1, <1>2, TopFacts, Zenon
<1> HIDE DEF x
<1>4. Follows(state, u, charges) /\ u[x] # Absent
    BY <1>1, <1>3, InspectStorage
<1>5. Warms(db, state, u, {}, {})
    BY <1>1, <1>3, InspectStorageWarmsNothing
<1>6. after = sstore(u, x, key, value) /\ is_cold = ~is_warm_slot(u, x, key)
    OBVIOUS
<1> HIDE DEF seen_now, charge, after, is_cold, u
<1>7. u \in States /\ Sound(spec, u, db, charges)
    BY <1>4, Zenon DEF Follows
<1>8. Writes(db, u, after, x, key, value)
    BY ONLY <1>1, <1>3, <1>4, <1>6, <1>7, key \in Keys, value \in Values, SstoreWrites
<1>9. ASSUME state' = after, cold' = is_cold, frames' = frames, db' = db
      PROVE  Plain!Next /\ ViewInv(db', state', frames')
    <2>1. /\ Covers(state, u) /\ ValuesIn(db, u) = ValuesIn(db, state)
          /\ ExistsIn(db, u) = ExistsIn(db, state) /\ WarmIn(u) = WarmIn(state)
        BY <1>1, <1>5, <1>7, NothingSeen, Zenon
    <2>2. /\ Covers(u, state') /\ ValuesIn(db, state') = [ValuesIn(db, u) EXCEPT ![<<x, key>>] = value]
          /\ ExistsIn(db, state') = ExistsIn(db, u) /\ WarmIn(state') = WarmIn(u) \union {<<x, key>>}
        BY ONLY <1>1, <1>3, <1>7, <1>8, <1>9, key \in Keys, WritesSeen
    <2>3. cold' = (<<x, key>> \notin WarmIn(state))
        <3>1. (~is_warm_slot(u, x, key)) = (<<x, key>> \notin WarmIn(u))
            BY <1>3, <1>7, ColdSeen, Zenon
        <3> QED BY ONLY <1>6, <1>9, <2>1, <3>1, Zenon
    <2>4. code' = code
        BY <1>2 DEF chain
    <2>5. <<x, key>> \in Accounts \X Keys
        BY <1>3
    <2>6. Marks(db', frames') = Marks(db, frames)
        BY <1>9
    <2>7. Plain!Next
        <3>1. /\ ValuesIn(db', state') = [ValuesIn(db, state) EXCEPT ![<<x, key>>] = value]
              /\ ExistsIn(db', state') = ExistsIn(db, state)
              /\ WarmIn(state') = WarmIn(state) \union {<<x, key>>}
            BY <1>9, <2>1, <2>2
        <3> QED BY <1>2, <2>3, <2>4, <2>5, <2>6, <3>1, PlainWrite
    <2>8. ViewInv(db', state', frames')
        <3>1. Covers(state, state')
            BY <2>1, <2>2, CoversTwice, Zenon
        <3> QED BY <1>9, <3>1, ViewStays
    <2> QED BY <2>7, <2>8
<1> QED BY <1>2, <1>4, <1>5, <1>9, WrapperShows, Zenon

\* A frame returns.
LEMMA ReturnShows ==
    ASSUME StorageInv, StorageInv', is_enabled(spec, REX4), ViewInv(db, state, frames),
           NEW ok \in BOOLEAN, Return(ok)
    PROVE  Plain!Next /\ ViewInv(db', state', frames')
<1>1. frames # <<>> /\ Leave(state, ok) /\ UNCHANGED <<chain, capacity>>
    BY Zenon DEF Return
<1>2. Follows(state, state, charges) /\ Warms(db, state, state, {}, {})
    BY NothingFollows, NothingShown, Zenon DEF StorageInv
<1> QED BY <1>1, <1>2, LeaveShows, Zenon

\* A call inspects and enters the callee.
LEMMA CallShows ==
    ASSUME StorageInv, StorageInv', is_enabled(spec, REX4), ViewInv(db, state, frames),
           NEW opcode, NEW to \in Accounts, NEW has_transfer \in BOOLEAN, Call(opcode, to, has_transfer)
    PROVE  Plain!Next /\ ViewInv(db', state', frames')
<1> DEFINE wrapped == opcode = "CALL" \/ is_enabled(spec, REX)
           seen_now == IF wrapped THEN inspect_account_delegated(state, to) ELSE [state |-> state, at |-> to]
           due == wrapped /\ has_transfer /\ ~seen_now.state[seen_now.at].nonempty
           grows == IF due /\ ~seen_now.state[to].nonempty THEN to ELSE Absent
           charge == Charge(due, "account", to, grows)
           u == seen_now.state
           loaded == load_account_delegated(u, to)
           moved == IF opcode = "CALL" /\ has_transfer THEN [loaded EXCEPT ![to].nonempty = TRUE] ELSE loaded
           self == IF opcode \in {"CALL", "STATICCALL"} THEN to ELSE Top.self
           static == Top.static \/ opcode = "STATICCALL"
           is_cold == ~is_warm(u, to)
           stack == Append(frames, Frame(self, runs(to), static, loaded))
<1>1. World /\ ChainTyped /\ state \in States /\ Sound(spec, state, db, charges)
    BY Zenon DEF StorageInv, World
<1>2. /\ frames # <<>> /\ UNCHANGED <<chain, capacity>> /\ code' = code
      /\ Wrapper(u, charge, is_cold, moved, stack)
    BY Zenon DEF Call, Running, chain
<1>3. self \in Accounts
    <2>1. Top.self \in Accounts
        BY <1>1, <1>2, TopFacts, Zenon
    <2>2. CASE opcode \in {"CALL", "STATICCALL"}
        BY <2>2, Zenon
    <2>3. CASE opcode \notin {"CALL", "STATICCALL"}
        BY <2>1, <2>3, Zenon
    <2> QED BY <2>2, <2>3
<1>a. static \in BOOLEAN
    <2>1. Top \in FrameType
        BY <1>1, <1>2, TopFacts, Zenon
    <2>2. Top.static \in BOOLEAN
        BY <2>1, Zenon DEF FrameType
    <2> QED BY <2>2
<1>b. is_enabled(spec, REX)
    <2>1. spec \in Int
        <3>1. spec \in MINI_REX .. REX4
            BY <1>1, StorageGasAssumption, Zenon DEF ChainTyped
        <3> QED BY <3>1 DEF MINI_REX, REX4
    <2> QED BY <2>1 DEF is_enabled, REX4, REX
<1>c. seen_now = inspect_account_delegated(state, to)
    BY <1>b, Zenon
<1> HIDE DEF seen_now
<1>4. Inspects(state, u)
    BY <1>1, <1>c, InspectDelegated
<1>5. Follows(state, u, charges) /\ Warms(db, state, u, {}, {})
    BY <1>1, <1>4, InspectsFollows, InspectsWarmsNothing, Zenon
<1>6. moved = loaded \/ moved = [loaded EXCEPT ![to].nonempty = TRUE]
    <2>1. CASE opcode = "CALL" /\ has_transfer
        BY <2>1, Zenon
    <2>2. CASE ~(opcode = "CALL" /\ has_transfer)
        BY <2>2, Zenon
    <2> QED BY <2>1, <2>2
<1>7. runs(to) \in BOOLEAN
    BY RunsTyped, Zenon
<1> HIDE DEF charge, u, moved, self, static
<1>8. ASSUME state' = moved, cold' = is_cold, frames' = stack, db' = db
      PROVE  Plain!Next /\ ViewInv(db', state', frames')
    <2>1. state' = loaded \/ state' = [loaded EXCEPT ![to].nonempty = TRUE]
        BY <1>6, <1>8, Zenon
    <2>2. frames' = Append(frames, Frame(self, runs(to), static, loaded)) /\ cold' = ~is_warm(u, to)
        BY <1>8, Zenon
    <2> HIDE DEF loaded
    <2> QED BY <1>2, <1>3, <1>5, <1>7, <1>8, <1>a, <2>1, <2>2, EnterShows, Zenon DEF loaded
<1> HIDE DEF stack, is_cold
<1> QED BY <1>2, <1>5, <1>8, WrapperShows, Zenon

\* CREATE inspects and changes a nonce, which nothing shows.
LEMMA CreateShows ==
    ASSUME StorageInv, StorageInv', is_enabled(spec, REX4), ViewInv(db, state, frames),
           NEW is_create2 \in BOOLEAN, Create(is_create2)
    PROVE  Plain!Next /\ ViewInv(db', state', frames')
<1> DEFINE x == Top.self
           seen_now == inspect_account_delegated(state, x)
           nonce == state[x].nonce
           n == IF is_create2 THEN nonce ELSE seen_now.state[seen_now.at].nonce
           kind == IF is_enabled(spec, REX) THEN "contract" ELSE "account"
           charge == Charge(TRUE, kind, <<x, n>>, <<x, nonce>>)
           u == seen_now.state
           after == [u EXCEPT ![x].nonce = nonce + 1]
<1>1. /\ World /\ ChainTyped /\ state \in States /\ state' \in States
      /\ Sound(spec, state, db, charges)
    BY Zenon DEF StorageInv, World
<1>2. /\ frames # <<>> /\ nonce < MaxNonce /\ UNCHANGED <<chain, capacity>>
      /\ Wrapper(u, charge, FALSE, after, frames)
    BY Zenon DEF Create, Running
<1>3. x \in Accounts /\ state[x] # Absent
    BY <1>1, <1>2, TopFacts, Zenon
<1> HIDE DEF x
<1>4. Inspects(state, u) /\ u[x] # Absent
    BY <1>1, <1>3, InspectDelegated
<1>5. Follows(state, u, charges) /\ Warms(db, state, u, {}, {})
    BY <1>1, <1>4, InspectsFollows, InspectsWarmsNothing, Zenon
<1>6. u \in States
    BY <1>5, Zenon DEF Follows
<1>7. nonce + 1 \in Nonces
    <2>1. state[x] \in Account
        BY <1>1, <1>3 DEF States
    <2>2. nonce \in Nonces
        BY <2>1 DEF Account
    <2>3. MaxNonce \in Nat /\ nonce < MaxNonce
        BY <1>2, StorageGasAssumption
    <2> HIDE DEF nonce
    <2> QED BY <2>2, <2>3 DEF Nonces
<1> DEFINE m == nonce + 1
<1>8. after = [u EXCEPT ![x].nonce = m]
    BY Zenon
<1> HIDE DEF m, after, u, charge
<1>9. Warms(db, u, after, {}, {})
    BY <1>3, <1>4, <1>6, <1>7, <1>8, NonceWarmsNothing, Zenon DEF m
<1>10. ASSUME state' = after, cold' = FALSE, frames' = frames, db' = db
       PROVE  Plain!Next /\ ViewInv(db', state', frames')
    <2>1. /\ Covers(state, u) /\ ValuesIn(db, u) = ValuesIn(db, state)
          /\ ExistsIn(db, u) = ExistsIn(db, state) /\ WarmIn(u) = WarmIn(state)
        BY <1>1, <1>5, <1>6, NothingSeen, Zenon
    <2>2. /\ Covers(u, state') /\ ValuesIn(db, state') = ValuesIn(db, u)
          /\ ExistsIn(db, state') = ExistsIn(db, u) /\ WarmIn(state') = WarmIn(u)
        BY <1>1, <1>6, <1>9, <1>10, NothingSeen, Zenon
    <2>3. code' = code
        BY <1>2 DEF chain
    <2>4. Marks(db', frames') = Marks(db, frames)
        BY <1>10
    <2>5. Plain!Next
        BY <1>10, <2>1, <2>2, <2>3, <2>4, PlainOther
    <2>6. Covers(state, state')
        BY <2>1, <2>2, CoversTwice, Zenon
    <2> QED BY <1>10, <2>5, <2>6, ViewStays
<1> QED BY <1>2, <1>5, <1>10, WrapperShows, Zenon

\* The frames have saved what they had saved when one of them runs no further.
LEMMA StoppedSaved ==
    ASSUME NEW fs \in Seq(FrameType), NEW n \in DOMAIN fs, NEW gs, gs = [fs EXCEPT ![n].runs = FALSE]
    PROVE  /\ DOMAIN gs = DOMAIN fs /\ (gs = <<>> <=> fs = <<>>)
           /\ \A i \in DOMAIN fs : gs[i].saved = fs[i].saved
<1> DEFINE f == [fs[n] EXCEPT !.runs = FALSE]
<1>1. f.saved = fs[n].saved
    <2> DEFINE S == States
    <2>1. fs[n] \in FrameType
        OBVIOUS
    <2>2. fs[n] \in [self : Accounts, runs : BOOLEAN, static : BOOLEAN, saved : S]
        BY <2>1 DEF FrameType
    <2> HIDE DEF S
    <2> QED BY <2>2
<1>2. gs = [fs EXCEPT ![n] = f]
    OBVIOUS
<1> HIDE DEF f
<1>3. DOMAIN gs = DOMAIN fs /\ gs[n] = f /\ \A i \in DOMAIN fs : i # n => gs[i] = fs[i]
    BY <1>2
<1>4. gs = <<>> <=> fs = <<>>
    BY <1>2, <1>3
<1> QED BY <1>1, <1>3, <1>4, Zenon

\* SELFDESTRUCT loads the account it gives to, and ends the frame.
LEMMA SelfDestructShows ==
    ASSUME StorageInv, StorageInv', ViewInv(db, state, frames),
           NEW target \in Accounts, NEW has_balance \in BOOLEAN, SelfDestruct(target, has_balance)
    PROVE  Plain!Next /\ ViewInv(db', state', frames')
<1> DEFINE loaded == load_account(state, target)
           n == Len(frames)
           X == {target} \ Preloaded
           none == {}
<1>1. /\ World /\ ChainTyped /\ state \in States /\ state' \in States /\ frames \in Seq(FrameType)
      /\ Sound(spec, state, db, charges) /\ cold' \in BOOLEAN
    BY Zenon DEF StorageInv, World, FramesFit
<1>2. /\ frames # <<>> /\ db' = db /\ code' = code
      /\ state' = loaded \/ state' = [loaded EXCEPT ![target].nonempty = TRUE]
      /\ cold' = ~is_warm(state, target)
      /\ frames' = [frames EXCEPT ![n].runs = FALSE]
    BY Zenon DEF SelfDestruct, Running, chain
<1>3. /\ DOMAIN frames' = DOMAIN frames
      /\ \A i \in DOMAIN frames : frames'[i].saved = frames[i].saved
    <2> DEFINE gs == frames'
    <2>1. n \in DOMAIN frames
        BY <1>1, <1>2
    <2>2. gs = [frames EXCEPT ![n].runs = FALSE]
        BY <1>2
    <2> HIDE DEF gs, n
    <2>3. DOMAIN gs = DOMAIN frames /\ \A i \in DOMAIN frames : gs[i].saved = frames[i].saved
        BY ONLY <1>1, <2>1, <2>2, StoppedSaved
    <2> QED BY <2>3 DEF gs
<1>4. Warms(db, state, loaded, X, none) /\ loaded \in States /\ loaded[target] # Absent
    BY <1>1, LoadWarms, LoadFollows, Zenon
<1>5. X \subseteq Accounts /\ none \subseteq Accounts \X Keys /\ \A A : A \union X \union none = A \union X
    OBVIOUS
<1> HIDE DEF none, X, loaded, n
<1>6. /\ Covers(state, loaded) /\ ValuesIn(db, loaded) = ValuesIn(db, state)
      /\ ExistsIn(db, loaded) = ExistsIn(db, state) /\ WarmIn(loaded) = WarmIn(state) \union X \union none
    BY ONLY <1>1, <1>4, <1>5, WarmsSeen
<1>7. PICK created \in SUBSET {target} :
        /\ Covers(loaded, state') /\ ValuesIn(db, state') = ValuesIn(db, loaded)
        /\ ExistsIn(db, state') = ExistsIn(db, loaded) \union created /\ WarmIn(state') = WarmIn(loaded)
    <2>1. CASE state' = loaded
        <3>1. Covers(loaded, loaded)
            BY Zenon DEF Covers, CoversOf
        <3>2. {} \in SUBSET {target} /\ ExistsIn(db, loaded) = ExistsIn(db, loaded) \union {}
            OBVIOUS
        <3> QED BY <2>1, <3>1, <3>2, Zenon
    <2>2. CASE state' = [loaded EXCEPT ![target].nonempty = TRUE]
        <3>1. Brings(db, loaded, state', target)
            BY <1>4, <2>2, TransferBrings, Zenon
        <3>2. {target} \in SUBSET {target}
            OBVIOUS
        <3>3. /\ Covers(loaded, state') /\ ValuesIn(db, state') = ValuesIn(db, loaded)
              /\ ExistsIn(db, state') = ExistsIn(db, loaded) \union {target} /\ WarmIn(state') = WarmIn(loaded)
            BY ONLY <1>1, <1>4, <3>1, target \in Accounts, BringsSeen
        <3> QED BY <3>2, <3>3, Zenon
    <2> QED BY <1>2, <2>1, <2>2
<1>8. Marks(db', frames') = Marks(db, frames)
    <2>1. \A i \in DOMAIN frames : SeenIn(db', frames'[i].saved) = SeenIn(db, frames[i].saved)
        BY <1>2, <1>3, Zenon
    <2> QED BY <1>3, <2>1, Zenon DEF Marks
<1>9. WarmIn(state') = Plain!Warmed({target})
    <2>1. WarmIn(state') = WarmIn(state) \union X
        BY <1>5, <1>6, <1>7, Zenon
    <2> QED BY <2>1 DEF Plain!Warmed, WarmIn, X
<1>10. cold' \in Plain!MayCost(target)
    BY <1>1, <1>2, CostSeen, Zenon
<1>11. Plain!Next
    <2>1. /\ ValuesIn(db', state') = ValuesIn(db, state)
          /\ ExistsIn(db', state') = ExistsIn(db, state) \union created
        BY <1>2, <1>6, <1>7
    <2> QED BY <1>2, <1>8, <1>9, <1>10, <2>1, PlainGive
<1>12. ViewInv(db', state', frames')
    <2>1. Covers(state, state')
        BY <1>6, <1>7, CoversTwice, Zenon
    <2>2. ViewInv(db, state', frames)
        BY <2>1, ViewStays, Zenon
    <2>3. frames # <<>> => frames'[1].saved = frames[1].saved
        <3>1. frames # <<>> => 1 \in DOMAIN frames
            BY <1>1
        <3> QED BY <1>3, <3>1, Zenon
    <2> QED BY <1>2, <1>3, <2>2, <2>3, Zenon DEF ViewInv
<1> QED BY <1>11, <1>12

-----------------------------------------------------------------------------
(* Transactions and blocks *)

\* A step that changes nothing of what is seen
LEMMA SameShown ==
    ASSUME StorageInv, StorageInv', ViewInv(db, state, frames),
           code' = code, cold' = FALSE, db' = db, state' = state, frames' = frames
    PROVE  Plain!Next /\ ViewInv(db', state', frames')
<1>1. /\ ValuesIn(db', state') = ValuesIn(db, state) /\ ExistsIn(db', state') = ExistsIn(db, state)
      /\ WarmIn(state') = WarmIn(state) /\ Marks(db', frames') = Marks(db, frames)
      /\ ViewInv(db', state', frames')
    OBVIOUS
<1> QED BY <1>1, PlainOther

\* The first frame of a transaction is entered, or the gas limit was too low for it.
LEMMA TransactionShows ==
    ASSUME StorageInv, StorageInv', ViewInv(db, state, frames), NEW to \in Accounts, NEW has_code \in BOOLEAN,
           NEW loaded, loaded = load_account_delegated(state, to),
           NEW after, after = loaded \/ after = [loaded EXCEPT ![to].nonempty = TRUE],
           NEW charge, Transaction(charge, after, Frame(to, has_code, FALSE, loaded))
    PROVE  Plain!Next /\ ViewInv(db', state', frames')
<1> DEFINE frame == Frame(to, has_code, FALSE, loaded)
<1>1. /\ frames = <<>> /\ db' = db /\ code' = code
      /\ \/ state' = after /\ cold' = ~is_warm(state, frame.self) /\ frames' = <<frame>>
         \/ cold' = FALSE /\ state' = state /\ frames' = frames
    BY DEF Transaction, chain
<1>2. Follows(state, state, charges) /\ Warms(db, state, state, {}, {})
    BY NothingFollows, NothingShown, Zenon DEF StorageInv
<1>3. CASE state' = after /\ cold' = ~is_warm(state, frame.self) /\ frames' = <<frame>>
    <2>1. frame.self = to
        BY DEF Frame
    <2>2. cold' = ~is_warm(state, to)
        BY <1>3, <2>1, Zenon
    <2>3. <<frame>> = Append(<<>>, frame)
        OBVIOUS
    <2>4. frames' = Append(frames, frame) /\ (state' = loaded \/ state' = [loaded EXCEPT ![to].nonempty = TRUE])
        BY <1>1, <1>3, <2>3, Zenon
    <2>5. FALSE \in BOOLEAN
        OBVIOUS
    <2> QED BY <1>1, <1>2, <2>2, <2>4, <2>5, EnterShows, Zenon
<1>4. CASE cold' = FALSE /\ state' = state /\ frames' = frames
    BY <1>1, <1>4, SameShown, Zenon
<1> QED BY <1>1, <1>3, <1>4

LEMMA CallTransactionShows ==
    ASSUME StorageInv, StorageInv', ViewInv(db, state, frames),
           NEW to \in Accounts, NEW has_transfer \in BOOLEAN, CallTransaction(to, has_transfer)
    PROVE  Plain!Next /\ ViewInv(db', state', frames')
<1> DEFINE loaded == load_account_delegated(state, to)
           after == IF has_transfer THEN [loaded EXCEPT ![to].nonempty = TRUE] ELSE loaded
           charge == Charge(has_transfer /\ ~db[to].nonempty, "account", to, to)
<1>1. Transaction(charge, after, Frame(to, runs(to), FALSE, loaded))
    BY Zenon DEF CallTransaction
<1>2. after = loaded \/ after = [loaded EXCEPT ![to].nonempty = TRUE]
    <2>1. CASE has_transfer
        BY <2>1, Zenon
    <2>2. CASE ~has_transfer
        BY <2>2, Zenon
    <2> QED BY <2>1, <2>2
<1>3. runs(to) \in BOOLEAN
    BY RunsTyped, Zenon
<1> HIDE DEF after, charge
<1> QED BY <1>1, <1>2, <1>3, TransactionShows, Zenon

LEMMA CreateTransactionShows ==
    ASSUME StorageInv, StorageInv', ViewInv(db, state, frames), CreateTransaction
    PROVE  Plain!Next /\ ViewInv(db', state', frames')
<1> DEFINE at == created_address
           kind == IF is_enabled(spec, REX) THEN "contract" ELSE "account"
           loaded == load_account(state, at)
           after == [loaded EXCEPT ![at].nonempty = TRUE]
           charge == Charge(TRUE, kind, at, at)
<1>1. Transaction(charge, after, Frame(at, TRUE, FALSE, loaded)) /\ ~db[at].nonempty
    BY Zenon DEF CreateTransaction
<1>2. at \in Accounts /\ "none" \notin Accounts
    BY StorageGasAssumption
<1>3. code[at] = "none"
    BY <1>1, <1>2, Zenon DEF StorageInv, World, Deployed
<1>4. loaded = load_account_delegated(state, at)
    BY <1>2, <1>3, Zenon DEF load_account_delegated
<1>5. TRUE \in BOOLEAN
    OBVIOUS
<1> HIDE DEF loaded, charge, at
<1> QED BY <1>1, <1>2, <1>4, <1>5, TransactionShows, Zenon

LEMMA NextBlockShows ==
    ASSUME StorageInv, StorageInv', ViewInv(db, state, frames), NEW salt_env \in SaltEnvs, NextBlock(salt_env)
    PROVE  Plain!Next /\ ViewInv(db', state', frames')
<1>1. code' = code /\ cold' = FALSE /\ db' = db /\ state' = state /\ frames' = frames
    BY DEF NextBlock, chain
<1> QED BY <1>1, SameShown, Zenon

-----------------------------------------------------------------------------
(* The refinement *)

\* From Rex4 on the journal can go back to what every frame saved.
Views == is_enabled(spec, REX4) => ViewInv(db, state, frames)

\* Every step is one of PlainJournal.
LEMMA StepShows ==
    ASSUME StorageInv, StorageInv', is_enabled(spec, REX4), ViewInv(db, state, frames), Next
    PROVE  Plain!Next /\ ViewInv(db', state', frames')
<1>1. ASSUME NEW key \in Keys, Sload(key) PROVE Plain!Next /\ ViewInv(db', state', frames')
    BY <1>1, SloadShows, Zenon
<1>2. ASSUME NEW key \in Keys, NEW value \in Values, Sstore(key, value)
      PROVE  Plain!Next /\ ViewInv(db', state', frames')
    BY <1>2, SstoreShows, Zenon
<1>3. ASSUME NEW opcode \in Calls, NEW to \in Accounts, NEW t \in BOOLEAN,
             Call(opcode, to, t)
      PROVE  Plain!Next /\ ViewInv(db', state', frames')
    BY <1>3, CallShows, Zenon
<1>4. ASSUME NEW is_create2 \in BOOLEAN, Create(is_create2) PROVE Plain!Next /\ ViewInv(db', state', frames')
    BY <1>4, CreateShows, Zenon
<1>5. ASSUME NEW ok \in BOOLEAN, Return(ok) PROVE Plain!Next /\ ViewInv(db', state', frames')
    BY <1>5, ReturnShows, Zenon
<1>6. ASSUME NEW to \in Accounts, NEW t \in BOOLEAN, CallTransaction(to, t)
      PROVE  Plain!Next /\ ViewInv(db', state', frames')
    BY <1>6, CallTransactionShows, Zenon
<1>7. CASE CreateTransaction
    BY <1>7, CreateTransactionShows, Zenon
<1>8. ASSUME NEW salt_env \in SaltEnvs, NextBlock(salt_env) PROVE Plain!Next /\ ViewInv(db', state', frames')
    BY <1>8, NextBlockShows, Zenon
<1>9. ASSUME NEW target \in Accounts, NEW has_balance \in BOOLEAN, SelfDestruct(target, has_balance)
      PROVE  Plain!Next /\ ViewInv(db', state', frames')
    BY <1>9, SelfDestructShows, Zenon
<1> QED BY <1>1, <1>2, <1>3, <1>4, <1>5, <1>6, <1>7, <1>8, <1>9, Zenon DEF Next

\* The spec of a chain stays what it is.
LEMMA SpecStays == Next => spec' = spec
<1>1. chain' = chain => spec' = spec
    BY DEF chain
<1>2. Next => chain' = chain
    BY Zenon DEF Next, Sload, Sstore, Call, Create, SelfDestruct, Return, CallTransaction, CreateTransaction, Transaction, NextBlock
<1> QED BY <1>1, <1>2

\* When nothing changes, nothing that is seen does.
LEMMA StutterShows ==
    ASSUME StorageInv, StorageInv', Views, UNCHANGED vars
    PROVE  Views' /\ UNCHANGED Plain!vars
<1>1. /\ spec' = spec /\ code' = code /\ db' = db /\ state' = state /\ frames' = frames /\ cold' = cold
      /\ Empty' = Empty
    BY DEF vars, chain, Empty
<1>2. Views'
    BY <1>1 DEF Views, ViewInv, AsBefore
<1>3. UNCHANGED Plain!vars
    BY <1>1, Now, Then DEF Plain!vars, WarmIn
<1> QED BY <1>2, <1>3

\* The initial states are those of PlainJournal.
LEMMA InitShows == Init => Plain!Init /\ Views
<1> SUFFICES ASSUME Init PROVE Plain!Init /\ Views
    OBVIOUS
<1>1. StorageInv /\ state = Empty /\ cold = FALSE /\ frames = <<>> /\ code \in Worlds
    BY InitInv, Zenon DEF Init
<1>2. ChainTyped /\ Empty \in States /\ \A x \in Accounts : Empty[x] = Absent
    BY <1>1, EmptySound DEF StorageInv, World, Empty
<1>3. code \in [Accounts -> {"none", "contract"} \union Accounts]
    BY <1>1, StorageGasAssumption DEF Code
<1>4. ValuesIn(db, Empty) \in [Plain!Slots -> Values]
    <2>1. ASSUME NEW slot \in Accounts \X Keys
          PROVE  ValueOf(db, Empty[slot[1]], slot[1], slot[2]) \in Values
        <3>1. slot[1] \in Accounts /\ slot[2] \in Keys
            OBVIOUS
        <3>2. db[slot[1]].storage[slot[2]] \in Values
            BY <1>2, <3>1, DbTyped, Zenon
        <3> QED BY <1>2, <3>1, <3>2 DEF ValueOf
    <2> QED BY <2>1, Zenon DEF ValuesIn, Plain!Slots
<1>5. ExistsIn(db, Empty) \in SUBSET Accounts
    BY DEF ExistsIn
<1>6. Marks(db, frames) = <<>>
    <2>1. <<>> \in Seq(FrameType)
        OBVIOUS
    <2> QED BY <1>1, <2>1, MarksFacts, Zenon
<1>7. Plain!Init
    BY <1>1, <1>3, <1>4, <1>5, <1>6, EmptySeen, Now DEF Plain!Init, WarmIn
<1>8. Views
    BY <1>1, ViewEmpty, Zenon DEF Views
<1> QED BY <1>7, <1>8

\* Inspections are invisible but for the preloaded accounts: from Rex4 on a program reads the
\* same values and pays for the same cold slots, and for the same cold accounts other than
\* precompiles and the coinbase, as if the wrappers never loaded anything with inspect_account
\* and inspect_storage (host.rs, instructions.rs).  StorageGas implements PlainJournal, whatever
\* delegates to what, in however deep frames and however many transactions.
THEOREM InspectionsAreInvisibleButForPreloaded == Spec => InspectionIsInvisibleButForPreloaded
<1>1. StorageInv /\ StorageInv' /\ Views /\ [Next]_vars =>
        Views' /\ [is_enabled(spec, REX4) => Plain!Next]_(Plain!vars)
    <2> SUFFICES ASSUME StorageInv, StorageInv', Views, [Next]_vars
                 PROVE  Views' /\ [is_enabled(spec, REX4) => Plain!Next]_(Plain!vars)
        OBVIOUS
    <2>1. CASE Next
        <3>1. is_enabled(spec, REX4)' = is_enabled(spec, REX4)
            BY <2>1, SpecStays DEF is_enabled
        <3>2. CASE is_enabled(spec, REX4)
            <4>1. ViewInv(db, state, frames)
                BY <3>2, Zenon DEF Views
            <4>2. Plain!Next /\ ViewInv(db', state', frames')
                BY <2>1, <3>2, <4>1, StepShows, Zenon
            <4>3. ViewInv(db, state, frames)'
                BY <4>2 DEF ViewInv, AsBefore, Empty
            <4> QED BY <4>2, <4>3, Zenon DEF Views
        <3>3. CASE ~is_enabled(spec, REX4)
            BY <3>1, <3>3, Zenon DEF Views
        <3> QED BY <3>2, <3>3
    <2>2. CASE UNCHANGED vars
        BY <2>2, StutterShows, Zenon
    <2> QED BY <2>1, <2>2, Zenon
<1> QED BY <1>1, InitShows, StorageIsInductive, PTL DEF Spec, InspectionIsInvisibleButForPreloaded
=============================================================================
