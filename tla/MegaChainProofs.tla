-------------------------- MODULE MegaChainProofs --------------------------
(***************************************************************************)
(* Proofs about MegaChain, for every schedule of the forks, every genesis  *)
(* code and chains of any length.                                          *)
(***************************************************************************)
EXTENDS MegaChain, SequenceTheorems, FiniteSetTheorems, TLAPS

-----------------------------------------------------------------------------
(* Forks and specs *)

\* The active forks at a time, and the latest of them
ActiveForks(sched, t) == {fork \in MegaHardfork : active(sched, fork, t)}

\* hardfork picks the greatest active fork.
LEMMA HardforkFacts ==
    ASSUME NEW sched \in Schedules, NEW t \in Nat
    PROVE  /\ hardfork(sched, t) \in NoFork .. Rex4
           /\ hardfork(sched, t) # NoFork => active(sched, hardfork(sched, t), t)
           /\ \A f \in MegaHardfork : active(sched, f, t) => f <= hardfork(sched, t)
<1> DEFINE on == ActiveForks(sched, t)
           h == hardfork(sched, t)
<1> USE DEF MegaHardfork, MiniRex, Rex4, NoFork
<1>1. h = IF on = {} THEN NoFork ELSE CHOOSE f \in on : \A g \in on : g <= f
    BY DEF hardfork, ActiveForks
<1>2. on \in SUBSET (1 .. 8) /\ \A f \in MegaHardfork : active(sched, f, t) => f \in on
    BY DEF ActiveForks
<1>3. CASE on = {}
    BY <1>1, <1>2, <1>3
<1>4. CASE on # {}
    <2> HIDE DEF on
    <2>1. \E f \in on : \A g \in on : g <= f
        <3>1. CASE 8 \in on
            BY <1>2, <3>1
        <3>2. CASE 8 \notin on /\ 7 \in on
            BY <1>2, <3>2
        <3>3. CASE 8 \notin on /\ 7 \notin on /\ 6 \in on
            BY <1>2, <3>3
        <3>4. CASE 8 \notin on /\ 7 \notin on /\ 6 \notin on /\ 5 \in on
            BY <1>2, <3>4
        <3>5. CASE 8 \notin on /\ 7 \notin on /\ 6 \notin on /\ 5 \notin on /\ 4 \in on
            BY <1>2, <3>5
        <3>6. CASE 8 \notin on /\ 7 \notin on /\ 6 \notin on /\ 5 \notin on /\ 4 \notin on /\ 3 \in on
            BY <1>2, <3>6
        <3>7. CASE 8 \notin on /\ 7 \notin on /\ 6 \notin on /\ 5 \notin on /\ 4 \notin on /\ 3 \notin on /\ 2 \in on
            BY <1>2, <3>7
        <3>8. CASE 8 \notin on /\ 7 \notin on /\ 6 \notin on /\ 5 \notin on /\ 4 \notin on /\ 3 \notin on /\ 2 \notin on /\ 1 \in on
            BY <1>2, <3>8
        <3>9. PICK x \in on : TRUE
            BY <1>4
        <3>10. x = 1 \/ x = 2 \/ x = 3 \/ x = 4 \/ x = 5 \/ x = 6 \/ x = 7 \/ x = 8
            BY <1>2, <3>9
        <3> QED BY <3>1, <3>2, <3>3, <3>4, <3>5, <3>6, <3>7, <3>8, <3>9, <3>10, Zenon
    <2>2. h \in on /\ \A g \in on : g <= h
        <3> DEFINE c == CHOOSE f \in on : \A g \in on : g <= f
        <3>1. c \in on /\ \A g \in on : g <= c
            BY <2>1
        <3>2. h = c
            BY <1>1, <1>4
        <3> HIDE DEF h, c
        <3> QED BY <3>1, <3>2
    <2> HIDE DEF h
    <2>3. active(sched, h, t)
        BY <2>2 DEF on, ActiveForks
    <2>4. h \in NoFork .. Rex4 /\ \A f \in MegaHardfork : active(sched, f, t) => f <= h
        BY <1>2, <2>2
    <2> QED BY <2>3, <2>4 DEF h
<1> QED BY <1>3, <1>4

\* fork_spec_id, fork by fork
LEMMA ForkSpecs ==
    ASSUME NEW f \in NoFork .. Rex4
    PROVE  /\ fork_spec_id(f) \in MegaSpecId
           /\ is_enabled(fork_spec_id(f), REX4) <=> f >= Rex4
           /\ is_enabled(fork_spec_id(f), REX2) <=> f >= Rex2
           /\ is_enabled(fork_spec_id(f), MINI_REX) => f >= MiniRex
BY DEF fork_spec_id, is_enabled, MegaSpecId, NoFork, MiniRex, MiniRex1, MiniRex2, Rex, Rex1, Rex2,
       Rex3, Rex4, EQUIVALENCE, MINI_REX, REX, REX1, REX2, REX3, REX4

\* A later fork never brings an older spec, unless it is MiniRex1.
LEMMA ForkSpecsAdvance ==
    ASSUME NEW f \in NoFork .. Rex4, NEW g \in NoFork .. Rex4, f <= g, g # MiniRex1
    PROVE  fork_spec_id(f) <= fork_spec_id(g)
BY DEF fork_spec_id, NoFork, MiniRex, MiniRex1, MiniRex2, Rex, Rex1, Rex2, Rex3, Rex4,
       EQUIVALENCE, MINI_REX, REX, REX1, REX2, REX3, REX4

\* What the spec of a block says about the forks that are active in it: a schedule in
\* order has everything a later spec builds on.
LEMMA SpecTellsForks ==
    ASSUME NEW sched \in Schedules, NEW t \in Nat
    PROVE  /\ spec_id(sched, t) \in MegaSpecId
           /\ InOrder(sched) =>
                /\ is_enabled(spec_id(sched, t), REX4) => active(sched, Rex4, t)
                /\ is_enabled(spec_id(sched, t), REX2) <=> active(sched, Rex2, t)
                /\ is_enabled(spec_id(sched, t), MINI_REX) => active(sched, MiniRex, t)
<1> DEFINE h == hardfork(sched, t)
<1>1. /\ h \in NoFork .. Rex4
      /\ h # NoFork => active(sched, h, t)
      /\ \A f \in MegaHardfork : active(sched, f, t) => f <= h
    BY HardforkFacts
<1>2. spec_id(sched, t) = fork_spec_id(h)
    BY DEF spec_id
<1>3. ASSUME InOrder(sched), NEW f \in MegaHardfork PROVE f <= h => active(sched, f, t)
    <2>1. CASE f = h
        BY <1>1, <1>3, <2>1 DEF MegaHardfork, MiniRex, NoFork, Rex4
    <2>2. CASE f < h
        <3>1. h \in MegaHardfork /\ active(sched, h, t)
            BY <1>1, <1>3, <2>2 DEF MegaHardfork, MiniRex, NoFork, Rex4
        <3>2. sched[f] <= sched[h] /\ sched[h] <= t
            BY <1>3, <2>2, <3>1 DEF InOrder, active
        <3>3. sched[f] \in Nat /\ sched[h] \in Nat
            BY <1>3, <3>1, TimeAssumption DEF Schedules, Never
        <3> QED BY <3>2, <3>3 DEF active
    <2> HIDE DEF h
    <2> QED BY <1>1, <1>3, <2>1, <2>2 DEF MegaHardfork, MiniRex, NoFork, Rex4
<1>4. Rex4 \in MegaHardfork /\ Rex2 \in MegaHardfork /\ MiniRex \in MegaHardfork
    BY DEF MegaHardfork, Rex4, Rex2, MiniRex
<1> HIDE DEF h
<1>5. h \in Int /\ Rex4 \in Int /\ Rex2 \in Int /\ MiniRex \in Int
    BY <1>1 DEF Rex4, Rex2, MiniRex, NoFork
<1> QED BY <1>1, <1>2, <1>3, <1>4, <1>5, ForkSpecs

-----------------------------------------------------------------------------
(* The outcomes of the system calls *)

\* The first fork that brings a system contract, and the code it has at a time
ForkOf(c) == CASE c \in {"oracle", "timestamp oracle"} -> MiniRex
               [] c = "keyless deploy" -> Rex2
               [] OTHER -> Rex4

CodeAt(c, t) == IF c = "oracle" /\ active(schedule, Rex2, t) THEN "v1.1.0" ELSE "v1.0.0"

\* The elements of a sequence, and a sequence of one element or none
Elements(s) == {s[i] : i \in DOMAIN s}
Single(p) == p = <<>> \/ \E e : p = <<e>>

\* A sequence of one element or none, over any set that has its elements
LEMMA SingleIsSeq ==
    ASSUME NEW S, NEW p, Single(p), Elements(p) \subseteq S
    PROVE  p \in Seq(S)
<1>1. CASE p = <<>>
    BY <1>1
<1>2. ASSUME NEW e, p = <<e>> PROVE p \in Seq(S)
    <2>1. e \in Elements(p)
        BY <1>2 DEF Elements
    <2> QED BY <1>2, <2>1
<1> QED BY <1>1, <1>2 DEF Single

\* Its elements
LEMMA SingleElements ==
    /\ Single(<<>>) /\ Elements(<<>>) = {}
    /\ \A e : Single(<<e>>) /\ Elements(<<e>>) = {e}
BY DEF Single, Elements

\* Concatenation joins the elements.
LEMMA ElementsConcat ==
    ASSUME NEW S, NEW s \in Seq(S), NEW t \in Seq(S)
    PROVE  /\ s \o t \in Seq(S)
           /\ Elements(s \o t) = Elements(s) \cup Elements(t)
<1>1. /\ s \o t \in Seq(S) /\ Len(s \o t) = Len(s) + Len(t) /\ Len(s) \in Nat /\ Len(t) \in Nat
      /\ \A i \in 1 .. Len(s) + Len(t) :
            (s \o t)[i] = IF i <= Len(s) THEN s[i] ELSE t[i - Len(s)]
    BY ConcatProperties
<1>2. DOMAIN s = 1 .. Len(s) /\ DOMAIN t = 1 .. Len(t) /\ DOMAIN (s \o t) = 1 .. Len(s) + Len(t)
    BY <1>1
<1> DEFINE u == s \o t
           m == Len(s)
           n == Len(t)
<1> HIDE DEF u, m, n
<1>3. \A i \in 1 .. m + n : u[i] = IF i <= m THEN s[i] ELSE t[i - m]
    BY <1>1 DEF u, m, n
<1>4. m \in Nat /\ n \in Nat /\ DOMAIN s = 1 .. m /\ DOMAIN t = 1 .. n /\ DOMAIN u = 1 .. m + n
    BY <1>1, <1>2 DEF u, m, n
<1>5. \A x \in Elements(u) : x \in Elements(s) \/ x \in Elements(t)
    <2> SUFFICES ASSUME NEW i \in 1 .. m + n PROVE u[i] \in Elements(s) \/ u[i] \in Elements(t)
        BY <1>4 DEF Elements
    <2>1. CASE i <= m
        <3>1. i \in 1 .. m /\ u[i] = s[i]
            BY <1>3, <1>4, <2>1
        <3> QED BY <1>4, <3>1 DEF Elements
    <2>2. CASE ~(i <= m)
        <3>1. i - m \in 1 .. n /\ u[i] = t[i - m]
            BY <1>3, <1>4, <2>2
        <3> QED BY <1>4, <3>1 DEF Elements
    <2> QED BY <2>1, <2>2
<1>6. \A x \in Elements(s) : x \in Elements(u)
    <2> SUFFICES ASSUME NEW i \in 1 .. m PROVE s[i] \in Elements(u)
        BY <1>4 DEF Elements
    <2>1. i \in 1 .. m + n /\ u[i] = s[i]
        BY <1>3, <1>4
    <2> QED BY <1>4, <2>1 DEF Elements
<1>7. \A x \in Elements(t) : x \in Elements(u)
    <2> SUFFICES ASSUME NEW i \in 1 .. n PROVE t[i] \in Elements(u)
        BY <1>4 DEF Elements
    <2>1. m + i \in 1 .. m + n /\ ~(m + i <= m) /\ (m + i) - m = i
        BY <1>4
    <2>2. u[m + i] = t[i]
        BY <1>3, <2>1
    <2> QED BY <1>4, <2>1, <2>2 DEF Elements
<1>8. Elements(u) = Elements(s) \cup Elements(t)
    BY <1>5, <1>6, <1>7
<1> QED BY <1>1, <1>8 DEF u

\* The outcomes are those of the seven calls.
Joined(a, b, c, d, e, f, g) == a \o b \o c \o d \o e \o f \o g
AllSingle(a, b, c, d, e, f, g) ==
    Single(a) /\ Single(b) /\ Single(c) /\ Single(d) /\ Single(e) /\ Single(f) /\ Single(g)

LEMMA SevenPieces ==
    ASSUME NEW a, NEW b, NEW c, NEW d, NEW e, NEW f, NEW g, AllSingle(a, b, c, d, e, f, g)
    PROVE  Elements(Joined(a, b, c, d, e, f, g)) =
             Elements(a) \cup Elements(b) \cup Elements(c) \cup Elements(d)
             \cup Elements(e) \cup Elements(f) \cup Elements(g)
<1> DEFINE S == Elements(a) \cup Elements(b) \cup Elements(c) \cup Elements(d)
                \cup Elements(e) \cup Elements(f) \cup Elements(g)
<1>1. /\ Elements(a) \subseteq S /\ Elements(b) \subseteq S /\ Elements(c) \subseteq S
      /\ Elements(d) \subseteq S /\ Elements(e) \subseteq S /\ Elements(f) \subseteq S
      /\ Elements(g) \subseteq S
    OBVIOUS
<1> HIDE DEF S
<1>2. /\ a \in Seq(S) /\ b \in Seq(S) /\ c \in Seq(S) /\ d \in Seq(S)
      /\ e \in Seq(S) /\ f \in Seq(S) /\ g \in Seq(S)
    BY <1>1, SingleIsSeq DEF AllSingle
<1> DEFINE ab == a \o b
           abc == ab \o c
           abcd == abc \o d
           abcde == abcd \o e
           abcdef == abcde \o f
           abcdefg == abcdef \o g
<1>3. ab \in Seq(S) /\ Elements(ab) = Elements(a) \cup Elements(b)
    BY <1>2, ElementsConcat
<1>4. abc \in Seq(S) /\ Elements(abc) = Elements(ab) \cup Elements(c)
    <2> HIDE DEF ab
    <2>1. ab \o c \in Seq(S) /\ Elements(ab \o c) = Elements(ab) \cup Elements(c)
        BY <1>2, <1>3, ElementsConcat
    <2> QED BY <2>1 DEF abc
<1>5. abcd \in Seq(S) /\ Elements(abcd) = Elements(abc) \cup Elements(d)
    <2> HIDE DEF ab, abc
    <2>1. abc \o d \in Seq(S) /\ Elements(abc \o d) = Elements(abc) \cup Elements(d)
        BY <1>2, <1>4, ElementsConcat
    <2> QED BY <2>1 DEF abcd
<1>6. abcde \in Seq(S) /\ Elements(abcde) = Elements(abcd) \cup Elements(e)
    <2> HIDE DEF ab, abc, abcd
    <2>1. abcd \o e \in Seq(S) /\ Elements(abcd \o e) = Elements(abcd) \cup Elements(e)
        BY <1>2, <1>5, ElementsConcat
    <2> QED BY <2>1 DEF abcde
<1>7. abcdef \in Seq(S) /\ Elements(abcdef) = Elements(abcde) \cup Elements(f)
    <2> HIDE DEF ab, abc, abcd, abcde
    <2>1. abcde \o f \in Seq(S) /\ Elements(abcde \o f) = Elements(abcde) \cup Elements(f)
        BY <1>2, <1>6, ElementsConcat
    <2> QED BY <2>1 DEF abcdef
<1>8. abcdefg \in Seq(S) /\ Elements(abcdefg) = Elements(abcdef) \cup Elements(g)
    <2> HIDE DEF ab, abc, abcd, abcde, abcdef
    <2>1. abcdef \o g \in Seq(S) /\ Elements(abcdef \o g) = Elements(abcdef) \cup Elements(g)
        BY <1>2, <1>7, ElementsConcat
    <2> QED BY <2>1 DEF abcdefg
<1>9. Elements(abcdefg) = S
    <2> HIDE DEF ab, abc, abcd, abcde, abcdef, abcdefg
    <2> QED BY <1>3, <1>4, <1>5, <1>6, <1>7, <1>8, Zenon DEF S
<1> QED BY <1>9 DEF S, Joined

-----------------------------------------------------------------------------
(* What a commit of them does *)

StateType ==
    [account : [Contracts -> Account],
     blockhashes : SUBSET (0 .. MaxBlock), roots : SUBSET (0 .. MaxBlock)]

HashOutcome(writes) == [at |-> "blockhashes", entries |-> IF writes THEN {number - 1} ELSE {}]
RootOutcome(writes) == [at |-> "beacon roots", entries |-> IF writes THEN {number} ELSE {}]
DeployOutcome(c, code) ==
    IF state.account[c].code = code
    THEN [at |-> c, account |-> state.account[c], created |-> FALSE]
    ELSE [at |-> c, account |-> [state.account[c] EXCEPT !.code = code], created |-> TRUE]

\* One deployment, active or not
LEMMA DeployElements ==
    ASSUME NEW c, NEW fork, NEW code
    PROVE  /\ Single(deploy(c, fork, code))
           /\ \A x : x \in Elements(deploy(c, fork, code)) <=>
                       is_active(fork) /\ x = DeployOutcome(c, code)
<1> DEFINE D == DeployOutcome(c, code)
<1>1. deploy(c, fork, code) = IF ~is_active(fork) THEN <<>> ELSE <<D>>
    BY DEF deploy, DeployOutcome
<1> HIDE DEF D
<1>2. Single(deploy(c, fork, code))
    BY <1>1 DEF Single
<1>3. \A x : x \in Elements(deploy(c, fork, code)) <=> is_active(fork) /\ x = D
    BY <1>1 DEF Elements
<1> QED BY <1>2, <1>3 DEF D

\* What pre_execution_changes collects: two entries but for genesis, and one outcome for
\* each system contract whose fork is active.
LEMMA OutcomeElements ==
    ASSUME NEW hash, NEW root, NEW x
    PROVE  x \in Elements(pre_execution_outcomes(hash, root)) <=>
             \/ number # 0 /\ (x = HashOutcome(hash) \/ x = RootOutcome(root))
             \/ \E c \in Contracts : is_active(ForkOf(c)) /\ x = DeployOutcome(c, CodeAt(c, time))
<1> DEFINE a == transact_blockhashes_contract_call(hash)
           b == transact_beacon_root_contract_call(root)
           c == deploy("oracle", MiniRex, CodeAt("oracle", time))
           d == deploy("timestamp oracle", MiniRex, CodeAt("timestamp oracle", time))
           e == deploy("keyless deploy", Rex2, CodeAt("keyless deploy", time))
           f == deploy("access control", Rex4, CodeAt("access control", time))
           g == deploy("limit control", Rex4, CodeAt("limit control", time))
<1>1. pre_execution_outcomes(hash, root) = Joined(a, b, c, d, e, f, g)
    BY DEF Joined, pre_execution_outcomes, transact_deploy_oracle_contract, is_active, CodeAt,
           transact_deploy_high_precision_timestamp_oracle, transact_deploy_keyless_deploy_contract,
           transact_deploy_access_control_contract, transact_deploy_limit_control_contract
<1>2. /\ Single(a) /\ (x \in Elements(a) <=> number # 0 /\ x = HashOutcome(hash))
      /\ Single(b) /\ (x \in Elements(b) <=> number # 0 /\ x = RootOutcome(root))
    <2>1. a = IF number = 0 THEN <<>> ELSE <<HashOutcome(hash)>>
        BY DEF transact_blockhashes_contract_call, HashOutcome
    <2>2. b = IF number = 0 THEN <<>> ELSE <<RootOutcome(root)>>
        BY DEF transact_beacon_root_contract_call, RootOutcome
    <2> HIDE DEF a, b
    <2>3. CASE number = 0
        BY <2>1, <2>2, <2>3, SingleElements
    <2>4. CASE number # 0
        BY <2>1, <2>2, <2>4, SingleElements
    <2> QED BY <2>3, <2>4
<1>3. /\ Single(c) /\ Single(d) /\ Single(e) /\ Single(f) /\ Single(g)
      /\ x \in Elements(c) <=> is_active(MiniRex) /\ x = DeployOutcome("oracle", CodeAt("oracle", time))
      /\ x \in Elements(d) <=> is_active(MiniRex)
           /\ x = DeployOutcome("timestamp oracle", CodeAt("timestamp oracle", time))
      /\ x \in Elements(e) <=> is_active(Rex2)
           /\ x = DeployOutcome("keyless deploy", CodeAt("keyless deploy", time))
      /\ x \in Elements(f) <=> is_active(Rex4)
           /\ x = DeployOutcome("access control", CodeAt("access control", time))
      /\ x \in Elements(g) <=> is_active(Rex4)
           /\ x = DeployOutcome("limit control", CodeAt("limit control", time))
    BY DeployElements, Zenon
<1>4. /\ ForkOf("oracle") = MiniRex /\ ForkOf("timestamp oracle") = MiniRex
      /\ ForkOf("keyless deploy") = Rex2 /\ ForkOf("access control") = Rex4
      /\ ForkOf("limit control") = Rex4
    BY DEF ForkOf
<1> HIDE DEF a, b, c, d, e, f, g
<1>5. Elements(pre_execution_outcomes(hash, root)) =
        Elements(a) \cup Elements(b) \cup Elements(c) \cup Elements(d)
        \cup Elements(e) \cup Elements(f) \cup Elements(g)
    <2>1. AllSingle(a, b, c, d, e, f, g)
        BY <1>2, <1>3, Zenon DEF AllSingle
    <2>2. Elements(Joined(a, b, c, d, e, f, g)) =
            Elements(a) \cup Elements(b) \cup Elements(c) \cup Elements(d)
            \cup Elements(e) \cup Elements(f) \cup Elements(g)
        BY ONLY <2>1, SevenPieces
    <2> QED BY <1>1, <2>2, Zenon
<1> DEFINE Is(k) == is_active(ForkOf(k)) /\ x = DeployOutcome(k, CodeAt(k, time))
<1>6. /\ x \in Elements(c) <=> Is("oracle")
      /\ x \in Elements(d) <=> Is("timestamp oracle")
      /\ x \in Elements(e) <=> Is("keyless deploy")
      /\ x \in Elements(f) <=> Is("access control")
      /\ x \in Elements(g) <=> Is("limit control")
    BY <1>3, <1>4
<1> HIDE DEF Is
<1>7. (\E k \in Contracts : Is(k)) <=>
        \/ Is("oracle") \/ Is("timestamp oracle") \/ Is("keyless deploy")
        \/ Is("access control") \/ Is("limit control")
    BY DEF Contracts
<1>8. x \in Elements(pre_execution_outcomes(hash, root)) <=>
        \/ number # 0 /\ (x = HashOutcome(hash) \/ x = RootOutcome(root))
        \/ \E k \in Contracts : Is(k)
    BY <1>2, <1>5, <1>6, <1>7, Zenon
<1> QED BY <1>8 DEF Is

\* The account of a system contract after the deployments: a new code comes with an
\* empty storage.
NewCode(c) == [state.account[c] EXCEPT !.code = CodeAt(c, time)]
Renewed(c) == [NewCode(c) EXCEPT !.storage = 0]
Upgraded(c) ==
    IF is_active(ForkOf(c)) /\ state.account[c].code # CodeAt(c, time) THEN Renewed(c)
    ELSE state.account[c]

\* What the two calls of a block record, if they write
Hash(writes) == IF number # 0 /\ writes THEN {number - 1} ELSE {}
Root(writes) == IF number # 0 /\ writes THEN {number} ELSE {}

\* The commit brings every active contract to its code, and records the hash and the
\* root of the block if the calls wrote them.
LEMMA CommitFacts ==
    ASSUME NEW hash \in BOOLEAN, NEW root \in BOOLEAN, state \in StateType,
           NEW t, t = commit(Elements(pre_execution_outcomes(hash, root)), state)
    PROVE  /\ \A c \in Contracts : t.account[c] = Upgraded(c)
           /\ t = [account |-> [c \in Contracts |-> Upgraded(c)],
                   blockhashes |-> state.blockhashes \cup Hash(hash),
                   roots |-> state.roots \cup Root(root)]
<1> DEFINE made == Elements(pre_execution_outcomes(hash, root))
           at(a) == {o \in made : o.at = a}
           D(c) == DeployOutcome(c, CodeAt(c, time))
           H == HashOutcome(hash)
           R == RootOutcome(root)
           created(c) == {[o.account EXCEPT !.storage = 0] : o \in {p \in at(c) : p.created}}
<1>1. \A x : x \in made <=> \/ number # 0 /\ (x = H \/ x = R)
                            \/ \E c \in Contracts : is_active(ForkOf(c)) /\ x = D(c)
    BY OutcomeElements
<1>2. /\ H.at = "blockhashes" /\ R.at = "beacon roots"
      /\ number # 0 => H.entries = Hash(hash) /\ R.entries = Root(root)
      /\ \A c : D(c).at = c
      /\ "blockhashes" \notin Contracts /\ "beacon roots" \notin Contracts
    BY DEF HashOutcome, RootOutcome, DeployOutcome, Contracts, Hash, Root
<1>a. t = [account |-> [c \in Contracts |-> IF created(c) = {} THEN state.account[c]
                                            ELSE CHOOSE a \in created(c) : TRUE],
           blockhashes |-> state.blockhashes \cup UNION {o.entries : o \in at("blockhashes")},
           roots |-> state.roots \cup UNION {o.entries : o \in at("beacon roots")}]
    BY DEF commit
<1> HIDE DEF made, D, H, R
<1>b. \A a, x : x \in at(a) <=> x \in made /\ x.at = a
    OBVIOUS
<1> HIDE DEF at
<1>c. ASSUME NEW x \in made
      PROVE  \/ number # 0 /\ x = H /\ x.at = "blockhashes"
             \/ number # 0 /\ x = R /\ x.at = "beacon roots"
             \/ x.at \in Contracts /\ is_active(ForkOf(x.at)) /\ x = D(x.at)
    <2>1. CASE number # 0 /\ (x = H \/ x = R)
        BY <1>2, <2>1
    <2>2. ASSUME NEW c \in Contracts, is_active(ForkOf(c)), x = D(c) PROVE x.at \in Contracts /\ is_active(ForkOf(x.at)) /\ x = D(x.at)
        <3>1. x.at = c
            BY <1>2, <2>2
        <3> QED BY <2>2, <3>1, Zenon
    <2> QED BY <1>1, <1>c, <2>1, <2>2, Zenon
<1>3. ASSUME NEW c \in Contracts PROVE at(c) = IF is_active(ForkOf(c)) THEN {D(c)} ELSE {}
    <2>0. c # "blockhashes" /\ c # "beacon roots"
        BY <1>2, <1>3
    <2>1. ASSUME NEW x, x \in at(c) PROVE is_active(ForkOf(c)) /\ x = D(c)
        <3>1. x \in made /\ x.at = c
            BY <1>b, <2>1, Zenon
        <3> QED BY <1>c, <2>0, <3>1, Zenon
    <2>2. ASSUME is_active(ForkOf(c)) PROVE D(c) \in at(c)
        <3>1. D(c) \in made
            BY <1>1, <1>3, <2>2, Zenon
        <3> QED BY <1>2, <1>b, <3>1, Zenon
    <2> QED BY <2>1, <2>2
<1>4. UNION {o.entries : o \in at("blockhashes")} = Hash(hash)
    <2>1. ASSUME NEW x, x \in at("blockhashes") PROVE number # 0 /\ x = H
        <3>1. x \in made /\ x.at = "blockhashes"
            BY <1>b, <2>1, Zenon
        <3>2. "blockhashes" # "beacon roots"
            OBVIOUS
        <3> QED BY <1>c, <1>2, <3>1, <3>2, Zenon
    <2>2. ASSUME number # 0 PROVE H \in at("blockhashes")
        <3>1. H \in made
            BY <1>1, <2>2, Zenon
        <3> QED BY <1>2, <1>b, <3>1, Zenon
    <2> DEFINE B == at("blockhashes")
    <2>3. B = IF number = 0 THEN {} ELSE {H}
        BY <2>1, <2>2
    <2> HIDE DEF B
    <2>4. UNION {o.entries : o \in B} = Hash(hash)
        <3>1. CASE number = 0
            <4>1. B = {} /\ Hash(hash) = {}
                BY <2>3, <3>1 DEF Hash
            <4> QED BY <4>1
        <3>2. CASE number # 0
            <4>1. B = {H} /\ H.entries = Hash(hash)
                BY <1>2, <2>3, <3>2
            <4> QED BY <4>1
        <3> QED BY <3>1, <3>2
    <2> QED BY <2>4 DEF B
<1>5. UNION {o.entries : o \in at("beacon roots")} = Root(root)
    <2>1. ASSUME NEW x, x \in at("beacon roots") PROVE number # 0 /\ x = R
        <3>1. x \in made /\ x.at = "beacon roots"
            BY <1>b, <2>1, Zenon
        <3>2. "blockhashes" # "beacon roots"
            OBVIOUS
        <3> QED BY <1>c, <1>2, <3>1, <3>2, Zenon
    <2>2. ASSUME number # 0 PROVE R \in at("beacon roots")
        <3>1. R \in made
            BY <1>1, <2>2, Zenon
        <3> QED BY <1>2, <1>b, <3>1, Zenon
    <2> DEFINE B == at("beacon roots")
    <2>3. B = IF number = 0 THEN {} ELSE {R}
        BY <2>1, <2>2
    <2> HIDE DEF B
    <2>4. UNION {o.entries : o \in B} = Root(root)
        <3>1. CASE number = 0
            <4>1. B = {} /\ Root(root) = {}
                BY <2>3, <3>1 DEF Root
            <4> QED BY <4>1
        <3>2. CASE number # 0
            <4>1. B = {R} /\ R.entries = Root(root)
                BY <1>2, <2>3, <3>2
            <4> QED BY <4>1
        <3> QED BY <3>1, <3>2
    <2> QED BY <2>4 DEF B
<1>6. ASSUME NEW c \in Contracts
      PROVE  (IF created(c) = {} THEN state.account[c] ELSE CHOOSE a \in created(c) : TRUE) = Upgraded(c)
    <2>1. CASE ~is_active(ForkOf(c))
        <3>1. created(c) = {}
            BY <1>3, <1>6, <2>1
        <3> QED BY <2>1, <3>1 DEF Upgraded
    <2>2. CASE is_active(ForkOf(c)) /\ state.account[c].code = CodeAt(c, time)
        <3>1. D(c).created = FALSE
            BY <2>2 DEF D, DeployOutcome
        <3>2. created(c) = {}
            BY <1>3, <1>6, <2>2, <3>1
        <3> QED BY <2>2, <3>2 DEF Upgraded
    <2>3. CASE is_active(ForkOf(c)) /\ state.account[c].code # CodeAt(c, time)
        <3> DEFINE new == NewCode(c)
                   bare == Renewed(c)
        <3>1. D(c).created = TRUE /\ D(c).account = new /\ bare = [new EXCEPT !.storage = 0]
            BY <2>3 DEF D, DeployOutcome, NewCode, Renewed
        <3> HIDE DEF new, bare
        <3>2. created(c) = {bare}
            BY <1>3, <1>6, <2>3, <3>1
        <3> HIDE DEF created
        <3>3. (CHOOSE a \in created(c) : TRUE) = bare /\ created(c) # {}
            BY <3>2
        <3> QED BY <2>3, <3>3 DEF Upgraded, bare
    <2> QED BY <2>1, <2>2, <2>3
<1> HIDE DEF created, at
<1>7. t = [account |-> [c \in Contracts |-> Upgraded(c)],
           blockhashes |-> state.blockhashes \cup Hash(hash),
           roots |-> state.roots \cup Root(root)]
    BY <1>a, <1>4, <1>5, <1>6
<1> QED BY <1>7

-----------------------------------------------------------------------------
(* The inductive invariant *)

\* A state with the code that every system contract has at a time
Prepared(s, t) ==
    \A c \in Contracts : active(schedule, ForkOf(c), t) => s.account[c].code = CodeAt(c, t)

Typed ==
    /\ schedule \in Schedules
    /\ number \in 0 .. MaxBlock + 1 /\ time \in 0 .. MaxTime /\ parent_time \in 0 .. MaxTime
    /\ spec \in MegaSpecId /\ phase \in {"none", "new", "computed", "ready"}
    /\ state \in StateType /\ db \in StateType

\* The executor is one for the spec of the block, which does not precede its parent.
Executing == phase # "none" => number <= MaxBlock /\ parent_time <= time /\ spec = spec_id(schedule, time)

\* Nothing is written before the commit, and what is committed was computed for this block.
Uncommitted == phase # "ready" => state = db
Computed ==
    phase = "computed" => \E hash, root \in BOOLEAN : outcomes = pre_execution_outcomes(hash, root)

\* The commit prepares the block, and the block after it starts from there.
OwnEntries ==
    /\ state.blockhashes \subseteq db.blockhashes \cup {number - 1}
    /\ state.roots \subseteq db.roots \cup {number}
Ready == phase = "ready" => Prepared(state, time) /\ OwnEntries
Continued == number > 1 => Prepared(db, parent_time)

ChainInv == Typed /\ Executing /\ Uncommitted /\ Computed /\ Ready /\ Continued

\* The outcomes depend on the schedule, the block and the state alone.
LEMMA OutcomesStay ==
    ASSUME UNCHANGED <<schedule, number, time, state>>
    PROVE  \A hash, root \in BOOLEAN :
              pre_execution_outcomes(hash, root)' = pre_execution_outcomes(hash, root)
BY DEF pre_execution_outcomes, transact_blockhashes_contract_call, transact_beacon_root_contract_call,
       transact_deploy_oracle_contract, transact_deploy_high_precision_timestamp_oracle,
       transact_deploy_keyless_deploy_contract, transact_deploy_access_control_contract,
       transact_deploy_limit_control_contract, deploy, is_active

LEMMA InitInv == Init => ChainInv
<1> SUFFICES ASSUME Init PROVE ChainInv
    OBVIOUS
<1>1. PICK code \in Genesis :
        state = [account |-> [c \in Contracts |-> [code |-> code, balance |-> 0, storage |-> 0]],
                 blockhashes |-> {}, roots |-> {}]
    BY DEF Init
<1>2. state \in StateType
    BY <1>1, ChainAssumption DEF StateType, Account
<1>3. Typed
    BY <1>2, ChainAssumption, TimeAssumption DEF Init, Typed, MegaSpecId, EQUIVALENCE, REX4
<1>4. Executing /\ Uncommitted /\ Computed /\ Ready /\ Continued
    BY ChainAssumption DEF Init, Executing, Uncommitted, Computed, Ready, Continued
<1> QED BY <1>3, <1>4 DEF ChainInv

LEMMA CreateKeeps == ASSUME ChainInv, CreateExecutor PROVE ChainInv'
<1> USE DEF ChainInv, CreateExecutor
<1>1. PICK t \in parent_time .. MaxTime, s \in MegaSpecId :
        s = spec_id(schedule, t) /\ time' = t /\ spec' = s
    BY Zenon
<1>2. parent_time \in Nat /\ MaxTime \in Nat /\ t \in 0 .. MaxTime /\ parent_time <= t
    BY <1>1, TimeAssumption DEF Typed
<1>3. Typed'
    BY <1>1, <1>2 DEF Typed
<1>4. Executing'
    BY <1>1, <1>2 DEF Executing, Typed
<1>5. Uncommitted' /\ Computed' /\ Ready'
    BY DEF Uncommitted, Computed, Ready
<1>6. Continued'
    BY DEF Continued, Prepared, CodeAt
<1> QED BY <1>3, <1>4, <1>5, <1>6

LEMMA PreExecutionKeeps == ASSUME ChainInv, PreExecutionChanges \/ PreExecutionFails PROVE ChainInv'
<1> USE DEF ChainInv
<1>1. UNCHANGED <<schedule, block, state, db>> /\ phase' \in {"new", "computed"}
      /\ phase \in {"new", "computed"}
      /\ (phase' = "computed" =>
            \E hash, root \in BOOLEAN : outcomes' = pre_execution_outcomes(hash, root))
    BY DEF PreExecutionChanges, PreExecutionFails
<1>2. UNCHANGED <<schedule, number, time, parent_time, spec, state, db>>
    BY <1>1 DEF block
<1>3. Typed'
    BY <1>1, <1>2 DEF Typed
<1>4. Executing' /\ Uncommitted' /\ Ready'
    BY <1>1, <1>2 DEF Executing, Uncommitted, Ready
<1>5. Computed'
    <2>1. \A hash, root \in BOOLEAN :
              pre_execution_outcomes(hash, root)' = pre_execution_outcomes(hash, root)
        BY <1>2, OutcomesStay
    <2> QED BY <1>1, <2>1, Zenon DEF Computed
<1>6. Continued'
    BY <1>2 DEF Continued, Prepared, CodeAt
<1> QED BY <1>3, <1>4, <1>5, <1>6

\* What the commit of a block does to the state
Recorded(hash, root) ==
    state' = [account |-> [c \in Contracts |-> Upgraded(c)],
              blockhashes |-> state.blockhashes \cup Hash(hash), roots |-> state.roots \cup Root(root)]

LEMMA CommitStep ==
    ASSUME ChainInv, CommitSystemCallOutcomes
    PROVE  /\ UNCHANGED <<schedule, number, time, parent_time, spec, db>>
           /\ \A c \in Contracts : state'.account[c] = Upgraded(c)
           /\ \E hash, root \in BOOLEAN : Recorded(hash, root)
<1>1. PICK hash \in BOOLEAN, root \in BOOLEAN : outcomes = pre_execution_outcomes(hash, root)
    BY Zenon DEF ChainInv, CommitSystemCallOutcomes, Computed
<1>2. state \in StateType
    BY DEF ChainInv, Typed
<1>3. state' = commit(Elements(outcomes), state)
    BY DEF CommitSystemCallOutcomes, Elements
<1>4. UNCHANGED <<schedule, number, time, parent_time, spec, db>>
    BY DEF CommitSystemCallOutcomes, block
<1> DEFINE t == state'
<1>5. t = commit(Elements(pre_execution_outcomes(hash, root)), state)
    BY <1>1, <1>3
<1>6. /\ \A c \in Contracts : t.account[c] = Upgraded(c)
      /\ t = [account |-> [c \in Contracts |-> Upgraded(c)],
              blockhashes |-> state.blockhashes \cup Hash(hash), roots |-> state.roots \cup Root(root)]
    <2> HIDE DEF t
    <2> QED BY <1>2, <1>5, CommitFacts
<1> QED BY <1>4, <1>6 DEF Recorded

LEMMA UpgradedFacts ==
    ASSUME state \in StateType, NEW c \in Contracts
    PROVE  /\ Upgraded(c) \in Account
           /\ Upgraded(c).balance = state.account[c].balance
           /\ Upgraded(c).code = IF is_active(ForkOf(c)) THEN CodeAt(c, time) ELSE state.account[c].code
           /\ Upgraded(c).code = state.account[c].code => Upgraded(c) = state.account[c]
<1> DEFINE a == state.account[c]
           new == CodeAt(c, time)
<1>1. a \in Account /\ new \in Codes
    BY DEF StateType, CodeAt, Codes
<1>2. Upgraded(c) = IF is_active(ForkOf(c)) /\ a.code # new
                    THEN [[a EXCEPT !.code = new] EXCEPT !.storage = 0] ELSE a
    BY DEF Upgraded, Renewed, NewCode
<1> HIDE DEF a, new
<1>3. /\ Upgraded(c) \in Account /\ Upgraded(c).balance = a.balance
      /\ Upgraded(c).code = IF is_active(ForkOf(c)) THEN new ELSE a.code
      /\ Upgraded(c).code = a.code => Upgraded(c) = a
    <2> DEFINE u == [[a EXCEPT !.code = new] EXCEPT !.storage = 0]
    <2>1. u \in Account /\ u.balance = a.balance /\ u.code = new
        <3> DEFINE v == [a EXCEPT !.code = new]
        <3>1. v \in Account /\ v.balance = a.balance /\ v.code = new
            BY <1>1 DEF Account
        <3>2. u = [v EXCEPT !.storage = 0]
            OBVIOUS
        <3> HIDE DEF u, v
        <3> QED BY <3>1, <3>2 DEF Account
    <2>2. Upgraded(c) = IF is_active(ForkOf(c)) /\ a.code # new THEN u ELSE a
        BY <1>2
    <2> HIDE DEF u
    <2>3. CASE is_active(ForkOf(c)) /\ a.code # new
        BY <2>1, <2>2, <2>3
    <2>4. CASE ~(is_active(ForkOf(c)) /\ a.code # new)
        BY <1>1, <2>2, <2>4
    <2> QED BY <2>3, <2>4
<1> QED BY <1>3 DEF a, new

LEMMA CommitKeeps == ASSUME ChainInv, CommitSystemCallOutcomes PROVE ChainInv'
<1> USE DEF ChainInv
<1>0. phase = "computed" /\ phase' = "ready"
    BY DEF CommitSystemCallOutcomes
<1>1. /\ UNCHANGED <<schedule, number, time, parent_time, spec, db>>
      /\ \A c \in Contracts : state'.account[c] = Upgraded(c)
      /\ \E hash, root \in BOOLEAN : Recorded(hash, root)
    BY CommitStep
<1>a. PICK hash \in BOOLEAN, root \in BOOLEAN : Recorded(hash, root)
    BY <1>1, Zenon
<1>b. /\ state' = [account |-> [c \in Contracts |-> Upgraded(c)],
                   blockhashes |-> state.blockhashes \cup Hash(hash),
                   roots |-> state.roots \cup Root(root)]
      /\ Hash(hash) \subseteq {number - 1} /\ Root(root) \subseteq {number}
      /\ number = 0 => Hash(hash) = {} /\ Root(root) = {}
    BY <1>a DEF Recorded, Hash, Root
<1>2. state \in StateType /\ number \in 0 .. MaxBlock /\ MaxBlock \in Nat /\ state = db
    BY <1>0, ChainAssumption DEF Typed, Executing, Uncommitted
<1>3. state' \in StateType
    <2>1. [c \in Contracts |-> Upgraded(c)] \in [Contracts -> Account]
        BY <1>2, UpgradedFacts
    <2>2. /\ state.blockhashes \cup Hash(hash) \in SUBSET (0 .. MaxBlock)
          /\ state.roots \cup Root(root) \in SUBSET (0 .. MaxBlock)
        BY <1>2, <1>b DEF StateType
    <2> QED BY <1>b, <2>1, <2>2 DEF StateType
<1>4. Typed'
    BY <1>0, <1>1, <1>3 DEF Typed
<1>5. Executing' /\ Uncommitted' /\ Computed'
    BY <1>0, <1>1 DEF Executing, Uncommitted, Computed
<1>6. Ready'
    <2>1. ASSUME NEW c \in Contracts, active(schedule, ForkOf(c), time)
          PROVE  state'.account[c].code = CodeAt(c, time)
        BY <1>1, <1>2, <2>1, UpgradedFacts DEF is_active
    <2>2. Prepared(state, time)'
        BY <1>1, <2>1 DEF Prepared, CodeAt
    <2>3. OwnEntries'
        <3>1. /\ state'.blockhashes = state.blockhashes \cup Hash(hash)
              /\ state'.roots = state.roots \cup Root(root)
            BY <1>b
        <3> QED BY <1>1, <1>2, <1>b, <3>1 DEF OwnEntries
    <2> QED BY <1>0, <1>1, <2>2, <2>3 DEF Ready
<1>7. Continued'
    BY <1>1 DEF Continued, Prepared, CodeAt
<1> QED BY <1>4, <1>5, <1>6, <1>7

\* A transaction that sends value to a system contract, or writes its storage, changes
\* no code.
LEMMA TransactionStep ==
    ASSUME ChainInv, Transaction
    PROVE  /\ UNCHANGED <<schedule, number, time, parent_time, spec, phase, outcomes, db>>
           /\ state' \in StateType
           /\ state'.blockhashes = state.blockhashes /\ state'.roots = state.roots
           /\ \A c \in Contracts : state'.account[c].code = state.account[c].code
<1> DEFINE acc == state.account
<1>1. state \in StateType /\ acc \in [Contracts -> Account] /\ state.account = acc
    BY DEF ChainInv, Typed, StateType
<1>2. Funded \subseteq Contracts /\ Written \subseteq Contracts /\ MaxBalance \in Nat
    BY ChainAssumption
<1> DEFINE CodesStay ==
        \E new \in [Contracts -> Account] :
           state' = [state EXCEPT !.account = new] /\ \A c \in Contracts : new[c].code = acc[c].code
<1>3. CodesStay
    <2>1. ASSUME NEW k \in Funded, state.account[k].balance < MaxBalance,
                 state' = [state EXCEPT !.account[k].balance = @ + 1]
          PROVE  CodesStay
        <3> DEFINE new == [acc EXCEPT ![k].balance = @ + 1]
        <3>1. state' = [state EXCEPT !.account = new] /\ acc[k].balance < MaxBalance
            BY <1>1, <2>1 DEF StateType
        <3> HIDE DEF acc
        <3>2. new \in [Contracts -> Account] /\ \A c \in Contracts : new[c].code = acc[c].code
            BY <1>1, <1>2, <2>1, <3>1 DEF Account
        <3> HIDE DEF new
        <3> QED BY <3>1, <3>2
    <2>2. ASSUME NEW k \in Written, state' = [state EXCEPT !.account[k].storage = 1]
          PROVE  CodesStay
        <3> DEFINE new == [acc EXCEPT ![k].storage = 1]
        <3>1. state' = [state EXCEPT !.account = new]
            BY <1>1, <2>2 DEF StateType
        <3> HIDE DEF acc
        <3>2. new \in [Contracts -> Account] /\ \A c \in Contracts : new[c].code = acc[c].code
            BY <1>1, <1>2, <2>2 DEF Account
        <3> HIDE DEF new
        <3> QED BY <3>1, <3>2
    <2> HIDE DEF acc
    <2> QED BY <2>1, <2>2 DEF Transaction
<1>4. UNCHANGED <<schedule, number, time, parent_time, spec, phase, outcomes, db>>
    BY DEF Transaction, block
<1>5. /\ state' \in StateType
      /\ state'.blockhashes = state.blockhashes /\ state'.roots = state.roots
      /\ \A c \in Contracts : state'.account[c].code = state.account[c].code
    <2> HIDE DEF acc
    <2> QED BY <1>1, <1>3 DEF StateType
<1> QED BY <1>4, <1>5

LEMMA TransactionKeeps == ASSUME ChainInv, Transaction PROVE ChainInv'
<1> USE DEF ChainInv
<1>0. phase = "ready"
    BY DEF Transaction
<1>1. /\ UNCHANGED <<schedule, number, time, parent_time, spec, phase, outcomes, db>>
      /\ state' \in StateType
      /\ state'.blockhashes = state.blockhashes /\ state'.roots = state.roots
      /\ \A c \in Contracts : state'.account[c].code = state.account[c].code
    BY TransactionStep
<1>2. Typed'
    BY <1>1 DEF Typed
<1>3. Executing' /\ Uncommitted' /\ Computed'
    BY <1>0, <1>1 DEF Executing, Uncommitted, Computed
<1>4. Ready'
    BY <1>0, <1>1 DEF Ready, Prepared, CodeAt, OwnEntries
<1>5. Continued'
    BY <1>1 DEF Continued, Prepared, CodeAt
<1> QED BY <1>2, <1>3, <1>4, <1>5

\* The database has the code and the balances of the State, and an older storage at most.
LEMMA FinishedFacts ==
    ASSUME NEW s \in StateType, NEW before \in StateType, NEW t, t = finished(s, before)
    PROVE  t \in StateType /\ \A c \in Contracts : t.account[c].code = s.account[c].code
<1> DEFINE F(c) == IF s.account[c].storage = 0
                   THEN [s.account[c] EXCEPT !.storage = before.account[c].storage]
                   ELSE s.account[c]
           new == [c \in Contracts |-> F(c)]
<1>1. t = [s EXCEPT !.account = new]
    BY DEF finished
<1>2. ASSUME NEW c \in Contracts PROVE F(c) \in Account /\ F(c).code = s.account[c].code
    <2>1. s.account[c] \in Account /\ before.account[c] \in Account
        BY DEF StateType
    <2> DEFINE x == s.account[c]
               y == before.account[c]
    <2>2. F(c) = IF x.storage = 0 THEN [x EXCEPT !.storage = y.storage] ELSE x
        OBVIOUS
    <2> HIDE DEF F
    <2>3. x \in Account /\ y \in Account
        BY <2>1
    <2> HIDE DEF x, y
    <2>4. F(c) \in Account /\ F(c).code = x.code
        BY <2>2, <2>3 DEF Account
    <2> QED BY <2>4 DEF x
<1> HIDE DEF F
<1>3. new \in [Contracts -> Account] /\ \A c \in Contracts : new[c].code = s.account[c].code
    BY <1>2
<1> HIDE DEF new
<1> QED BY <1>1, <1>3 DEF StateType

LEMMA FinishKeeps == ASSUME ChainInv, Finish PROVE ChainInv'
<1> USE DEF ChainInv, Finish
<1> DEFINE t == db'
<1>1. t = finished(state, db) /\ state \in StateType /\ db \in StateType /\ state' = t
    BY DEF Typed
<1>2. t \in StateType /\ \A c \in Contracts : t.account[c].code = state.account[c].code
    <2> HIDE DEF t
    <2> QED BY <1>1, FinishedFacts
<1>3. Typed'
    BY <1>1, <1>2, ChainAssumption DEF Typed, Executing
<1>4. Executing' /\ Uncommitted' /\ Computed' /\ Ready'
    BY DEF Executing, Uncommitted, Computed, Ready
<1>5. Continued'
    BY <1>2 DEF Continued, Ready, Prepared, CodeAt
<1> QED BY <1>3, <1>4, <1>5

LEMMA AbandonKeeps == ASSUME ChainInv, Abandon PROVE ChainInv'
<1> USE DEF ChainInv, Abandon, block
<1>1. Typed'
    BY DEF Typed
<1>2. Executing' /\ Uncommitted' /\ Computed' /\ Ready'
    BY DEF Executing, Uncommitted, Computed, Ready
<1>3. Continued'
    BY DEF Continued, Prepared, CodeAt
<1> QED BY <1>1, <1>2, <1>3

LEMMA StepInv == ChainInv /\ [Next]_vars => ChainInv'
<1> SUFFICES ASSUME ChainInv, [Next]_vars PROVE ChainInv'
    OBVIOUS
<1>1. CASE Next
    BY <1>1, CreateKeeps, PreExecutionKeeps, CommitKeeps, TransactionKeeps, FinishKeeps, AbandonKeeps
       DEF Next
<1>2. CASE UNCHANGED vars
    <2>1. UNCHANGED <<schedule, number, time, parent_time, spec, phase, outcomes, state, db>>
        BY <1>2 DEF vars, block
    <2>2. Typed' /\ Executing' /\ Uncommitted'
        BY <2>1 DEF ChainInv, Typed, Executing, Uncommitted
    <2>3. Computed'
        <3>1. \A hash, root \in BOOLEAN :
                  pre_execution_outcomes(hash, root)' = pre_execution_outcomes(hash, root)
            BY <2>1, OutcomesStay
        <3> QED BY <2>1, <3>1, Zenon DEF ChainInv, Computed
    <2>4. Ready' /\ Continued'
        BY <2>1 DEF ChainInv, Ready, Continued, Prepared, CodeAt, OwnEntries
    <2> QED BY <2>2, <2>3, <2>4 DEF ChainInv
<1> QED BY <1>1, <1>2

\* Every block of a chain, tried or finished, is as the commit of pre_execution_changes
\* leaves it: the inductive invariant.
THEOREM ChainIsInductive == Spec => []ChainInv
BY InitInv, StepInv, PTL DEF Spec

\* The chain keeps its types: no block beyond the bound, no entry or code but those named.
THEOREM TypeCorrect == Spec => []TypeOK
<1>1. ChainInv => TypeOK
    BY DEF ChainInv, Typed, TypeOK, StateType
<1> QED BY <1>1, ChainIsInductive, PTL

-----------------------------------------------------------------------------
(* The properties *)

\* A contract that the EVM of a spec relies on is brought by a fork that is active in
\* every block of that spec, with the code it needs.
LEMMA NeedsAreForks ==
    ASSUME Typed, InOrder(schedule), spec = spec_id(schedule, time), NEW need \in Needs(spec)
    PROVE  /\ need[1] \in Contracts /\ active(schedule, ForkOf(need[1]), time)
           /\ need[2] = CodeAt(need[1], time)
<1>1. schedule \in Schedules /\ time \in Nat
    BY TimeAssumption DEF Typed
<1>2. /\ is_enabled(spec, REX4) => active(schedule, Rex4, time)
      /\ is_enabled(spec, REX2) <=> active(schedule, Rex2, time)
      /\ is_enabled(spec, MINI_REX) => active(schedule, MiniRex, time)
    BY <1>1, SpecTellsForks
<1>3. /\ ForkOf("oracle") = MiniRex /\ ForkOf("timestamp oracle") = MiniRex
      /\ ForkOf("keyless deploy") = Rex2 /\ ForkOf("access control") = Rex4
      /\ ForkOf("limit control") = Rex4
    BY DEF ForkOf
<1>4. CASE need = <<"timestamp oracle", "v1.0.0">> /\ is_enabled(spec, MINI_REX)
    BY <1>2, <1>3, <1>4 DEF CodeAt, Contracts
<1>5. CASE need = <<"oracle", IF is_enabled(spec, REX2) THEN "v1.1.0" ELSE "v1.0.0">> /\ is_enabled(spec, MINI_REX)
    BY <1>2, <1>3, <1>5 DEF CodeAt, Contracts
<1>6. CASE need = <<"keyless deploy", "v1.0.0">> /\ is_enabled(spec, REX2)
    BY <1>2, <1>3, <1>6 DEF CodeAt, Contracts
<1>7. CASE need = <<"access control", "v1.0.0">> /\ is_enabled(spec, REX4)
    BY <1>2, <1>3, <1>7 DEF CodeAt, Contracts
<1>8. CASE need = <<"limit control", "v1.0.0">> /\ is_enabled(spec, REX4)
    BY <1>2, <1>3, <1>8 DEF CodeAt, Contracts
<1> QED BY <1>4, <1>5, <1>6, <1>7, <1>8 DEF Needs

\* While the transactions of a block run, on chains of any length and whatever forks
\* fall between two blocks: every contract the spec needs is deployed with the right
\* code, and no hash or root was added but those of the block (pre_execution_changes
\* and its commit).
THEOREM BlocksArePrepared == Spec => []BlockIsPrepared
<1>1. ChainInv => BlockIsPrepared
    <2> SUFFICES ASSUME ChainInv, phase = "ready" PROVE
            /\ InOrder(schedule) => \A need \in Needs(spec) : state.account[need[1]].code = need[2]
            /\ OwnEntries
        BY DEF BlockIsPrepared, OwnEntries
    <2>1. Typed /\ Prepared(state, time) /\ spec = spec_id(schedule, time) /\ OwnEntries
        BY DEF ChainInv, Ready, Executing
    <2>2. ASSUME InOrder(schedule), NEW need \in Needs(spec) PROVE state.account[need[1]].code = need[2]
        BY <2>1, <2>2, NeedsAreForks DEF Prepared
    <2> QED BY <2>1, <2>2
<1> QED BY <1>1, ChainIsInductive, PTL

\* The commit of a block is the only step that deploys code or forgets a storage, and
\* between two blocks it does so only when the first fork of a contract, or the next one that brings code for
\* it, became active since the parent (first_hardfork_block).
THEOREM UpgradesOnlyAtForks == Spec => UpgradesAtForks
<1>1. ASSUME ChainInv, [Next]_vars, phase = "computed", phase' = "ready", NEW c \in Contracts
      PROVE  /\ state'.account[c].balance = state.account[c].balance
             /\ state'.account[c] # state.account[c] /\ number > 0 =>
                   \E fork \in ForksOf(c) :
                      first_hardfork_block(schedule, fork, parent_time, number, time)
    <2>1. CommitSystemCallOutcomes
        BY <1>1 DEF Next, vars, CreateExecutor, PreExecutionChanges, PreExecutionFails, Transaction,
                    Finish, Abandon
    <2>2. state'.account[c] = Upgraded(c) /\ state \in StateType
        BY <1>1, <2>1, CommitStep DEF ChainInv, Typed
    <2>3. /\ state'.account[c].balance = state.account[c].balance
          /\ state'.account[c].code = IF is_active(ForkOf(c)) THEN CodeAt(c, time)
                                      ELSE state.account[c].code
          /\ state'.account[c].code = state.account[c].code => state'.account[c] = state.account[c]
        BY <1>1, <2>2, UpgradedFacts
    <2>4. ASSUME state'.account[c] # state.account[c], number > 0
          PROVE  \E fork \in ForksOf(c) :
                    first_hardfork_block(schedule, fork, parent_time, number, time)
        <3>1. active(schedule, ForkOf(c), time) /\ state.account[c].code # CodeAt(c, time)
            BY <2>3, <2>4 DEF is_active
        <3>2. ForkOf(c) \in ForksOf(c) /\ Rex2 \in ForksOf("oracle")
            BY <1>1 DEF ForkOf, ForksOf, Contracts
        <3>3. CASE number = 1 \/ ~active(schedule, ForkOf(c), parent_time)
            BY <3>1, <3>2, <3>3 DEF first_hardfork_block
        <3>4. CASE number > 1 /\ active(schedule, ForkOf(c), parent_time)
            <4>1. state = db /\ Prepared(db, parent_time)
                BY <1>1, <3>4 DEF ChainInv, Uncommitted, Continued
            <4>2. state.account[c].code = CodeAt(c, parent_time)
                BY <1>1, <3>4, <4>1 DEF Prepared
            <4>3. c = "oracle" /\ (active(schedule, Rex2, time) <=> ~active(schedule, Rex2, parent_time))
                BY <3>1, <4>2 DEF CodeAt
            <4>4. active(schedule, Rex2, parent_time) => active(schedule, Rex2, time)
                <5>1. schedule[Rex2] \in Nat /\ parent_time \in Nat /\ time \in Nat /\ parent_time <= time
                    BY <1>1, TimeAssumption
                    DEF ChainInv, Typed, Executing, Schedules, MegaHardfork, MiniRex, Rex2, Rex4, Never
                <5> QED BY <5>1 DEF active
            <4> QED BY <3>2, <4>3, <4>4 DEF first_hardfork_block
        <3>5. number \in Nat
            BY <1>1, ChainAssumption DEF ChainInv, Typed
        <3> QED BY <2>4, <3>3, <3>4, <3>5
    <2> QED BY <2>3, <2>4
<1>2. ChainInv /\ [Next]_vars =>
        [phase = "computed" /\ phase' = "ready" =>
          \A c \in Contracts :
             /\ state'.account[c].balance = state.account[c].balance
             /\ state'.account[c] # state.account[c] /\ number > 0 =>
                   \E fork \in ForksOf(c) :
                      first_hardfork_block(schedule, fork, parent_time, number, time)]_vars
    BY <1>1, Zenon
<1> QED BY <1>2, ChainIsInductive, PTL DEF Spec, UpgradesAtForks

\* The timestamps of blocks only grow, so the fork of a block is never before the fork
\* of its parent, and only MiniRex1 goes back to an older spec.
THEOREM SpecsOnlyAdvance == Spec => SpecOnlyAdvances
<1>1. ASSUME ChainInv, [Next]_vars, phase = "none", phase' = "new"
      PROVE  spec_id(schedule, parent_time) <= spec' \/ hardfork(schedule, time') = MiniRex1
    <2>1. CreateExecutor
        BY <1>1 DEF Next, vars, PreExecutionChanges, PreExecutionFails, CommitSystemCallOutcomes,
                    Transaction, Finish, Abandon
    <2>2. PICK t \in parent_time .. MaxTime : time' = t /\ spec' = spec_id(schedule, t)
        BY <2>1 DEF CreateExecutor
    <2>3. schedule \in Schedules /\ parent_time \in Nat /\ t \in Nat /\ parent_time <= t
        BY <1>1, <2>2, TimeAssumption DEF ChainInv, Typed
    <2> DEFINE f == hardfork(schedule, parent_time)
               g == hardfork(schedule, t)
    <2>4. /\ f \in NoFork .. Rex4 /\ g \in NoFork .. Rex4
          /\ f # NoFork => active(schedule, f, parent_time)
          /\ \A k \in MegaHardfork : active(schedule, k, t) => k <= g
        BY <2>3, HardforkFacts
    <2> HIDE DEF f, g
    <2>5. f <= g
        <3>1. CASE f = NoFork
            BY <2>4, <3>1 DEF NoFork, Rex4
        <3>2. CASE f # NoFork
            <4>1. f \in MegaHardfork /\ active(schedule, f, parent_time)
                BY <2>4, <3>2 DEF NoFork, MegaHardfork, MiniRex, Rex4
            <4>2. schedule[f] \in Nat
                BY <2>3, <4>1, TimeAssumption DEF Schedules, Never
            <4>3. active(schedule, f, t)
                BY <2>3, <4>1, <4>2 DEF active
            <4> QED BY <2>4, <4>1, <4>3
        <3> QED BY <3>1, <3>2
    <2>6. g = MiniRex1 \/ fork_spec_id(f) <= fork_spec_id(g)
        BY <2>4, <2>5, ForkSpecsAdvance
    <2> QED BY <2>2, <2>6 DEF spec_id, f, g
<1>2. ChainInv /\ [Next]_vars =>
        [InOrder(schedule) /\ phase = "none" /\ phase' = "new" /\ number > 0 =>
          \/ spec_id(schedule, parent_time) <= spec'
          \/ hardfork(schedule, time') = MiniRex1]_vars
    BY <1>1
<1> QED BY <1>2, ChainIsInductive, PTL DEF Spec, SpecOnlyAdvances

=============================================================================
