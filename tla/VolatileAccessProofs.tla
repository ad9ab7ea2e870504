------------------------ MODULE VolatileAccessProofs ------------------------
(***************************************************************************)
(* Proofs about VolatileAccess, for every depth, opcode cost, limit, cap   *)
(* and version.                                                            *)
(***************************************************************************)
EXTENDS VolatileAccess, SequenceTheorems, TLAPS

\* Where each phase of the frame loop leaves the stack and the halting flag.
Shape ==
  /\ pc \in {"run", "return", "skip"} => stack # <<>>
  /\ pc = "idle" => stack = <<>>
  /\ pc = "init" /\ stack = <<>> => call.scheme = "call"
  /\ pc \in {"run", "init"} => ~halted
  /\ pc \in {"run", "init", "return"} => answer = "none"

\* Inside a transaction the restriction belongs to a live frame.
Owned ==
  /\ pc # "idle" /\ disable_depth # None => disable_depth \in 1 .. depth
  /\ ~Enabled(REX4) => disable_depth = None

\* A beneficiary contract runs only after the beneficiary was marked, which is why
\* the unguarded SELFBALANCE leaves no new trace.
BeneficiaryMarked ==
  /\ \A d \in 1 .. depth : stack[d] = "beneficiary" => "Beneficiary" \in accessed
  /\ pc = "init" /\ call.target = "beneficiary" => "Beneficiary" \in accessed

\* From Rex4 on a transaction that is not halted is within its limits.
WithinLimit ==
  Enabled(REX4) /\ ~halted
    /\ (pc \in {"run", "return", "skip"} \/ (pc = "init" /\ stack # <<>>))
  => usage <= tx_limit

IInv == TypeOK /\ Shape /\ Owned /\ BeneficiaryMarked

-----------------------------------------------------------------------------
\* The smaller of two naturals is one of them and bounds both.
LEMMA MinOfFacts ==
  ASSUME NEW a \in Nat, NEW b \in Nat
  PROVE  MinOf(a, b) \in Nat /\ MinOf(a, b) <= a /\ MinOf(a, b) <= b
         /\ (MinOf(a, b) = a \/ MinOf(a, b) = b)
BY DEF MinOf

\* Marking keeps the tracker well typed and only adds to it.
LEMMA MarkFacts ==
  ASSUME TypeOK, NEW c \in Class \cup {None}, Mark(c)
  PROVE  /\ accessed' \subseteq Class
         /\ accessed \subseteq accessed'
         /\ cap' \in Nat \cup {None}
         /\ c # None => c \in accessed' /\ accessed' = accessed \cup {c} /\ cap' \in Nat
         /\ c = None => UNCHANGED <<accessed, cap>>
         /\ cap # None => cap' # None /\ cap' <= cap
<1>1. CASE c = None
  BY <1>1, VolatileAssumption DEF Mark, TypeOK
<1>2. CASE c # None
  <2>1. ClassCap(c) \in Nat
    BY VolatileAssumption DEF ClassCap
  <2>2. apply_or_create_limit(cap, ClassCap(c)) \in Nat
        /\ (cap # None => apply_or_create_limit(cap, ClassCap(c)) <= cap)
    BY <2>1, MinOfFacts DEF apply_or_create_limit, TypeOK
  <2> QED BY <1>2, <2>2, VolatileAssumption DEF Mark, TypeOK
<1> QED BY <1>1, <1>2

\* Applying a cap keeps the detained limit natural and never raises it.
LEMMA DetainFacts ==
  ASSUME TypeOK, NEW c \in Nat, NEW u \in Nat
  PROVE  /\ set_detained_limit(c, u) \in Nat
         /\ set_detained_limit(c, u) <= detained
         /\ Enabled(REX4) /\ u <= tx_limit => u <= MinOf(TxComputeLimit, set_detained_limit(c, u))
BY VolatileAssumption DEF set_detained_limit, TypeOK, MinOf, tx_limit

\* What an executed opcode does to the state, whatever its class.
LEMMA ExecutedFacts ==
  ASSUME TypeOK, pc = "run", ~halted,
         NEW class \in Class \cup {None}, NEW detains \in BOOLEAN,
         NEW next \in {"run", "init", "return"},
         Executed(class, detains, next)
  PROVE  /\ Mark(class)
         /\ pc' \in {next, "return"}
         /\ halted' \in BOOLEAN
         /\ halted' => pc' = "return"
         /\ usage' \in Nat /\ usage <= usage'
         /\ detained' \in Nat /\ detained' <= detained
         /\ Enabled(REX4) /\ ~halted' => usage' <= tx_limit'
         /\ UNCHANGED <<stack, answer, sender, disable_depth>>
<1>1. PICK c \in OpCosts :
        LET u == record_gas_used(c)
        IN /\ Mark(class)
           /\ usage' = u
           /\ IF u > tx_limit
              THEN pc' = "return" /\ halted' = TRUE /\ UNCHANGED detained
              ELSE /\ pc' = next
                   /\ detained' = IF detains /\ cap' # None
                                  THEN set_detained_limit(cap', u) ELSE detained
                   /\ UNCHANGED halted
           /\ UNCHANGED <<stack, answer, sender, disable_depth>>
  BY DEF Executed
<1>2. cap' \in Nat \cup {None}
  BY <1>1, MarkFacts
<1>3. record_gas_used(c) \in Nat /\ usage <= record_gas_used(c)
  BY VolatileAssumption DEF record_gas_used, TypeOK
<1>4. CASE record_gas_used(c) > tx_limit
  BY <1>1, <1>3, <1>4 DEF TypeOK
<1>5. CASE ~(record_gas_used(c) > tx_limit)
  <2>1. tx_limit \in Nat
    BY VolatileAssumption, MinOfFacts DEF tx_limit, TypeOK
  <2>2. CASE detains /\ cap' # None
    <3>1. detained' = set_detained_limit(cap', record_gas_used(c))
      BY <1>1, <1>5, <2>2
    <3>2. tx_limit' = MinOf(TxComputeLimit, detained')
      BY DEF tx_limit
    <3> QED BY <1>1, <1>2, <1>3, <1>5, <2>1, <2>2, <3>1, <3>2, DetainFacts DEF TypeOK
  <2>3. CASE ~(detains /\ cap' # None)
    <3>1. detained' = detained /\ tx_limit' = tx_limit
      BY <1>1, <1>5, <2>3 DEF tx_limit
    <3> QED BY <1>1, <1>3, <1>5, <2>1, <3>1 DEF TypeOK
  <2> QED BY <2>2, <2>3
<1> QED BY <1>4, <1>5

-----------------------------------------------------------------------------
\* The initial state of the trackers satisfies the invariant.
LEMMA InitInv == Init => IInv /\ WithinLimit
<1> SUFFICES ASSUME Init PROVE IInv /\ WithinLimit
  OBVIOUS
<1>1. TypeOK
  <2>1. spec \in Specs /\ halted \in BOOLEAN /\ pc \in {"idle", "init", "run", "return", "skip"}
    BY DEF Init
  <2>2. stack \in Seq(Account) /\ accessed \subseteq Class
    BY DEF Init
  <2>3. call \in [target : Account \cup {"control"}, scheme : Scheme]
    BY DEF Init, Account, Scheme
  <2>4. answer \in Answer /\ sender \in Sender
    BY DEF Init, Answer, Sender
  <2>5. /\ cap \in Nat \cup {None} /\ disable_depth \in Nat \cup {None}
        /\ usage \in Nat /\ detained \in Nat
    BY VolatileAssumption DEF Init
  <2> QED BY <2>1, <2>2, <2>3, <2>4, <2>5 DEF TypeOK
<1>2. depth = 0
  BY DEF Init, depth
<1> QED BY <1>1, <1>2 DEF Init, IInv, Shape, Owned, BeneficiaryMarked, WithinLimit

\* What every opcode of the top frame has in common, blocked or not.
OpStep ==
  /\ pc = "run" /\ pc' \in {"run", "init", "return"}
  /\ UNCHANGED <<spec, stack, answer, sender, disable_depth>>
  /\ call' \in [target : Account \cup {"control"}, scheme : Scheme]
  /\ halted' \in BOOLEAN /\ (halted' => pc' = "return")
  /\ accessed' \subseteq Class /\ accessed \subseteq accessed'
  /\ cap' \in Nat \cup {None}
  /\ usage' \in Nat /\ usage <= usage'
  /\ detained' \in Nat /\ detained' <= detained
  /\ cap # None => cap' # None /\ cap' <= cap
  /\ WithinLimit => WithinLimit'
  /\ pc' = "init" /\ call'.target = "beneficiary" => "Beneficiary" \in accessed'

\* An opcode wrapped by volatile_data_ext, blocked, executed or aborted, is an opcode step.
LEMMA GuardedIsOpStep ==
  ASSUME IInv, UNCHANGED spec, pc = "run", NEW volatile \in BOOLEAN, NEW class \in Class \cup {None},
         NEW next \in {"run", "return"}, Guarded(volatile, class, next)
  PROVE  OpStep
<1> USE DEF IInv
<1>0. ~halted /\ TypeOK
  BY DEF Shape
<1>1. CASE Blocked
  BY <1>1, <1>0 DEF Blocked, OpStep, TypeOK, tracker, gas, WithinLimit, tx_limit, Enabled, is_enabled
<1>2. CASE Executed(class, TRUE, next) /\ UNCHANGED call
  <2>1. ASSUME WithinLimit PROVE WithinLimit'
    BY <1>0, <1>2, ExecutedFacts DEF WithinLimit, Enabled, is_enabled
  <2> QED BY <1>0, <1>2, <2>1, ExecutedFacts, MarkFacts DEF OpStep, TypeOK
<1>3. CASE Aborted(class)
  <2>1. ASSUME WithinLimit PROVE WithinLimit'
    BY <1>3, <1>0, <2>1 DEF WithinLimit, Aborted, gas, tx_limit, Enabled, is_enabled
  <2> QED BY <1>0, <1>3, <2>1, MarkFacts DEF Aborted, OpStep, TypeOK, gas
<1> QED BY <1>1, <1>2, <1>3 DEF Guarded

\* A CALL-like opcode is an opcode step.
LEMMA CallOpIsOpStep ==
  ASSUME IInv, UNCHANGED spec, NEW target \in Account \cup {"control"}, NEW scheme \in Scheme,
         CallOp(target, scheme)
  PROVE  OpStep
<1> USE DEF IInv
<1>0. pc = "run" /\ ~halted /\ TypeOK
  BY DEF CallOp, Running, Shape
<1>1. OfBeneficiary(target) \in Class \cup {None}
  BY DEF OfBeneficiary, Class
<1>2. CASE Blocked
  BY <1>2, <1>0 DEF Blocked, OpStep, TypeOK, tracker, gas, WithinLimit, tx_limit, Enabled, is_enabled
<1>3. CASE /\ Executed(OfBeneficiary(target), FALSE, "init")
           /\ call' = [target |-> target, scheme |-> scheme]
  <2>1. ASSUME WithinLimit PROVE WithinLimit'
    BY <1>0, <1>1, <1>3, ExecutedFacts DEF WithinLimit, Enabled, is_enabled
  <2>2. /\ accessed' \subseteq Class /\ accessed \subseteq accessed'
        /\ cap' \in Nat \cup {None}
        /\ cap # None => cap' # None /\ cap' <= cap
        /\ target = "beneficiary" => "Beneficiary" \in accessed'
    BY <1>0, <1>1, <1>3, ExecutedFacts, MarkFacts, VolatileAssumption DEF OfBeneficiary, Class
  <2>3. /\ pc' \in {"init", "return"}
        /\ halted' \in BOOLEAN /\ (halted' => pc' = "return")
        /\ usage' \in Nat /\ usage <= usage'
        /\ detained' \in Nat /\ detained' <= detained
        /\ UNCHANGED <<stack, answer, sender, disable_depth>>
    BY <1>0, <1>1, <1>3, ExecutedFacts
  <2>4. call' \in [target : Account \cup {"control"}, scheme : Scheme]
        /\ call'.target = target
    BY <1>3
  <2> QED BY <1>0, <2>1, <2>2, <2>3, <2>4 DEF OpStep
<1>4. CASE Aborted(OfBeneficiary(target))
  <2>1. ASSUME WithinLimit PROVE WithinLimit'
    BY <1>4, <1>0, <2>1 DEF WithinLimit, Aborted, gas, tx_limit, Enabled, is_enabled
  <2> QED BY <1>0, <1>1, <1>4, <2>1, MarkFacts DEF Aborted, OpStep, TypeOK, gas
<1> QED BY <1>2, <1>3, <1>4 DEF CallOp

\* The opcodes of the top frame, as one action.
Opcode ==
  /\ UNCHANGED spec
  /\ \/ PlainOp \/ BlockEnvOp \/ SelfBalance \/ SLoad \/ EndFrame
     \/ \E t \in Account : AccountOp(t) \/ SelfDestruct(t)
     \/ \E t \in Account \cup {"control"}, s \in Scheme : CallOp(t, s)

\* An opcode with the compute gas wrapper only is an opcode step.
LEMMA UnguardedIsOpStep ==
  ASSUME IInv, UNCHANGED spec, pc = "run", NEW class \in Class \cup {None},
         Executed(class, FALSE, "run"), UNCHANGED call
  PROVE  OpStep
<1>0. ~halted /\ TypeOK
  BY DEF IInv, Shape
<1>1. ASSUME WithinLimit PROVE WithinLimit'
  BY <1>0, ExecutedFacts DEF WithinLimit, Enabled, is_enabled
<1> QED BY <1>0, <1>1, ExecutedFacts, MarkFacts DEF OpStep, TypeOK

\* Every opcode of the top frame is an opcode step.
LEMMA OpcodeIsOpStep ==
  ASSUME IInv, Opcode
  PROVE  OpStep
<1>0. UNCHANGED spec
  BY DEF Opcode
<1>1. CASE PlainOp
  BY <1>0, <1>1, UnguardedIsOpStep DEF PlainOp, Running
<1>2. CASE BlockEnvOp
  BY <1>0, <1>2, GuardedIsOpStep DEF BlockEnvOp, Running, Class
<1>3. CASE SelfBalance
  BY <1>0, <1>3, UnguardedIsOpStep DEF SelfBalance, Running, Class, OfBeneficiary
<1>4. CASE SLoad
  BY <1>0, <1>4, GuardedIsOpStep DEF SLoad, Running, Class
<1>5. CASE EndFrame
  BY <1>0, <1>5
     DEF EndFrame, Running, OpStep, IInv, TypeOK, Shape, tracker, gas, WithinLimit, tx_limit,
         Enabled, is_enabled
<1>6. ASSUME NEW t \in Account, AccountOp(t) \/ SelfDestruct(t) PROVE OpStep
  BY <1>0, <1>6, GuardedIsOpStep DEF AccountOp, SelfDestruct, Running, Class, OfBeneficiary
<1>7. ASSUME NEW t \in Account \cup {"control"}, NEW s \in Scheme, CallOp(t, s)
      PROVE  OpStep
  BY <1>0, <1>7, CallOpIsOpStep
<1> QED BY <1>1, <1>2, <1>3, <1>4, <1>5, <1>6, <1>7 DEF Opcode

-----------------------------------------------------------------------------
\* One opcode preserves the inductive invariant.
LEMMA OpcodeInv ==
  ASSUME IInv, OpStep
  PROVE  IInv'
<1> USE DEF IInv
<1>1. TypeOK'
  BY DEF OpStep, TypeOK
<1>2. Shape'
  BY DEF OpStep, Shape
<1>3. Owned'
  BY DEF OpStep, Owned, depth, Enabled, is_enabled
<1>4. BeneficiaryMarked'
  BY DEF OpStep, BeneficiaryMarked, depth
<1> QED BY <1>1, <1>2, <1>3, <1>4

\* on_new_tx re-establishes the invariant for the next transaction.
LEMMA OnNewTxInv ==
  ASSUME IInv, UNCHANGED spec, NEW s \in Sender, NEW to \in Account \cup {"control"},
         NEW i \in OpCosts, OnNewTx(s, to, i)
  PROVE  IInv' /\ WithinLimit'
<1> USE DEF IInv, OnNewTx
<1>1. TypeOK'
  <2>1. detained' \in Nat
    BY VolatileAssumption DEF TypeOK, reset_detained
  <2>2. call' \in [target : Account \cup {"control"}, scheme : Scheme]
    BY DEF Scheme
  <2>3. accessed' \subseteq Class
    BY DEF Class
  <2>4. cap' \in Nat \cup {None} /\ disable_depth' \in Nat \cup {None} /\ usage' \in Nat
    BY VolatileAssumption
  <2> QED BY <2>1, <2>2, <2>3, <2>4 DEF TypeOK, Answer
<1>2. Shape' /\ stack' = <<>>
  BY DEF Shape
<1>3. Owned'
  BY DEF Owned
<1>4. BeneficiaryMarked'
  BY <1>2 DEF BeneficiaryMarked, depth
<1>5. WithinLimit'
  BY <1>2 DEF WithinLimit
<1> QED BY <1>1, <1>2, <1>3, <1>4, <1>5

\* What frame_init does without interception.
LEMMA FrameInitFacts ==
  ASSUME IInv, NEW runs \in BOOLEAN, NEW c \in OpCosts \cup {0}, FrameInit(runs, c)
  PROVE  /\ accessed' \subseteq Class /\ accessed \subseteq accessed'
         /\ cap' \in Nat \cup {None}
         /\ cap # None => cap' # None /\ cap' <= cap
         /\ Enabled(REX3) => UNCHANGED <<accessed, cap, detained>>
         /\ detained' \in Nat /\ detained' <= detained
         /\ usage' \in Nat /\ usage <= usage'
         /\ halted' \in BOOLEAN
         /\ halted' = (usage' > MinOf(TxComputeLimit, detained'))
         /\ \/ /\ stack' = stack /\ pc' = IF stack = <<>> THEN "idle" ELSE "skip"
            \/ /\ pc' = "run" /\ ~halted'
               /\ \E a \in Account :
                    /\ stack' = Append(stack, a)
                    /\ a = call.target \/ (stack # <<>> /\ a = self)
<1> USE DEF IInv, FrameInit
<1>0. TypeOK /\ pc = "init" /\ ~halted
  BY DEF Shape
<1>1. /\ accessed' \subseteq Class /\ accessed \subseteq accessed'
      /\ cap' \in Nat \cup {None}
      /\ cap # None => cap' # None /\ cap' <= cap
      /\ OracleCall => cap' \in Nat
      /\ ~OracleCall => UNCHANGED <<accessed, cap>>
  <2>1. CASE OracleCall
    BY <1>0, <2>1, MarkFacts, VolatileAssumption DEF Class
  <2>2. CASE ~OracleCall
    BY <1>0, <2>2, MarkFacts
  <2> QED BY <2>1, <2>2
<1>2. detained' \in Nat /\ detained' <= detained
  BY <1>0, <1>1, DetainFacts DEF TypeOK
<1>3. Enabled(REX3) => ~OracleCall
  BY DEF OracleCall
<1>4. record_gas_used(c) \in Nat /\ usage <= record_gas_used(c)
      /\ (runs => record_gas_used(c) = usage)
  BY <1>0, VolatileAssumption DEF record_gas_used, TypeOK
<1>5. MinOf(TxComputeLimit, detained') \in Nat
  BY <1>2, VolatileAssumption, MinOfFacts
<1>6. CASE usage > MinOf(TxComputeLimit, detained')
  <2>1. halted' = TRUE /\ usage' = usage /\ stack' = stack
        /\ pc' = IF stack = <<>> THEN "idle" ELSE "skip"
    BY <1>6 DEF Skipped
  <2>2. halted' = (usage' > MinOf(TxComputeLimit, detained'))
    BY <1>6, <2>1
  <2> QED BY <1>0, <1>1, <1>2, <1>3, <2>1, <2>2 DEF TypeOK
<1>7. CASE ~(usage > MinOf(TxComputeLimit, detained'))
  <2>1. usage' = record_gas_used(c)
        /\ halted' = (usage' > MinOf(TxComputeLimit, detained'))
    BY <1>7
  <2>2. CASE ~runs
    BY <1>1, <1>2, <1>3, <1>4, <1>5, <1>7, <2>1, <2>2 DEF Skipped
  <2>3. CASE runs
    <3>1. ~halted'
      BY <1>4, <1>7, <2>1, <2>3
    <3>2. CASE call.scheme = "delegate"
      <4>1. stack # <<>> /\ self \in Account /\ stack' = Append(stack, self) /\ pc' = "run"
        BY <1>0, <1>7, <2>3, <3>2 DEF Shape, TypeOK, self, depth
      <4> QED BY <1>1, <1>2, <1>3, <1>4, <2>1, <3>1, <4>1
    <3>3. CASE call.scheme # "delegate"
      <4>1. call.target \in Account /\ stack' = Append(stack, call.target) /\ pc' = "run"
        BY <1>7, <2>3, <3>3
      <4> QED BY <1>1, <1>2, <1>3, <1>4, <2>1, <3>1, <4>1
    <3> QED BY <3>2, <3>3
  <2> QED BY <2>2, <2>3
<1> QED BY <1>6, <1>7

\* frame_init without interception keeps the invariant.
LEMMA FrameInitInv ==
  ASSUME IInv, UNCHANGED spec, NEW runs \in BOOLEAN, NEW c \in OpCosts \cup {0}, FrameInit(runs, c)
  PROVE  IInv' /\ WithinLimit'
<1> USE DEF IInv
<1>0. pc = "init" /\ UNCHANGED <<call, answer, sender, disable_depth>>
  BY DEF FrameInit
<1>1. WithinLimit'
  <2>1. tx_limit' = MinOf(TxComputeLimit, detained') /\ tx_limit' \in Nat
    BY FrameInitFacts, MinOfFacts, VolatileAssumption DEF tx_limit
  <2> QED BY <2>1, FrameInitFacts DEF WithinLimit
<1>2. CASE stack' = stack /\ pc' = IF stack = <<>> THEN "idle" ELSE "skip"
  <2>1. TypeOK'
    BY <1>0, <1>2, FrameInitFacts DEF TypeOK
  <2>2. Shape'
    BY <1>0, <1>2 DEF Shape
  <2>3. Owned'
    BY <1>0, <1>2 DEF Owned, depth, Enabled, is_enabled
  <2>4. BeneficiaryMarked'
    BY <1>0, <1>2, FrameInitFacts DEF BeneficiaryMarked, depth
  <2> QED BY <1>1, <2>1, <2>2, <2>3, <2>4
<1>3. CASE pc' = "run" /\ ~halted'
           /\ \E a \in Account : /\ stack' = Append(stack, a)
                                 /\ a = call.target \/ (stack # <<>> /\ a = self)
  <2>1. PICK a \in Account : /\ stack' = Append(stack, a)
                             /\ a = call.target \/ (stack # <<>> /\ a = self)
    BY <1>3
  <2>2. /\ stack \in Seq(Account) /\ stack' \in Seq(Account) /\ stack' # <<>>
        /\ Len(stack') = Len(stack) + 1 /\ Len(stack) \in Nat
        /\ \A d \in 1 .. Len(stack) : stack'[d] = stack[d]
        /\ stack'[Len(stack')] = a
    BY <2>1 DEF TypeOK
  <2>3. TypeOK'
    BY <1>0, <1>3, <2>2, FrameInitFacts DEF TypeOK
  <2>4. Shape'
    BY <1>0, <1>3, <2>2 DEF Shape
  <2>5. Owned'
    BY <1>0, <2>2 DEF Owned, depth, TypeOK, Enabled, is_enabled
  <2>6. BeneficiaryMarked'
    <3>1. accessed \subseteq accessed'
      BY FrameInitFacts
    <3>2. a = "beneficiary" => "Beneficiary" \in accessed
      BY <1>0, <2>1, <2>2 DEF BeneficiaryMarked, self, depth
    <3> QED BY <1>3, <2>2, <3>1, <3>2 DEF BeneficiaryMarked, depth
  <2> QED BY <1>1, <2>3, <2>4, <2>5, <2>6
<1> QED BY <1>2, <1>3, FrameInitFacts

\* How an intercepted call of MegaAccessControl changes the restriction.
LEMMA ControlFacts ==
  ASSUME IInv, NEW fn \in {"disable", "enable", "query"}, NEW v \in BOOLEAN, Control(fn, v)
  PROVE  /\ pc = "init" /\ Enabled(REX4)
         /\ pc' = IF stack = <<>> THEN "idle" ELSE "skip"
         /\ UNCHANGED <<stack, call, sender, halted, accessed, cap, usage, detained>>
         /\ answer' \in Answer
         /\ \/ UNCHANGED disable_depth
            \/ disable_depth' = None
               /\ (disable_depth # None => depth <= disable_depth)
            \/ disable_depth' = depth /\ (disable_depth # None => depth < disable_depth)
BY VolatileAssumption
   DEF Control, Skipped, ToControl, gas, Answer, IInv, TypeOK, disable_access,
       enable_access, depth

\* The calls of MegaAccessControl keep the invariant.
LEMMA ControlInv ==
  ASSUME IInv, UNCHANGED spec, NEW fn \in {"disable", "enable", "query"}, NEW v \in BOOLEAN, Control(fn, v)
  PROVE  IInv' /\ (WithinLimit => WithinLimit')
<1> USE DEF IInv
<1>0. Len(stack) \in Nat /\ (stack # <<>> => Len(stack) > 0)
  BY DEF TypeOK
<1>1. TypeOK'
  BY <1>0, ControlFacts DEF TypeOK, depth
<1>2. Shape'
  BY ControlFacts DEF Shape
<1>3. Owned'
  BY <1>0, ControlFacts DEF Owned, depth, TypeOK, Enabled, is_enabled
<1>4. BeneficiaryMarked'
  BY ControlFacts DEF BeneficiaryMarked, depth
<1>5. ASSUME WithinLimit PROVE WithinLimit'
  BY <1>5, ControlFacts DEF WithinLimit, tx_limit, Shape, Enabled, is_enabled
<1> QED BY <1>1, <1>2, <1>3, <1>4, <1>5

\* A sequence without its last element.
LEMMA ButLast ==
  ASSUME NEW S, NEW s \in Seq(S), s # <<>>
  PROVE  LET t == SubSeq(s, 1, Len(s) - 1)
         IN /\ t \in Seq(S)
            /\ Len(t) = Len(s) - 1
            /\ \A d \in 1 .. Len(t) : d \in 1 .. Len(s) /\ t[d] = s[d]
<1> DEFINE n == Len(s) - 1
           t == SubSeq(s, 1, n)
<1>1. n \in Nat /\ 1 \in Int /\ n \in Int /\ \A i \in 1 .. n : s[i] \in S
  OBVIOUS
<1> HIDE DEF n
<1>2. t \in Seq(S) /\ Len(t) = (IF 1 <= n THEN n - 1 + 1 ELSE 0)
      /\ \A i \in 1 .. n - 1 + 1 : t[i] = s[1 + i - 1]
  BY <1>1, SubSeqProperties
<1> HIDE DEF t
<1>3. Len(t) = n
  BY <1>1, <1>2
<1>4. \A d \in 1 .. n : t[d] = s[d]
  BY <1>1, <1>2
<1> QED BY <1>1, <1>2, <1>3, <1>4 DEF n, t

\* The stack a returning frame leaves behind.
LEMMA ReturnFacts ==
  ASSUME IInv, FrameReturn
  PROVE  /\ stack' \in Seq(Account)
         /\ Len(stack') \in Nat
         /\ pc = "return" => Len(stack') = Len(stack) - 1
         /\ pc = "skip" => stack' = stack
         /\ \A d \in 1 .. Len(stack') : d \in 1 .. Len(stack) /\ stack'[d] = stack[d]
         /\ stack' = <<>> <=> Len(stack') = 0
<1>1. stack \in Seq(Account) /\ stack # <<>> /\ Len(stack) \in Nat /\ Len(stack) > 0
  BY DEF IInv, TypeOK, Shape, FrameReturn
<1>2. CASE pc = "return"
  <2>1. stack' = SubSeq(stack, 1, Len(stack) - 1)
    BY <1>2 DEF FrameReturn, depth
  <2>2. /\ stack' \in Seq(Account)
        /\ Len(stack') = Len(stack) - 1
        /\ \A d \in 1 .. Len(stack') : d \in 1 .. Len(stack) /\ stack'[d] = stack[d]
    BY <1>1, <2>1, ButLast, Zenon
  <2> QED BY <1>1, <1>2, <2>2
<1>3. CASE pc # "return"
  BY <1>1, <1>3 DEF FrameReturn
<1> QED BY <1>2, <1>3

\* frame_return_result keeps the invariant: the restriction of a frame that is gone is lifted.
LEMMA FrameReturnInv ==
  ASSUME IInv, UNCHANGED spec, FrameReturn
  PROVE  IInv' /\ (WithinLimit => WithinLimit')
<1> USE DEF IInv
<1>1. TypeOK'
  BY ReturnFacts DEF FrameReturn, TypeOK, Answer, enable_access_if_returning, gas
<1>2. Shape'
  <2>1. CASE stack' = <<>>
    BY <2>1 DEF FrameReturn, Shape
  <2>2. CASE stack' # <<>> /\ halted
    BY <2>2 DEF FrameReturn, Shape
  <2>3. CASE stack' # <<>> /\ ~halted
    BY <2>3 DEF FrameReturn, Shape
  <2> QED BY <2>1, <2>2, <2>3
<1>3. Owned'
  <2>1. CASE Enabled(REX4)
    BY <2>1, ReturnFacts
       DEF FrameReturn, Owned, TypeOK, enable_access_if_returning, depth, Enabled, is_enabled
  <2>2. CASE ~Enabled(REX4)
    BY <2>2 DEF FrameReturn, Owned, Enabled, is_enabled
  <2> QED BY <2>1, <2>2
<1>4. BeneficiaryMarked'
  BY ReturnFacts DEF FrameReturn, BeneficiaryMarked, depth
<1>5. ASSUME WithinLimit PROVE WithinLimit'
  BY <1>5 DEF FrameReturn, WithinLimit, tx_limit, gas, Enabled, is_enabled
<1> QED BY <1>1, <1>2, <1>3, <1>4, <1>5

-----------------------------------------------------------------------------
\* Every step keeps the invariant.
LEMMA NextInv ==
  ASSUME IInv, [Next]_vars
  PROVE  IInv' /\ (WithinLimit => WithinLimit')
<1>0. UNCHANGED spec
  BY DEF Next, vars
<1>1. CASE UNCHANGED vars
  BY <1>1 DEF vars, tracker, gas, IInv, TypeOK, Shape, Owned, BeneficiaryMarked,
              WithinLimit, depth, tx_limit, Enabled, is_enabled
<1>2. CASE Opcode
  BY <1>2, OpcodeIsOpStep, OpcodeInv DEF OpStep
<1>3. CASE \E s \in Sender, to \in Account \cup {"control"}, i \in OpCosts : OnNewTx(s, to, i)
  BY <1>0, <1>3, OnNewTxInv
<1>4. CASE \E runs \in BOOLEAN, c \in OpCosts \cup {0} : FrameInit(runs, c)
  BY <1>0, <1>4, FrameInitInv
<1>5. CASE \E fn \in {"disable", "enable", "query"}, v \in BOOLEAN : Control(fn, v)
  BY <1>0, <1>5, ControlInv
<1>6. CASE FrameReturn
  BY <1>0, <1>6, FrameReturnInv
<1> QED BY <1>0, <1>1, <1>2, <1>3, <1>4, <1>5, <1>6 DEF Next, Opcode

\* The inductive invariant holds in every reachable state, in every version.
THEOREM Invariance == Spec => [](IInv /\ WithinLimit)
<1>1. Init => IInv /\ WithinLimit
  BY InitInv
<1>2. (IInv /\ WithinLimit) /\ [Next]_vars => (IInv /\ WithinLimit)'
  BY NextInv
<1> QED BY <1>1, <1>2, PTL DEF Spec

\* Every variable of the tracker, the detention and the frame loop keeps its type.
THEOREM TypeCorrect == Spec => []TypeOK
<1>1. IInv /\ WithinLimit => TypeOK
  BY DEF IInv
<1> QED BY <1>1, Invariance, PTL

\* A restriction never outlives the frame that called disableVolatileDataAccess.
THEOREM RestrictionOwned == Spec => []RestrictionHasLiveOwner
<1>1. IInv /\ WithinLimit => RestrictionHasLiveOwner
  BY DEF IInv, Owned, RestrictionHasLiveOwner, TypeOK, depth
<1> QED BY <1>1, Invariance, PTL

\* From Rex4 on detention never leaves a running frame past its limit.
THEOREM NoRetroactiveHalt == Spec => []RunsWithinLimit
<1>1. IInv /\ WithinLimit => RunsWithinLimit
  BY DEF IInv, Shape, WithinLimit, RunsWithinLimit
<1> QED BY <1>1, Invariance, PTL

-----------------------------------------------------------------------------
\* Inside a transaction the tracked accesses and the usage only grow, and the cap
\* and the detained limit only shrink, frames that revert included.
THEOREM Tightening == Spec => OnlyTightens
<1> DEFINE Tight == /\ accessed \subseteq accessed'
                    /\ usage <= usage'
                    /\ detained' <= detained
                    /\ cap # None => cap' # None /\ cap' <= cap
<1>1. ASSUME IInv, [Next]_vars, pc # "idle" PROVE Tight
  <2>1. CASE UNCHANGED <<accessed, usage, detained, cap>>
    BY <1>1, <2>1 DEF IInv, TypeOK
  <2>2. CASE Opcode
    BY <1>1, <2>2, OpcodeIsOpStep DEF OpStep
  <2>3. CASE \E runs \in BOOLEAN, c \in OpCosts \cup {0} : FrameInit(runs, c)
    BY <1>1, <2>3, FrameInitFacts
  <2>4. CASE \E fn \in {"disable", "enable", "query"}, v \in BOOLEAN : Control(fn, v)
    BY <1>1, <2>1, <2>4, ControlFacts
  <2>5. CASE FrameReturn
    BY <1>1, <2>1, <2>5 DEF FrameReturn, gas
  <2>6. CASE \E s \in Sender, to \in Account \cup {"control"}, i \in OpCosts : OnNewTx(s, to, i)
    BY <1>1, <2>6 DEF OnNewTx
  <2>7. CASE UNCHANGED vars
    BY <2>1, <2>7 DEF vars, tracker, gas
  <2> QED BY <1>1, <2>2, <2>3, <2>4, <2>5, <2>6, <2>7 DEF Next, Opcode
<1>2. IInv /\ [Next]_vars => [pc # "idle" => Tight]_vars
  BY <1>1
<1> QED BY <1>2, Invariance, PTL DEF Spec, OnlyTightens

-----------------------------------------------------------------------------
\* Every opcode marks one class of data, or nothing.
LEMMA OpcodeMarks ==
  ASSUME IInv, Opcode
  PROVE  \E c \in Class \cup {None} : Mark(c)
<1>0. pc = "run" /\ ~halted /\ TypeOK
  BY OpcodeIsOpStep DEF OpStep, IInv, Shape
<1>1. ASSUME UNCHANGED tracker PROVE Mark(None)
  BY <1>1 DEF Mark, tracker
<1>2. ASSUME NEW c \in Class \cup {None}, NEW v \in BOOLEAN, NEW n \in {"run", "return"},
             Guarded(v, c, n)
      PROVE  Mark(c) \/ Mark(None)
  BY <1>0, <1>1, <1>2 DEF Guarded, Blocked, Executed, Aborted
<1>3. CASE PlainOp \/ SelfBalance
  BY <1>3 DEF PlainOp, SelfBalance, Executed, OfBeneficiary, Class
<1>4. CASE BlockEnvOp
  BY <1>2, <1>4 DEF BlockEnvOp, Class
<1>5. CASE SLoad
  BY <1>2, <1>5 DEF SLoad, Class
<1>6. CASE EndFrame
  BY <1>1, <1>6 DEF EndFrame
<1>7. ASSUME NEW t \in Account, AccountOp(t) \/ SelfDestruct(t)
      PROVE  \E c \in Class \cup {None} : Mark(c)
  BY <1>2, <1>7 DEF AccountOp, SelfDestruct, OfBeneficiary, Class
<1>8. ASSUME NEW t \in Account \cup {"control"}, NEW s \in Scheme, CallOp(t, s)
      PROVE  \E c \in Class \cup {None} : Mark(c)
  BY <1>1, <1>8 DEF CallOp, Blocked, Executed, Aborted, OfBeneficiary, Class
<1> QED BY <1>3, <1>4, <1>5, <1>6, <1>7, <1>8 DEF Opcode

\* One more access leaves the cap the one of all classes accessed.
LEMMA MarkKeepsCap ==
  ASSUME TypeOK, CapIsOrderIndependent, NEW c \in Class \cup {None}, Mark(c)
  PROVE  CapIsOrderIndependent'
<1>1. CASE c = None
  BY <1>1 DEF Mark, CapIsOrderIndependent
<1>2. CASE c # None
  <2>1. /\ c \in Class /\ accessed \subseteq Class /\ accessed' = accessed \cup {c}
        /\ cap' = IF cap = None THEN ClassCap(c) ELSE MinOf(cap, ClassCap(c))
    BY <1>2 DEF Mark, apply_or_create_limit, TypeOK
  <2>2. OracleCap \in Nat /\ BlockEnvCap \in Nat /\ None # OracleCap /\ None # BlockEnvCap
    BY VolatileAssumption
  <2>3. CASE accessed = {}
    BY <2>1, <2>2, <2>3 DEF CapIsOrderIndependent, ClassCap, Class
  <2>4. CASE accessed = {"Oracle"}
    <3>1. cap = OracleCap
      BY <2>4 DEF CapIsOrderIndependent
    <3>2. CASE c = "Oracle"
      BY <2>1, <2>2, <2>4, <3>1, <3>2 DEF CapIsOrderIndependent, ClassCap, MinOf
    <3>3. CASE c # "Oracle"
      BY <2>1, <2>2, <2>4, <3>1, <3>3 DEF CapIsOrderIndependent, ClassCap
    <3> QED BY <3>2, <3>3
  <2>5. CASE "Oracle" \in accessed /\ accessed # {"Oracle"}
    <3>1. cap = MinOf(OracleCap, BlockEnvCap)
      BY <2>5 DEF CapIsOrderIndependent
    <3>2. cap # None /\ cap' = MinOf(cap, ClassCap(c)) /\ ClassCap(c) \in {OracleCap, BlockEnvCap}
      BY <2>1, <2>2, <3>1 DEF MinOf, ClassCap
    <3>3. cap' = MinOf(OracleCap, BlockEnvCap)
      BY <2>2, <3>1, <3>2 DEF MinOf
    <3>4. "Oracle" \in accessed' /\ accessed' # {"Oracle"} /\ accessed' # {}
      BY <2>1, <2>5
    <3> QED BY <3>3, <3>4 DEF CapIsOrderIndependent
  <2>6. CASE "Oracle" \notin accessed /\ accessed # {}
    <3>1. cap = BlockEnvCap
      BY <2>6 DEF CapIsOrderIndependent
    <3>2. CASE c = "Oracle"
      <4>1. cap' = MinOf(OracleCap, BlockEnvCap)
        BY <2>1, <2>2, <3>1, <3>2 DEF MinOf, ClassCap
      <4>2. "Oracle" \in accessed' /\ accessed' # {"Oracle"} /\ accessed' # {}
        BY <2>1, <2>6, <3>2
      <4> QED BY <4>1, <4>2 DEF CapIsOrderIndependent
    <3>3. CASE c # "Oracle"
      <4>1. cap' = BlockEnvCap
        BY <2>1, <2>2, <3>1, <3>3 DEF MinOf, ClassCap
      <4>2. "Oracle" \notin accessed' /\ accessed' # {} /\ accessed' # {"Oracle"}
        BY <2>1, <2>6, <3>3
      <4> QED BY <4>1, <4>2 DEF CapIsOrderIndependent
    <3> QED BY <3>2, <3>3
  <2> QED BY <2>3, <2>4, <2>5, <2>6
<1> QED BY <1>1, <1>2

\* The cap of a transaction is a function of the set of classes it accessed: the order of the
\* accesses, and the frames that made them and reverted, make no difference.
THEOREM CapIgnoresOrder == Spec => []CapIsOrderIndependent
<1>1. Init => CapIsOrderIndependent
  BY DEF Init, CapIsOrderIndependent
<1>2. ASSUME IInv, CapIsOrderIndependent, [Next]_vars PROVE CapIsOrderIndependent'
  <2>0. TypeOK
    BY <1>2 DEF IInv
  <2>1. CASE UNCHANGED <<accessed, cap>>
    BY <1>2, <2>1 DEF CapIsOrderIndependent
  <2>2. CASE Opcode
    BY <1>2, <2>0, <2>2, OpcodeMarks, MarkKeepsCap
  <2>3. CASE \E s \in Sender, to \in Account \cup {"control"}, i \in OpCosts : OnNewTx(s, to, i)
    BY <2>3 DEF OnNewTx, CapIsOrderIndependent
  <2>4. CASE \E runs \in BOOLEAN, c \in OpCosts \cup {0} : FrameInit(runs, c)
    BY <1>2, <2>0, <2>4, MarkKeepsCap DEF FrameInit, Class
  <2>5. CASE \E fn \in {"disable", "enable", "query"}, v \in BOOLEAN : Control(fn, v)
    BY <2>1, <2>5 DEF Control
  <2>6. CASE FrameReturn
    BY <2>1, <2>6 DEF FrameReturn
  <2>7. CASE UNCHANGED vars
    BY <2>1, <2>7 DEF vars, tracker
  <2> QED BY <1>2, <2>2, <2>3, <2>4, <2>5, <2>6, <2>7 DEF Next, Opcode
<1> QED BY <1>1, <1>2, Invariance, PTL DEF Spec

-----------------------------------------------------------------------------
\* What the interceptor answers is true of the tracker it leaves behind.
LEMMA ControlAnswers ==
  ASSUME IInv, NEW fn \in {"disable", "enable", "query"}, NEW v \in BOOLEAN, Control(fn, v)
  PROVE  AnswersAreHonest'
<1>1. /\ depth' = depth /\ depth \in Nat /\ disable_depth \in Nat \cup {None} /\ None \notin Nat
  BY VolatileAssumption, ControlFacts DEF IInv, TypeOK, depth
<1>2. CASE answer' = "rejected"
  BY <1>2 DEF AnswersAreHonest
<1>3. CASE disable_depth' = disable_access(depth) /\ answer' = "disabled"
  BY <1>1, <1>3 DEF AnswersAreHonest, disable_access, volatile_access_disabled
<1>4. CASE /\ disable_depth' = enable_access(depth).depth
           /\ answer' = IF enable_access(depth).ok THEN "enabled" ELSE "denied"
  <2>1. CASE disable_depth = None \/ depth <= disable_depth
    <3>1. enable_access(depth).ok = TRUE /\ enable_access(depth).depth = None
      BY <1>1, <2>1 DEF enable_access
    <3> QED BY <1>4, <3>1 DEF AnswersAreHonest, volatile_access_disabled
  <2>2. CASE ~(disable_depth = None \/ depth <= disable_depth)
    <3>1. enable_access(depth).ok = FALSE /\ enable_access(depth).depth = disable_depth
      BY <1>1, <2>2 DEF enable_access
    <3> QED BY <1>1, <1>4, <2>2, <3>1 DEF AnswersAreHonest, volatile_access_disabled
  <2> QED BY <2>1, <2>2
<1>5. CASE /\ answer' = IF volatile_access_disabled(depth) THEN "yes" ELSE "no"
           /\ UNCHANGED disable_depth
  BY <1>1, <1>5 DEF AnswersAreHonest, volatile_access_disabled
<1> QED BY <1>2, <1>3, <1>4, <1>5 DEF Control

\* The answer a caller receives describes its own frame at the moment it gets it: nothing happens
\* to the tracker between the interceptor and the return of the frame that never ran.
THEOREM HonestAnswers == Spec => []AnswersAreHonest
<1>1. Init => AnswersAreHonest
  BY DEF Init, AnswersAreHonest
<1>2. ASSUME IInv, AnswersAreHonest, [Next]_vars PROVE AnswersAreHonest'
  <2>1. CASE pc' # "skip" \/ answer' = "none"
    BY <2>1 DEF AnswersAreHonest
  <2>2. CASE Opcode
    BY <1>2, <2>1, <2>2, OpcodeIsOpStep DEF OpStep
  <2>3. CASE \E s \in Sender, to \in Account \cup {"control"}, i \in OpCosts : OnNewTx(s, to, i)
    BY <2>1, <2>3 DEF OnNewTx
  <2>4. CASE \E runs \in BOOLEAN, c \in OpCosts \cup {0} : FrameInit(runs, c)
    BY <1>2, <2>1, <2>4 DEF FrameInit, IInv, Shape
  <2>5. CASE \E fn \in {"disable", "enable", "query"}, v \in BOOLEAN : Control(fn, v)
    BY <1>2, <2>5, ControlAnswers
  <2>6. CASE FrameReturn
    BY <2>1, <2>6 DEF FrameReturn
  <2>7. CASE UNCHANGED vars
    BY <1>2, <2>7 DEF vars, tracker, AnswersAreHonest, volatile_access_disabled, depth
  <2> QED BY <1>2, <2>2, <2>3, <2>4, <2>5, <2>6, <2>7 DEF Next, Opcode
<1> QED BY <1>1, <1>2, Invariance, PTL DEF Spec

-----------------------------------------------------------------------------
\* The detained limit is untouched, or the cap of this transaction was applied to it.
Detains ==
  \/ UNCHANGED detained
  \/ cap' # None /\ \E u \in Nat : detained' = set_detained_limit(cap', u)

\* Only an opcode that runs applies the cap.
LEMMA OpcodeDetains ==
  ASSUME IInv, Opcode
  PROVE  Detains
<1>0. TypeOK
  BY DEF IInv
<1>1. ASSUME UNCHANGED gas PROVE Detains
  BY <1>1 DEF gas, Detains
<1>2. ASSUME NEW c \in Class \cup {None}, NEW d \in BOOLEAN, NEW n \in {"run", "init", "return"},
             Executed(c, d, n)
      PROVE  Detains
  BY <1>0, <1>2, VolatileAssumption DEF Executed, Detains, record_gas_used, TypeOK
<1>3. ASSUME NEW c \in Class \cup {None}, NEW v \in BOOLEAN, NEW n \in {"run", "return"},
             Guarded(v, c, n)
      PROVE  Detains
  BY <1>1, <1>2, <1>3 DEF Guarded, Blocked, Aborted
<1>4. CASE PlainOp \/ SelfBalance
  BY <1>2, <1>4 DEF PlainOp, SelfBalance, OfBeneficiary, Class
<1>5. CASE BlockEnvOp
  BY <1>3, <1>5 DEF BlockEnvOp, Class
<1>6. CASE SLoad
  BY <1>3, <1>6 DEF SLoad, Class
<1>7. CASE EndFrame
  BY <1>1, <1>7 DEF EndFrame
<1>8. ASSUME NEW t \in Account, AccountOp(t) \/ SelfDestruct(t) PROVE Detains
  BY <1>3, <1>8 DEF AccountOp, SelfDestruct, OfBeneficiary, Class
<1>9. ASSUME NEW t \in Account \cup {"control"}, NEW s \in Scheme, CallOp(t, s) PROVE Detains
  BY <1>1, <1>2, <1>9 DEF CallOp, Blocked, Aborted, OfBeneficiary, Class
<1> QED BY <1>4, <1>5, <1>6, <1>7, <1>8, <1>9 DEF Opcode

\* However the cap is applied, it leaves the transaction what its own accesses allow.
LEMMA DetainsKeepsEntitlement ==
  ASSUME Enabled(REX1), IInv, IInv', CapIsOrderIndependent, CapIsOrderIndependent',
         DetainedByOwnReads, cap # None => cap' # None /\ cap' <= cap, Detains
  PROVE  DetainedByOwnReads'
<1>1. /\ cap \in Nat \cup {None} /\ cap' \in Nat \cup {None} /\ detained \in Nat
      /\ TxComputeLimit \in Nat /\ None \notin Nat
  BY VolatileAssumption DEF IInv, TypeOK
<1>2. (accessed = {} <=> cap = None) /\ (accessed' = {} <=> cap' = None)
  BY VolatileAssumption DEF CapIsOrderIndependent, MinOf
<1>3. CASE UNCHANGED detained
  BY <1>1, <1>2, <1>3 DEF DetainedByOwnReads, MinOf
<1>4. ASSUME NEW u \in Nat, cap' # None, detained' = set_detained_limit(cap', u)
      PROVE  DetainedByOwnReads'
  <2>1. PICK l \in Nat : l >= cap' /\ detained' = MinOf(detained, l)
    BY <1>1, <1>4 DEF set_detained_limit
  <2>2. detained >= MinOf(TxComputeLimit, cap')
    <3>1. CASE cap = None
      BY <1>1, <1>2, <1>4, <3>1 DEF DetainedByOwnReads, MinOf
    <3>2. CASE cap # None
      BY <1>1, <1>2, <1>4, <3>2 DEF DetainedByOwnReads, MinOf
    <3> QED BY <3>1, <3>2
  <2>3. detained' >= MinOf(TxComputeLimit, cap')
    BY <1>1, <1>4, <2>1, <2>2 DEF MinOf
  <2> QED BY <1>2, <1>4, <2>3 DEF DetainedByOwnReads
<1> QED BY <1>3, <1>4 DEF Detains

\* From Rex1 on no step of a transaction is under a limit that its own accesses do not explain:
\* on_new_tx leaves nothing of the transactions before, and only a cap of this one is applied.
THEOREM OwnReadsDetain == Spec => []DetainedByOwnReads
<1>1. Init => DetainedByOwnReads
  BY DEF Init, DetainedByOwnReads
<1>2. ASSUME IInv, IInv', CapIsOrderIndependent, CapIsOrderIndependent', DetainedByOwnReads,
             [Next]_vars
      PROVE  DetainedByOwnReads'
  <2>0. UNCHANGED spec
    BY <1>2 DEF Next, vars
  <2> SUFFICES ASSUME Enabled(REX1) PROVE DetainedByOwnReads'
    BY <2>0 DEF DetainedByOwnReads, Enabled, is_enabled
  <2>1. ASSUME cap # None => cap' # None /\ cap' <= cap, Detains PROVE DetainedByOwnReads'
    BY <1>2, <2>1, DetainsKeepsEntitlement
  <2>2. CASE Opcode
    BY <1>2, <2>1, <2>2, OpcodeIsOpStep, OpcodeDetains DEF OpStep
  <2>3. CASE \E s \in Sender, to \in Account \cup {"control"}, i \in OpCosts : OnNewTx(s, to, i)
    BY <2>3, VolatileAssumption DEF OnNewTx, DetainedByOwnReads, reset_detained, MinOf
  <2>4. CASE \E runs \in BOOLEAN, c \in OpCosts \cup {0} : FrameInit(runs, c)
    <3>1. PICK runs \in BOOLEAN, c \in OpCosts \cup {0} : FrameInit(runs, c)
      BY <2>4
    <3>2. cap # None => cap' # None /\ cap' <= cap
      BY <1>2, <3>1, FrameInitFacts
    <3>3. CASE OracleCall
      <4>1. cap' # None
        BY <1>2, <3>1, <3>3, MarkFacts, VolatileAssumption DEF FrameInit, Class, IInv
      <4>2. detained' = set_detained_limit(cap', usage) /\ usage \in Nat
        BY <1>2, <3>1, <3>3 DEF FrameInit, IInv, TypeOK
      <4> QED BY <2>1, <3>2, <4>1, <4>2 DEF Detains
    <3>4. CASE ~OracleCall
      BY <2>1, <3>1, <3>2, <3>4 DEF FrameInit, Detains
    <3> QED BY <3>3, <3>4
  <2>5. CASE UNCHANGED <<accessed, cap, detained>>
    BY <2>5, <1>2 DEF DetainedByOwnReads
  <2>6. CASE \E fn \in {"disable", "enable", "query"}, v \in BOOLEAN : Control(fn, v)
    BY <2>5, <2>6 DEF Control, gas
  <2>7. CASE FrameReturn
    BY <2>5, <2>7 DEF FrameReturn, gas
  <2>8. CASE UNCHANGED vars
    BY <2>5, <2>8 DEF vars, tracker, gas
  <2> QED BY <1>2, <2>2, <2>3, <2>4, <2>6, <2>7, <2>8 DEF Next, Opcode
<1> QED BY <1>1, <1>2, Invariance, CapIgnoresOrder, PTL DEF Spec

-----------------------------------------------------------------------------
\* The transaction is one of the mega system address to the oracle itself.
SystemOracle == stack[1] = "oracle" /\ sender = "system"

\* A frame of the oracle on the stack, in whatever phase, has detained the transaction.
OracleDetained ==
  /\ Enabled(REX) /\ ~Enabled(REX3)
  /\ \E d \in 1 .. depth : stack[d] = "oracle"
  /\ ~SystemOracle
  => detained <= OracleCap

\* frame_init puts a frame of the oracle on the stack only behind the detention.
LEMMA FrameInitDetains ==
  ASSUME Enabled(REX), ~Enabled(REX3), Enabled(MINI_REX), ~Enabled(REX4),
         IInv, OracleDetained, CapIsOrderIndependent, CapIsOrderIndependent',
         NEW runs \in BOOLEAN, NEW c \in OpCosts \cup {0}, FrameInit(runs, c)
  PROVE  OracleDetained'
<1>1. /\ stack \in Seq(Account) /\ Len(stack) \in Nat /\ detained \in Nat /\ detained' \in Nat
      /\ detained' <= detained /\ OracleCap \in Nat /\ BlockEnvCap \in Nat
      /\ pc = "init" /\ sender' = sender /\ (stack = <<>> => call.scheme = "call")
      /\ call.scheme \in Scheme
  <2>1. /\ stack \in Seq(Account) /\ detained \in Nat /\ OracleCap \in Nat /\ BlockEnvCap \in Nat
        /\ call.scheme \in Scheme
    BY VolatileAssumption DEF IInv, TypeOK
  <2>2. pc = "init" /\ sender' = sender
    BY DEF FrameInit
  <2>3. detained' \in Nat /\ detained' <= detained
    BY FrameInitFacts
  <2> QED BY <2>1, <2>2, <2>3 DEF IInv, Shape
<1>2. CASE stack' = stack
  BY <1>1, <1>2 DEF OracleDetained, SystemOracle, depth
<1>3. CASE stack' # stack
  <2>1. stack' = Append(stack, IF call.scheme = "delegate" THEN self ELSE call.target)
        /\ call.target \in Account
    BY <1>3 DEF FrameInit, Skipped
  <2> DEFINE a == IF call.scheme = "delegate" THEN self ELSE call.target
  <2>2. a \in Account
    BY <1>1, <2>1 DEF self, depth
  <2> HIDE DEF a
  <2>3. /\ Len(stack') = Len(stack) + 1 /\ stack'[Len(stack) + 1] = a
        /\ \A d \in 1 .. Len(stack) : stack'[d] = stack[d]
        /\ stack # <<>> => Len(stack) >= 1
    BY <1>1, <2>1, <2>2 DEF a
  <2> SUFFICES ASSUME \E d \in 1 .. depth' : stack'[d] = "oracle", ~SystemOracle'
               PROVE  detained' <= OracleCap
    BY DEF OracleDetained
  <2>4. CASE \E d \in 1 .. Len(stack) : stack[d] = "oracle"
    <3>1. stack'[1] = stack[1] /\ ~SystemOracle
      BY <1>1, <2>3, <2>4 DEF SystemOracle
    <3> QED BY <1>1, <2>4, <3>1 DEF OracleDetained, depth
  <2>5. CASE ~\E d \in 1 .. Len(stack) : stack[d] = "oracle"
    <3>1. a = "oracle"
      BY <1>1, <2>3, <2>5 DEF depth
    <3>2. call.scheme # "delegate" /\ call.target = "oracle"
      <4>1. CASE call.scheme = "delegate"
        BY <1>1, <2>3, <2>5, <3>1, <4>1 DEF a, self, depth
      <4> QED BY <3>1, <4>1 DEF a
    <3>3. ~(stack = <<>> /\ sender = "system")
      BY <1>1, <2>3, <3>1 DEF SystemOracle
    <3>4. OracleCall
      BY <1>1, <3>2, <3>3 DEF OracleCall, Scheme
    <3>5. Mark("Oracle") /\ detained' = set_detained_limit(cap', usage)
      BY <3>4 DEF FrameInit
    <3>6. "Oracle" \in accessed'
      BY <3>5, VolatileAssumption DEF Mark, Class
    <3>7. cap' \in Nat /\ cap' <= OracleCap
      BY <1>1, <3>6 DEF CapIsOrderIndependent, MinOf
    <3> QED BY <1>1, <3>5, <3>7 DEF set_detained_limit, MinOf
  <2> QED BY <2>4, <2>5
<1> QED BY <1>2, <1>3

\* In the versions that detain for calls of the oracle, code of the oracle never runs undetained,
\* however deep it is called, by CALL or STATICCALL.
THEOREM OracleIsDetained == Spec => []OracleRunsDetained
<1>1. Init => OracleDetained
  BY DEF Init, OracleDetained, depth
<1>2. ASSUME IInv, CapIsOrderIndependent, CapIsOrderIndependent', OracleDetained, [Next]_vars
      PROVE  OracleDetained'
  <2>0. detained \in Nat /\ OracleCap \in Nat /\ stack \in Seq(Account)
    BY <1>2, VolatileAssumption DEF IInv, TypeOK
  <2>a. UNCHANGED spec
    BY <1>2 DEF Next, vars
  <2> SUFFICES ASSUME Enabled(REX), ~Enabled(REX3) PROVE OracleDetained'
    BY <2>a DEF OracleDetained, Enabled, is_enabled
  <2>b. Enabled(MINI_REX) /\ ~Enabled(REX4)
    BY <1>2, VolatileAssumption
       DEF IInv, TypeOK, Enabled, is_enabled, MegaSpecId, EQUIVALENCE, MINI_REX, REX, REX3, REX4
  <2>1. CASE UNCHANGED <<stack, sender>> /\ detained' \in Nat /\ detained' <= detained
    BY <1>2, <2>0, <2>1 DEF OracleDetained, SystemOracle, depth
  <2>2. CASE Opcode
    BY <1>2, <2>1, <2>2, OpcodeIsOpStep DEF OpStep
  <2>3. CASE \E s \in Sender, to \in Account \cup {"control"}, i \in OpCosts : OnNewTx(s, to, i)
    BY <1>2, <2>3 DEF OnNewTx, OracleDetained, IInv, Shape, depth
  <2>4. CASE \E runs \in BOOLEAN, c \in OpCosts \cup {0} : FrameInit(runs, c)
    BY <1>2, <2>b, <2>4, FrameInitDetains
  <2>5. CASE \E fn \in {"disable", "enable", "query"}, v \in BOOLEAN : Control(fn, v)
    BY <1>2, <2>0, <2>1, <2>5, ControlFacts
  <2>6. CASE FrameReturn
    <3>1. /\ Len(stack') \in Nat /\ Len(stack) \in Nat /\ UNCHANGED <<sender, detained>>
          /\ \A d \in 1 .. Len(stack') : d \in 1 .. Len(stack) /\ stack'[d] = stack[d]
      BY <1>2, <2>0, <2>6, ReturnFacts DEF FrameReturn, gas
    <3> QED BY <1>2, <2>0, <3>1 DEF OracleDetained, SystemOracle, depth
  <2>7. CASE UNCHANGED vars
    BY <2>0, <2>1, <2>7 DEF vars, gas
  <2> QED BY <1>2, <2>2, <2>3, <2>4, <2>5, <2>6, <2>7 DEF Next, Opcode
<1>3. OracleDetained => OracleRunsDetained
  BY DEF OracleDetained, OracleRunsDetained, SystemOracle
<1> QED BY <1>1, <1>2, <1>3, Invariance, CapIgnoresOrder, PTL DEF Spec

-----------------------------------------------------------------------------
(* VolatileAccess implements AccessScope *)

\* What the restriction of a frame is in terms of the disable depth.
LEMMA ScopeFacts ==
  ASSUME TypeOK
  PROVE  /\ RestrictedAt \in Seq(BOOLEAN)
         /\ Len(RestrictedAt) = Len(stack)
         /\ Len(stack) \in Nat
         /\ RestrictedAt = <<>> <=> stack = <<>>
         /\ \A d \in 1 .. Len(stack) : RestrictedAt[d] = volatile_access_disabled(d)
<1>1. Len(stack) \in Nat /\ (stack = <<>> <=> Len(stack) = 0)
  BY DEF TypeOK
<1>2. \A d \in 1 .. Len(stack) : volatile_access_disabled(d) \in BOOLEAN
  BY DEF volatile_access_disabled
<1>3. RestrictedAt \in Seq(BOOLEAN) /\ Len(RestrictedAt) = Len(stack)
  BY <1>1, <1>2 DEF RestrictedAt, depth
<1> QED BY <1>1, <1>2, <1>3 DEF RestrictedAt, depth

\* A restricted frame leaves the tracker alone; a free one adds one class.
LEMMA OpcodeReads ==
  ASSUME IInv, Opcode
  PROVE  \/ UNCHANGED accessed
         \/ /\ ~volatile_access_disabled(depth)
            /\ \E c \in Class : accessed' = accessed \cup {c}
<1> DEFINE Reads == \/ UNCHANGED accessed
                    \/ /\ ~volatile_access_disabled(depth)
                       /\ \E c \in Class : accessed' = accessed \cup {c}
<1>0. TypeOK /\ pc = "run" /\ ~halted /\ stack # <<>>
  BY OpcodeIsOpStep DEF OpStep, IInv, Shape
<1>1. ASSUME NEW v \in BOOLEAN, NEW c \in Class \cup {None}, NEW n \in {"run", "return"},
             c # None => v, Guarded(v, c, n)
      PROVE  Reads
  <2>1. CASE Blocked
    BY <2>1 DEF Blocked, tracker
  <2>2. CASE Mark(c) /\ (v => ~volatile_access_disabled(depth))
    BY <1>0, <1>1, <2>2, MarkFacts
  <2>3. Blocked \/ (Mark(c) /\ (v => ~volatile_access_disabled(depth)))
    BY <1>0, <1>1, ExecutedFacts DEF Guarded, Aborted
  <2> QED BY <2>1, <2>2, <2>3
<1>2. CASE PlainOp
  BY <1>0, <1>2, ExecutedFacts, MarkFacts DEF PlainOp
<1>3. CASE BlockEnvOp
  BY <1>1, <1>3 DEF BlockEnvOp, Class
<1>4. CASE SelfBalance
  <2>1. OfBeneficiary(self) \in Class \cup {None} /\ Executed(OfBeneficiary(self), FALSE, "run")
    BY <1>4 DEF SelfBalance, OfBeneficiary, Class
  <2>2. Mark(OfBeneficiary(self))
    BY <1>0, <2>1, ExecutedFacts
  <2>3. self = "beneficiary" => "Beneficiary" \in accessed
    BY <1>0 DEF IInv, BeneficiaryMarked, self, depth, TypeOK
  <2>4. OfBeneficiary(self) # None => OfBeneficiary(self) \in accessed
    BY <2>3 DEF OfBeneficiary
  <2> QED BY <1>0, <2>1, <2>2, <2>4, MarkFacts
<1>5. CASE SLoad
  BY <1>1, <1>5 DEF SLoad, Class
<1>6. CASE EndFrame
  BY <1>6 DEF EndFrame, tracker
<1>7. ASSUME NEW t \in Account, AccountOp(t) \/ SelfDestruct(t) PROVE Reads
  BY <1>1, <1>7 DEF AccountOp, SelfDestruct, Class, OfBeneficiary
<1>8. ASSUME NEW t \in Account \cup {"control"}, NEW s \in Scheme, CallOp(t, s) PROVE Reads
  <2>1. OfBeneficiary(t) \in Class \cup {None} /\ (OfBeneficiary(t) # None => t = "beneficiary")
    BY DEF OfBeneficiary, Class
  <2>2. Blocked \/ (Mark(OfBeneficiary(t))
                     /\ (t = "beneficiary" => ~volatile_access_disabled(depth)))
    BY <1>0, <1>8, <2>1, ExecutedFacts DEF CallOp, Aborted
  <2>3. CASE Blocked
    BY <2>3 DEF Blocked, tracker
  <2>4. CASE Mark(OfBeneficiary(t)) /\ (t = "beneficiary" => ~volatile_access_disabled(depth))
    BY <1>0, <2>1, <2>4, MarkFacts
  <2> QED BY <2>2, <2>3, <2>4
<1> QED BY <1>2, <1>3, <1>4, <1>5, <1>6, <1>7, <1>8 DEF Opcode

\* Append written as a function on the longer domain.
LEMMA AppendAsFunction ==
  ASSUME NEW S, NEW s \in Seq(S), NEW e \in S
  PROVE  Append(s, e) = [d \in 1 .. Len(s) + 1 |->
                           IF d = Len(s) + 1 THEN e ELSE s[d]]
<1> DEFINE t == [d \in 1 .. Len(s) + 1 |-> IF d = Len(s) + 1 THEN e ELSE s[d]]
<1>1. t \in Seq(S) /\ Len(t) = Len(s) + 1
  OBVIOUS
<1>2. Append(s, e) \in Seq(S) /\ Len(Append(s, e)) = Len(s) + 1
  OBVIOUS
<1>3. \A i \in 1 .. Len(s) + 1 : Append(s, e)[i] = t[i]
  OBVIOUS
<1> HIDE DEF t
<1>4. Append(s, e) = t
  BY <1>1, <1>2, <1>3, SeqEqual
<1> QED BY <1>4 DEF t

\* Opcode maps to a step of AccessScope, or to none.
LEMMA OpcodeSimulates ==
  ASSUME IInv, Opcode
  PROVE  [Scope!Next]_(Scope!vars)
<1>0. OpStep /\ TypeOK /\ stack # <<>>
  BY OpcodeIsOpStep DEF IInv, Shape, OpStep
<1>1. RestrictedAt' = RestrictedAt
  BY <1>0 DEF OpStep, RestrictedAt, volatile_access_disabled, depth
<1>2. CASE UNCHANGED accessed
  BY <1>1, <1>2 DEF Scope!vars
<1>3. CASE /\ ~volatile_access_disabled(depth)
           /\ \E c \in Class : accessed' = accessed \cup {c}
  <2>1. RestrictedAt # <<>> /\ ~RestrictedAt[Len(RestrictedAt)]
    BY <1>0, <1>3, ScopeFacts DEF depth
  <2>2. Scope!Read
    BY <1>1, <1>3, <2>1 DEF Scope!Read
  <2> QED BY <2>2 DEF Scope!Next
<1> QED BY <1>2, <1>3, OpcodeReads

\* OnNewTx maps to a step of AccessScope, or to none.
LEMMA OnNewTxSimulates ==
  ASSUME IInv, UNCHANGED spec, NEW s \in Sender, NEW to \in Account \cup {"control"},
         NEW i \in OpCosts, OnNewTx(s, to, i)
  PROVE  Scope!Begin
<1>1. stack = <<>> /\ stack' = <<>> /\ TypeOK
  BY DEF OnNewTx, IInv, Shape
<1>2. TypeOK'
  BY OnNewTxInv DEF IInv
<1>3. RestrictedAt = <<>>
  BY <1>1, ScopeFacts
<1>4. RestrictedAt' = <<>>
  BY <1>1 DEF RestrictedAt, depth
<1>5. accessed' \in SUBSET Class
  BY <1>2 DEF TypeOK
<1> QED BY <1>3, <1>4, <1>5 DEF Scope!Begin

\* FrameInit maps to a step of AccessScope, or to none.
LEMMA FrameInitSimulates ==
  ASSUME IInv, Enabled(REX4), NEW runs \in BOOLEAN, NEW c \in OpCosts \cup {0},
         FrameInit(runs, c)
  PROVE  [Scope!Next]_(Scope!vars)
<1>a. Enabled(REX3)
  BY VolatileAssumption
     DEF IInv, TypeOK, Enabled, is_enabled, REX3, REX4, MegaSpecId, EQUIVALENCE
<1>0. /\ TypeOK /\ Owned /\ pc = "init"
      /\ UNCHANGED <<disable_depth, accessed>>
  BY <1>a, FrameInitFacts DEF IInv, FrameInit
<1>1. CASE stack' = stack
  <2>1. RestrictedAt' = RestrictedAt
    BY <1>0, <1>1 DEF RestrictedAt, volatile_access_disabled, depth
  <2> QED BY <1>0, <2>1 DEF Scope!vars
<1>2. CASE \E a \in Account : stack' = Append(stack, a)
  <2>1. Len(stack) \in Nat /\ Len(stack') = Len(stack) + 1
    BY <1>0, <1>2 DEF TypeOK
  <2>2. \A d : volatile_access_disabled(d)' = volatile_access_disabled(d)
    BY <1>0 DEF volatile_access_disabled
  <2>3. RestrictedAt' = [d \in 1 .. Len(stack) + 1 |-> volatile_access_disabled(d)]
    BY <1>0, <2>1 DEF RestrictedAt, depth, volatile_access_disabled
  <2>4. volatile_access_disabled(Len(stack) + 1) = Scope!Inherited
    <3>1. CASE stack = <<>>
      <4>1. disable_depth = None
        BY <1>0, <2>1, <3>1 DEF Owned, depth, TypeOK
      <4> QED BY <1>0, <3>1, <4>1, ScopeFacts DEF Scope!Inherited, volatile_access_disabled
    <3>2. CASE stack # <<>>
      <4>1. Len(stack) > 0 /\ RestrictedAt # <<>>
            /\ RestrictedAt[Len(RestrictedAt)] = volatile_access_disabled(Len(stack))
        BY <1>0, <3>2, ScopeFacts DEF TypeOK
      <4>2. disable_depth # None => disable_depth \in Nat /\ disable_depth <= Len(stack)
        BY <1>0, <2>1 DEF Owned, depth
      <4>3. volatile_access_disabled(Len(stack) + 1) = volatile_access_disabled(Len(stack))
        BY <2>1, <4>2 DEF volatile_access_disabled
      <4>4. volatile_access_disabled(Len(stack)) \in BOOLEAN
        BY DEF volatile_access_disabled
      <4>5. Scope!Inherited = volatile_access_disabled(Len(stack))
        BY <4>1, <4>4 DEF Scope!Inherited
      <4> QED BY <4>3, <4>5
    <3> QED BY <3>1, <3>2
  <2>5. Append(RestrictedAt, Scope!Inherited)
          = [d \in 1 .. Len(stack) + 1 |->
               IF d = Len(stack) + 1 THEN Scope!Inherited ELSE RestrictedAt[d]]
    <3>1. Scope!Inherited \in BOOLEAN
      BY <2>4 DEF volatile_access_disabled
    <3> QED BY <1>0, <3>1, ScopeFacts, AppendAsFunction
  <2>6. RestrictedAt' = Append(RestrictedAt, Scope!Inherited)
    <3>1. \A d \in 1 .. Len(stack) + 1 :
            volatile_access_disabled(d)
              = IF d = Len(stack) + 1 THEN Scope!Inherited ELSE RestrictedAt[d]
      BY <1>0, <2>1, <2>4, ScopeFacts
    <3> QED BY <2>3, <2>5, <3>1
  <2>7. Scope!Enter
    BY <1>0, <2>6 DEF Scope!Enter
  <2> QED BY <2>7 DEF Scope!Next
<1> QED BY <1>1, <1>2, FrameInitFacts

\* Control maps to a step of AccessScope, or to none.
LEMMA ControlSimulates ==
  ASSUME IInv, NEW fn \in {"disable", "enable", "query"}, NEW v \in BOOLEAN, Control(fn, v)
  PROVE  [Scope!Next]_(Scope!vars)
<1> DEFINE n == Len(stack)
<1>0. TypeOK /\ Owned /\ n \in Nat /\ pc = "init" /\ UNCHANGED <<stack, accessed>>
  BY ControlFacts DEF IInv, TypeOK
<1>1. RestrictedAt' = [d \in 1 .. n |-> disable_depth' # None /\ d >= disable_depth']
  BY <1>0 DEF RestrictedAt, volatile_access_disabled, depth
<1>2. RestrictedAt = [d \in 1 .. n |-> disable_depth # None /\ d >= disable_depth]
  BY DEF RestrictedAt, volatile_access_disabled, depth
<1>3. CASE disable_depth' = disable_depth \/ stack = <<>>
  <2>1. RestrictedAt' = RestrictedAt
    BY <1>0, <1>1, <1>2, <1>3
  <2> QED BY <1>0, <2>1 DEF Scope!vars
<1>4. CASE stack # <<>> /\ disable_depth = None /\ disable_depth' = n
  <2>1. RestrictedAt' = [d \in 1 .. n |-> d = n]
    BY <1>0, <1>1, <1>4, VolatileAssumption
  <2>2. RestrictedAt = [d \in 1 .. n |-> FALSE]
    BY <1>2, <1>4
  <2>3. n > 0 /\ RestrictedAt # <<>> /\ Len(RestrictedAt) = n
    BY <1>0, <1>4, ScopeFacts DEF TypeOK
  <2>4. RestrictedAt' = [RestrictedAt EXCEPT ![Len(RestrictedAt)] = TRUE]
    BY <1>0, <2>1, <2>2, <2>3
  <2>5. Scope!Restrict
    BY <1>0, <2>3, <2>4 DEF Scope!Restrict
  <2> QED BY <2>5 DEF Scope!Next
<1>5. CASE stack # <<>> /\ disable_depth = n /\ disable_depth' = None
  <2>1. RestrictedAt' = [d \in 1 .. n |-> FALSE]
    BY <1>1, <1>5
  <2>2. RestrictedAt = [d \in 1 .. n |-> d = n]
    BY <1>0, <1>2, <1>5, VolatileAssumption
  <2>3. n > 0 /\ RestrictedAt # <<>> /\ Len(RestrictedAt) = n
    BY <1>0, <1>5, ScopeFacts DEF TypeOK
  <2>4. RestrictedAt' = [RestrictedAt EXCEPT ![Len(RestrictedAt)] = FALSE]
    BY <1>0, <2>1, <2>2, <2>3
  <2>5. ~Scope!CallerRestricted
    <3>1. ASSUME n > 1 PROVE ~RestrictedAt[n - 1]
      <4>1. n - 1 \in 1 .. n /\ n - 1 # n
        BY <1>0, <3>1
      <4> HIDE DEF n
      <4>2. RestrictedAt[n - 1] = (n - 1 = n)
        BY <2>2, <4>1, Zenon
      <4> QED BY <4>1, <4>2
    <3> QED BY <2>3, <3>1 DEF Scope!CallerRestricted
  <2>6. Scope!Free
    BY <1>0, <2>3, <2>4, <2>5 DEF Scope!Free
  <2> QED BY <2>6 DEF Scope!Next
<1>6. disable_depth # None => disable_depth \in 1 .. n
  BY <1>0 DEF Owned, depth
<1> QED BY <1>0, <1>3, <1>4, <1>5, <1>6, ControlFacts DEF depth

\* FrameReturn maps to a step of AccessScope, or to none.
LEMMA FrameReturnSimulates ==
  ASSUME IInv, Enabled(REX4), FrameReturn
  PROVE  [Scope!Next]_(Scope!vars)
<1> DEFINE n == Len(stack)
<1>0. /\ TypeOK /\ Owned /\ n \in Nat /\ n > 0 /\ stack # <<>>
      /\ UNCHANGED accessed
      /\ disable_depth # None => disable_depth \in 1 .. n
  BY DEF IInv, TypeOK, Shape, Owned, FrameReturn, depth
<1>1. /\ disable_depth' = IF disable_depth # None /\ Len(stack') < disable_depth
                          THEN None ELSE disable_depth
      /\ pc \in {"return", "skip"}
  BY DEF FrameReturn, enable_access_if_returning
<1>2. RestrictedAt' = [d \in 1 .. Len(stack') |-> disable_depth' # None /\ d >= disable_depth']
  BY DEF RestrictedAt, volatile_access_disabled, depth
<1>3. RestrictedAt = [d \in 1 .. n |-> disable_depth # None /\ d >= disable_depth]
  BY DEF RestrictedAt, volatile_access_disabled, depth
<1>4. CASE pc = "skip"
  <2>1. stack' = stack /\ disable_depth' = disable_depth
    BY <1>0, <1>1, <1>4, ReturnFacts
  <2>2. RestrictedAt' = RestrictedAt
    BY <1>2, <1>3, <2>1
  <2> QED BY <1>0, <2>2 DEF Scope!vars
<1>5. CASE pc = "return"
  <2>1. Len(stack') = n - 1
    BY <1>5, ReturnFacts
  <2>2. /\ RestrictedAt \in Seq(BOOLEAN) /\ RestrictedAt # <<>> /\ Len(RestrictedAt) = n
    BY <1>0, ScopeFacts
  <2>3. \A d \in 1 .. n - 1 : (disable_depth' # None /\ d >= disable_depth')
                               = (disable_depth # None /\ d >= disable_depth)
    BY <1>0, <1>1, <2>1
  <2>4. RestrictedAt' \in Seq(BOOLEAN) /\ Len(RestrictedAt') = n - 1
        /\ \A d \in 1 .. n - 1 : RestrictedAt'[d] = RestrictedAt[d]
    BY <1>0, <1>2, <1>3, <2>1, <2>3
  <2>5. /\ SubSeq(RestrictedAt, 1, Len(RestrictedAt) - 1) \in Seq(BOOLEAN)
        /\ Len(SubSeq(RestrictedAt, 1, Len(RestrictedAt) - 1)) = n - 1
        /\ \A d \in 1 .. n - 1 : SubSeq(RestrictedAt, 1, Len(RestrictedAt) - 1)[d] = RestrictedAt[d]
    BY <2>2, ButLast
  <2>6. RestrictedAt' = SubSeq(RestrictedAt, 1, Len(RestrictedAt) - 1)
    BY <2>4, <2>5, SeqEqual
  <2>7. Scope!Leave
    BY <1>0, <2>2, <2>6 DEF Scope!Leave
  <2> QED BY <2>7 DEF Scope!Next
<1> QED BY <1>1, <1>4, <1>5

\* From Rex4 on the one disable_depth of the tracker implements the abstract scope:
\* one inherited status per call frame, freed only by its owner, and restricted
\* frames that leave no trace (Rex4.md, I-5 and I-6), for stacks of any depth.
THEOREM ImplementsAccessScope == Spec => RestrictionIsScoped
<1>1. Init => Scope!Init
  <2> SUFFICES ASSUME Init PROVE Scope!Init
    OBVIOUS
  <2>1. TypeOK /\ stack = <<>> /\ accessed = {}
    BY InitInv DEF Init, IInv
  <2>2. RestrictedAt = <<>>
    BY <2>1, ScopeFacts
  <2> QED BY <2>1, <2>2 DEF Scope!Init
<1>2. ASSUME IInv, [Next]_vars PROVE [Enabled(REX4) => Scope!Next]_(Scope!vars)
  <2> SUFFICES ASSUME Enabled(REX4) PROVE [Scope!Next]_(Scope!vars)
    OBVIOUS
  <2>0. UNCHANGED spec
    BY <1>2 DEF Next, vars
  <2>1. CASE UNCHANGED vars
    BY <2>1 DEF vars, tracker, Scope!vars, RestrictedAt, volatile_access_disabled, depth
  <2>2. CASE Opcode
    BY <1>2, <2>2, OpcodeSimulates
  <2>3. CASE \E s \in Sender, to \in Account \cup {"control"}, i \in OpCosts : OnNewTx(s, to, i)
    BY <1>2, <2>0, <2>3, OnNewTxSimulates DEF Scope!Next
  <2>4. CASE \E runs \in BOOLEAN, c \in OpCosts \cup {0} : FrameInit(runs, c)
    BY <1>2, <2>4, FrameInitSimulates
  <2>5. CASE \E fn \in {"disable", "enable", "query"}, v \in BOOLEAN : Control(fn, v)
    BY <1>2, <2>5, ControlSimulates
  <2>6. CASE FrameReturn
    BY <1>2, <2>6, FrameReturnSimulates
  <2> QED BY <1>2, <2>0, <2>1, <2>2, <2>3, <2>4, <2>5, <2>6 DEF Next, Opcode
<1> QED BY <1>1, <1>2, Invariance, PTL DEF Spec, RestrictionIsScoped
=============================================================================
