---------------------------- MODULE PVPushProofs ----------------------------
(***************************************************************************)
(* Proofs about PVPush, for any threads, any PVs and any links between     *)
(* them: what the mutex of a subscribers list, and a PV that one thread at *)
(* a time pushes on, are good for.                                         *)
(***************************************************************************)
EXTENDS PVPush, WellFoundedInduction, FiniteSetTheorems, SequenceTheorems, TLAPS

-----------------------------------------------------------------------------
(* Stacks                                                                   *)

\* The innermost call is the last of the stack.
LEMMA TopFacts ==
  ASSUME NEW S, NEW s \in Seq(S), s # <<>>
  PROVE  Len(s) \in Nat \ {0} /\ Last(s) = s[Len(s)] /\ Last(s) \in S /\ DOMAIN s = 1 .. Len(s)
  <1>1. Len(s) \in Nat \ {0}
    BY EmptySeq
  <1> QED BY <1>1 DEF Last

\* Without it.
LEMMA PopFacts ==
  ASSUME NEW S, NEW s \in Seq(S), s # <<>>, NEW r, r = Front(s)
  PROVE  r \in Seq(S) /\ Len(r) = Len(s) - 1 /\ \A k \in 1 .. Len(s) - 1 : r[k] = s[k]
  <1>1. Len(s) \in Nat \ {0}
    BY EmptySeq
  <1>2. r = SubSeq(s, 1, Len(s) - 1)
    BY DEF Front
  <1> DEFINE n == Len(s) - 1
  <1>0. n \in Nat
    BY <1>1
  <1>3. 1 \in Int /\ n \in Int /\ \A k \in 1 .. n : s[k] \in S
    BY <1>1
  <1>n. (IF 1 <= n THEN n - 1 + 1 ELSE 0) = n /\ n - 1 + 1 = n /\ \A k \in 1 .. n : 1 + k - 1 = k
    <2> HIDE DEF n
    <2> QED BY <1>0
  <1>4. /\ SubSeq(s, 1, n) \in Seq(S) /\ Len(SubSeq(s, 1, n)) = IF 1 <= n THEN n - 1 + 1 ELSE 0
        /\ \A k \in 1 .. n - 1 + 1 : SubSeq(s, 1, n)[k] = s[1 + k - 1]
    <2> HIDE DEF n
    <2> QED BY <1>3, SubSeqProperties
  <1> QED BY <1>2, <1>4, <1>n

\* With one more.
More(s, f) == s \o <<f>>

LEMMA OneMore ==
  ASSUME NEW S, NEW b \in Seq(S), NEW f \in S
  PROVE  LET r == More(b, f) IN
         /\ r \in Seq(S) /\ Len(r) = Len(b) + 1 /\ r[Len(b) + 1] = f
         /\ \A k \in 1 .. Len(b) : r[k] = b[k]
  <1> DEFINE c == <<f>>
             r == More(b, f)
  <1>1. c \in Seq(S) /\ Len(c) = 1 /\ c[1] = f /\ r = b \o c /\ Len(b) \in Nat
    BY DEF More
  <1> HIDE DEF c
  <1>2. /\ b \o c \in Seq(S) /\ Len(b \o c) = Len(b) + Len(c)
        /\ \A k \in 1 .. Len(b) + Len(c) : (b \o c)[k] = IF k <= Len(b) THEN b[k] ELSE c[k - Len(b)]
    BY <1>1, ConcatProperties
  <1> HIDE DEF r
  <1>3. /\ r \in Seq(S) /\ Len(r) = Len(b) + 1 /\ r[Len(b) + 1] = f
        /\ \A k \in 1 .. Len(b) : r[k] = b[k]
    BY <1>1, <1>2
  <1> QED BY <1>3 DEF r

\* Changed.
Replaced(s, f) == More(Front(s), f)

LEMMA ReplaceFacts ==
  ASSUME NEW S, NEW s \in Seq(S), s # <<>>, NEW f \in S
  PROVE  LET r == Replaced(s, f) IN
         /\ r \in Seq(S) /\ Len(r) = Len(s) /\ r[Len(s)] = f
         /\ \A k \in 1 .. Len(s) - 1 : r[k] = s[k]
  <1> DEFINE b == Front(s)
             r == Replaced(s, f)
  <1>1. /\ b \in Seq(S) /\ Len(b) = Len(s) - 1
        /\ \A k \in 1 .. Len(s) - 1 : b[k] = s[k]
    BY PopFacts
  <1>2. Len(s) \in Nat \ {0}
    BY EmptySeq
  <1>3. r = More(b, f)
    BY DEF Replaced
  <1> HIDE DEF b, r
  <1>m. b \in Seq(S)
    BY <1>1
  <1>4. LET q == More(b, f) IN
        /\ q \in Seq(S) /\ Len(q) = Len(b) + 1 /\ q[Len(b) + 1] = f
        /\ \A k \in 1 .. Len(b) : q[k] = b[k]
    BY <1>m, OneMore
  <1>5. /\ r \in Seq(S) /\ Len(r) = Len(s) /\ r[Len(s)] = f
        /\ \A k \in 1 .. Len(s) - 1 : r[k] = s[k]
    BY <1>1, <1>2, <1>3, <1>4
  <1> QED BY <1>5 DEF r

\* Changed, and with a call from inside it.
Grown(s, f, g) == More(Replaced(s, f), g)

LEMMA GrowFacts ==
  ASSUME NEW S, NEW s \in Seq(S), s # <<>>, NEW f \in S, NEW g \in S
  PROVE  LET r == Grown(s, f, g) IN
         /\ r \in Seq(S) /\ Len(r) = Len(s) + 1 /\ r[Len(s)] = f /\ r[Len(s) + 1] = g
         /\ \A k \in 1 .. Len(s) - 1 : r[k] = s[k]
  <1> DEFINE b == Replaced(s, f)
             r == Grown(s, f, g)
  <1>1. b \in Seq(S) /\ Len(b) = Len(s) /\ b[Len(s)] = f /\ \A k \in 1 .. Len(s) - 1 : b[k] = s[k]
    BY ReplaceFacts
  <1>2. Len(s) \in Nat \ {0}
    BY EmptySeq
  <1>3. r = More(b, g)
    BY DEF Grown
  <1> HIDE DEF b, r
  <1>m. b \in Seq(S)
    BY <1>1
  <1>4. LET q == More(b, g) IN
        /\ q \in Seq(S) /\ Len(q) = Len(b) + 1 /\ q[Len(b) + 1] = g
        /\ \A k \in 1 .. Len(b) : q[k] = b[k]
    BY <1>m, OneMore
  <1>5. /\ r \in Seq(S) /\ Len(r) = Len(s) + 1 /\ r[Len(s)] = f /\ r[Len(s) + 1] = g
        /\ \A k \in 1 .. Len(s) - 1 : r[k] = s[k]
    BY <1>1, <1>2, <1>3, <1>4
  <1> QED BY <1>5 DEF r

\* Two at once are one after the other.
LEMMA PairFacts ==
  ASSUME NEW S, NEW b \in Seq(S), NEW f \in S, NEW g \in S
  PROVE  b \o <<f, g>> = b \o <<f>> \o <<g>>
  <1> DEFINE x == <<f>>
             y == <<g>>
             z == <<f, g>>
  <1>1. x \in Seq(S) /\ y \in Seq(S) /\ Len(x) = 1 /\ Len(y) = 1 /\ x[1] = f /\ y[1] = g
    OBVIOUS
  <1>2. z \in Seq(S) /\ Len(z) = 2 /\ z[1] = f /\ z[2] = g
    OBVIOUS
  <1> HIDE DEF x, y, z
  <1>3. /\ x \o y \in Seq(S) /\ Len(x \o y) = 2
        /\ \A k \in 1 .. 2 : (x \o y)[k] = IF k <= 1 THEN x[k] ELSE y[k - 1]
    BY <1>1, ConcatProperties
  <1>4. (x \o y)[1] = f /\ (x \o y)[2] = g
    BY <1>1, <1>3
  <1>5. ASSUME NEW k \in 1 .. 2 PROVE (x \o y)[k] = z[k]
    <2>1. k = 1 \/ k = 2
      OBVIOUS
    <2> QED BY <1>2, <1>4, <2>1
  <1>6. x \o y = z
    BY <1>2, <1>3, <1>5, SeqEqual
  <1>7. (b \o x) \o y = b \o (x \o y)
    BY <1>1, ConcatAssociative
  <1> QED BY <1>6, <1>7 DEF x, y, z

\* A set of one or none.
LEMMA FewFacts ==
  ASSUME NEW S, IsFiniteSet(S), Cardinality(S) <= 1
  PROVE  S = {} \/ \E x : S = {x}
  <1>1. Cardinality(S) \in Nat
    BY FS_CardinalityType
  <1>2. Cardinality(S) = 0 \/ Cardinality(S) = 1
    BY <1>1
  <1> QED BY <1>2, FS_EmptySet, FS_Singleton

\* ... as a sequence: it is empty,
LEMMA EmptyListed == SetToSeq({}) = <<>>
  <1>1. Cardinality({}) = 0
    BY FS_EmptySet
  <1>2. [k \in 1 .. 0 |-> k] \in [1 .. 0 -> {}] /\ IsInjective([k \in 1 .. 0 |-> k])
    BY DEF IsInjective
  <1>3. SetToSeq({}) \in [1 .. 0 -> {}]
    BY <1>1, <1>2 DEF SetToSeq
  <1> QED BY <1>3

\* ... or has the one.
LEMMA OneListed ==
  ASSUME NEW x
  PROVE  SetToSeq({x}) = <<x>>
  <1>1. Cardinality({x}) = 1
    BY FS_Singleton
  <1>2. [k \in 1 .. 1 |-> x] \in [1 .. 1 -> {x}] /\ IsInjective([k \in 1 .. 1 |-> x])
    BY DEF IsInjective
  <1>3. SetToSeq({x}) \in [1 .. 1 -> {x}]
    BY <1>1, <1>2 DEF SetToSeq
  <1> QED BY <1>3

-----------------------------------------------------------------------------
(* The types                                                                *)

Kinds == {"push", "setValue"}

FrameType == [pv : Inputs, kind : Kinds, value : Called, register : 0..Width-1,
              todo : SUBSET (Inputs \cup Outputs), at : Places]

PushTyped ==
  /\ factor \in [Inputs -> 0..Width-1] /\ count \in [Inputs -> 0..Width-1]
  /\ listLock \in [Inputs -> Threads \cup {NoThread}]
  /\ held \in [Inputs -> Called \cup {NoValue}]
  /\ stack \in [Threads -> Seq(FrameType)]
  /\ calls \in [Inputs -> 0..MaxCalls]
  /\ arrived \in [Inputs -> Seq(Called)] /\ passed \in [Inputs -> Seq(Called)]
  /\ got \in [Outputs -> [Inputs -> 0..MaxCalls]]
  /\ written \in [Outputs -> Called \cup {NoValue}]
  /\ cut \subseteq Inputs /\ ended \in BOOLEAN

\* A call begins at its first place.
LEMMA FrameFacts ==
  ASSUME NEW i \in Inputs, NEW kind \in Kinds, NEW v \in Called
  PROVE  LET f == Frame(i, kind, v) IN
         /\ f \in FrameType /\ f.pv = i /\ f.value = v /\ f.kind = kind /\ f.at \in {"load", "store value"}
         /\ f.todo = {}
         /\ kind = "push" => f.at = "load"
  <1>1. 0 \in 0..Width-1
    BY BoundsAssumption DEF BoundsAssumption
  <1> QED BY <1>1 DEF Frame, FrameType, Places, Kinds

\* Where t is in a call.
LEMMA InFacts ==
  ASSUME NEW t \in Threads, PushTyped, InCall(t)
  PROVE  /\ stack[t] \in Seq(FrameType) /\ stack[t] # <<>> /\ Len(stack[t]) \in Nat \ {0}
         /\ Top(t) = stack[t][Len(stack[t])] /\ Top(t) \in FrameType /\ PV(t) \in Inputs
         /\ DOMAIN stack = Threads
  <1>1. stack[t] \in Seq(FrameType) /\ stack[t] # <<>> /\ DOMAIN stack = Threads
    BY DEF PushTyped, InCall
  <1>2. Len(stack[t]) \in Nat \ {0} /\ Last(stack[t]) = stack[t][Len(stack[t])] /\ Last(stack[t]) \in FrameType
    BY <1>1, TopFacts
  <1>3. Top(t) \in FrameType => PV(t) \in Inputs
    BY DEF PV, FrameType
  <1> QED BY <1>1, <1>2, <1>3 DEF Top

\* The innermost call of t becomes f, the others stay.
Retop(t, f) ==
  /\ stack' \in [Threads -> Seq(FrameType)]
  /\ \A u \in Threads \ {t} : stack'[u] = stack[u]
  /\ Len(stack'[t]) = Len(stack[t]) /\ stack'[t][Len(stack[t])] = f
  /\ \A k \in 1 .. Len(stack[t]) - 1 : stack'[t][k] = stack[t][k]

\* The stack of t alone is replaced.
LEMMA StackFacts ==
  ASSUME NEW t \in Threads, stack \in [Threads -> Seq(FrameType)],
         NEW r \in Seq(FrameType), stack' = [stack EXCEPT ![t] = r]
  PROVE  /\ stack' \in [Threads -> Seq(FrameType)] /\ stack'[t] = r
         /\ \A u \in Threads \ {t} : stack'[u] = stack[u]
  OBVIOUS

\* SetTop does so.
LEMMA SetTopFacts ==
  ASSUME NEW t \in Threads, PushTyped, InCall(t), NEW f \in FrameType, SetTop(t, f)
  PROVE  Retop(t, f)
  <1> DEFINE s == stack[t]
             r == Replaced(s, f)
  <1>1. s \in Seq(FrameType) /\ s # <<>>
    BY InFacts
  <1> HIDE DEF s
  <1>2. /\ r \in Seq(FrameType) /\ Len(r) = Len(s) /\ r[Len(s)] = f
        /\ \A k \in 1 .. Len(s) - 1 : r[k] = s[k]
    BY <1>1, ReplaceFacts
  <1>3. stack' = [stack EXCEPT ![t] = r]
    BY DEF s, SetTop, Replaced, More
  <1>4. stack \in [Threads -> Seq(FrameType)]
    BY DEF PushTyped
  <1>5. /\ stack' \in [Threads -> Seq(FrameType)] /\ stack'[t] = r
        /\ \A u \in Threads \ {t} : stack'[u] = stack[u]
    BY <1>2, <1>3, <1>4, StackFacts
  <1> HIDE DEF r
  <1> QED BY <1>2, <1>5 DEF Retop, s

\* The counter keeps its width.
LEMMA RegisterTyped ==
  ASSUME NEW c \in Nat
  PROVE  c % Width \in 0..Width-1
  BY BoundsAssumption DEF BoundsAssumption

\* The innermost call of t goes on from x, which it has still to do, with a push on
\* each of the inputs js, one at most.
Inside(t, x, js) ==
  LET n == Len(stack[t]) IN
  /\ InCall(t) /\ Top(t).at = "fan" /\ x \in Top(t).todo
  /\ stack' \in [Threads -> Seq(FrameType)]
  /\ \A u \in Threads \ {t} : stack'[u] = stack[u]
  /\ \A k \in 1 .. n - 1 : stack'[t][k] = stack[t][k]
  /\ stack'[t][n] = [Top(t) EXCEPT !.todo = @ \ {x}] /\ stack'[t][n] \in FrameType
  /\ \/ js = {} /\ Len(stack'[t]) = n
     \/ /\ \E j \in Inputs : js = {j} /\ stack'[t][n + 1] = Frame(j, "push", Top(t).value)
        /\ Len(stack'[t]) = n + 1

\* Writing to an output and replicating do so.
LEMMA InsideFacts ==
  ASSUME NEW t \in Threads, PushTyped
  PROVE  /\ \A o \in Outputs : WriteOutput(t, o) => Inside(t, o, Acknowledges[o])
         /\ \A j \in Inputs : Replicate(t, j) => Inside(t, j, {j})
  <1> DEFINE s == stack[t]
             Rest(x) == [Top(t) EXCEPT !.todo = @ \ {x}]
             Call2(j) == Frame(j, "push", Top(t).value)
  <1>s. stack \in [Threads -> Seq(FrameType)]
    BY DEF PushTyped
  <1>a. ASSUME InCall(t), NEW x PROVE Rest(x) \in FrameType /\ \A j \in Inputs : Call2(j) \in FrameType
    <2>1. Top(t) \in FrameType
      BY <1>a, InFacts
    <2>2. Top(t).value \in Called
      BY <2>1 DEF FrameType
    <2>3. Rest(x) \in FrameType
      BY <2>1 DEF FrameType
    <2>4. "push" \in Kinds
      BY DEF Kinds
    <2> HIDE DEF Rest
    <2> QED BY <2>2, <2>3, <2>4, FrameFacts
  <1>b. ASSUME InCall(t) PROVE s \in Seq(FrameType) /\ s # <<>>
    BY <1>b, InFacts
  <1>g. ASSUME InCall(t), NEW x, NEW j \in Inputs, Top(t).at = "fan", x \in Top(t).todo,
               stack' = [stack EXCEPT ![t] = Front(s) \o <<Rest(x)>> \o <<Call2(j)>>]
        PROVE  Inside(t, x, {j})
    <2>1. SUFFICES ASSUME NEW f \in FrameType, f = Rest(x), NEW g \in FrameType, g = Call2(j)
                   PROVE  Inside(t, x, {j})
      BY <1>a, <1>g
    <2>r. PICK r : r = Grown(s, f, g)
      OBVIOUS
    <2>2. /\ r \in Seq(FrameType) /\ Len(r) = Len(s) + 1 /\ r[Len(s)] = f /\ r[Len(s) + 1] = g
          /\ \A k \in 1 .. Len(s) - 1 : r[k] = s[k]
      <3>1. s \in Seq(FrameType) /\ s # <<>>
        BY <1>b, <1>g
      <3> HIDE DEF s, Rest, Call2
      <3>2. LET q == Grown(s, f, g) IN
            /\ q \in Seq(FrameType) /\ Len(q) = Len(s) + 1 /\ q[Len(s)] = f /\ q[Len(s) + 1] = g
            /\ \A k \in 1 .. Len(s) - 1 : q[k] = s[k]
        BY <3>1, GrowFacts
      <3> QED BY <3>2, <2>r
    <2>3. stack' = [stack EXCEPT ![t] = r]
      BY <1>g, <2>1, <2>r DEF Grown, Replaced, More
    <2>4. /\ stack' \in [Threads -> Seq(FrameType)] /\ stack'[t] = r
          /\ \A u \in Threads \ {t} : stack'[u] = stack[u]
      BY <1>s, <2>2, <2>3, StackFacts
    <2> QED BY <1>g, <2>1, <2>2, <2>4 DEF Inside
  <1>n. ASSUME InCall(t), NEW x, Top(t).at = "fan", x \in Top(t).todo,
               stack' = [stack EXCEPT ![t] = Front(s) \o <<Rest(x)>> \o <<>>]
        PROVE  Inside(t, x, {})
    <2>1. SUFFICES ASSUME NEW f \in FrameType, f = Rest(x) PROVE Inside(t, x, {})
      BY <1>a, <1>n
    <2>r. PICK r : r = Replaced(s, f)
      OBVIOUS
    <2>2. /\ r \in Seq(FrameType) /\ Len(r) = Len(s) /\ r[Len(s)] = f
          /\ \A k \in 1 .. Len(s) - 1 : r[k] = s[k]
      <3>1. s \in Seq(FrameType) /\ s # <<>>
        BY <1>b, <1>n
      <3> HIDE DEF s, Rest, Call2
      <3>2. LET q == Replaced(s, f) IN
            /\ q \in Seq(FrameType) /\ Len(q) = Len(s) /\ q[Len(s)] = f
            /\ \A k \in 1 .. Len(s) - 1 : q[k] = s[k]
        BY <3>1, ReplaceFacts
      <3> QED BY <3>2, <2>r
    <2>3. stack' = [stack EXCEPT ![t] = r]
      <3>1. r \o <<>> = r
        BY <2>2, ConcatEmptySeq
      <3> QED BY <1>n, <2>1, <2>r, <3>1 DEF Replaced, More
    <2>4. /\ stack' \in [Threads -> Seq(FrameType)] /\ stack'[t] = r
          /\ \A u \in Threads \ {t} : stack'[u] = stack[u]
      BY <1>s, <2>2, <2>3, StackFacts
    <2> QED BY <1>n, <2>1, <2>2, <2>4 DEF Inside
  <1>1. ASSUME NEW o \in Outputs, WriteOutput(t, o) PROVE Inside(t, o, Acknowledges[o])
    <2> DEFINE back == { Call2(j) : j \in Acknowledges[o] }
    <2>1. /\ InCall(t) /\ Top(t).at = "fan" /\ o \in Top(t).todo
          /\ stack' = [stack EXCEPT ![t] = Front(@) \o <<Rest(o)>> \o SetToSeq(back)]
      BY <1>1 DEF WriteOutput, At
    <2>2. /\ Acknowledges[o] \subseteq Inputs
          /\ IsFiniteSet(Acknowledges[o]) /\ Cardinality(Acknowledges[o]) <= 1
      BY LinksAssumption DEF LinksAssumption
    <2>3. Acknowledges[o] = {} \/ \E j : Acknowledges[o] = {j}
      BY <2>2, FewFacts
    <2>4. CASE Acknowledges[o] = {}
      <3>1. back = {}
        BY <2>4
      <3>2. SetToSeq(back) = <<>>
        BY <3>1, EmptyListed
      <3>3. stack' = [stack EXCEPT ![t] = Front(s) \o <<Rest(o)>> \o <<>>]
        BY <2>1, <3>2
      <3> QED BY <1>n, <2>1, <2>4, <3>3
    <2>5. ASSUME NEW j, Acknowledges[o] = {j} PROVE Inside(t, o, Acknowledges[o])
      <3>1. back = {Call2(j)} /\ j \in Inputs
        BY <2>2, <2>5
      <3>2. SetToSeq(back) = <<Call2(j)>>
        BY <3>1, OneListed
      <3>3. stack' = [stack EXCEPT ![t] = Front(s) \o <<Rest(o)>> \o <<Call2(j)>>]
        BY <2>1, <3>2
      <3>4. Inside(t, o, {j})
        BY <1>g, <2>1, <3>1, <3>3
      <3> QED BY <2>5, <3>4
    <2> QED BY <2>3, <2>4, <2>5
  <1>2. ASSUME NEW j \in Inputs, Replicate(t, j) PROVE Inside(t, j, {j})
    <2>1. /\ InCall(t) /\ Top(t).at = "fan" /\ j \in Top(t).todo
          /\ stack' = [stack EXCEPT ![t] = Front(s) \o <<Rest(j), Call2(j)>>]
      BY <1>2 DEF Replicate, At
    <2>2. Front(s) \in Seq(FrameType)
      BY <1>b, <2>1, PopFacts
    <2>3. Rest(j) \in FrameType /\ Call2(j) \in FrameType
      BY <1>a, <2>1
    <2>4. Front(s) \o <<Rest(j), Call2(j)>> = Front(s) \o <<Rest(j)>> \o <<Call2(j)>>
      <3> HIDE DEF Rest, Call2
      <3> QED BY <2>2, <2>3, PairFacts
    <2>5. stack' = [stack EXCEPT ![t] = Front(s) \o <<Rest(j)>> \o <<Call2(j)>>]
      BY <2>1, <2>4
    <2> QED BY <1>g, <2>1, <2>5
  <1> QED BY <1>1, <1>2

\* Calls made now are within the bound.
LEMMA ValueTyped ==
  ASSUME NEW i \in Inputs, PushTyped, calls[i] < MaxCalls
  PROVE  Value(i, calls[i] + 1) \in Called /\ calls[i] + 1 \in 0 .. MaxCalls
  <1>1. calls[i] \in 0 .. MaxCalls /\ MaxCalls \in Nat
    BY BoundsAssumption DEF PushTyped, BoundsAssumption
  <1> QED BY <1>1 DEF Value, Called

\* A call begins on an empty stack.
LEMMA CallFacts ==
  ASSUME NEW t \in Threads, NEW i \in Inputs, NEW kind \in Kinds, PushTyped, Call(t, i, kind)
  PROVE  /\ stack' \in [Threads -> Seq(FrameType)] /\ stack[t] = <<>> /\ Len(stack'[t]) = 1
         /\ stack'[t][1].at \in {"load", "store value"} /\ stack'[t][1].pv = i
         /\ \A u \in Threads \ {t} : stack'[u] = stack[u]
         /\ calls' \in [Inputs -> 0..MaxCalls]
  <1>1. calls' = [calls EXCEPT ![i] = calls[i] + 1] /\ calls \in [Inputs -> 0..MaxCalls]
    BY DEF Call, PushTyped
  <1>2. Value(i, calls[i] + 1) \in Called /\ calls[i] + 1 \in 0 .. MaxCalls
    BY ValueTyped DEF Call
  <1>3. calls'[i] = calls[i] + 1 /\ calls' \in [Inputs -> 0..MaxCalls]
    BY <1>1, <1>2
  <1>v. PICK v \in Called : v = Value(i, calls[i] + 1)
    BY <1>2
  <1> DEFINE f == Frame(i, kind, v)
  <1>4. f \in FrameType /\ f.at \in {"load", "store value"} /\ f.pv = i
    <2>1. 0 \in 0..Width-1
      BY BoundsAssumption DEF BoundsAssumption
    <2> QED BY <2>1 DEF Frame, FrameType, Places, Kinds
  <1>t. f \in FrameType
    BY <1>4
  <1>5. stack' = [stack EXCEPT ![t] = <<f>>]
    BY <1>3, <1>v DEF Call
  <1> HIDE DEF f
  <1>r. PICK r : r = <<f>>
    OBVIOUS
  <1>s. <<f>> \in Seq(FrameType) /\ Len(<<f>>) = 1 /\ <<f>>[1] = f
    BY <1>t
  <1>6. r \in Seq(FrameType) /\ Len(r) = 1 /\ r[1] = f
    BY <1>s, <1>r
  <1>7. stack \in [Threads -> Seq(FrameType)] /\ stack[t] = <<>>
    BY DEF Call, InCall, PushTyped
  <1>8. /\ stack' \in [Threads -> Seq(FrameType)] /\ stack'[t] = r
        /\ \A u \in Threads \ {t} : stack'[u] = stack[u]
    BY <1>5, <1>6, <1>7, <1>r, StackFacts
  <1> QED BY <1>3, <1>4, <1>6, <1>7, <1>8

\* The frame of t moves on to another place.
LEMMA GotoFacts ==
  ASSUME NEW t \in Threads, PushTyped, InCall(t), NEW l \in Places, Goto(t, l)
  PROVE  /\ Retop(t, [Top(t) EXCEPT !.at = l])
         /\ [Top(t) EXCEPT !.at = l] \in FrameType
  <1>1. Top(t) \in FrameType
    BY InFacts
  <1>2. [Top(t) EXCEPT !.at = l] \in FrameType
    BY <1>1 DEF FrameType
  <1>3. SetTop(t, [Top(t) EXCEPT !.at = l])
    BY DEF Goto
  <1> QED BY <1>2, <1>3, SetTopFacts

\* Returning leaves the innermost call.
LEMMA ReturnFacts ==
  ASSUME NEW t \in Threads, PushTyped, Return(t)
  PROVE  /\ stack' \in [Threads -> Seq(FrameType)]
         /\ \A u \in Threads \ {t} : stack'[u] = stack[u]
         /\ Len(stack'[t]) = Len(stack[t]) - 1
         /\ \A k \in 1 .. Len(stack[t]) - 1 : stack'[t][k] = stack[t][k]
  <1> DEFINE s == stack[t]
             r == Front(s)
  <1>0. stack \in [Threads -> Seq(FrameType)] /\ stack' = [stack EXCEPT ![t] = r]
    BY DEF Return, PushTyped
  <1>1. s \in Seq(FrameType) /\ s # <<>>
    BY InFacts DEF Return, At
  <1> HIDE DEF s
  <1>2. r \in Seq(FrameType) /\ Len(r) = Len(s) - 1 /\ \A k \in 1 .. Len(s) - 1 : r[k] = s[k]
    BY <1>1, PopFacts
  <1> HIDE DEF r
  <1>3. /\ stack' \in [Threads -> Seq(FrameType)] /\ stack'[t] = r
        /\ \A u \in Threads \ {t} : stack'[u] = stack[u]
    BY <1>0, <1>2, StackFacts
  <1> QED BY <1>2, <1>3 DEF s

\* An exception leaves them all.
LEMMA ThrowFacts ==
  ASSUME NEW t \in Threads, NEW o \in Outputs, PushTyped, WriteThrows(t, o)
  PROVE  /\ stack' \in [Threads -> Seq(FrameType)]
         /\ \A u \in Threads \ {t} : stack'[u] = stack[u]
         /\ stack'[t] = <<>> /\ Len(stack'[t]) = 0
  <1>r. PICK r : r = <<>>
    OBVIOUS
  <1>1. r \in Seq(FrameType) /\ Len(r) = 0
    BY <1>r
  <1>2. stack \in [Threads -> Seq(FrameType)] /\ stack' = [stack EXCEPT ![t] = r]
    BY <1>r DEF WriteThrows, PushTyped
  <1> QED BY <1>r, <1>1, <1>2, StackFacts

-----------------------------------------------------------------------------
(* A call that moves on alone: it neither enters nor leaves a fan-out.      *)

\* g is a frame of the same call as f.
SameCall(f, g) == g.pv = f.pv /\ g.value = f.value /\ g.kind = f.kind

\* The frame of t is no fan-out, before or after, and stays on its PV with its value.
Moves(t) ==
  /\ InCall(t) /\ Top(t).at # "fan"
  /\ \E f \in FrameType : Retop(t, f) /\ f.at # "fan" /\ f.pv = PV(t) /\ SameCall(Top(t), f)

\* The steps of the decimation, and the store of a value, do so.
LEMMA MovesFacts ==
  ASSUME NEW t \in Threads, PushTyped,
         \/ LoadCount(t) \/ StoreCount(t) \/ ResetCount(t) \/ PassToControlSystem(t) \/ StoreValue(t)
  PROVE  Moves(t)
  <1>1. CASE LoadCount(t)
    <2>1. InCall(t) /\ Top(t).at = "load"
      BY <1>1 DEF LoadCount, At
    <2>2. Top(t) \in FrameType /\ PV(t) \in Inputs
      BY <2>1, InFacts
    <2>3. count[PV(t)] + Width - 1 \in Nat
      BY <2>2, BoundsAssumption DEF BoundsAssumption, PushTyped
    <2>c. PICK c : c = (count[PV(t)] + Width - 1) % Width
      OBVIOUS
    <2>4. c \in 0..Width-1
      BY <2>3, <2>c, RegisterTyped
    <2> DEFINE f == [Top(t) EXCEPT !.at = "store", !.register = c]
    <2>5. f \in FrameType /\ f.at # "fan" /\ f.pv = PV(t) /\ SameCall(Top(t), f)
      BY <2>2, <2>4 DEF FrameType, Places, PV, SameCall
    <2>6. SetTop(t, f)
      BY <1>1, <2>c DEF LoadCount
    <2> HIDE DEF f
    <2>7. Retop(t, f)
      BY <2>1, <2>5, <2>6, SetTopFacts
    <2> QED BY <2>1, <2>5, <2>7 DEF Moves
  <1>2. ASSUME NEW l \in Places \ {"fan"}, InCall(t), Top(t).at # "fan", Goto(t, l) PROVE Moves(t)
    <2>1. Top(t) \in FrameType
      BY <1>2, InFacts
    <2> DEFINE f == [Top(t) EXCEPT !.at = l]
    <2>2. Retop(t, f) /\ f \in FrameType
      BY <1>2, GotoFacts
    <2>3. f.at # "fan" /\ f.pv = PV(t) /\ SameCall(Top(t), f)
      BY <2>1 DEF FrameType, PV, SameCall
    <2> HIDE DEF f
    <2> QED BY <1>2, <2>2, <2>3 DEF Moves
  <1>3. CASE StoreCount(t)
    <2>l. PICK l : l = IF Top(t).register = 0 THEN "reset" ELSE "lock"
      OBVIOUS
    <2>1. l \in Places \ {"fan"}
      BY <2>l DEF Places
    <2>2. InCall(t) /\ Top(t).at # "fan" /\ Goto(t, l)
      BY <1>3, <2>l DEF StoreCount, At
    <2> QED BY <1>2, <2>1, <2>2
  <1>4. CASE ResetCount(t)
    BY <1>2, <1>4 DEF ResetCount, At, Places
  <1>5. CASE PassToControlSystem(t)
    BY <1>2, <1>5 DEF PassToControlSystem, At, Places
  <1>6. CASE StoreValue(t)
    BY <1>2, <1>6 DEF StoreValue, At, Places
  <1> QED BY <1>1, <1>3, <1>4, <1>5, <1>6

\* Locking: the frame of t turns into a fan-out over what its kind is for.
LEMMA LockFacts ==
  ASSUME NEW t \in Threads, PushTyped, LockList(t)
  PROVE  \E f \in FrameType :
           /\ InCall(t) /\ Top(t).at = "lock" /\ Retop(t, f)
           /\ f.at = "fan" /\ f.pv = PV(t) /\ f.value = Top(t).value /\ SameCall(Top(t), f)
           /\ Subscribers[PV(t)] \subseteq f.todo /\ f.todo \subseteq Links(PV(t))
           /\ Top(t).kind = "push" => f.todo = Links(PV(t))
  <1>1. InCall(t) /\ Top(t).at = "lock"
    BY DEF LockList, At
  <1>2. Top(t) \in FrameType /\ PV(t) \in Inputs
    BY <1>1, InFacts
  <1>d. PICK d : d = IF Top(t).kind = "push" THEN Links(PV(t)) ELSE Subscribers[PV(t)]
    OBVIOUS
  <1>3. Subscribers[PV(t)] \subseteq d /\ d \subseteq Links(PV(t)) /\ d \subseteq Inputs \cup Outputs
    BY <1>2, <1>d, LinksAssumption DEF LinksAssumption, Links
  <1> DEFINE f == [Top(t) EXCEPT !.at = "fan", !.todo = d]
  <1>4. /\ f \in FrameType /\ f.at = "fan" /\ f.pv = PV(t) /\ f.value = Top(t).value /\ f.todo = d
        /\ SameCall(Top(t), f)
    BY <1>2, <1>3 DEF FrameType, Places, PV, SameCall
  <1>5. SetTop(t, f)
    BY <1>d DEF LockList
  <1> HIDE DEF f
  <1>6. Retop(t, f)
    BY <1>1, <1>4, <1>5, SetTopFacts
  <1> QED BY <1>1, <1>3, <1>4, <1>6, <1>d

-----------------------------------------------------------------------------
(* The types hold.                                                          *)

\* At the start.
LEMMA TypedInit == Init => PushTyped
  <1> SUFFICES ASSUME Init PROVE PushTyped
    OBVIOUS
  <1>1. 0 \in 0..Width-1 /\ 1 \in 0..Width-1 /\ 0 \in 0..MaxCalls
    BY BoundsAssumption DEF BoundsAssumption
  <1>2. factor \in [Inputs -> 0..Width-1] /\ count \in [Inputs -> 0..Width-1]
    BY <1>1 DEF Init
  <1>3. <<>> \in Seq(FrameType) /\ <<>> \in Seq(Called)
    BY EmptySeq
  <1>4. stack \in [Threads -> Seq(FrameType)]
    BY <1>3 DEF Init
  <1>5. arrived \in [Inputs -> Seq(Called)] /\ passed \in [Inputs -> Seq(Called)]
    BY <1>3 DEF Init
  <1>6. calls \in [Inputs -> 0..MaxCalls] /\ got \in [Outputs -> [Inputs -> 0..MaxCalls]]
    BY <1>1 DEF Init
  <1>7. /\ listLock \in [Inputs -> Threads \cup {NoThread}]
        /\ held \in [Inputs -> Called \cup {NoValue}] /\ written \in [Outputs -> Called \cup {NoValue}]
        /\ cut \subseteq Inputs /\ ended \in BOOLEAN
    BY DEF Init
  <1> QED BY <1>2, <1>4, <1>5, <1>6, <1>7 DEF PushTyped

\* A step that changes none of the histories and counters of calls keeps their types.
LEMMA TypedDecimation ==
  ASSUME PushTyped, UNCHANGED decimationVars
  PROVE  /\ factor' \in [Inputs -> 0..Width-1] /\ count' \in [Inputs -> 0..Width-1]
         /\ arrived' \in [Inputs -> Seq(Called)] /\ passed' \in [Inputs -> Seq(Called)]
  BY DEF PushTyped, decimationVars

\* By the calls of a device thread.
LEMMA TypedCall ==
  ASSUME PushTyped, NEW t \in Threads, NEW i \in Inputs, Push(t, i) \/ SetValue(t, i)
  PROVE  PushTyped'
  <1>1. ASSUME NEW kind \in Kinds, Call(t, i, kind) PROVE PushTyped'
    <2>1. stack' \in [Threads -> Seq(FrameType)] /\ calls' \in [Inputs -> 0..MaxCalls]
      BY <1>1, CallFacts
    <2>2. UNCHANGED <<listLock, held, got, written, cut, ended>> /\ UNCHANGED decimationVars
      BY <1>1 DEF Call
    <2>3. /\ factor' \in [Inputs -> 0..Width-1] /\ count' \in [Inputs -> 0..Width-1]
          /\ arrived' \in [Inputs -> Seq(Called)] /\ passed' \in [Inputs -> Seq(Called)]
      BY <2>2, TypedDecimation
    <2> QED BY <2>1, <2>2, <2>3 DEF PushTyped
  <1> QED BY <1>1 DEF Push, SetValue, Kinds

\* By setDecimation.
LEMMA TypedSet ==
  ASSUME PushTyped, NEW i \in Inputs, NEW d \in Decimations[i], SetDecimation(i, d)
  PROVE  PushTyped'
  <1>1. d \in 0..Width-1
    BY BoundsAssumption DEF BoundsAssumption
  <1>2. factor' = [factor EXCEPT ![i] = d] /\ count' = [count EXCEPT ![i] = d]
    BY DEF SetDecimation
  <1>3. factor' \in [Inputs -> 0..Width-1] /\ count' \in [Inputs -> 0..Width-1]
    BY <1>1, <1>2 DEF PushTyped
  <1>4. <<>> \in Seq(Called)
    BY EmptySeq
  <1>5. arrived' = [arrived EXCEPT ![i] = <<>>] /\ passed' = [passed EXCEPT ![i] = <<>>]
    BY DEF SetDecimation
  <1>6. arrived' \in [Inputs -> Seq(Called)] /\ passed' \in [Inputs -> Seq(Called)]
    BY <1>4, <1>5 DEF PushTyped
  <1>7. UNCHANGED <<listLock, held, stack, calls, got, written, cut, ended>>
    BY DEF SetDecimation
  <1> QED BY <1>3, <1>6, <1>7 DEF PushTyped

\* By the steps of the decimation and the store of a value.
LEMMA TypedMoves ==
  ASSUME PushTyped, NEW t \in Threads,
         \/ LoadCount(t) \/ StoreCount(t) \/ ResetCount(t) \/ PassToControlSystem(t) \/ StoreValue(t)
  PROVE  PushTyped'
  <1>1. stack' \in [Threads -> Seq(FrameType)]
    BY MovesFacts DEF Moves, Retop
  <1>2. InCall(t)
    BY DEF LoadCount, StoreCount, ResetCount, PassToControlSystem, StoreValue, At
  <1>3. Top(t) \in FrameType /\ PV(t) \in Inputs
    BY <1>2, InFacts
  <1>4. Top(t).value \in Called /\ Top(t).register \in 0..Width-1
    BY <1>3 DEF FrameType
  <1>v. PICK v \in Called : v = Top(t).value
    BY <1>4
  <1>a. ASSUME NEW h \in [Inputs -> Seq(Called)]
        PROVE  [h EXCEPT ![PV(t)] = Append(@, v)] \in [Inputs -> Seq(Called)]
    <2>1. Append(h[PV(t)], v) \in Seq(Called)
      BY <1>3, <1>v, AppendProperties
    <2> QED BY <2>1
  <1>5. CASE LoadCount(t)
    <2>1. UNCHANGED <<factor, count, listLock, held, calls, passed, got, written, cut, ended>>
      BY <1>5 DEF LoadCount
    <2>2. arrived' = [arrived EXCEPT ![PV(t)] = Append(@, v)]
      BY <1>5, <1>v DEF LoadCount
    <2>3. arrived' \in [Inputs -> Seq(Called)]
      BY <1>a, <2>2 DEF PushTyped
    <2> QED BY <1>1, <2>1, <2>3 DEF PushTyped
  <1>6. CASE StoreCount(t)
    <2>1. UNCHANGED <<factor, listLock, held, calls, arrived, passed, got, written, cut, ended>>
      BY <1>6 DEF StoreCount
    <2>2. count' \in [Inputs -> 0..Width-1]
      BY <1>3, <1>4, <1>6 DEF StoreCount, PushTyped
    <2> QED BY <1>1, <2>1, <2>2 DEF PushTyped
  <1>7. CASE ResetCount(t)
    <2>1. UNCHANGED <<factor, listLock, held, calls, arrived, passed, got, written, cut, ended>>
      BY <1>7 DEF ResetCount
    <2>2. count' \in [Inputs -> 0..Width-1]
      BY <1>3, <1>7 DEF ResetCount, PushTyped
    <2> QED BY <1>1, <2>1, <2>2 DEF PushTyped
  <1>8. CASE PassToControlSystem(t)
    <2>1. UNCHANGED <<factor, count, listLock, held, calls, arrived, got, written, cut, ended>>
      BY <1>8 DEF PassToControlSystem
    <2>2. passed' = [passed EXCEPT ![PV(t)] = Append(@, v)]
      BY <1>8, <1>v DEF PassToControlSystem
    <2>3. passed' \in [Inputs -> Seq(Called)]
      BY <1>a, <2>2 DEF PushTyped
    <2> QED BY <1>1, <2>1, <2>3 DEF PushTyped
  <1>9. CASE StoreValue(t)
    <2>1. UNCHANGED <<factor, count, arrived, passed, listLock, calls, got, written, cut, ended>>
      BY <1>9 DEF StoreValue, decimationVars
    <2>2. held' \in [Inputs -> Called \cup {NoValue}]
      BY <1>3, <1>4, <1>9 DEF StoreValue, PushTyped
    <2> QED BY <1>1, <2>1, <2>2 DEF PushTyped
  <1> QED BY <1>5, <1>6, <1>7, <1>8, <1>9

\* By the steps of the fan-out.
LEMMA TypedFan ==
  ASSUME PushTyped, NEW t \in Threads
  PROVE  /\ LockList(t) \/ Return(t) => PushTyped'
         /\ \A o \in Outputs : WriteOutput(t, o) \/ WriteEnds(t, o) \/ WriteThrows(t, o) => PushTyped'
         /\ \A j \in Inputs : Replicate(t, j) => PushTyped'
  <1>1. ASSUME LockList(t) PROVE PushTyped'
    <2>1. stack' \in [Threads -> Seq(FrameType)]
      BY <1>1, LockFacts DEF Retop
    <2>2. listLock' \in [Inputs -> Threads \cup {NoThread}] /\ cut' \subseteq Inputs
      BY <1>1 DEF LockList, PushTyped
    <2>3. UNCHANGED <<factor, count, arrived, passed, held, calls, got, written, ended>>
      BY <1>1 DEF LockList, decimationVars
    <2> QED BY <2>1, <2>2, <2>3 DEF PushTyped
  <1>2. ASSUME Return(t) PROVE PushTyped'
    <2>1. stack' \in [Threads -> Seq(FrameType)]
      BY <1>2, ReturnFacts
    <2>2. listLock' \in [Inputs -> Threads \cup {NoThread}]
      BY <1>2 DEF Return, PushTyped
    <2>3. UNCHANGED <<factor, count, arrived, passed, held, calls, got, written, cut, ended>>
      BY <1>2 DEF Return, decimationVars
    <2> QED BY <2>1, <2>2, <2>3 DEF PushTyped
  <1>3. ASSUME NEW o \in Outputs, WriteOutput(t, o) PROVE PushTyped'
    <2>1. stack' \in [Threads -> Seq(FrameType)] /\ InCall(t)
      BY <1>3, InsideFacts DEF Inside
    <2>2. Top(t) \in FrameType
      BY <2>1, InFacts
    <2>v. PICK v \in Called : v = Top(t).value
      BY <2>2 DEF FrameType
    <2>3. v.root \in Inputs /\ v.number \in 0..MaxCalls
      BY BoundsAssumption DEF Called, BoundsAssumption
    <2>4. written' = [written EXCEPT ![o] = v] /\ got' = [got EXCEPT ![o][v.root] = v.number]
      BY <1>3, <2>v DEF WriteOutput
    <2>5. written' \in [Outputs -> Called \cup {NoValue}]
      BY <2>4 DEF PushTyped
    <2>6. got' \in [Outputs -> [Inputs -> 0..MaxCalls]]
      BY <2>3, <2>4 DEF PushTyped
    <2>7. UNCHANGED <<factor, count, arrived, passed, listLock, held, calls, cut, ended>>
      BY <1>3 DEF WriteOutput, decimationVars
    <2> QED BY <2>1, <2>5, <2>6, <2>7 DEF PushTyped
  <1>4. ASSUME NEW o \in Outputs, WriteEnds(t, o) PROVE PushTyped'
    <2>1. ended' \in BOOLEAN
      BY <1>4 DEF WriteEnds
    <2>2. UNCHANGED <<factor, count, arrived, passed, listLock, held, stack, calls, got, written, cut>>
      BY <1>4 DEF WriteEnds, decimationVars
    <2> QED BY <2>1, <2>2 DEF PushTyped
  <1>5. ASSUME NEW o \in Outputs, WriteThrows(t, o) PROVE PushTyped'
    <2>1. stack' \in [Threads -> Seq(FrameType)]
      BY <1>5, ThrowFacts
    <2>2. listLock' = [i \in Inputs |-> IF listLock[i] = t THEN NoThread ELSE listLock[i]]
      BY <1>5 DEF WriteThrows
    <2>3. listLock' \in [Inputs -> Threads \cup {NoThread}]
      BY <2>2 DEF PushTyped
    <2>4. stack[t] \in Seq(FrameType) /\ cut' = cut \cup { f.pv : f \in ToSet(stack[t]) }
      BY <1>5 DEF WriteThrows, PushTyped
    <2>5. ToSet(stack[t]) \subseteq FrameType
      BY <2>4 DEF ToSet
    <2>6. cut' \subseteq Inputs
      BY <2>4, <2>5 DEF FrameType, PushTyped
    <2>7. UNCHANGED <<factor, count, arrived, passed, held, calls, got, written, ended>>
      BY <1>5 DEF WriteThrows, decimationVars
    <2> QED BY <2>1, <2>3, <2>6, <2>7 DEF PushTyped
  <1>6. ASSUME NEW j \in Inputs, Replicate(t, j) PROVE PushTyped'
    <2>1. stack' \in [Threads -> Seq(FrameType)]
      BY <1>6, InsideFacts DEF Inside
    <2>2. UNCHANGED <<factor, count, arrived, passed, listLock, held, calls, got, written, cut, ended>>
      BY <1>6 DEF Replicate, decimationVars
    <2> QED BY <2>1, <2>2 DEF PushTyped
  <1> QED BY <1>1, <1>2, <1>3, <1>4, <1>5, <1>6

\* Every step keeps them.
LEMMA TypedNext == PushTyped /\ [Next]_vars => PushTyped'
  <1> SUFFICES ASSUME PushTyped, [Next]_vars PROVE PushTyped'
    OBVIOUS
  <1>1. ASSUME NEW t \in Threads, Step(t) PROVE PushTyped'
    BY <1>1, TypedMoves, TypedFan DEF Step
  <1>2. ASSUME UNCHANGED vars PROVE PushTyped'
    BY <1>2 DEF vars, PushTyped
  <1>4. CASE Idle
    BY <1>2, <1>4 DEF Idle
  <1> QED BY <1>1, <1>2, <1>4, TypedCall, TypedSet DEF Next

-----------------------------------------------------------------------------
(* The fan-outs under way.                                                  *)

\* How deep in its stack u is inside a fan-out.
Fans(u) == { k \in 1 .. Len(stack[u]) : stack[u][k].at = "fan" }

\* Each has its PV's list locked, is the only one on that PV, goes through links of
\* it, and what is no longer to do is done, unless an exception has cut it short.
FanInv ==
  \A u \in Threads : \A k \in Fans(u) :
    LET f == stack[u][k] IN
    /\ listLock[f.pv] = u
    /\ f.todo \subseteq Links(f.pv)
    /\ \A m \in Fans(u) : stack[u][m].pv = f.pv => m = k
    /\ f.pv \notin cut => \A o \in OwnSubscribers(f.pv) \ f.todo : written[o] = f.value

\* A call inside another comes from its fan-out.
BelowInv == \A u \in Threads : \A k \in 1 .. Len(stack[u]) - 1 : k \in Fans(u)

NoFanOn(i) == \A u \in Threads : \A k \in Fans(u) : stack[u][k].pv # i

\* Where none is under way, the subscribers agree.
RestInv ==
  \A i \in Inputs \ cut : NoFanOn(i) =>
    \A o1, o2 \in OwnSubscribers(i) : written[o1] = written[o2]

\* The fan-outs are what they were.
SameFans ==
  \A u \in Threads : Fans(u)' = Fans(u) /\ \A k \in Fans(u) : stack'[u][k] = stack[u][k]

\* A call that moves on alone leaves the fan-outs as they are, and what is below it.
LEMMA MovesFans ==
  ASSUME PushTyped, BelowInv, NEW t \in Threads, Moves(t)
  PROVE  SameFans /\ BelowInv'
  <1> DEFINE n == Len(stack[t])
  <1>1. PICK f \in FrameType : Retop(t, f) /\ f.at # "fan" /\ f.pv = PV(t)
    BY DEF Moves
  <1>2. n \in Nat \ {0} /\ Top(t) = stack[t][n] /\ stack[t][n].at # "fan"
    BY InFacts DEF Moves
  <1>3. /\ \A u \in Threads \ {t} : stack'[u] = stack[u]
        /\ Len(stack'[t]) = n /\ stack'[t][n] = f
        /\ \A k \in 1 .. n - 1 : stack'[t][k] = stack[t][k]
    BY <1>1 DEF Retop
  <1>4. ASSUME NEW u \in Threads \ {t}
        PROVE  /\ Fans(u)' = Fans(u) /\ \A k \in Fans(u) : stack'[u][k] = stack[u][k]
               /\ \A k \in 1 .. Len(stack'[u]) - 1 : k \in Fans(u)'
    <2>1. stack'[u] = stack[u] /\ \A k \in 1 .. Len(stack[u]) - 1 : k \in Fans(u)
      BY <1>3 DEF BelowInv
    <2> QED BY <2>1 DEF Fans
  <1>5. ASSUME NEW k PROVE k \in Fans(t)' <=> k \in Fans(t)
    <2>1. k \in Fans(t) <=> k \in 1 .. n /\ stack[t][k].at = "fan"
      BY DEF Fans
    <2>2. k \in Fans(t)' <=> k \in 1 .. n /\ stack'[t][k].at = "fan"
      BY <1>3 DEF Fans
    <2>3. k \in 1 .. n => k = n \/ k \in 1 .. n - 1
      BY <1>2
    <2> HIDE DEF n
    <2> QED BY <1>1, <1>2, <1>3, <2>1, <2>2, <2>3
  <1>6. ASSUME NEW k \in Fans(t) PROVE stack'[t][k] = stack[t][k]
    <2>1. k \in 1 .. n /\ stack[t][k].at = "fan"
      BY DEF Fans
    <2>2. k \in 1 .. n - 1
      BY <1>2, <2>1
    <2> QED BY <1>3, <2>2
  <1>7. ASSUME NEW k \in 1 .. Len(stack'[t]) - 1 PROVE k \in Fans(t)'
    <2>1. k \in 1 .. Len(stack[t]) - 1
      BY <1>3
    <2>2. k \in Fans(t)
      BY <2>1 DEF BelowInv
    <2> QED BY <1>5, <2>2
  <1>e. Fans(t)' = Fans(t)
    BY <1>5
  <1>8. SameFans
    BY <1>4, <1>e, <1>6 DEF SameFans
  <1>9. BelowInv'
    BY <1>4, <1>7 DEF BelowInv
  <1> QED BY <1>8, <1>9

\* So does a new call.
LEMMA CallFans ==
  ASSUME PushTyped, BelowInv, NEW t \in Threads, NEW i \in Inputs,
         NEW kind \in Kinds, Call(t, i, kind)
  PROVE  SameFans /\ BelowInv'
  <1>1. /\ stack[t] = <<>> /\ Len(stack'[t]) = 1 /\ stack'[t][1].at # "fan"
        /\ \A u \in Threads \ {t} : stack'[u] = stack[u]
    BY CallFacts
  <1>2. ASSUME NEW u \in Threads \ {t}
        PROVE  /\ Fans(u)' = Fans(u) /\ \A k \in Fans(u) : stack'[u][k] = stack[u][k]
               /\ \A k \in 1 .. Len(stack'[u]) - 1 : k \in Fans(u)'
    <2>1. stack'[u] = stack[u] /\ \A k \in 1 .. Len(stack[u]) - 1 : k \in Fans(u)
      BY <1>1 DEF BelowInv
    <2> QED BY <2>1 DEF Fans
  <1>3. Fans(t) = {}
    BY <1>1 DEF Fans
  <1>4. ASSUME NEW k \in Fans(t)' PROVE FALSE
    <2>1. k \in 1 .. 1 /\ stack'[t][k].at = "fan"
      BY <1>1 DEF Fans
    <2> QED BY <1>1, <2>1
  <1>5. \A k \in 1 .. Len(stack'[t]) - 1 : FALSE
    BY <1>1
  <1>6. SameFans
    BY <1>2, <1>3, <1>4 DEF SameFans
  <1>7. BelowInv'
    BY <1>2, <1>5 DEF BelowInv
  <1> QED BY <1>6, <1>7

\* Where the fan-outs, the locks and what is written are the same, so is all that is
\* said of them.
LEMMA KeptFans ==
  ASSUME FanInv, RestInv, SameFans, UNCHANGED <<listLock, written, cut>>
  PROVE  FanInv' /\ RestInv'
  <1>1. ASSUME NEW u \in Threads, NEW k \in Fans(u)'
        PROVE  LET f == stack'[u][k] IN
               /\ listLock'[f.pv] = u
               /\ f.todo \subseteq Links(f.pv)
               /\ \A m \in Fans(u)' : stack'[u][m].pv = f.pv => m = k
               /\ f.pv \notin cut' => \A o \in OwnSubscribers(f.pv) \ f.todo : written'[o] = f.value
    <2>1. k \in Fans(u) /\ Fans(u)' = Fans(u) /\ \A m \in Fans(u) : stack'[u][m] = stack[u][m]
      BY <1>1 DEF SameFans
    <2>2. LET f == stack[u][k] IN
          /\ listLock[f.pv] = u
          /\ f.todo \subseteq Links(f.pv)
          /\ \A m \in Fans(u) : stack[u][m].pv = f.pv => m = k
          /\ f.pv \notin cut => \A o \in OwnSubscribers(f.pv) \ f.todo : written[o] = f.value
      BY <2>1 DEF FanInv
    <2> QED BY <2>1, <2>2
  <1>2. ASSUME NEW i \in Inputs \ cut', NoFanOn(i)', NEW o1 \in OwnSubscribers(i), NEW o2 \in OwnSubscribers(i)
        PROVE  written'[o1] = written'[o2]
    <2>1. i \in Inputs \ cut
      OBVIOUS
    <2>2. NoFanOn(i)
      BY <1>2 DEF SameFans, NoFanOn
    <2>3. written[o1] = written[o2]
      BY <2>1, <2>2 DEF RestInv
    <2> QED BY <2>3
  <1>3. FanInv'
    BY <1>1 DEF FanInv
  <1>4. RestInv'
    BY <1>2 DEF RestInv
  <1> QED BY <1>3, <1>4

\* Taking the list: a fan-out begins, with every subscriber to do.
LEMMA LockFans ==
  ASSUME PushTyped, FanInv, BelowInv, RestInv, NEW t \in Threads, LockList(t)
  PROVE  FanInv' /\ BelowInv' /\ RestInv'
  <1> DEFINE n == Len(stack[t])
             i == PV(t)
  <1>0. PICK f \in FrameType :
          /\ InCall(t) /\ Top(t).at = "lock" /\ Retop(t, f)
          /\ f.at = "fan" /\ f.pv = i /\ f.value = Top(t).value
          /\ Subscribers[i] \subseteq f.todo /\ f.todo \subseteq Links(i)
    BY LockFacts
  <1>1. n \in Nat \ {0} /\ Top(t) = stack[t][n] /\ i = stack[t][n].pv /\ i \in Inputs
    BY <1>0, InFacts DEF PV
  <1>2. /\ \A u \in Threads \ {t} : stack'[u] = stack[u]
        /\ Len(stack'[t]) = n /\ stack'[t][n] = f
        /\ \A k \in 1 .. n - 1 : stack'[t][k] = stack[t][k]
    BY <1>0 DEF Retop
  <1>3. /\ listLock[i] = NoThread /\ listLock' = [listLock EXCEPT ![i] = t]
        /\ cut' = cut \ {i} /\ written' = written
    BY DEF LockList
  <1>l. listLock'[i] = t /\ \A j \in Inputs \ {i} : listLock'[j] = listLock[j]
    BY <1>1, <1>3 DEF PushTyped
  <1>n. NoThread \notin Threads
    BY LinksAssumption DEF LinksAssumption
  <1> HIDE DEF i, n
  <1>4. ASSUME NEW u \in Threads, NEW k \in Fans(u)
        PROVE  stack[u][k].pv # i /\ stack[u][k].pv \in Inputs
    <2>1. listLock[stack[u][k].pv] = u
      BY DEF FanInv
    <2>2. stack[u] \in Seq(FrameType) /\ k \in 1 .. Len(stack[u])
      BY DEF PushTyped, Fans
    <2>3. stack[u][k] \in FrameType
      BY <2>2
    <2>4. stack[u][k].pv \in Inputs
      BY <2>3 DEF FrameType
    <2> QED BY <1>3, <1>n, <2>1, <2>4
  <1>5. ASSUME NEW u \in Threads \ {t} PROVE Fans(u)' = Fans(u) /\ stack'[u] = stack[u]
    BY <1>2 DEF Fans
  <1>6. ASSUME NEW k PROVE k \in Fans(t)' <=> k = n \/ k \in Fans(t)
    <2>1. k \in Fans(t) <=> k \in 1 .. n /\ stack[t][k].at = "fan"
      BY DEF Fans, n
    <2>2. k \in Fans(t)' <=> k \in 1 .. n /\ stack'[t][k].at = "fan"
      BY <1>2 DEF Fans
    <2>3. k \in 1 .. n <=> k = n \/ k \in 1 .. n - 1
      BY <1>1
    <2>4. stack[t][n].at # "fan"
      BY <1>0, <1>1
    <2> QED BY <1>0, <1>2, <2>1, <2>2, <2>3, <2>4
  <1>7. ASSUME NEW k \in Fans(t) PROVE stack'[t][k] = stack[t][k] /\ k # n
    <2>1. k \in 1 .. n /\ stack[t][k].at = "fan"
      BY DEF Fans, n
    <2>2. k # n
      BY <1>0, <1>1, <2>1
    <2>3. k \in 1 .. n - 1
      BY <1>1, <2>1, <2>2
    <2> QED BY <1>2, <2>2, <2>3
  <1>8. ASSUME NEW u \in Threads, NEW k \in Fans(u)
        PROVE  /\ k \in Fans(u)' /\ stack'[u][k] = stack[u][k]
               /\ LET g == stack[u][k] IN
                  /\ g.pv # i
                  /\ listLock'[g.pv] = u
                  /\ g.todo \subseteq Links(g.pv)
                  /\ \A m \in Fans(u)' : stack'[u][m].pv = g.pv => m = k
                  /\ g.pv \notin cut' => \A o \in OwnSubscribers(g.pv) \ g.todo : written'[o] = g.value
    <2> DEFINE g == stack[u][k]
    <2>1. /\ listLock[g.pv] = u
          /\ g.todo \subseteq Links(g.pv)
          /\ \A m \in Fans(u) : stack[u][m].pv = g.pv => m = k
          /\ g.pv \notin cut => \A o \in OwnSubscribers(g.pv) \ g.todo : written[o] = g.value
      BY DEF FanInv
    <2>2. g.pv # i /\ g.pv \in Inputs
      BY <1>4
    <2>3. k \in Fans(u)' /\ stack'[u][k] = stack[u][k]
      BY <1>5, <1>6, <1>7
    <2>4. ASSUME NEW m \in Fans(u)', stack'[u][m].pv = g.pv PROVE m = k
      <3>1. m \in Fans(u) \/ (u = t /\ m = n)
        BY <1>5, <1>6
      <3>2. CASE m \in Fans(u)
        <4>1. stack'[u][m] = stack[u][m]
          BY <1>5, <1>7, <3>2
        <4> QED BY <2>1, <2>4, <3>2, <4>1
      <3>3. CASE u = t /\ m = n
        BY <1>0, <1>2, <2>2, <2>4, <3>3
      <3> QED BY <3>1, <3>2, <3>3
    <2>5. listLock'[g.pv] = u
      BY <1>l, <2>1, <2>2
    <2>6. g.pv \notin cut' => \A o \in OwnSubscribers(g.pv) \ g.todo : written'[o] = g.value
      BY <1>3, <2>1, <2>2
    <2> HIDE DEF g
    <2>7. /\ g.todo \subseteq Links(g.pv)
          /\ \A m \in Fans(u)' : stack'[u][m].pv = g.pv => m = k
      BY <2>1, <2>4
    <2> QED BY <2>2, <2>3, <2>5, <2>6, <2>7 DEF g
  <1>9. /\ n \in Fans(t)' /\ stack'[t][n] = f
        /\ listLock'[f.pv] = t
        /\ f.todo \subseteq Links(f.pv)
        /\ \A m \in Fans(t)' : stack'[t][m].pv = f.pv => m = n
        /\ f.pv \notin cut' => \A o \in OwnSubscribers(f.pv) \ f.todo : written'[o] = f.value
    <2>1. OwnSubscribers(i) \ f.todo = {}
      BY <1>0 DEF OwnSubscribers
    <2>2. \A m \in Fans(t)' : stack'[t][m].pv = f.pv => m = n
      BY <1>0, <1>6, <1>8
    <2>3. n \in Fans(t)'
      BY <1>6
    <2> QED BY <1>0, <1>2, <1>l, <2>1, <2>2, <2>3
  <1>10. FanInv'
    <2>1. ASSUME NEW u \in Threads, NEW k \in Fans(u)'
          PROVE  k \in Fans(u) \/ (u = t /\ k = n)
      BY <1>5, <1>6
    <2>2. ASSUME NEW u \in Threads, NEW k \in Fans(u)'
          PROVE  LET g == stack'[u][k] IN
                 /\ listLock'[g.pv] = u
                 /\ g.todo \subseteq Links(g.pv)
                 /\ \A m \in Fans(u)' : stack'[u][m].pv = g.pv => m = k
                 /\ g.pv \notin cut' => \A o \in OwnSubscribers(g.pv) \ g.todo : written'[o] = g.value
      <3>1. CASE k \in Fans(u)
        BY <1>8, <3>1
      <3>2. CASE u = t /\ k = n
        BY <1>9, <3>2
      <3> QED BY <2>1, <3>1, <3>2
    <2> QED BY <2>2 DEF FanInv
  <1>11. BelowInv'
    <2>1. ASSUME NEW u \in Threads, NEW k \in 1 .. Len(stack'[u]) - 1 PROVE k \in Fans(u)'
      <3>1. Len(stack'[u]) = Len(stack[u])
        BY <1>2 DEF n
      <3>2. k \in Fans(u)
        BY <3>1 DEF BelowInv
      <3> QED BY <1>8, <3>2
    <2> QED BY <2>1 DEF BelowInv
  <1>12. RestInv'
    <2>1. ASSUME NEW j \in Inputs \ cut', NoFanOn(j)', NEW o1 \in OwnSubscribers(j), NEW o2 \in OwnSubscribers(j)
          PROVE  written'[o1] = written'[o2]
      <3>1. j # i
        BY <1>0, <1>9, <2>1 DEF NoFanOn
      <3>2. j \in Inputs \ cut
        BY <1>3, <3>1
      <3>3. NoFanOn(j)
        BY <1>8, <2>1 DEF NoFanOn
      <3>4. written[o1] = written[o2]
        BY <3>2, <3>3 DEF RestInv
      <3> QED BY <1>3, <3>4
    <2> QED BY <2>1 DEF RestInv
  <1> QED BY <1>10, <1>11, <1>12

\* Going on: the innermost fan-out has one thing less to do, the rest is as it was.
LEMMA InsideStack ==
  ASSUME PushTyped, BelowInv, NEW t \in Threads, NEW x, NEW js, Inside(t, x, js)
  PROVE  LET n == Len(stack[t]) IN
         /\ n \in Fans(t) /\ stack'[t][n] = [stack[t][n] EXCEPT !.todo = @ \ {x}]
         /\ x \in stack[t][n].todo
         /\ \A u \in Threads : Fans(u)' = Fans(u)
         /\ \A u \in Threads : \A k \in Fans(u) : ~(u = t /\ k = n) => stack'[u][k] = stack[u][k]
         /\ BelowInv'
  <1> DEFINE n == Len(stack[t])
  <1>1. /\ InCall(t) /\ Top(t).at = "fan" /\ x \in Top(t).todo
        /\ \A u \in Threads \ {t} : stack'[u] = stack[u]
        /\ \A k \in 1 .. n - 1 : stack'[t][k] = stack[t][k]
        /\ stack'[t][n] = [Top(t) EXCEPT !.todo = @ \ {x}]
    BY DEF Inside
  <1>2. n \in Nat \ {0} /\ Top(t) = stack[t][n] /\ Top(t) \in FrameType
    BY <1>1, InFacts
  <1>f. PICK f \in FrameType : f = stack[t][n]
    BY <1>2
  <1>3. stack'[t][n].at = "fan"
    BY <1>1, <1>2, <1>f DEF FrameType
  <1>4. \/ Len(stack'[t]) = n
        \/ Len(stack'[t]) = n + 1 /\ stack'[t][n + 1].at # "fan"
    <2>1. CASE js = {} /\ Len(stack'[t]) = n
      BY <2>1
    <2>2. CASE /\ \E j \in Inputs : js = {j} /\ stack'[t][n + 1] = Frame(j, "push", Top(t).value)
               /\ Len(stack'[t]) = n + 1
      BY <2>2 DEF Frame
    <2> QED BY <2>1, <2>2 DEF Inside
  <1>5. ASSUME NEW u \in Threads \ {t} PROVE Fans(u)' = Fans(u) /\ stack'[u] = stack[u]
    BY <1>1 DEF Fans
  <1>6. ASSUME NEW k PROVE k \in Fans(t)' <=> k \in Fans(t)
    <2>1. k \in Fans(t) <=> k \in 1 .. n /\ stack[t][k].at = "fan"
      BY DEF Fans
    <2>2. k \in Fans(t)' <=> k \in 1 .. Len(stack'[t]) /\ stack'[t][k].at = "fan"
      BY DEF Fans
    <2>3. k \in 1 .. n <=> k = n \/ k \in 1 .. n - 1
      BY <1>2
    <2>4. k \in 1 .. n + 1 <=> k = n + 1 \/ k \in 1 .. n
      BY <1>2
    <2> HIDE DEF n
    <2> QED BY <1>1, <1>2, <1>3, <1>4, <2>1, <2>2, <2>3, <2>4
  <1>e. Fans(t)' = Fans(t)
    BY <1>6
  <1>7. n \in Fans(t)
    BY <1>1, <1>2 DEF Fans
  <1>8. ASSUME NEW k \in Fans(t), k # n PROVE stack'[t][k] = stack[t][k]
    <2>1. k \in 1 .. n
      BY DEF Fans
    <2>2. k \in 1 .. n - 1
      BY <1>2, <1>8, <2>1
    <2> QED BY <1>1, <2>2
  <1>9. ASSUME NEW u \in Threads, NEW k \in 1 .. Len(stack'[u]) - 1 PROVE k \in Fans(u)'
    <2>1. CASE u # t
      <3>1. k \in Fans(u)
        BY <1>5, <2>1 DEF BelowInv
      <3> QED BY <1>5, <2>1, <3>1
    <2>2. CASE u = t
      <3>1. k \in 1 .. n
        BY <1>2, <1>4, <2>2
      <3>2. k = n \/ k \in 1 .. n - 1
        BY <1>2, <3>1
      <3>3. k \in Fans(t)
        BY <1>7, <3>2 DEF BelowInv
      <3> QED BY <1>6, <2>2, <3>3
    <2> QED BY <2>1, <2>2
  <1>10. BelowInv'
    BY <1>9 DEF BelowInv
  <1>11. \A u \in Threads : Fans(u)' = Fans(u)
    BY <1>5, <1>e
  <1>12. \A u \in Threads : \A k \in Fans(u) : ~(u = t /\ k = n) => stack'[u][k] = stack[u][k]
    BY <1>5, <1>8
  <1> HIDE DEF n
  <1>13. stack'[t][n] = [stack[t][n] EXCEPT !.todo = @ \ {x}] /\ x \in stack[t][n].todo
    BY <1>1, <1>2
  <1> QED BY <1>7, <1>10, <1>11, <1>12, <1>13 DEF n

\* What goes on in it is what its PV is linked to, and no other fan-out is for that.
LEMMA InsideFans ==
  ASSUME PushTyped, FanInv, BelowInv, RestInv, NEW t \in Threads, NEW x, NEW js, Inside(t, x, js),
         UNCHANGED <<listLock, cut>>,
         \/ x \in Outputs /\ written' = [written EXCEPT ![x] = Top(t).value]
         \/ x \in Inputs /\ written' = written
  PROVE  FanInv' /\ BelowInv' /\ RestInv'
  <1> DEFINE n == Len(stack[t])
             i == stack[t][n].pv
  <1>1. /\ n \in Fans(t) /\ stack'[t][n] = [stack[t][n] EXCEPT !.todo = @ \ {x}]
        /\ x \in stack[t][n].todo
        /\ \A u \in Threads : Fans(u)' = Fans(u)
        /\ \A u \in Threads : \A k \in Fans(u) : ~(u = t /\ k = n) => stack'[u][k] = stack[u][k]
        /\ BelowInv'
    BY InsideStack
  <1>2. Top(t) = stack[t][n] /\ Top(t) \in FrameType
    BY InFacts DEF Inside
  <1>3. i \in Inputs /\ stack[t][n].todo \subseteq Links(i)
    BY <1>1, <1>2 DEF FanInv, FrameType
  <1>4. ASSUME NEW j \in Inputs, x \in OwnSubscribers(j) PROVE j = i /\ x \in Outputs
    <2>1. x \in Subscribers[j] /\ x \in Outputs /\ Subscribers[j] \subseteq Outputs
      BY <1>4, LinksAssumption DEF OwnSubscribers, LinksAssumption
    <2>2. x \notin Inputs /\ Destinations[i] \subseteq Inputs
      BY <1>3, <2>1, LinksAssumption DEF LinksAssumption
    <2>3. x \in Subscribers[i]
      BY <1>1, <1>3, <2>2 DEF Links
    <2>4. j # i => x \notin Subscribers[i]
      BY <1>3, <1>4 DEF OwnSubscribers
    <2> QED BY <2>1, <2>3, <2>4
  <1>5. ASSUME NEW u \in Threads, NEW k \in Fans(u), ~(u = t /\ k = n)
        PROVE  stack[u][k].pv # i /\ stack[u][k].pv \in Inputs
    <2>1. stack[u] \in Seq(FrameType) /\ k \in 1 .. Len(stack[u])
      BY DEF PushTyped, Fans
    <2>2. stack[u][k] \in FrameType
      BY <2>1
    <2>3. stack[u][k].pv \in Inputs
      BY <2>2 DEF FrameType
    <2>4. listLock[stack[u][k].pv] = u /\ listLock[i] = t
      BY <1>1 DEF FanInv
    <2>5. u = t => stack[u][k].pv # i
      BY <1>1, <1>5 DEF FanInv
    <2> QED BY <2>3, <2>4, <2>5
  <1>6. /\ stack'[t][n].pv = i /\ stack'[t][n].value = Top(t).value
        /\ stack'[t][n].todo = stack[t][n].todo \ {x}
    BY <1>1, <1>2 DEF FrameType
  <1>w. ASSUME NEW j \in Inputs, NEW o \in OwnSubscribers(j), o # x \/ j # i
        PROVE  written'[o] = written[o]
    <2>1. o # x
      BY <1>4, <1>w
    <2>2. o \in Outputs
      BY LinksAssumption DEF OwnSubscribers, LinksAssumption
    <2> QED BY <2>1, <2>2 DEF PushTyped
  <1>p. \A u \in Threads : \A k \in Fans(u) : stack'[u][k].pv = stack[u][k].pv
    BY <1>1, <1>6
  <1> HIDE DEF i, n
  <1>7. ASSUME NEW u \in Threads, NEW k \in Fans(u)
        PROVE  LET g == stack'[u][k] IN
               /\ listLock'[g.pv] = u
               /\ g.todo \subseteq Links(g.pv)
               /\ \A m \in Fans(u)' : stack'[u][m].pv = g.pv => m = k
               /\ g.pv \notin cut' => \A o \in OwnSubscribers(g.pv) \ g.todo : written'[o] = g.value
    <2> DEFINE h == stack[u][k]
               g == stack'[u][k]
    <2>1. /\ listLock[h.pv] = u
          /\ h.todo \subseteq Links(h.pv)
          /\ \A m \in Fans(u) : stack[u][m].pv = h.pv => m = k
          /\ h.pv \notin cut => \A o \in OwnSubscribers(h.pv) \ h.todo : written[o] = h.value
      BY DEF FanInv
    <2>2. g.pv = h.pv /\ \A m \in Fans(u)' : stack'[u][m].pv = h.pv => m = k
      BY <1>1, <1>p, <2>1
    <2>3. CASE u = t /\ k = n
      <3>1. g.pv = i /\ h.pv = i /\ g.todo = h.todo \ {x} /\ g.value = Top(t).value /\ h.value = Top(t).value
        BY <1>2, <1>6, <2>3 DEF i, n
      <3>2. ASSUME i \notin cut, NEW o \in OwnSubscribers(i) \ g.todo PROVE written'[o] = g.value
        <4>1. CASE o = x
          <5>1. x \in Outputs /\ x \notin Inputs
            BY <1>3, <1>4, <4>1, LinksAssumption DEF LinksAssumption
          <5>2. written' = [written EXCEPT ![x] = Top(t).value]
            BY <5>1
          <5> QED BY <3>1, <4>1, <5>1, <5>2 DEF PushTyped
        <4>2. CASE o # x
          <5>1. o \in OwnSubscribers(i) \ h.todo
            BY <3>1, <4>2
          <5>2. written[o] = h.value
            BY <2>1, <3>1, <3>2, <5>1
          <5>3. written'[o] = written[o]
            BY <1>3, <1>w, <4>2
          <5> QED BY <3>1, <5>2, <5>3
        <4> QED BY <4>1, <4>2
      <3>3. g.todo \subseteq Links(i)
        BY <2>1, <3>1
      <3> HIDE DEF g, h
      <3> QED BY <2>1, <2>2, <3>1, <3>2, <3>3 DEF g
    <2>4. CASE ~(u = t /\ k = n)
      <3>1. g = h
        BY <1>1, <2>4 DEF n
      <3>2. h.pv # i /\ h.pv \in Inputs
        BY <1>5, <2>4
      <3>3. h.pv \notin cut => \A o \in OwnSubscribers(h.pv) \ h.todo : written'[o] = h.value
        BY <1>w, <2>1, <3>2
      <3> HIDE DEF g, h
      <3> QED BY <2>1, <2>2, <3>1, <3>3 DEF g
    <2> QED BY <2>3, <2>4
  <1>8. FanInv'
    BY <1>1, <1>7 DEF FanInv
  <1>9. RestInv'
    <2>1. ASSUME NEW j \in Inputs \ cut', NoFanOn(j)', NEW o1 \in OwnSubscribers(j), NEW o2 \in OwnSubscribers(j)
          PROVE  written'[o1] = written'[o2]
      <3>1. NoFanOn(j)
        BY <1>1, <1>p, <2>1 DEF NoFanOn
      <3>2. j # i
        BY <1>1, <3>1 DEF NoFanOn, i, n
      <3>3. written[o1] = written[o2]
        BY <3>1 DEF RestInv
      <3> QED BY <1>w, <3>2, <3>3
    <2> QED BY <2>1 DEF RestInv
  <1> QED BY <1>1, <1>8, <1>9

\* Returning ends the innermost fan-out, which has reached every subscriber of its PV.
LEMMA ReturnFans ==
  ASSUME PushTyped, FanInv, BelowInv, RestInv, NEW t \in Threads, Return(t)
  PROVE  FanInv' /\ BelowInv' /\ RestInv'
  <1> DEFINE n == Len(stack[t])
             i == PV(t)
  <1>1. InCall(t) /\ Top(t).at = "fan" /\ Top(t).todo = {}
    BY DEF Return, At
  <1>2. n \in Nat \ {0} /\ Top(t) = stack[t][n] /\ i = stack[t][n].pv /\ i \in Inputs
    BY <1>1, InFacts DEF PV
  <1>3. n \in Fans(t)
    BY <1>1, <1>2 DEF Fans
  <1>4. /\ \A u \in Threads \ {t} : stack'[u] = stack[u]
        /\ Len(stack'[t]) = n - 1
        /\ \A k \in 1 .. n - 1 : stack'[t][k] = stack[t][k]
    BY ReturnFacts
  <1>5. listLock' = [listLock EXCEPT ![i] = NoThread] /\ cut' = cut /\ written' = written
    BY DEF Return
  <1> HIDE DEF i
  <1>6. ASSUME NEW u \in Threads \ {t} PROVE Fans(u)' = Fans(u) /\ stack'[u] = stack[u]
    BY <1>4 DEF Fans
  <1>7. ASSUME NEW k PROVE k \in Fans(t)' <=> k \in Fans(t) /\ k # n
    <2>1. k \in Fans(t) <=> k \in 1 .. n /\ stack[t][k].at = "fan"
      BY DEF Fans
    <2>2. k \in Fans(t)' <=> k \in 1 .. n - 1 /\ stack'[t][k].at = "fan"
      BY <1>4 DEF Fans
    <2>3. k \in 1 .. n - 1 <=> k # n /\ k \in 1 .. n
      BY <1>2
    <2> HIDE DEF n
    <2> QED BY <1>4, <2>1, <2>2, <2>3
  <1>8. ASSUME NEW u \in Threads, NEW k \in Fans(u)'
        PROVE  k \in Fans(u) /\ stack'[u][k] = stack[u][k] /\ ~(u = t /\ k = n)
    <2>1. CASE u # t
      BY <1>6, <1>8, <2>1
    <2>2. CASE u = t
      <3>1. k \in Fans(t) /\ k # n
        BY <1>7, <1>8, <2>2
      <3>2. k \in 1 .. n - 1
        BY <1>2, <3>1 DEF Fans
      <3> QED BY <1>4, <2>2, <3>1, <3>2
    <2> QED BY <2>1, <2>2
  <1>9. ASSUME NEW u \in Threads, NEW k \in Fans(u), ~(u = t /\ k = n)
        PROVE  stack[u][k].pv # i /\ stack[u][k].pv \in Inputs
    <2>1. stack[u] \in Seq(FrameType) /\ k \in 1 .. Len(stack[u])
      BY DEF PushTyped, Fans
    <2>2. stack[u][k] \in FrameType
      BY <2>1
    <2>3. stack[u][k].pv \in Inputs
      BY <2>2 DEF FrameType
    <2>4. listLock[stack[u][k].pv] = u /\ listLock[i] = t
      BY <1>2, <1>3 DEF FanInv
    <2>5. u = t => stack[u][k].pv # i
      BY <1>2, <1>3, <1>9 DEF FanInv
    <2> QED BY <2>3, <2>4, <2>5
  <1> HIDE DEF n
  <1>10. ASSUME NEW u \in Threads, NEW k \in Fans(u)'
         PROVE  LET g == stack'[u][k] IN
                /\ listLock'[g.pv] = u
                /\ g.todo \subseteq Links(g.pv)
                /\ \A m \in Fans(u)' : stack'[u][m].pv = g.pv => m = k
                /\ g.pv \notin cut' => \A o \in OwnSubscribers(g.pv) \ g.todo : written'[o] = g.value
    <2> DEFINE g == stack[u][k]
    <2>1. k \in Fans(u) /\ stack'[u][k] = g /\ ~(u = t /\ k = n)
      BY <1>8, <1>10
    <2>2. /\ listLock[g.pv] = u
          /\ g.todo \subseteq Links(g.pv)
          /\ \A m \in Fans(u) : stack[u][m].pv = g.pv => m = k
          /\ g.pv \notin cut => \A o \in OwnSubscribers(g.pv) \ g.todo : written[o] = g.value
      BY <2>1 DEF FanInv
    <2>3. listLock'[g.pv] = listLock[g.pv]
      BY <1>5, <1>9, <2>1 DEF PushTyped
    <2>4. \A m \in Fans(u)' : stack'[u][m].pv = g.pv => m = k
      BY <1>8, <2>2
    <2> HIDE DEF g
    <2> QED BY <1>5, <2>1, <2>2, <2>3, <2>4
  <1>11. FanInv'
    BY <1>10 DEF FanInv
  <1>12. BelowInv'
    <2>1. ASSUME NEW u \in Threads, NEW k \in 1 .. Len(stack'[u]) - 1 PROVE k \in Fans(u)'
      <3>1. CASE u # t
        BY <1>6, <3>1 DEF BelowInv
      <3>2. CASE u = t
        <4>1. k \in 1 .. n - 2
          BY <1>2, <1>4, <3>2
        <4>2. k \in 1 .. n - 1 /\ k # n
          BY <1>2, <4>1
        <4>3. k \in Fans(t)
          BY <4>2 DEF BelowInv, n
        <4> QED BY <1>7, <3>2, <4>2, <4>3
      <3> QED BY <3>1, <3>2
    <2> QED BY <2>1 DEF BelowInv
  <1>13. RestInv'
    <2>1. ASSUME NEW j \in Inputs \ cut', NoFanOn(j)', NEW o1 \in OwnSubscribers(j), NEW o2 \in OwnSubscribers(j)
          PROVE  written[o1] = written[o2]
      <3>1. CASE j = i
        <4>1. \A o \in OwnSubscribers(i) \ stack[t][n].todo : written[o] = stack[t][n].value
          BY <1>2, <1>3, <1>5, <3>1 DEF FanInv
        <4>2. stack[t][n].todo = {}
          BY <1>1, <1>2
        <4> QED BY <3>1, <4>1, <4>2
      <3>2. CASE j # i
        <4>1. ASSUME NEW u \in Threads, NEW k \in Fans(u) PROVE stack[u][k].pv # j
          <5>1. CASE u = t /\ k = n
            BY <1>2, <3>2, <5>1
          <5>2. CASE ~(u = t /\ k = n)
            <6>1. k \in Fans(u)'
              BY <1>6, <1>7, <5>2
            <6> QED BY <1>8, <2>1, <6>1 DEF NoFanOn
          <5> QED BY <5>1, <5>2
        <4>2. NoFanOn(j)
          BY <4>1 DEF NoFanOn
        <4> QED BY <1>5, <4>2 DEF RestInv
      <3> QED BY <3>1, <3>2
    <2> QED BY <1>5, <2>1 DEF RestInv
  <1> QED BY <1>11, <1>12, <1>13

\* An exception ends every fan-out of its thread, and their PVs are known to be cut short.
LEMMA ThrowFans ==
  ASSUME PushTyped, FanInv, BelowInv, RestInv, NEW t \in Threads, NEW o \in Outputs, WriteThrows(t, o)
  PROVE  FanInv' /\ BelowInv' /\ RestInv'
  <1>1. /\ \A u \in Threads \ {t} : stack'[u] = stack[u]
        /\ Len(stack'[t]) = 0
    BY ThrowFacts
  <1>2. /\ listLock' = [i \in Inputs |-> IF listLock[i] = t THEN NoThread ELSE listLock[i]]
        /\ cut' = cut \cup { f.pv : f \in ToSet(stack[t]) } /\ written' = written
    BY DEF WriteThrows
  <1>3. Fans(t)' = {}
    BY <1>1 DEF Fans
  <1>4. ASSUME NEW u \in Threads \ {t} PROVE Fans(u)' = Fans(u) /\ stack'[u] = stack[u]
    BY <1>1 DEF Fans
  <1>5. ASSUME NEW k \in Fans(t) PROVE stack[t][k].pv \in cut'
    <2>1. stack[t] \in Seq(FrameType) /\ k \in 1 .. Len(stack[t])
      BY DEF PushTyped, Fans
    <2>2. stack[t][k] \in ToSet(stack[t])
      BY <2>1 DEF ToSet
    <2> QED BY <1>2, <2>2
  <1>6. ASSUME NEW u \in Threads, NEW k \in Fans(u)'
        PROVE  LET g == stack'[u][k] IN
               /\ listLock'[g.pv] = u
               /\ g.todo \subseteq Links(g.pv)
               /\ \A m \in Fans(u)' : stack'[u][m].pv = g.pv => m = k
               /\ g.pv \notin cut' => \A x \in OwnSubscribers(g.pv) \ g.todo : written'[x] = g.value
    <2> DEFINE g == stack[u][k]
    <2>1. u # t /\ k \in Fans(u) /\ stack'[u] = stack[u] /\ Fans(u)' = Fans(u)
      BY <1>3, <1>4, <1>6
    <2>2. /\ listLock[g.pv] = u
          /\ g.todo \subseteq Links(g.pv)
          /\ \A m \in Fans(u) : stack[u][m].pv = g.pv => m = k
          /\ g.pv \notin cut => \A x \in OwnSubscribers(g.pv) \ g.todo : written[x] = g.value
      BY <2>1 DEF FanInv
    <2>3. stack[u] \in Seq(FrameType) /\ k \in 1 .. Len(stack[u])
      BY <2>1 DEF PushTyped, Fans
    <2>4. g \in FrameType
      BY <2>3
    <2>5. g.pv \in Inputs
      BY <2>4 DEF FrameType
    <2>6. listLock'[g.pv] = u
      BY <1>2, <2>1, <2>2, <2>5
    <2>7. g.pv \notin cut' => g.pv \notin cut
      BY <1>2
    <2> HIDE DEF g
    <2>8. stack'[u][k] = g
      BY <2>1 DEF g
    <2>9. \A m \in Fans(u)' : stack'[u][m].pv = g.pv => m = k
      BY <2>1, <2>2
    <2> QED BY <1>2, <2>2, <2>6, <2>7, <2>8, <2>9
  <1>7. FanInv'
    BY <1>6 DEF FanInv
  <1>8. BelowInv'
    <2>1. ASSUME NEW u \in Threads, NEW k \in 1 .. Len(stack'[u]) - 1 PROVE k \in Fans(u)'
      <3>1. u # t
        BY <1>1
      <3> QED BY <1>4, <3>1 DEF BelowInv
    <2> QED BY <2>1 DEF BelowInv
  <1>9. RestInv'
    <2>1. ASSUME NEW j \in Inputs \ cut', NoFanOn(j)', NEW o1 \in OwnSubscribers(j), NEW o2 \in OwnSubscribers(j)
          PROVE  written[o1] = written[o2]
      <3>1. j \in Inputs \ cut
        BY <1>2
      <3>2. ASSUME NEW u \in Threads, NEW k \in Fans(u) PROVE stack[u][k].pv # j
        <4>1. CASE u = t
          BY <1>5, <2>1, <4>1
        <4>2. CASE u # t
          BY <1>4, <2>1, <4>2 DEF NoFanOn
        <4> QED BY <4>1, <4>2
      <3>3. NoFanOn(j)
        BY <3>2 DEF NoFanOn
      <3> QED BY <3>1, <3>3 DEF RestInv
    <2> QED BY <1>2, <2>1 DEF RestInv
  <1> QED BY <1>7, <1>8, <1>9

-----------------------------------------------------------------------------
(* The subscribers agree.                                                   *)

FanOutInv == PushTyped /\ FanInv /\ BelowInv /\ RestInv

\* At the start nothing is under way and nothing is written.
LEMMA FanOutInit == Init => FanOutInv
  <1> SUFFICES ASSUME Init PROVE FanOutInv
    OBVIOUS
  <1>1. PushTyped
    BY TypedInit
  <1>2. ASSUME NEW u \in Threads PROVE Len(stack[u]) = 0 /\ Fans(u) = {} /\ 1 .. Len(stack[u]) - 1 = {}
    BY <1>2 DEF Init, Fans
  <1>3. FanInv /\ BelowInv
    BY <1>2 DEF FanInv, BelowInv
  <1>4. ASSUME NEW i \in Inputs, NEW o1 \in OwnSubscribers(i), NEW o2 \in OwnSubscribers(i)
        PROVE  written[o1] = written[o2]
    <2>1. o1 \in Outputs /\ o2 \in Outputs
      BY LinksAssumption DEF OwnSubscribers, LinksAssumption
    <2> QED BY <2>1 DEF Init
  <1>5. RestInv
    BY <1>4 DEF RestInv
  <1> QED BY <1>1, <1>3, <1>5 DEF FanOutInv

\* The steps that leave the fan-outs, the locks and the outputs alone.
LEMMA FanOutElsewhere ==
  ASSUME FanOutInv
  PROVE  /\ \A t \in Threads : \A i \in Inputs : Push(t, i) \/ SetValue(t, i) => FanInv' /\ BelowInv' /\ RestInv'
         /\ \A t \in Threads :
              LoadCount(t) \/ StoreCount(t) \/ ResetCount(t) \/ PassToControlSystem(t) \/ StoreValue(t)
                => FanInv' /\ BelowInv' /\ RestInv'
         /\ UNCHANGED <<stack, listLock, written, cut>> => FanInv' /\ BelowInv' /\ RestInv'
  <1>0. PushTyped /\ FanInv /\ BelowInv /\ RestInv
    BY DEF FanOutInv
  <1>1. ASSUME NEW t \in Threads, NEW i \in Inputs, NEW kind \in Kinds, Call(t, i, kind)
        PROVE  FanInv' /\ BelowInv' /\ RestInv'
    <2>1. UNCHANGED <<listLock, written, cut>>
      BY <1>1 DEF Call
    <2>2. SameFans /\ BelowInv'
      BY <1>0, <1>1, CallFans
    <2> QED BY <1>0, <2>1, <2>2, KeptFans
  <1>2. ASSUME NEW t \in Threads,
               LoadCount(t) \/ StoreCount(t) \/ ResetCount(t) \/ PassToControlSystem(t) \/ StoreValue(t)
        PROVE  FanInv' /\ BelowInv' /\ RestInv'
    <2>1. UNCHANGED <<listLock, written, cut>>
      BY <1>2 DEF LoadCount, StoreCount, ResetCount, PassToControlSystem, StoreValue
    <2>2. Moves(t)
      BY <1>0, <1>2, MovesFacts
    <2>3. SameFans /\ BelowInv'
      BY <1>0, <2>2, MovesFans
    <2> QED BY <1>0, <2>1, <2>3, KeptFans
  <1>3. ASSUME UNCHANGED <<stack, listLock, written, cut>> PROVE FanInv' /\ BelowInv' /\ RestInv'
    <2>1. SameFans /\ BelowInv'
      BY <1>0, <1>3 DEF SameFans, BelowInv, Fans
    <2> QED BY <1>0, <1>3, <2>1, KeptFans
  <1>4. \A t \in Threads : \A i \in Inputs : Push(t, i) \/ SetValue(t, i) => FanInv' /\ BelowInv' /\ RestInv'
    BY <1>1 DEF Push, SetValue, Kinds
  <1> QED BY <1>2, <1>3, <1>4

\* Every step keeps the fan-outs in order.
LEMMA FanOutNext == FanOutInv /\ [Next]_vars => FanOutInv'
  <1> SUFFICES ASSUME FanOutInv, [Next]_vars PROVE FanInv' /\ BelowInv' /\ RestInv'
    BY TypedNext DEF FanOutInv
  <1>0. PushTyped /\ FanInv /\ BelowInv /\ RestInv
    BY DEF FanOutInv
  <1>1. ASSUME UNCHANGED <<stack, listLock, written, cut>> PROVE FanInv' /\ BelowInv' /\ RestInv'
    BY <1>1, FanOutElsewhere
  <1>2. ASSUME NEW t \in Threads, NEW o \in Outputs, WriteOutput(t, o) PROVE FanInv' /\ BelowInv' /\ RestInv'
    <2>1. Inside(t, o, Acknowledges[o])
      BY <1>0, <1>2, InsideFacts
    <2>2. UNCHANGED <<listLock, cut>> /\ written' = [written EXCEPT ![o] = Top(t).value]
      BY <1>2 DEF WriteOutput
    <2> QED BY <1>0, <2>1, <2>2, InsideFans
  <1>3. ASSUME NEW t \in Threads, NEW j \in Inputs, Replicate(t, j) PROVE FanInv' /\ BelowInv' /\ RestInv'
    <2>1. Inside(t, j, {j})
      BY <1>0, <1>3, InsideFacts
    <2>2. UNCHANGED <<listLock, cut>> /\ written' = written
      BY <1>3 DEF Replicate
    <2> QED BY <1>0, <2>1, <2>2, InsideFans
  <1>4. ASSUME NEW t \in Threads, NEW o \in Outputs, WriteEnds(t, o) PROVE FanInv' /\ BelowInv' /\ RestInv'
    BY <1>1, <1>4 DEF WriteEnds
  <1>5. ASSUME NEW t \in Threads, Step(t) PROVE FanInv' /\ BelowInv' /\ RestInv'
    BY <1>0, <1>2, <1>3, <1>4, <1>5, FanOutElsewhere, LockFans, ReturnFans, ThrowFans DEF Step
  <1>6. ASSUME NEW i \in Inputs, NEW d \in Decimations[i], SetDecimation(i, d)
        PROVE  FanInv' /\ BelowInv' /\ RestInv'
    BY <1>1, <1>6 DEF SetDecimation
  <1>7. ASSUME UNCHANGED vars PROVE FanInv' /\ BelowInv' /\ RestInv'
    BY <1>1, <1>7 DEF vars
  <1> QED BY <1>5, <1>6, <1>7, FanOutElsewhere DEF Next, Idle

\* The outputs subscribed to one PV alone hold the same value, whatever threads push
\* on it, through whatever links, whenever no fan-out of it is under way and none has
\* been cut short: m_lockSubscribersList is held from the first write to the last.
THEOREM FanOutsAgree == Spec => []SubscribersAgree
  <1>1. FanOutInv => SubscribersAgree
    <2> SUFFICES ASSUME FanOutInv, NEW i \in Inputs, i \notin cut, \A f \in Frames(i) : f.at # "fan",
                        NEW o1 \in OwnSubscribers(i), NEW o2 \in OwnSubscribers(i)
                 PROVE  written[o1] = written[o2]
      BY DEF SubscribersAgree
    <2>1. ASSUME NEW u \in Threads, NEW k \in Fans(u), stack[u][k].pv = i PROVE FALSE
      <3>1. stack[u] \in Seq(FrameType) /\ k \in 1 .. Len(stack[u]) /\ stack[u][k].at = "fan"
        BY DEF FanOutInv, PushTyped, Fans
      <3>2. stack[u][k] \in ToSet(stack[u])
        BY <3>1 DEF ToSet
      <3>3. stack[u][k] \in Frames(i)
        BY <2>1, <3>2 DEF Frames
      <3> QED BY <3>1, <3>3
    <2>2. NoFanOn(i)
      BY <2>1 DEF NoFanOn
    <2> QED BY <2>2 DEF FanOutInv, RestInv
  <1>2. Init /\ [][Next]_vars => []FanOutInv
    BY FanOutInit, FanOutNext, PTL
  <1> QED BY <1>1, <1>2, PTL DEF Spec

-----------------------------------------------------------------------------
(* Decimation, on PVs that one thread at a time pushes on.                  *)

\* Each input has a thread of its own, which is the only one to call on it and on the
\* inputs that come before it in the chain of links.
Owned(own) ==
  /\ \A t \in Threads : \A i \in PushesOn[t] \cup SetsOn[t] : own[i] = t
  /\ \A i \in Inputs : \A j \in Onward(i) : own[j] = own[i]

Separated == \E own \in [Inputs -> Threads] : Owned(own)
Owner     == CHOOSE own \in [Inputs -> Threads] : Owned(own)

\* Its calls are all on the stack of that thread.
OwnInv == \A u \in Threads : \A k \in 1 .. Len(stack[u]) : Owner[stack[u][k].pv] = u

\* The innermost call of u is between the decrement of the counter and the answer to it.
Deciding(u) == InCall(u) /\ Top(u).at \in {"store", "reset", "pass"}

Where(i) == IF Deciding(Owner[i]) /\ PV(Owner[i]) = i THEN Top(Owner[i]).at ELSE "rest"

\* Of the values a, in groups of f, the last of each group has gone to p; the counter c
\* says how many are missing in the group begun, and the register r of a call at one of
\* its three places, with the value v, that c is one behind.
Decimated(f, c, a, p, at, r, v) ==
  /\ at \in {"rest", "store"} => c \in 1 .. f
  /\ at = "rest"  => Len(a) = Len(p) * f + (f - c)
  /\ at = "store" => r = c - 1 /\ Len(a) = Len(p) * f + (f - c) + 1
  /\ at = "reset" => c = 0
  /\ at = "pass"  => c = f
  /\ at \in {"reset", "pass"} => Len(a) = Len(p) * f + f
  /\ at \in {"store", "reset", "pass"} => a[Len(a)] = v
  /\ \A k \in 1 .. Len(p) : p[k] = a[k * f]

DecInv ==
  \A i \in Inputs : factor[i] # 0 =>
    Decimated(factor[i], count[i], arrived[i], passed[i], Where(i),
              IF Where(i) = "rest" THEN 0 ELSE Top(Owner[i]).register,
              IF Where(i) = "rest" THEN NoValue ELSE Top(Owner[i]).value)

\* One less than a counter that is not at zero, in its width.
LEMMA OneLess ==
  ASSUME NEW w \in Nat, NEW c \in 1 .. w - 1
  PROVE  (c + w - 1) % w = c - 1
  <1>1. c - 1 \in 0 .. w - 1 /\ c + w - 1 = 1 * w + (c - 1) /\ w > 0
    OBVIOUS
  <1>2. ASSUME NEW n \in Nat, NEW r \in 0 .. w - 1, n = 1 * w + r PROVE n % w = r
    BY <1>1, <1>2
  <1> QED BY <1>1, <1>2

\* How many groups of f are in n: the rest is less than one.
LEMMA GroupsOf ==
  ASSUME NEW n \in Nat, NEW f \in Nat \ {0}, NEW q \in Nat, NEW r \in 0 .. f - 1, n = q * f + r
  PROVE  n \div f = q
  OBVIOUS

\* The end of each of q groups is within them.
LEMMA WithinGroups ==
  ASSUME NEW f \in Nat \ {0}, NEW q \in Nat, NEW k \in 1 .. q
  PROVE  k * f \in 1 .. q * f
  <1>1. q - k \in Nat /\ k \in Nat \ {0}
    OBVIOUS
  <1>2. (q - k) * f \in Nat /\ k * f \in Nat /\ k * f > 0
    BY <1>1
  <1>3. q * f = (q - k) * f + k * f
    BY <1>1
  <1> QED BY <1>2, <1>3

\* A value arrives and the counter is read.
LEMMA DecimatedLoad ==
  ASSUME NEW S, NEW a \in Seq(S), NEW p \in Seq(S), NEW v \in S, NEW r0, NEW v0,
         NEW f \in Nat \ {0}, NEW c, f < Width, Decimated(f, c, a, p, "rest", r0, v0)
  PROVE  Decimated(f, c, Append(a, v), p, "store", (c + Width - 1) % Width, v)
  <1>w. Width \in Nat
    BY BoundsAssumption DEF BoundsAssumption
  <1>1. /\ c \in 1 .. f /\ Len(a) = Len(p) * f + (f - c)
        /\ \A k \in 1 .. Len(p) : p[k] = a[k * f]
    BY DEF Decimated
  <1>2. c \in 1 .. Width - 1
    BY <1>1, <1>w
  <1>r. PICK r : r = (c + Width - 1) % Width
    OBVIOUS
  <1>3. r = c - 1
    BY <1>2, <1>r, <1>w, OneLess
  <1>b. PICK b : b = Append(a, v)
    OBVIOUS
  <1>4. Len(b) = Len(a) + 1 /\ b[Len(b)] = v /\ \A k \in 1 .. Len(a) : b[k] = a[k]
    BY <1>b, AppendProperties
  <1>5. Len(p) \in Nat /\ Len(a) \in Nat /\ Len(p) * f \in Nat
    OBVIOUS
  <1>6. ASSUME NEW k \in 1 .. Len(p) PROVE p[k] = b[k * f]
    <2>1. k * f \in 1 .. Len(p) * f
      BY <1>5, WithinGroups
    <2>2. k * f \in 1 .. Len(a)
      BY <1>1, <1>5, <2>1
    <2> QED BY <1>1, <1>4, <2>2
  <1>7. Len(b) = Len(p) * f + (f - c) + 1
    BY <1>1, <1>4
  <1> QED BY <1>1, <1>3, <1>4, <1>6, <1>7, <1>b, <1>r DEF Decimated

\* The counter is written.
LEMMA DecimatedStore ==
  ASSUME NEW S, NEW a \in Seq(S), NEW p \in Seq(S), NEW v, NEW f \in Nat \ {0}, NEW c, NEW r,
         Decimated(f, c, a, p, "store", r, v), NEW r1, NEW v1
  PROVE  /\ r = 0 => Decimated(f, r, a, p, "reset", r1, v)
         /\ r # 0 => Decimated(f, r, a, p, "rest", r1, v1)
  <1>1. /\ c \in 1 .. f /\ r = c - 1 /\ Len(a) = Len(p) * f + (f - c) + 1 /\ a[Len(a)] = v
        /\ \A k \in 1 .. Len(p) : p[k] = a[k * f]
    BY DEF Decimated
  <1>2. Len(p) * f \in Nat
    OBVIOUS
  <1>3. Len(a) = Len(p) * f + (f - r)
    BY <1>1, <1>2
  <1>4. r = 0 => Len(a) = Len(p) * f + f
    BY <1>2, <1>3
  <1>5. r # 0 => r \in 1 .. f
    BY <1>1
  <1> QED BY <1>1, <1>3, <1>4, <1>5 DEF Decimated

\* It is reset.
LEMMA DecimatedReset ==
  ASSUME NEW f, NEW a, NEW p, NEW v, NEW c, NEW r, NEW r1, Decimated(f, c, a, p, "reset", r, v)
  PROVE  Decimated(f, f, a, p, "pass", r1, v)
  BY DEF Decimated

\* The value goes to the control system.
LEMMA DecimatedPass ==
  ASSUME NEW S, NEW a \in Seq(S), NEW p \in Seq(S), NEW v \in S, NEW f \in Nat \ {0}, NEW c, NEW r,
         Decimated(f, c, a, p, "pass", r, v), NEW r1, NEW v1
  PROVE  Decimated(f, c, a, Append(p, v), "rest", r1, v1)
  <1>1. /\ c = f /\ Len(a) = Len(p) * f + f /\ a[Len(a)] = v
        /\ \A k \in 1 .. Len(p) : p[k] = a[k * f]
    BY DEF Decimated
  <1>2. Len(p) \in Nat /\ (Len(p) + 1) * f = Len(p) * f + f /\ Len(p) * f \in Nat
    OBVIOUS
  <1>q. PICK q : q = Append(p, v)
    OBVIOUS
  <1>3. Len(q) = Len(p) + 1 /\ q[Len(p) + 1] = v /\ \A k \in 1 .. Len(p) : q[k] = p[k]
    BY <1>q, AppendProperties
  <1>4. ASSUME NEW k \in 1 .. Len(q) PROVE q[k] = a[k * f]
    <2>1. k = Len(p) + 1 \/ k \in 1 .. Len(p)
      BY <1>2, <1>3
    <2>2. CASE k = Len(p) + 1
      BY <1>1, <1>2, <1>3, <2>2
    <2>3. CASE k \in 1 .. Len(p)
      BY <1>1, <1>3, <2>3
    <2> QED BY <2>1, <2>2, <2>3
  <1>5. Len(a) = Len(q) * f + (f - c) /\ c \in 1 .. f
    BY <1>1, <1>2, <1>3
  <1> QED BY <1>4, <1>5, <1>q DEF Decimated

\* Nothing has arrived, with a new factor.
LEMMA DecimatedInit ==
  ASSUME NEW f \in Nat \ {0}, NEW r, NEW v
  PROVE  Decimated(f, f, <<>>, <<>>, "rest", r, v)
  <1>1. Len(<<>>) = 0
    OBVIOUS
  <1> QED BY <1>1 DEF Decimated

\* What it comes to.
LEMMA DecimatedResult ==
  ASSUME NEW S, NEW a \in Seq(S), NEW p \in Seq(S), NEW f \in Nat \ {0}, NEW c, NEW r, NEW v,
         Decimated(f, c, a, p, "rest", r, v)
  PROVE  p = [k \in 1 .. Len(a) \div f |-> a[k * f]]
  <1>1. /\ c \in 1 .. f /\ Len(a) = Len(p) * f + (f - c)
        /\ \A k \in 1 .. Len(p) : p[k] = a[k * f]
    BY DEF Decimated
  <1>2. f - c \in 0 .. f - 1 /\ Len(a) \in Nat /\ Len(p) \in Nat
    BY <1>1
  <1>3. Len(a) \div f = Len(p)
    BY <1>1, <1>2, GroupsOf
  <1>4. p = [k \in 1 .. Len(p) |-> p[k]]
    OBVIOUS
  <1> QED BY <1>1, <1>3, <1>4

\* Where each input has a thread of its own, Owner is a choice of them.
LEMMA OwnerFacts ==
  ASSUME Separated
  PROVE  /\ Owner \in [Inputs -> Threads]
         /\ \A t \in Threads : \A i \in PushesOn[t] \cup SetsOn[t] : Owner[i] = t
         /\ \A i \in Inputs : \A j \in Onward(i) : Owner[j] = Owner[i]
  <1>1. Owner \in [Inputs -> Threads] /\ Owned(Owner)
    BY DEF Separated, Owner
  <1> QED BY <1>1 DEF Owned

\* What a fan-out goes on to with a push is onward of its PV.
LEMMA OnwardFacts ==
  ASSUME PushTyped, FanInv, NEW t \in Threads, InCall(t), Top(t).at = "fan"
  PROVE  /\ PV(t) \in Inputs
         /\ \A o \in Top(t).todo \cap Outputs : Acknowledges[o] \subseteq Onward(PV(t))
         /\ \A j \in Top(t).todo \cap Inputs : j \in Onward(PV(t))
  <1>1. /\ Len(stack[t]) \in Nat \ {0} /\ Top(t) = stack[t][Len(stack[t])] /\ PV(t) \in Inputs
    BY InFacts
  <1>2. Len(stack[t]) \in Fans(t)
    BY <1>1 DEF Fans
  <1>3. Top(t).todo \subseteq Links(PV(t))
    BY <1>1, <1>2 DEF FanInv, PV
  <1>4. /\ Subscribers[PV(t)] \subseteq Outputs /\ Destinations[PV(t)] \subseteq Inputs
        /\ Inputs \cap Outputs = {}
    BY <1>1, LinksAssumption DEF LinksAssumption
  <1>5. ASSUME NEW o \in Top(t).todo \cap Outputs PROVE o \in Subscribers[PV(t)]
    BY <1>3, <1>4 DEF Links
  <1>6. ASSUME NEW j \in Top(t).todo \cap Inputs PROVE j \in Destinations[PV(t)]
    BY <1>3, <1>4 DEF Links
  <1> QED BY <1>1, <1>5, <1>6 DEF Onward

\* A stack of t whose frames are all where they were keeps to the PVs of t.
LEMMA OwnRetop ==
  ASSUME PushTyped, OwnInv, NEW t \in Threads, InCall(t), NEW f, Retop(t, f), f.pv = PV(t)
  PROVE  OwnInv'
  <1>1. Len(stack[t]) \in Nat \ {0} /\ Top(t) = stack[t][Len(stack[t])]
    BY InFacts
  <1>2. ASSUME NEW u \in Threads, NEW k \in 1 .. Len(stack'[u]) PROVE Owner[stack'[u][k].pv] = u
    <2>1. Len(stack'[u]) = Len(stack[u]) /\ stack'[u][k].pv = stack[u][k].pv
      <3>1. CASE u # t
        BY <3>1 DEF Retop
      <3>2. CASE u = t /\ k = Len(stack[t])
        BY <1>1, <3>2 DEF Retop, PV
      <3>3. CASE u = t /\ k # Len(stack[t])
        <4>1. k \in 1 .. Len(stack[t]) - 1
          BY <1>1, <3>3 DEF Retop
        <4> QED BY <3>3, <4>1 DEF Retop
      <3> QED BY <3>1, <3>2, <3>3
    <2> QED BY <2>1 DEF OwnInv
  <1> QED BY <1>2 DEF OwnInv

\* So does one with a push inside, on an input onward of the innermost PV.
LEMMA OwnInside ==
  ASSUME Separated, PushTyped, FanInv, OwnInv, NEW t \in Threads, NEW x, NEW js, Inside(t, x, js),
         js \subseteq Onward(PV(t))
  PROVE  OwnInv'
  <1> DEFINE n == Len(stack[t])
  <1>1. /\ n \in Nat \ {0} /\ Top(t) = stack[t][n] /\ PV(t) \in Inputs /\ Top(t) \in FrameType
    BY InFacts DEF Inside
  <1>2. ASSUME NEW u \in Threads, NEW k \in 1 .. Len(stack'[u]) PROVE Owner[stack'[u][k].pv] = u
    <2>1. CASE u # t
      BY <2>1 DEF Inside, OwnInv
    <2>2. CASE u = t /\ k = n
      <3>1. stack'[t][n].pv = stack[t][n].pv
        BY <1>1 DEF Inside, FrameType
      <3> QED BY <1>1, <2>2, <3>1 DEF OwnInv
    <2>3. CASE u = t /\ k \in 1 .. n - 1
      BY <1>1, <2>3 DEF Inside, OwnInv
    <2>4. CASE u = t /\ k \notin 1 .. n
      <3>1. js # {} /\ Len(stack'[t]) = n + 1 /\ k = n + 1
        <4>1. \/ js = {} /\ Len(stack'[t]) = n
              \/ js # {} /\ Len(stack'[t]) = n + 1
          BY DEF Inside
        <4>2. k \in 1 .. Len(stack'[t]) /\ k \notin 1 .. n
          BY <2>4
        <4> HIDE DEF n
        <4> QED BY <1>1, <4>1, <4>2
      <3>2. PICK j \in Inputs : js = {j} /\ stack'[t][n + 1] = Frame(j, "push", Top(t).value)
        BY <3>1 DEF Inside
      <3>3. stack'[t][n + 1].pv = j
        BY <3>2 DEF Frame
      <3>4. Owner[j] = Owner[PV(t)]
        BY <1>1, <3>2, OwnerFacts
      <3>5. Owner[PV(t)] = t
        BY <1>1 DEF OwnInv, PV
      <3> QED BY <2>4, <3>1, <3>3, <3>4, <3>5
    <2>5. k \in 1 .. n => k = n \/ k \in 1 .. n - 1
      BY <1>1
    <2> QED BY <2>1, <2>2, <2>3, <2>4, <2>5
  <1> QED BY <1>2 DEF OwnInv

\* Every step keeps to them.
LEMMA OwnNext ==
  ASSUME Separated, FanOutInv, OwnInv, [Next]_vars
  PROVE  OwnInv'
  <1>0. PushTyped /\ FanInv /\ BelowInv
    BY DEF FanOutInv
  <1>1. ASSUME UNCHANGED stack PROVE OwnInv'
    BY <1>1 DEF OwnInv
  <1>2. ASSUME NEW t \in Threads, NEW i \in PushesOn[t] \cup SetsOn[t], NEW kind \in Kinds, Call(t, i, kind)
        PROVE  OwnInv'
    <2>1. i \in Inputs
      BY LinksAssumption DEF LinksAssumption
    <2>2. /\ Len(stack'[t]) = 1 /\ stack'[t][1].pv = i
          /\ \A u \in Threads \ {t} : stack'[u] = stack[u]
      BY <1>0, <1>2, <2>1, CallFacts
    <2>3. Owner[i] = t
      BY OwnerFacts
    <2>4. \A k \in 1 .. Len(stack'[t]) : k = 1
      BY <2>2
    <2> QED BY <2>2, <2>3, <2>4 DEF OwnInv
  <1>3. ASSUME NEW t \in Threads,
               LoadCount(t) \/ StoreCount(t) \/ ResetCount(t) \/ PassToControlSystem(t) \/ StoreValue(t)
        PROVE  OwnInv'
    <2>1. Moves(t)
      BY <1>0, <1>3, MovesFacts
    <2> QED BY <1>0, <2>1, OwnRetop DEF Moves
  <1>4. ASSUME NEW t \in Threads, LockList(t) PROVE OwnInv'
    BY <1>0, <1>4, LockFacts, OwnRetop
  <1>5. ASSUME NEW t \in Threads, NEW o \in Outputs, WriteOutput(t, o) PROVE OwnInv'
    <2>1. Inside(t, o, Acknowledges[o])
      BY <1>0, <1>5, InsideFacts
    <2>2. Acknowledges[o] \subseteq Onward(PV(t))
      BY <1>0, <2>1, OnwardFacts DEF Inside
    <2> QED BY <1>0, <2>1, <2>2, OwnInside
  <1>6. ASSUME NEW t \in Threads, NEW j \in Inputs, Replicate(t, j) PROVE OwnInv'
    <2>1. Inside(t, j, {j})
      BY <1>0, <1>6, InsideFacts
    <2>2. {j} \subseteq Onward(PV(t))
      BY <1>0, <2>1, OnwardFacts DEF Inside
    <2> QED BY <1>0, <2>1, <2>2, OwnInside
  <1>7. ASSUME NEW t \in Threads, Return(t) PROVE OwnInv'
    <2>1. /\ \A u \in Threads \ {t} : stack'[u] = stack[u]
          /\ Len(stack'[t]) = Len(stack[t]) - 1
          /\ \A k \in 1 .. Len(stack[t]) - 1 : stack'[t][k] = stack[t][k]
      BY <1>0, <1>7, ReturnFacts
    <2>2. Len(stack[t]) \in Nat
      BY <1>0 DEF PushTyped
    <2>3. ASSUME NEW k \in 1 .. Len(stack'[t])
          PROVE  k \in 1 .. Len(stack[t]) /\ stack'[t][k] = stack[t][k]
      BY <2>1, <2>2
    <2>4. \A u \in Threads \ {t} : \A k \in 1 .. Len(stack'[u]) : Owner[stack'[u][k].pv] = u
      BY <2>1 DEF OwnInv
    <2>5. \A k \in 1 .. Len(stack'[t]) : Owner[stack'[t][k].pv] = t
      BY <2>3 DEF OwnInv
    <2> QED BY <2>4, <2>5 DEF OwnInv
  <1>8. ASSUME NEW t \in Threads, NEW o \in Outputs, WriteThrows(t, o) PROVE OwnInv'
    <2>1. Len(stack'[t]) = 0 /\ \A u \in Threads \ {t} : stack'[u] = stack[u]
      BY <1>0, <1>8, ThrowFacts
    <2>2. 1 .. Len(stack'[t]) = {}
      BY <2>1
    <2> QED BY <2>1, <2>2 DEF OwnInv
  <1>9. ASSUME NEW t \in Threads, Step(t) PROVE OwnInv'
    <2>1. ASSUME NEW o \in Outputs, WriteEnds(t, o) PROVE OwnInv'
      BY <1>1, <2>1 DEF WriteEnds
    <2> QED BY <1>3, <1>4, <1>5, <1>6, <1>7, <1>8, <1>9, <2>1 DEF Step
  <1>10. ASSUME NEW t \in Threads, NEW i \in Inputs, Push(t, i) \/ SetValue(t, i) PROVE OwnInv'
    BY <1>2, <1>10 DEF Push, SetValue, Kinds
  <1>11. ASSUME NEW i \in Inputs, NEW d \in Decimations[i], SetDecimation(i, d) PROVE OwnInv'
    BY <1>1, <1>11 DEF SetDecimation
  <1>12. ASSUME UNCHANGED vars PROVE OwnInv'
    BY <1>1, <1>12 DEF vars
  <1> QED BY <1>9, <1>10, <1>11, <1>12 DEF Next, Idle

\* The decimation of the PVs of a thread that is not deciding, and does not begin to.
LEMMA DecRest ==
  ASSUME DecInv, NEW t \in Threads, UNCHANGED decimationVars,
         \A u \in Threads \ {t} : stack'[u] = stack[u], ~Deciding(t), ~Deciding(t)',
         Owner \in [Inputs -> Threads]
  PROVE  DecInv'
  <1>1. ASSUME NEW i \in Inputs PROVE Where(i)' = Where(i) /\ (Where(i) = "rest" \/ Top(Owner[i])' = Top(Owner[i]))
    <2>1. CASE Owner[i] = t
      BY <2>1 DEF Where
    <2>2. CASE Owner[i] # t
      <3>1. stack'[Owner[i]] = stack[Owner[i]]
        BY <2>2
      <3> QED BY <3>1 DEF Where, Deciding, InCall, PV, Top
    <2> QED BY <2>1, <2>2
  <1>2. UNCHANGED <<factor, count, arrived, passed>>
    BY DEF decimationVars
  <1>3. ASSUME NEW i \in Inputs, factor'[i] # 0
        PROVE  Decimated(factor'[i], count'[i], arrived'[i], passed'[i], Where(i)',
                         IF Where(i)' = "rest" THEN 0 ELSE Top(Owner[i])'.register,
                         IF Where(i)' = "rest" THEN NoValue ELSE Top(Owner[i])'.value)
    <2>1. Decimated(factor[i], count[i], arrived[i], passed[i], Where(i),
                    IF Where(i) = "rest" THEN 0 ELSE Top(Owner[i]).register,
                    IF Where(i) = "rest" THEN NoValue ELSE Top(Owner[i]).value)
      BY <1>2, <1>3 DEF DecInv
    <2> QED BY <1>1, <1>2, <2>1
  <1> QED BY <1>3 DEF DecInv

\* A step of t on PV i: the rest of the decimation stays, so what is left to show is
\* that of i.
LEMMA DecOne ==
  ASSUME Separated, PushTyped, OwnInv, DecInv, NEW t \in Threads, InCall(t), NEW f \in FrameType, Retop(t, f),
         f.pv = PV(t), NEW i, i = PV(t),
         \A j \in Inputs \ {i} : /\ factor'[j] = factor[j] /\ count'[j] = count[j]
                                 /\ arrived'[j] = arrived[j] /\ passed'[j] = passed[j],
         factor'[i] # 0 =>
           \A r, v : (f.at \in {"store", "reset", "pass"} => r = f.register /\ v = f.value) =>
             Decimated(factor'[i], count'[i], arrived'[i], passed'[i],
                       IF f.at \in {"store", "reset", "pass"} THEN f.at ELSE "rest", r, v)
  PROVE  DecInv'
  <1> DEFINE n == Len(stack[t])
  <1>1. n \in Nat \ {0} /\ Top(t) = stack[t][n] /\ i \in Inputs
    BY InFacts
  <1>2. Owner[i] = t /\ Owner \in [Inputs -> Threads]
    BY <1>1, OwnerFacts DEF OwnInv, PV
  <1>3. /\ \A u \in Threads \ {t} : stack'[u] = stack[u]
        /\ stack'[t] \in Seq(FrameType) /\ Len(stack'[t]) = n /\ stack'[t][n] = f
    BY DEF Retop
  <1>4. stack'[t] # <<>>
    BY <1>1, <1>3
  <1>5. Top(t)' = f /\ PV(t)' = i /\ InCall(t)'
    BY <1>3, <1>4 DEF Top, PV, InCall, Last
  <1>6. ASSUME NEW j \in Inputs \ {i}
        PROVE  Where(j)' = Where(j) /\ (Where(j) = "rest" \/ Top(Owner[j])' = Top(Owner[j]))
    <2>1. CASE Owner[j] = t
      <3>1. Where(j) = "rest"
        BY <2>1 DEF Where
      <3>2. Where(j)' = "rest"
        BY <1>5, <2>1 DEF Where
      <3> QED BY <3>1, <3>2
    <2>2. CASE Owner[j] # t
      <3>1. stack'[Owner[j]] = stack[Owner[j]]
        BY <1>2, <1>3, <2>2
      <3> QED BY <3>1 DEF Where, Deciding, InCall, PV, Top
    <2> QED BY <2>1, <2>2
  <1>7. Where(i)' = IF f.at \in {"store", "reset", "pass"} THEN f.at ELSE "rest"
    BY <1>2, <1>5 DEF Where, Deciding
  <1>8. ASSUME NEW j \in Inputs, factor'[j] # 0
        PROVE  Decimated(factor'[j], count'[j], arrived'[j], passed'[j], Where(j)',
                         IF Where(j)' = "rest" THEN 0 ELSE Top(Owner[j])'.register,
                         IF Where(j)' = "rest" THEN NoValue ELSE Top(Owner[j])'.value)
    <2>1. CASE j = i
      <3>r. PICK r : r = IF Where(i)' = "rest" THEN 0 ELSE f.register
        OBVIOUS
      <3>v. PICK v : v = IF Where(i)' = "rest" THEN NoValue ELSE f.value
        OBVIOUS
      <3>1. f.at \in {"store", "reset", "pass"} => r = f.register /\ v = f.value
        BY <1>7, <3>r, <3>v
      <3>2. Decimated(factor'[i], count'[i], arrived'[i], passed'[i], Where(i)', r, v)
        BY <1>7, <1>8, <2>1, <3>1
      <3> QED BY <1>2, <1>5, <2>1, <3>2, <3>r, <3>v
    <2>2. CASE j # i
      <3>1. Decimated(factor[j], count[j], arrived[j], passed[j], Where(j),
                      IF Where(j) = "rest" THEN 0 ELSE Top(Owner[j]).register,
                      IF Where(j) = "rest" THEN NoValue ELSE Top(Owner[j]).value)
        BY <1>8, <2>2 DEF DecInv
      <3> QED BY <1>6, <2>2, <3>1
    <2> QED BY <2>1, <2>2
  <1> QED BY <1>8 DEF DecInv

\* What the decimation of the PV that t is in has come to.
LEMMA DecHere ==
  ASSUME Separated, PushTyped, OwnInv, DecInv, NEW t \in Threads, InCall(t), factor[PV(t)] # 0
  PROVE  LET i == PV(t)
             f == Top(t)
         IN /\ f.at \in {"store", "reset", "pass"} =>
                 Decimated(factor[i], count[i], arrived[i], passed[i], f.at, f.register, f.value)
            /\ f.at \notin {"store", "reset", "pass"} =>
                 \E r, v : Decimated(factor[i], count[i], arrived[i], passed[i], "rest", r, v)
  <1>i. PICK i \in Inputs : i = PV(t)
    BY InFacts
  <1>1. Len(stack[t]) \in Nat \ {0} /\ Top(t) = stack[t][Len(stack[t])]
    BY InFacts
  <1>2. Owner[i] = t
    BY <1>1, <1>i DEF OwnInv, PV
  <1>3. Decimated(factor[i], count[i], arrived[i], passed[i], Where(i),
                  IF Where(i) = "rest" THEN 0 ELSE Top(t).register,
                  IF Where(i) = "rest" THEN NoValue ELSE Top(t).value)
    BY <1>2, <1>i DEF DecInv
  <1>4. Where(i) = IF Top(t).at \in {"store", "reset", "pass"} THEN Top(t).at ELSE "rest"
    BY <1>2, <1>i DEF Where, Deciding
  <1>5. CASE Top(t).at \in {"store", "reset", "pass"}
    <2>1. Where(i) = Top(t).at /\ Where(i) # "rest"
      BY <1>4, <1>5
    <2> QED BY <1>3, <1>5, <1>i, <2>1
  <1>6. CASE Top(t).at \notin {"store", "reset", "pass"}
    <2>1. Where(i) = "rest"
      BY <1>4, <1>6
    <2> QED BY <1>3, <1>6, <1>i, <2>1
  <1> QED BY <1>5, <1>6

\* The steps of the decimation.
LEMMA DecSteps ==
  ASSUME Separated, PushTyped, OwnInv, DecInv, NEW t \in Threads,
         LoadCount(t) \/ StoreCount(t) \/ ResetCount(t) \/ PassToControlSystem(t)
  PROVE  DecInv'
  <1>1. InCall(t) /\ At(t, Top(t).at)
    BY DEF LoadCount, StoreCount, ResetCount, PassToControlSystem, At
  <1>i. PICK i \in Inputs : i = PV(t)
    BY <1>1, InFacts
  <1>f. PICK f \in FrameType : f = Top(t)
    BY <1>1, InFacts
  <1>v. PICK v \in Called : v = f.value
    BY DEF FrameType
  <1>2. /\ factor[i] \in 0..Width-1 /\ count[i] \in 0..Width-1 /\ f.register \in 0..Width-1 /\ Width \in Nat
        /\ arrived[i] \in Seq(Called) /\ passed[i] \in Seq(Called)
    BY BoundsAssumption DEF PushTyped, BoundsAssumption, FrameType
  <1>n. factor[i] # 0 => factor[i] \in Nat \ {0} /\ factor[i] < Width
    BY <1>2
  <1>3. factor[i] # 0 =>
          /\ f.at \in {"store", "reset", "pass"} =>
               Decimated(factor[i], count[i], arrived[i], passed[i], f.at, f.register, f.value)
          /\ f.at \notin {"store", "reset", "pass"} =>
               \E r, w : Decimated(factor[i], count[i], arrived[i], passed[i], "rest", r, w)
    BY <1>1, <1>f, <1>i, DecHere
  <1>4. CASE LoadCount(t)
    <2>c. PICK c : c = (count[i] + Width - 1) % Width
      OBVIOUS
    <2>0. count[i] + Width - 1 \in Nat
      BY <1>2, BoundsAssumption DEF BoundsAssumption
    <2>1. c \in 0..Width-1
      BY <2>0, <2>c, RegisterTyped
    <2> DEFINE g == [f EXCEPT !.at = "store", !.register = c]
    <2>2. g \in FrameType /\ g.at = "store" /\ g.pv = PV(t) /\ g.register = c /\ g.value = v
      BY <1>f, <1>v, <2>1 DEF FrameType, Places, PV
    <2>3. f.at = "load" /\ SetTop(t, g)
      BY <1>4, <1>f, <1>i, <2>c DEF LoadCount, At
    <2>4. /\ UNCHANGED <<factor, count, passed>>
          /\ arrived' = [arrived EXCEPT ![i] = Append(@, v)]
      BY <1>4, <1>f, <1>i, <1>v DEF LoadCount
    <2>5. arrived'[i] = Append(arrived[i], v) /\ \A j \in Inputs \ {i} : arrived'[j] = arrived[j]
      BY <2>4 DEF PushTyped
    <2> HIDE DEF g
    <2>6. Retop(t, g)
      BY <1>1, <2>2, <2>3, SetTopFacts
    <2>7. ASSUME factor'[i] # 0
          PROVE  Decimated(factor'[i], count'[i], arrived'[i], passed'[i], "store", c, v)
      <3>1. PICK r, w : Decimated(factor[i], count[i], arrived[i], passed[i], "rest", r, w)
        BY <1>3, <2>3, <2>4, <2>7
      <3>2. Decimated(factor[i], count[i], Append(arrived[i], v), passed[i], "store",
                      (count[i] + Width - 1) % Width, v)
        BY <1>2, <1>n, <2>4, <2>7, <3>1, DecimatedLoad
      <3> QED BY <2>4, <2>5, <2>c, <3>2
    <2>8. factor'[i] # 0 =>
            \A r, w : (g.at \in {"store", "reset", "pass"} => r = g.register /\ w = g.value) =>
              Decimated(factor'[i], count'[i], arrived'[i], passed'[i],
                        IF g.at \in {"store", "reset", "pass"} THEN g.at ELSE "rest", r, w)
      BY <2>2, <2>7
    <2>9. \A j \in Inputs \ {i} : /\ factor'[j] = factor[j] /\ count'[j] = count[j]
                                  /\ arrived'[j] = arrived[j] /\ passed'[j] = passed[j]
      BY <2>4, <2>5
    <2> QED BY <1>1, <1>i, <2>2, <2>6, <2>8, <2>9, DecOne
  <1>5. ASSUME NEW l \in Places, Goto(t, l),
               \A j \in Inputs \ {i} : /\ factor'[j] = factor[j] /\ count'[j] = count[j]
                                       /\ arrived'[j] = arrived[j] /\ passed'[j] = passed[j],
               factor'[i] # 0 =>
                 \A r, w : (l \in {"store", "reset", "pass"} => r = f.register /\ w = f.value) =>
                   Decimated(factor'[i], count'[i], arrived'[i], passed'[i],
                             IF l \in {"store", "reset", "pass"} THEN l ELSE "rest", r, w)
        PROVE  DecInv'
    <2> DEFINE g == [f EXCEPT !.at = l]
    <2>1. Retop(t, g) /\ g \in FrameType
      BY <1>1, <1>5, <1>f, GotoFacts
    <2>2. g.at = l /\ g.pv = PV(t) /\ g.register = f.register /\ g.value = f.value
      BY <1>f DEF FrameType, PV
    <2> HIDE DEF g
    <2>3. factor'[i] # 0 =>
            \A r, w : (g.at \in {"store", "reset", "pass"} => r = g.register /\ w = g.value) =>
              Decimated(factor'[i], count'[i], arrived'[i], passed'[i],
                        IF g.at \in {"store", "reset", "pass"} THEN g.at ELSE "rest", r, w)
      BY <1>5, <2>2
    <2> QED BY <1>1, <1>5, <1>i, <2>1, <2>2, <2>3, DecOne
  <1>6. CASE StoreCount(t)
    <2>l. PICK l : l = IF f.register = 0 THEN "reset" ELSE "lock"
      OBVIOUS
    <2>1. l \in Places /\ Goto(t, l) /\ f.at = "store"
      BY <1>6, <1>f, <2>l DEF StoreCount, Places, At
    <2>2. UNCHANGED <<factor, arrived, passed>> /\ count' = [count EXCEPT ![i] = f.register]
      BY <1>6, <1>f, <1>i DEF StoreCount
    <2>3. count'[i] = f.register /\ \A j \in Inputs \ {i} : count'[j] = count[j]
      BY <2>2 DEF PushTyped
    <2>4. ASSUME factor'[i] # 0, NEW r, NEW w, l \in {"store", "reset", "pass"} => r = f.register /\ w = f.value
          PROVE  Decimated(factor'[i], count'[i], arrived'[i], passed'[i],
                           IF l \in {"store", "reset", "pass"} THEN l ELSE "rest", r, w)
      <3>1. Decimated(factor[i], count[i], arrived[i], passed[i], "store", f.register, f.value)
        BY <1>3, <2>1, <2>2, <2>4
      <3>2. /\ f.register = 0 => Decimated(factor[i], f.register, arrived[i], passed[i], "reset", r, f.value)
            /\ f.register # 0 => Decimated(factor[i], f.register, arrived[i], passed[i], "rest", r, w)
        BY <1>2, <1>n, <2>2, <2>4, <3>1, DecimatedStore
      <3> QED BY <2>2, <2>3, <2>4, <2>l, <3>2
    <2> QED BY <1>5, <2>1, <2>2, <2>3, <2>4
  <1>7. CASE ResetCount(t)
    <2>1. "pass" \in Places /\ Goto(t, "pass") /\ f.at = "reset"
      BY <1>7, <1>f DEF ResetCount, Places, At
    <2>2. UNCHANGED <<factor, arrived, passed>> /\ count' = [count EXCEPT ![i] = factor[i]]
      BY <1>7, <1>i DEF ResetCount
    <2>3. count'[i] = factor[i] /\ \A j \in Inputs \ {i} : count'[j] = count[j]
      BY <2>2 DEF PushTyped
    <2>4. factor'[i] # 0 =>
            Decimated(factor'[i], count'[i], arrived'[i], passed'[i], "pass", f.register, f.value)
      BY <1>3, <2>1, <2>2, <2>3, DecimatedReset
    <2> QED BY <1>5, <2>1, <2>2, <2>3, <2>4
  <1>8. CASE PassToControlSystem(t)
    <2>1. "lock" \in Places /\ Goto(t, "lock") /\ f.at = "pass"
      BY <1>8, <1>f DEF PassToControlSystem, Places, At
    <2>2. UNCHANGED <<factor, count, arrived>> /\ passed' = [passed EXCEPT ![i] = Append(@, v)]
      BY <1>8, <1>f, <1>i, <1>v DEF PassToControlSystem
    <2>3. passed'[i] = Append(passed[i], v) /\ \A j \in Inputs \ {i} : passed'[j] = passed[j]
      BY <2>2 DEF PushTyped
    <2>4. ASSUME factor'[i] # 0, NEW r, NEW w
          PROVE  Decimated(factor'[i], count'[i], arrived'[i], passed'[i], "rest", r, w)
      <3>1. Decimated(factor[i], count[i], arrived[i], passed[i], "pass", f.register, v)
        BY <1>3, <1>v, <2>1, <2>2, <2>4
      <3>2. Decimated(factor[i], count[i], arrived[i], Append(passed[i], v), "rest", r, w)
        BY <1>2, <1>n, <2>2, <2>4, <3>1, DecimatedPass
      <3> QED BY <2>2, <2>3, <3>2
    <2> QED BY <1>5, <2>1, <2>2, <2>3, <2>4
  <1> QED BY <1>4, <1>6, <1>7, <1>8

\* setDecimation begins a new count, on a PV that no call is on.
LEMMA DecSet ==
  ASSUME Separated, PushTyped, DecInv, NEW i \in Inputs, NEW d \in Decimations[i], SetDecimation(i, d)
  PROVE  DecInv'
  <1>1. /\ factor' = [factor EXCEPT ![i] = d] /\ count' = [count EXCEPT ![i] = d]
        /\ arrived' = [arrived EXCEPT ![i] = <<>>] /\ passed' = [passed EXCEPT ![i] = <<>>]
        /\ stack' = stack
    BY DEF SetDecimation
  <1>2. \A j \in Inputs \ {i} : /\ factor'[j] = factor[j] /\ count'[j] = count[j]
                                /\ arrived'[j] = arrived[j] /\ passed'[j] = passed[j]
    BY <1>1 DEF PushTyped
  <1>3. factor'[i] = d /\ count'[i] = d /\ arrived'[i] = <<>> /\ passed'[i] = <<>>
    BY <1>1 DEF PushTyped
  <1>4. \A j \in Inputs : Where(j)' = Where(j) /\ Top(Owner[j])' = Top(Owner[j])
    BY <1>1 DEF Where, Deciding, InCall, PV, Top
  <1>5. Where(i) = "rest"
    <2>1. ASSUME Deciding(Owner[i]) /\ PV(Owner[i]) = i PROVE FALSE
      <3>1. Owner[i] \in Threads
        BY OwnerFacts
      <3>u. PICK u \in Threads : u = Owner[i]
        BY <3>1
      <3>2. /\ stack[u] \in Seq(FrameType) /\ Len(stack[u]) \in Nat \ {0} /\ Top(u) = stack[u][Len(stack[u])]
        BY <2>1, <3>u, InFacts DEF Deciding
      <3>3. Top(u) \in ToSet(stack[u])
        BY <3>2 DEF ToSet
      <3> QED BY <2>1, <3>u, <3>3 DEF SetDecimation, PV
    <2> QED BY <2>1 DEF Where
  <1>d. d \in 0..Width-1 /\ Width \in Nat
    BY BoundsAssumption DEF BoundsAssumption
  <1>6. ASSUME NEW j \in Inputs, factor'[j] # 0
        PROVE  Decimated(factor'[j], count'[j], arrived'[j], passed'[j], Where(j)',
                         IF Where(j)' = "rest" THEN 0 ELSE Top(Owner[j])'.register,
                         IF Where(j)' = "rest" THEN NoValue ELSE Top(Owner[j])'.value)
    <2>1. CASE j = i
      <3>1. d \in Nat \ {0}
        BY <1>3, <1>6, <1>d, <2>1
      <3>2. Decimated(d, d, <<>>, <<>>, "rest", 0, NoValue)
        BY <3>1, DecimatedInit
      <3> QED BY <1>3, <1>4, <1>5, <2>1, <3>2
    <2>2. CASE j # i
      <3>1. Decimated(factor[j], count[j], arrived[j], passed[j], Where(j),
                      IF Where(j) = "rest" THEN 0 ELSE Top(Owner[j]).register,
                      IF Where(j) = "rest" THEN NoValue ELSE Top(Owner[j]).value)
        BY <1>2, <1>6, <2>2 DEF DecInv
      <3> QED BY <1>2, <1>4, <2>2, <3>1
    <2> QED BY <2>1, <2>2
  <1> QED BY <1>6 DEF DecInv

\* A step of the fan-out decides nothing: the thread's innermost call is in none of the
\* places of the decimation, before it or after it.
LEMMA RestSteps ==
  ASSUME PushTyped, BelowInv, NEW t \in Threads
  PROVE  /\ \A i \in Inputs : Push(t, i) \/ SetValue(t, i) => ~Deciding(t) /\ ~Deciding(t)'
         /\ StoreValue(t) \/ LockList(t) \/ Return(t) => ~Deciding(t) /\ ~Deciding(t)'
         /\ \A o \in Outputs : WriteOutput(t, o) \/ WriteThrows(t, o) => ~Deciding(t) /\ ~Deciding(t)'
         /\ \A j \in Inputs : Replicate(t, j) => ~Deciding(t) /\ ~Deciding(t)'
  <1> DEFINE n == Len(stack[t])
  <1>1. ASSUME NEW i \in Inputs, NEW kind \in Kinds, Call(t, i, kind)
        PROVE  ~Deciding(t) /\ ~Deciding(t)'
    <2>1. stack[t] = <<>> /\ Len(stack'[t]) = 1 /\ stack'[t][1].at \in {"load", "store value"}
      BY <1>1, CallFacts
    <2> QED BY <2>1 DEF Deciding, InCall, Top, Last
  <1>2. ASSUME StoreValue(t) PROVE ~Deciding(t) /\ ~Deciding(t)'
    <2>1. InCall(t) /\ Top(t).at = "store value" /\ Goto(t, "lock") /\ "lock" \in Places
      BY <1>2 DEF StoreValue, At, Places
    <2>2. Retop(t, [Top(t) EXCEPT !.at = "lock"])
      BY <2>1, GotoFacts
    <2>3. Top(t) \in FrameType
      BY <2>1, InFacts
    <2>4. Top(t)'.at = "lock"
      BY <2>2, <2>3 DEF Retop, Top, Last, FrameType
    <2> QED BY <2>1, <2>4 DEF Deciding
  <1>3. ASSUME LockList(t) PROVE ~Deciding(t) /\ ~Deciding(t)'
    <2>1. PICK f \in FrameType : Top(t).at = "lock" /\ Retop(t, f) /\ f.at = "fan"
      BY <1>3, LockFacts
    <2>2. Top(t)'.at = "fan"
      BY <2>1 DEF Retop, Top, Last
    <2> QED BY <2>1, <2>2 DEF Deciding
  <1>4. ASSUME Return(t) PROVE ~Deciding(t) /\ ~Deciding(t)'
    <2>1. InCall(t) /\ Top(t).at = "fan"
      BY <1>4 DEF Return, At
    <2>2. n \in Nat \ {0}
      BY <2>1, InFacts
    <2>3. /\ stack' \in [Threads -> Seq(FrameType)] /\ Len(stack'[t]) = n - 1
          /\ \A k \in 1 .. n - 1 : stack'[t][k] = stack[t][k]
      BY <1>4, ReturnFacts
    <2>4. ASSUME Deciding(t)' PROVE FALSE
      <3>1. stack'[t] # <<>> /\ stack'[t] \in Seq(FrameType)
        BY <2>3, <2>4 DEF Deciding, InCall
      <3>2. Len(stack'[t]) \in Nat \ {0} /\ Last(stack'[t]) = stack'[t][Len(stack'[t])]
        BY <3>1, TopFacts
      <3>3. n - 1 \in 1 .. n - 1
        <4>1. n - 1 \in Nat \ {0}
          BY <2>3, <3>2
        <4> HIDE DEF n
        <4> QED BY <2>2, <4>1
      <3>4. Top(t)' = stack[t][n - 1]
        BY <2>3, <3>2, <3>3 DEF Top
      <3>5. n - 1 \in Fans(t)
        BY <3>3 DEF BelowInv
      <3> QED BY <2>4, <3>4, <3>5 DEF Deciding, Fans
    <2> QED BY <2>1, <2>4 DEF Deciding
  <1>5. ASSUME NEW x, NEW js, Inside(t, x, js) PROVE ~Deciding(t) /\ ~Deciding(t)'
    <2>1. /\ InCall(t) /\ Top(t).at = "fan"
      BY <1>5 DEF Inside
    <2>2. n \in Nat \ {0} /\ Top(t) = stack[t][n] /\ Top(t) \in FrameType
      BY <2>1, InFacts
    <2>3. stack'[t][n].at = "fan"
      BY <1>5, <2>1, <2>2 DEF Inside, FrameType
    <2>4. \/ Len(stack'[t]) = n
          \/ Len(stack'[t]) = n + 1 /\ stack'[t][n + 1].at = "load"
      <3>1. CASE js = {} /\ Len(stack'[t]) = n
        BY <3>1
      <3>2. CASE /\ \E j \in Inputs : js = {j} /\ stack'[t][n + 1] = Frame(j, "push", Top(t).value)
                 /\ Len(stack'[t]) = n + 1
        BY <3>2 DEF Frame
      <3> QED BY <1>5, <3>1, <3>2 DEF Inside
    <2>5. Top(t)'.at \in {"fan", "load"}
      BY <2>3, <2>4 DEF Top, Last
    <2> QED BY <2>1, <2>5 DEF Deciding
  <1>6. ASSUME NEW o \in Outputs, WriteThrows(t, o) PROVE ~Deciding(t) /\ ~Deciding(t)'
    <2>1. stack'[t] = <<>>
      BY <1>6, ThrowFacts
    <2>2. Top(t).at = "fan"
      BY <1>6 DEF WriteThrows, At
    <2> QED BY <2>1, <2>2 DEF Deciding, InCall
  <1>7. \A i \in Inputs : Push(t, i) \/ SetValue(t, i) => ~Deciding(t) /\ ~Deciding(t)'
    BY <1>1 DEF Push, SetValue, Kinds
  <1>8. \A o \in Outputs : WriteOutput(t, o) \/ WriteThrows(t, o) => ~Deciding(t) /\ ~Deciding(t)'
    BY <1>5, <1>6, InsideFacts
  <1>9. \A j \in Inputs : Replicate(t, j) => ~Deciding(t) /\ ~Deciding(t)'
    BY <1>5, InsideFacts
  <1> QED BY <1>2, <1>3, <1>4, <1>7, <1>8, <1>9

DecimationInv == FanOutInv /\ OwnInv /\ DecInv

\* At the start every PV passes every value, and none has come.
LEMMA DecimationInit ==
  ASSUME Separated, Init
  PROVE  DecimationInv
  <1>1. FanOutInv
    BY FanOutInit
  <1>2. OwnInv
    <2>1. \A u \in Threads : 1 .. Len(stack[u]) = {}
      BY DEF Init
    <2> QED BY <2>1 DEF OwnInv
  <1>3. ASSUME NEW i \in Inputs
        PROVE  Decimated(factor[i], count[i], arrived[i], passed[i], Where(i),
                         IF Where(i) = "rest" THEN 0 ELSE Top(Owner[i]).register,
                         IF Where(i) = "rest" THEN NoValue ELSE Top(Owner[i]).value)
    <2>1. factor[i] = 1 /\ count[i] = 1 /\ arrived[i] = <<>> /\ passed[i] = <<>>
      BY DEF Init
    <2>2. Decimated(1, 1, <<>>, <<>>, "rest", 0, NoValue)
      BY DecimatedInit
    <2> SUFFICES Where(i) = "rest"
      BY <2>1, <2>2
    <2>3. Owner[i] \in Threads
      BY OwnerFacts
    <2> QED BY <2>3 DEF Init, Where, Deciding, InCall
  <1>4. DecInv
    BY <1>3 DEF DecInv
  <1> QED BY <1>1, <1>2, <1>4 DEF DecimationInv

\* Every step keeps the decimation in order.
LEMMA DecimationNext ==
  ASSUME Separated, DecimationInv, [Next]_vars
  PROVE  DecimationInv'
  <1>0. FanOutInv /\ PushTyped /\ FanInv /\ BelowInv /\ OwnInv /\ DecInv /\ Owner \in [Inputs -> Threads]
    BY OwnerFacts DEF DecimationInv, FanOutInv
  <1>1. FanOutInv' /\ OwnInv'
    BY <1>0, FanOutNext, OwnNext
  <1>2. ASSUME NEW t \in Threads, UNCHANGED decimationVars, \A u \in Threads \ {t} : stack'[u] = stack[u],
               ~Deciding(t), ~Deciding(t)'
        PROVE  DecInv'
    BY <1>0, <1>2, DecRest
  <1>3. ASSUME UNCHANGED decimationVars, UNCHANGED stack PROVE DecInv'
    <2>1. UNCHANGED <<factor, count, arrived, passed>>
      BY <1>3 DEF decimationVars
    <2>2. \A i \in Inputs : Where(i)' = Where(i) /\ Top(Owner[i])' = Top(Owner[i])
      BY <1>3 DEF Where, Deciding, InCall, PV, Top
    <2> QED BY <1>0, <2>1, <2>2 DEF DecInv
  <1>4. ASSUME NEW t \in Threads, NEW i \in Inputs, Push(t, i) \/ SetValue(t, i) PROVE DecInv'
    <2>1. PICK kind \in Kinds : Call(t, i, kind)
      BY <1>4 DEF Push, SetValue, Kinds
    <2>2. UNCHANGED decimationVars /\ \A u \in Threads \ {t} : stack'[u] = stack[u]
      BY <1>0, <2>1, CallFacts DEF Call
    <2>3. ~Deciding(t) /\ ~Deciding(t)'
      BY <1>0, <1>4, RestSteps
    <2> QED BY <1>2, <2>2, <2>3
  <1>5. ASSUME NEW t \in Threads, StoreValue(t) PROVE DecInv'
    <2>1. UNCHANGED decimationVars /\ \A u \in Threads \ {t} : stack'[u] = stack[u]
      <3>1. Moves(t)
        BY <1>0, <1>5, MovesFacts
      <3> QED BY <1>5, <3>1 DEF StoreValue, Moves, Retop
    <2>2. ~Deciding(t) /\ ~Deciding(t)'
      BY <1>0, <1>5, RestSteps
    <2> QED BY <1>2, <2>1, <2>2
  <1>6. ASSUME NEW t \in Threads, LockList(t) PROVE DecInv'
    <2>1. UNCHANGED decimationVars /\ \A u \in Threads \ {t} : stack'[u] = stack[u]
      BY <1>0, <1>6, LockFacts DEF LockList, Retop
    <2>2. ~Deciding(t) /\ ~Deciding(t)'
      BY <1>0, <1>6, RestSteps
    <2> QED BY <1>2, <2>1, <2>2
  <1>7. ASSUME NEW t \in Threads, Return(t) PROVE DecInv'
    <2>1. UNCHANGED decimationVars /\ \A u \in Threads \ {t} : stack'[u] = stack[u]
      BY <1>0, <1>7, ReturnFacts DEF Return
    <2>2. ~Deciding(t) /\ ~Deciding(t)'
      BY <1>0, <1>7, RestSteps
    <2> QED BY <1>2, <2>1, <2>2
  <1>8. ASSUME NEW t \in Threads, NEW o \in Outputs, WriteOutput(t, o) PROVE DecInv'
    <2>1. UNCHANGED decimationVars /\ \A u \in Threads \ {t} : stack'[u] = stack[u]
      BY <1>0, <1>8, InsideFacts DEF WriteOutput, Inside
    <2>2. ~Deciding(t) /\ ~Deciding(t)'
      BY <1>0, <1>8, RestSteps
    <2> QED BY <1>2, <2>1, <2>2
  <1>9. ASSUME NEW t \in Threads, NEW j \in Inputs, Replicate(t, j) PROVE DecInv'
    <2>1. UNCHANGED decimationVars /\ \A u \in Threads \ {t} : stack'[u] = stack[u]
      BY <1>0, <1>9, InsideFacts DEF Replicate, Inside
    <2>2. ~Deciding(t) /\ ~Deciding(t)'
      BY <1>0, <1>9, RestSteps
    <2> QED BY <1>2, <2>1, <2>2
  <1>10. ASSUME NEW t \in Threads, NEW o \in Outputs, WriteThrows(t, o) PROVE DecInv'
    <2>1. UNCHANGED decimationVars /\ \A u \in Threads \ {t} : stack'[u] = stack[u]
      BY <1>0, <1>10, ThrowFacts DEF WriteThrows
    <2>2. ~Deciding(t) /\ ~Deciding(t)'
      BY <1>0, <1>10, RestSteps
    <2> QED BY <1>2, <2>1, <2>2
  <1>11. ASSUME NEW t \in Threads, NEW o \in Outputs, WriteEnds(t, o) PROVE DecInv'
    BY <1>3, <1>11 DEF WriteEnds
  <1>12. ASSUME NEW t \in Threads, Step(t) PROVE DecInv'
    BY <1>0, <1>5, <1>6, <1>7, <1>8, <1>9, <1>10, <1>11, <1>12, DecSteps DEF Step
  <1>13. ASSUME NEW i \in Inputs, NEW d \in Decimations[i], SetDecimation(i, d) PROVE DecInv'
    BY <1>0, <1>13, DecSet
  <1>14. ASSUME UNCHANGED vars PROVE DecInv'
    BY <1>3, <1>14 DEF vars, decimationVars
  <1>15. DecInv'
    BY <1>4, <1>12, <1>13, <1>14 DEF Next, Idle
  <1> QED BY <1>1, <1>15 DEF DecimationInv

\* Where one thread at a time pushes on a PV, itself or along the links, the control
\* system gets the last of each group of as many values as the decimation factor says,
\* and no other, for every factor but 0 and whatever other threads do to other PVs.
THEOREM DecimationIsExact == Separated => (Spec => []ExactDecimation)
  <1> SUFFICES ASSUME Separated PROVE Spec => []ExactDecimation
    OBVIOUS
  <1>1. DecimationInv => ExactDecimation
    <2> SUFFICES ASSUME DecimationInv, NEW i \in Inputs, factor[i] # 0, ~InDecimation(i)
                 PROVE  passed[i] = [k \in 1..(Len(arrived[i]) \div factor[i]) |-> arrived[i][k * factor[i]]]
      BY DEF ExactDecimation
    <2>0. PushTyped /\ DecInv /\ Owner[i] \in Threads
      BY OwnerFacts DEF DecimationInv, FanOutInv
    <2>1. Where(i) = "rest"
      <3>1. ASSUME Deciding(Owner[i]) /\ PV(Owner[i]) = i PROVE FALSE
        <4>u. PICK u \in Threads : u = Owner[i]
          BY <2>0
        <4>1. /\ stack[u] \in Seq(FrameType) /\ Len(stack[u]) \in Nat \ {0} /\ Top(u) = stack[u][Len(stack[u])]
          BY <2>0, <3>1, <4>u, InFacts DEF Deciding
        <4>2. Top(u) \in ToSet(stack[u])
          BY <4>1 DEF ToSet
        <4>3. Top(u) \in Frames(i)
          BY <3>1, <4>u, <4>2 DEF Frames, PV
        <4> QED BY <3>1, <4>u, <4>3 DEF InDecimation, Deciding
      <3> QED BY <3>1 DEF Where
    <2>2. Decimated(factor[i], count[i], arrived[i], passed[i], "rest", 0, NoValue)
      BY <2>0, <2>1 DEF DecInv
    <2>3. factor[i] \in Nat \ {0} /\ arrived[i] \in Seq(Called) /\ passed[i] \in Seq(Called)
      BY <2>0, BoundsAssumption DEF PushTyped, BoundsAssumption
    <2> QED BY <2>2, <2>3, DecimatedResult
  <1>2. Init => DecimationInv
    BY DecimationInit
  <1>3. DecimationInv /\ [Next]_vars => DecimationInv'
    BY DecimationNext
  <1> QED BY <1>1, <1>2, <1>3, PTL DEF Spec

-----------------------------------------------------------------------------
(* Delivery, where no write fails and each PV has one thread to push on it. *)

OneCaller ==
  /\ Throwing = {} /\ \A t \in Threads : SetsOn[t] = {}
  /\ \A t, u \in Threads : t # u => PushesOn[t] \cap PushesOn[u] = {}

\* The PV the calls of t came from, and the value they are all about.
Root(t)    == stack[t][1].pv
Carried(t) == Value(Root(t), calls[Root(t)])

\* The calls of t are pushes of the last value that it called a PV of its own with.
CallerInv ==
  \A t \in Threads : InCall(t) =>
    /\ Root(t) \in PushesOn[t]
    /\ \A k \in 1 .. Len(stack[t]) : stack[t][k].kind = "push" /\ stack[t][k].value = Carried(t)

\* Every output that a push on j passes through has had v as the last from its PV.
Has(o, v)     == got[o][v.root] = v.number
AllHave(j, v) == \A x \in Through(j) : \A o \in Subscribers[x] : Has(o, v)

\* The inputs that a fan-out of i with todo still to do has been through.
Gone(i, todo) ==
  (Destinations[i] \ todo) \cup UNION { Acknowledges[o] : o \in Subscribers[i] \ todo }

\* A fan-out has reached what is no longer to do, but for the call it is in.
ReachedBy(t, k) ==
  LET f == stack[t][k] IN
  /\ \A o \in Subscribers[f.pv] \ f.todo : Has(o, Carried(t))
  /\ \A j \in Gone(f.pv, f.todo) :
       AllHave(j, Carried(t)) \/ (k < Len(stack[t]) /\ stack[t][k + 1].pv = j)

ReachedInv == \A t \in Threads : \A k \in Fans(t) : ReachedBy(t, k)

\* A PV that no thread is calling has all of its last value delivered.
HomeInv ==
  \A i \in Inputs : (\A t \in Threads : InCall(t) => Root(t) # i) =>
    AllHave(i, Value(i, calls[i]))

\* A push on i passes through i, and on from every PV it passes through; what it passes
\* through besides i comes after an input onward of i.
LEMMA ThroughFacts ==
  ASSUME NEW i \in Inputs
  PROVE  /\ Through(i) \subseteq Inputs /\ i \in Through(i)
         /\ \A k \in Through(i) : Onward(k) \subseteq Through(i)
         /\ \A x \in Through(i) : x = i \/ \E j \in Onward(i) : x \in Through(j)
         /\ Onward(i) \subseteq Inputs
  <1> DEFINE Closed(S) == \A k \in S : Onward(k) \subseteq S
             S0 == {i} \cup UNION { Through(j) : j \in Onward(i) }
  <1>1. ASSUME NEW k \in Inputs PROVE Onward(k) \subseteq Inputs
    BY LinksAssumption DEF Onward, LinksAssumption
  <1>2. ASSUME NEW j \in Inputs
        PROVE  /\ Through(j) \subseteq Inputs /\ j \in Through(j)
               /\ \A S \in SUBSET Inputs : j \in S /\ Closed(S) => Through(j) \subseteq S
    BY DEF Through
  <1>3. ASSUME NEW j \in Inputs, NEW k \in Through(j) PROVE Onward(k) \subseteq Through(j)
    <2>1. ASSUME NEW x \in Onward(k), NEW S \in SUBSET Inputs, j \in S, Closed(S) PROVE x \in S
      <3>1. k \in S
        BY <1>2, <2>1
      <3> QED BY <2>1, <3>1
    <2>2. k \in Inputs /\ Onward(k) \subseteq Inputs
      BY <1>1, <1>2
    <2> QED BY <2>1, <2>2 DEF Through
  <1>4. S0 \in SUBSET Inputs /\ i \in S0
    BY <1>1, <1>2
  <1>5. ASSUME NEW k \in S0 PROVE Onward(k) \subseteq S0
    <2>1. CASE k = i
      BY <1>1, <1>2, <2>1
    <2>2. ASSUME NEW j \in Onward(i), k \in Through(j) PROVE Onward(k) \subseteq S0
      <3>1. Onward(k) \subseteq Through(j)
        BY <1>1, <1>3, <2>2
      <3> QED BY <3>1
    <2> QED BY <2>1, <2>2
  <1>6. Through(i) \subseteq S0
    <2> HIDE DEF S0
    <2> QED BY <1>2, <1>4, <1>5
  <1> QED BY <1>1, <1>2, <1>3, <1>6

\* All that a push on i passes through has v where the subscribers of i have it, and all
\* that comes after.
LEMMA HaveStep ==
  ASSUME NEW i \in Inputs, NEW v, \A o \in Subscribers[i] : Has(o, v), \A j \in Onward(i) : AllHave(j, v)
  PROVE  AllHave(i, v)
  BY ThroughFacts DEF AllHave

\* What has a value keeps it while no output loses it.
LEMMA HaveKept ==
  ASSUME NEW j \in Inputs, NEW v, AllHave(j, v), \A o \in Outputs : Has(o, v) => got'[o][v.root] = v.number
  PROVE  AllHave(j, v)'
  <1>1. ASSUME NEW x \in Through(j), NEW o \in Subscribers[x] PROVE got'[o][v.root] = v.number
    <2>1. x \in Inputs
      BY ThroughFacts
    <2>2. o \in Outputs
      BY <2>1, LinksAssumption DEF LinksAssumption
    <2> QED BY <2>2 DEF AllHave
  <1> QED BY <1>1 DEF AllHave, Has

\* What the fan-outs have been through are inputs, and at last all that is onward.
LEMMA GoneFacts ==
  ASSUME NEW i \in Inputs
  PROVE  /\ \A todo : Gone(i, todo) \subseteq Inputs
         /\ Gone(i, {}) = Onward(i)
         /\ Gone(i, Links(i)) = {}
  BY LinksAssumption DEF Gone, Onward, Links, LinksAssumption

\* Who calls on what.
LEMMA CallerFacts ==
  ASSUME OneCaller, PushTyped, CallerInv, NEW t \in Threads, InCall(t)
  PROVE  /\ Root(t) \in Inputs /\ Len(stack[t]) \in Nat \ {0}
         /\ Carried(t).root = Root(t) /\ Carried(t).number = calls[Root(t)]
         /\ Top(t).value = Carried(t) /\ Top(t).kind = "push"
         /\ \A u \in Threads : u # t /\ InCall(u) => Root(u) # Root(t)
  <1>1. Len(stack[t]) \in Nat \ {0} /\ Top(t) = stack[t][Len(stack[t])] /\ stack[t] \in Seq(FrameType)
    BY InFacts
  <1>2. stack[t][1] \in FrameType
    BY <1>1
  <1>3. Root(t) \in Inputs
    BY <1>2 DEF Root, FrameType
  <1>4. Carried(t).root = Root(t) /\ Carried(t).number = calls[Root(t)]
    BY DEF Carried, Value
  <1>5. Len(stack[t]) \in 1 .. Len(stack[t])
    BY <1>1
  <1>6. Top(t).value = Carried(t) /\ Top(t).kind = "push"
    BY <1>1, <1>5 DEF CallerInv
  <1>7. \A u \in Threads : u # t /\ InCall(u) => Root(u) # Root(t)
    BY DEF CallerInv, OneCaller
  <1> QED BY <1>1, <1>3, <1>4, <1>6, <1>7

\* A step of t inside its call: the calls of the others are as they were, and its own,
\* if it is still in one, is the same.
Within(t) ==
  /\ InCall(t) /\ calls' = calls
  /\ \A u \in Threads \ {t} : stack'[u] = stack[u]
  /\ InCall(t)' =>
       /\ stack'[t][1].pv = stack[t][1].pv
       /\ \A k \in 1 .. Len(stack'[t]) : stack'[t][k].kind = "push" /\ stack'[t][k].value = Carried(t)

\* It keeps to what the calls are about.
LEMMA WithinFacts ==
  ASSUME CallerInv, NEW t \in Threads, Within(t)
  PROVE  /\ CallerInv'
         /\ \A u \in Threads : InCall(u)' => InCall(u) /\ Root(u)' = Root(u) /\ Carried(u)' = Carried(u)
         /\ \A u \in Threads : InCall(u) /\ u # t => InCall(u)'
  <1>1. ASSUME NEW u \in Threads, InCall(u)'
        PROVE  InCall(u) /\ Root(u)' = Root(u) /\ Carried(u)' = Carried(u)
    <2>1. InCall(u) /\ Root(u)' = Root(u)
      BY <1>1 DEF Within, InCall, Root
    <2> QED BY <2>1 DEF Within, Carried
  <1>2. ASSUME NEW u \in Threads, InCall(u)'
        PROVE  /\ Root(u)' \in PushesOn[u]
               /\ \A k \in 1 .. Len(stack'[u]) : stack'[u][k].kind = "push" /\ stack'[u][k].value = Carried(u)'
    <2>1. Root(u)' \in PushesOn[u]
      BY <1>1, <1>2 DEF CallerInv
    <2>2. CASE u = t
      BY <1>1, <1>2, <2>1, <2>2 DEF Within
    <2>3. CASE u # t
      <3>1. stack'[u] = stack[u]
        BY <2>3 DEF Within
      <3>2. \A k \in 1 .. Len(stack[u]) : stack[u][k].kind = "push" /\ stack[u][k].value = Carried(u)
        BY <1>1, <1>2 DEF CallerInv
      <3> QED BY <1>1, <1>2, <2>1, <3>1, <3>2
    <2> QED BY <2>2, <2>3
  <1>3. CallerInv'
    BY <1>2 DEF CallerInv
  <1>4. \A u \in Threads : InCall(u) /\ u # t => InCall(u)'
    BY DEF Within, InCall
  <1> QED BY <1>1, <1>3, <1>4

\* A step of t gives no output a value but the one that t carries.
GotStep(t) ==
  /\ \A o \in Outputs : \A i \in Inputs \ {Root(t)} : got'[o][i] = got[o][i]
  /\ \A o \in Outputs : Has(o, Carried(t)) => got'[o][Root(t)] = Carried(t).number

DeliveredInv == FanOutInv /\ CallerInv /\ ReachedInv /\ HomeInv

\* What t, and another thread, have brought somewhere is there after a step of t.
LEMMA GotKept ==
  ASSUME OneCaller, PushTyped, CallerInv, NEW t \in Threads, Within(t), GotStep(t),
         NEW u \in Threads, InCall(u), NEW v, v = Carried(u)
  PROVE  /\ v.root = Root(u)
         /\ \A o \in Outputs : Has(o, v) => got'[o][v.root] = v.number
         /\ \A j \in Inputs : AllHave(j, v) => AllHave(j, v)'
  <1>1. Root(u) \in Inputs /\ Carried(u).root = Root(u) /\ (u # t => Root(u) # Root(t))
    BY CallerFacts DEF Within
  <1>2. \A o \in Outputs : Has(o, v) => got'[o][v.root] = v.number
    <2>1. CASE u = t
      BY <1>1, <2>1 DEF GotStep
    <2>2. CASE u # t
      BY <1>1, <2>2 DEF GotStep, Has
    <2> QED BY <2>1, <2>2
  <1>3. \A j \in Inputs : AllHave(j, v) => AllHave(j, v)'
    BY <1>2, HaveKept
  <1> QED BY <1>1, <1>2, <1>3

\* So it is enough to look at what t itself does.
LEMMA StepDelivers ==
  ASSUME OneCaller, PushTyped, CallerInv, ReachedInv, HomeInv, NEW t \in Threads, Within(t), GotStep(t),
         \A k \in Fans(t)' : ReachedBy(t, k)',
         ~InCall(t)' => AllHave(Root(t), Carried(t))
  PROVE  CallerInv' /\ ReachedInv' /\ HomeInv'
  <1>1. /\ CallerInv'
        /\ \A u \in Threads : InCall(u)' => InCall(u) /\ Root(u)' = Root(u) /\ Carried(u)' = Carried(u)
        /\ \A u \in Threads : InCall(u) /\ u # t => InCall(u)'
    BY WithinFacts
  <1>t. InCall(t) /\ calls' = calls /\ Root(t) \in Inputs
    BY CallerFacts DEF Within
  <1>2. ASSUME NEW u \in Threads \ {t}, NEW k \in Fans(u)' PROVE ReachedBy(u, k)'
    <2>1. stack'[u] = stack[u] /\ Fans(u)' = Fans(u)
      BY DEF Within, Fans
    <2>2. ReachedBy(u, k)
      BY <2>1 DEF ReachedInv
    <2>f. PICK f : f = stack[u][k]
      OBVIOUS
    <2>3. f \in FrameType /\ InCall(u)
      <3>1. stack[u] \in Seq(FrameType) /\ k \in 1 .. Len(stack[u])
        BY <2>1 DEF PushTyped, Fans
      <3>2. stack[u] # <<>>
        BY <3>1
      <3> QED BY <2>f, <3>1, <3>2 DEF InCall
    <2>4. f.pv \in Inputs
      BY <2>3 DEF FrameType
    <2>v. PICK v : v = Carried(u)
      OBVIOUS
    <2>5. v = Carried(u)'
      BY <1>1, <2>1, <2>3, <2>v DEF InCall
    <2>6. /\ \A o \in Outputs : Has(o, v) => got'[o][v.root] = v.number
          /\ \A j \in Inputs : AllHave(j, v) => AllHave(j, v)'
      BY <2>3, <2>v, GotKept
    <2>7. ASSUME NEW o \in Subscribers[f.pv] \ f.todo PROVE Has(o, v)'
      <3>1. o \in Outputs
        BY <2>4, LinksAssumption DEF LinksAssumption
      <3>2. Has(o, v)
        BY <2>2, <2>f, <2>v DEF ReachedBy
      <3> QED BY <2>6, <3>1, <3>2 DEF Has
    <2>8. ASSUME NEW j \in Gone(f.pv, f.todo)
          PROVE  AllHave(j, v)' \/ (k < Len(stack[u]) /\ stack[u][k + 1].pv = j)
      <3>1. j \in Inputs
        BY <2>4, GoneFacts
      <3>2. AllHave(j, v) \/ (k < Len(stack[u]) /\ stack[u][k + 1].pv = j)
        BY <2>2, <2>f, <2>v DEF ReachedBy
      <3> QED BY <2>6, <3>1, <3>2
    <2> QED BY <2>1, <2>5, <2>7, <2>8, <2>f DEF ReachedBy, Has, AllHave
  <1>3. ReachedInv'
    BY <1>2 DEF ReachedInv
  <1>4. ASSUME NEW i \in Inputs, \A u \in Threads : InCall(u)' => Root(u)' # i
        PROVE  AllHave(i, Value(i, calls[i]))'
    <2>v. PICK v : v = Value(i, calls[i])
      OBVIOUS
    <2>0. v.root = i
      BY <2>v DEF Value
    <2>1. AllHave(i, v)'
      <3>1. CASE i = Root(t)
        <4>1. ~InCall(t)'
          BY <1>1, <1>4, <3>1
        <4>2. AllHave(i, v) /\ v = Carried(t)
          BY <2>v, <3>1, <4>1 DEF Carried
        <4> QED BY <1>t, <4>2, GotKept
      <3>2. CASE i # Root(t)
        <4>1. \A u \in Threads : InCall(u) => Root(u) # i
          BY <1>1, <1>4, <3>2
        <4>2. AllHave(i, v)
          BY <2>v, <4>1 DEF HomeInv
        <4>3. \A o \in Outputs : Has(o, v) => got'[o][v.root] = v.number
          BY <2>0, <3>2 DEF GotStep, Has
        <4> QED BY <4>2, <4>3, HaveKept
      <3> QED BY <3>1, <3>2
    <2> QED BY <1>t, <2>1, <2>v DEF AllHave, Has
  <1>5. HomeInv'
    BY <1>4 DEF HomeInv
  <1> QED BY <1>1, <1>3, <1>5

\* A frame that stays in its call: the step is within it, and every call is where it was.
LEMMA RetopWithin ==
  ASSUME OneCaller, PushTyped, CallerInv, NEW t \in Threads, InCall(t), calls' = calls,
         NEW f, Retop(t, f), SameCall(Top(t), f)
  PROVE  /\ Within(t) /\ InCall(t)'
         /\ Len(stack'[t]) = Len(stack[t])
         /\ \A k \in 1 .. Len(stack[t]) : stack'[t][k].pv = stack[t][k].pv
  <1> DEFINE n == Len(stack[t])
  <1>1. n \in Nat \ {0} /\ Top(t) = stack[t][n]
    BY InFacts
  <1>2. /\ \A u \in Threads \ {t} : stack'[u] = stack[u]
        /\ Len(stack'[t]) = n /\ stack'[t][n] = f
        /\ \A k \in 1 .. n - 1 : stack'[t][k] = stack[t][k]
        /\ stack'[t] \in Seq(FrameType)
    BY DEF Retop
  <1>3. ASSUME NEW k \in 1 .. n PROVE SameCall(stack[t][k], stack'[t][k])
    <2>1. k = n \/ k \in 1 .. n - 1
      BY <1>1
    <2> QED BY <1>1, <1>2, <2>1 DEF SameCall
  <1>4. \A k \in 1 .. n : stack'[t][k].kind = "push" /\ stack'[t][k].value = Carried(t)
    BY <1>3 DEF CallerInv, SameCall
  <1>5. stack'[t][1].pv = stack[t][1].pv
    BY <1>1, <1>3 DEF SameCall
  <1>6. stack'[t] # <<>>
    BY <1>1, <1>2
  <1>7. \A k \in 1 .. n : stack'[t][k].pv = stack[t][k].pv
    BY <1>3 DEF SameCall
  <1> QED BY <1>2, <1>4, <1>5, <1>6, <1>7 DEF Within, InCall

\* A fan-out that is as it was has reached what it had reached.
LEMMA SameReach ==
  ASSUME OneCaller, PushTyped, CallerInv, ReachedInv, NEW t \in Threads, Within(t), GotStep(t), InCall(t)',
         NEW k \in Fans(t), stack'[t][k] = stack[t][k],
         k < Len(stack[t]) =>
           \/ k < Len(stack'[t]) /\ stack'[t][k + 1].pv = stack[t][k + 1].pv
           \/ AllHave(stack[t][k + 1].pv, Carried(t))
  PROVE  ReachedBy(t, k)'
  <1>v. PICK v : v = Carried(t)
    OBVIOUS
  <1>f. PICK f : f = stack[t][k]
    OBVIOUS
  <1>1. v = Carried(t)' /\ InCall(t)
    BY <1>v, WithinFacts DEF Within
  <1>2. /\ \A o \in Outputs : Has(o, v) => got'[o][v.root] = v.number
        /\ \A j \in Inputs : AllHave(j, v) => AllHave(j, v)'
    BY <1>1, <1>v, GotKept
  <1>3. ReachedBy(t, k)
    BY DEF ReachedInv
  <1>4. f.pv \in Inputs
    <2>1. stack[t] \in Seq(FrameType) /\ k \in 1 .. Len(stack[t])
      BY DEF PushTyped, Fans
    <2>2. f \in FrameType
      BY <1>f, <2>1
    <2> QED BY <2>2 DEF FrameType
  <1>5. ASSUME NEW o \in Subscribers[f.pv] \ f.todo PROVE Has(o, v)'
    <2>1. o \in Outputs
      BY <1>4, LinksAssumption DEF LinksAssumption
    <2>2. Has(o, v)
      BY <1>3, <1>f, <1>v DEF ReachedBy
    <2> QED BY <1>2, <2>1, <2>2 DEF Has
  <1>6. ASSUME NEW j \in Gone(f.pv, f.todo)
        PROVE  AllHave(j, v)' \/ (k < Len(stack'[t]) /\ stack'[t][k + 1].pv = j)
    <2>1. j \in Inputs
      BY <1>4, GoneFacts
    <2>2. AllHave(j, v) \/ (k < Len(stack[t]) /\ stack[t][k + 1].pv = j)
      BY <1>3, <1>f, <1>v DEF ReachedBy
    <2> QED BY <1>2, <1>v, <2>1, <2>2
  <1> QED BY <1>1, <1>5, <1>6, <1>f DEF ReachedBy, Has, AllHave

\* The steps outside the fan-outs deliver nothing, and a fan-out that begins has nothing
\* behind it.
LEMMA DeliveredRetop ==
  ASSUME OneCaller, DeliveredInv, NEW t \in Threads,
         LockList(t) \/ LoadCount(t) \/ StoreCount(t) \/ ResetCount(t) \/ PassToControlSystem(t) \/ StoreValue(t)
  PROVE  CallerInv' /\ ReachedInv' /\ HomeInv'
  <1>0. PushTyped /\ FanInv /\ BelowInv /\ CallerInv /\ ReachedInv /\ HomeInv
    BY DEF DeliveredInv, FanOutInv
  <1>1. got' = got /\ calls' = calls
    BY DEF LockList, LoadCount, StoreCount, ResetCount, PassToControlSystem, StoreValue
  <1>c. InCall(t)
    BY DEF LockList, LoadCount, StoreCount, ResetCount, PassToControlSystem, StoreValue, At
  <1>2. GotStep(t)
    BY <1>0, <1>1, <1>c, CallerFacts DEF GotStep, Has
  <1>3. CASE LockList(t)
    <2>f. PICK f \in FrameType :
            /\ Top(t).at = "lock" /\ Retop(t, f) /\ SameCall(Top(t), f) /\ f.at = "fan"
            /\ Top(t).kind = "push" => f.todo = Links(PV(t))
      BY <1>0, <1>3, LockFacts
    <2>1. /\ Within(t) /\ InCall(t)'
          /\ Len(stack'[t]) = Len(stack[t])
          /\ \A k \in 1 .. Len(stack[t]) : stack'[t][k].pv = stack[t][k].pv
      BY <1>0, <1>1, <1>c, <2>f, RetopWithin
    <2>2. PV(t) \in Inputs /\ f.pv = PV(t) /\ f.todo = Links(PV(t)) /\ Len(stack[t]) \in Nat \ {0}
      BY <1>0, <1>c, <2>f, CallerFacts, InFacts DEF SameCall, PV
    <2>3. ASSUME NEW k \in Fans(t)' PROVE ReachedBy(t, k)'
      <3>1. k \in 1 .. Len(stack[t]) /\ stack'[t][k].at = "fan"
        BY <2>1 DEF Fans
      <3>2. CASE k = Len(stack[t])
        <4>1. stack'[t][k] = f
          BY <2>f, <3>2 DEF Retop
        <4>2. Subscribers[f.pv] \ f.todo = {} /\ Gone(f.pv, f.todo) = {}
          BY <2>2, GoneFacts DEF Links
        <4> QED BY <4>1, <4>2 DEF ReachedBy
      <3>3. CASE k # Len(stack[t])
        <4>1. k \in 1 .. Len(stack[t]) - 1
          BY <2>2, <3>1, <3>3
        <4>2. stack'[t][k] = stack[t][k]
          BY <2>f, <4>1 DEF Retop
        <4>3. k \in Fans(t)
          BY <3>1, <4>2 DEF Fans
        <4>4. k < Len(stack'[t]) /\ stack'[t][k + 1].pv = stack[t][k + 1].pv
          <5>1. k + 1 \in 1 .. Len(stack[t]) /\ k < Len(stack[t])
            BY <2>2, <4>1
          <5> QED BY <2>1, <5>1
        <4> QED BY <1>0, <1>2, <2>1, <4>2, <4>3, <4>4, SameReach
      <3> QED BY <3>2, <3>3
    <2> QED BY <1>0, <1>2, <2>1, <2>3, StepDelivers
  <1>4. CASE LoadCount(t) \/ StoreCount(t) \/ ResetCount(t) \/ PassToControlSystem(t) \/ StoreValue(t)
    <2>0. Moves(t)
      BY <1>0, <1>4, MovesFacts
    <2>f. PICK f \in FrameType : Retop(t, f) /\ SameCall(Top(t), f)
      BY <2>0 DEF Moves
    <2>1. /\ Within(t) /\ InCall(t)'
          /\ Len(stack'[t]) = Len(stack[t])
          /\ \A k \in 1 .. Len(stack[t]) : stack'[t][k].pv = stack[t][k].pv
      BY <1>0, <1>1, <1>c, <2>f, RetopWithin
    <2>2. SameFans /\ Len(stack[t]) \in Nat
      BY <1>0, <1>c, <2>0, MovesFans, InFacts
    <2>3. ASSUME NEW k \in Fans(t)' PROVE ReachedBy(t, k)'
      <3>1. k \in Fans(t) /\ stack'[t][k] = stack[t][k]
        BY <2>2 DEF SameFans
      <3>2. k < Len(stack[t]) => k < Len(stack'[t]) /\ stack'[t][k + 1].pv = stack[t][k + 1].pv
        <4>1. k \in 1 .. Len(stack[t])
          BY <3>1 DEF Fans
        <4>2. k < Len(stack[t]) => k + 1 \in 1 .. Len(stack[t])
          BY <2>2, <4>1
        <4> QED BY <2>1, <4>2
      <3> QED BY <1>0, <1>2, <2>1, <3>1, <3>2, SameReach
    <2> QED BY <1>0, <1>2, <2>1, <2>3, StepDelivers
  <1> QED BY <1>3, <1>4

\* Going on with x, an output that it writes or a PV that it pushes on, brings the value
\* there, and the call inside is a push of the same value.
LEMMA DeliveredInside ==
  ASSUME OneCaller, DeliveredInv, NEW t \in Threads, NEW x, NEW js, Inside(t, x, js), calls' = calls,
         \/ /\ x \in Outputs /\ js = Acknowledges[x]
            /\ got' = [got EXCEPT ![x][Top(t).value.root] = Top(t).value.number]
         \/ x \in Inputs /\ js = {x} /\ got' = got
  PROVE  CallerInv' /\ ReachedInv' /\ HomeInv'
  <1> DEFINE n == Len(stack[t])
             f == stack[t][n]
  <1>0. PushTyped /\ FanInv /\ BelowInv /\ CallerInv /\ ReachedInv /\ HomeInv
    BY DEF DeliveredInv, FanOutInv
  <1>1. /\ InCall(t) /\ \A u \in Threads \ {t} : stack'[u] = stack[u]
        /\ \A k \in 1 .. n - 1 : stack'[t][k] = stack[t][k]
        /\ x \in f.todo /\ f \in FrameType /\ n \in Nat \ {0} /\ stack'[t] \in Seq(FrameType)
        /\ stack'[t][n] = [f EXCEPT !.todo = @ \ {x}]
    BY <1>0, InFacts DEF Inside
  <1>v. PICK v : v = Carried(t)
    OBVIOUS
  <1>2. /\ Root(t) \in Inputs /\ v.root = Root(t) /\ Top(t).value = v
        /\ f.value = v /\ f.kind = "push" /\ Top(t) = f
    BY <1>0, <1>1, <1>v, CallerFacts, InFacts
  <1>i. PICK i \in Inputs : i = f.pv
    BY <1>1 DEF FrameType
  <1>3. /\ stack'[t][n].pv = i /\ stack'[t][n].kind = "push" /\ stack'[t][n].value = v
        /\ stack'[t][n].todo = f.todo \ {x}
    BY <1>1, <1>2, <1>i DEF FrameType
  <1>4. \/ js = {} /\ Len(stack'[t]) = n
        \/ /\ Len(stack'[t]) = n + 1 /\ js = {stack'[t][n + 1].pv}
           /\ stack'[t][n + 1].kind = "push" /\ stack'[t][n + 1].value = v
    <2>1. CASE js = {} /\ Len(stack'[t]) = n
      BY <2>1
    <2>2. CASE /\ \E j \in Inputs : js = {j} /\ stack'[t][n + 1] = Frame(j, "push", Top(t).value)
               /\ Len(stack'[t]) = n + 1
      BY <1>2, <2>2 DEF Frame
    <2> QED BY <2>1, <2>2 DEF Inside
  <1> HIDE DEF f, n
  <1>5. Within(t) /\ InCall(t)'
    <2>1. ASSUME NEW k \in 1 .. Len(stack'[t]) PROVE stack'[t][k].kind = "push" /\ stack'[t][k].value = v
      <3>1. CASE k = n
        BY <1>3, <3>1
      <3>2. CASE k \in 1 .. n - 1
        <4>1. stack'[t][k] = stack[t][k] /\ k \in 1 .. Len(stack[t])
          BY <1>1, <3>2 DEF n
        <4> QED BY <1>0, <1>1, <1>v, <4>1 DEF CallerInv
      <3>3. CASE k \notin 1 .. n
        <4>1. k = n + 1 /\ Len(stack'[t]) = n + 1
          BY <1>1, <1>4, <3>3
        <4> QED BY <1>4, <4>1
      <3>4. k \in 1 .. n => k = n \/ k \in 1 .. n - 1
        BY <1>1
      <3> QED BY <3>1, <3>2, <3>3, <3>4
    <2>2. stack'[t][1].pv = stack[t][1].pv
      <3>1. n = 1 \/ 1 \in 1 .. n - 1
        BY <1>1
      <3> QED BY <1>1, <1>3, <1>i, <3>1 DEF f
    <2>3. stack'[t] # <<>>
      BY <1>1, <1>4
    <2> QED BY <1>1, <1>v, <2>1, <2>2, <2>3 DEF Within, InCall
  <1>6. GotStep(t) /\ (x \in Outputs => got'[x][v.root] = v.number)
    <2>1. CASE x \in Outputs /\ got' = [got EXCEPT ![x][v.root] = v.number]
      <3>1. /\ \A o \in Outputs \ {x} : got'[o] = got[o]
            /\ got'[x] = [got[x] EXCEPT ![v.root] = v.number] /\ got[x] \in [Inputs -> 0..MaxCalls]
        BY <1>0, <2>1 DEF PushTyped
      <3>2. got'[x][v.root] = v.number /\ \A r \in Inputs \ {v.root} : got'[x][r] = got[x][r]
        BY <1>2, <3>1
      <3>3. \A o \in Outputs : \A r \in Inputs \ {Root(t)} : got'[o][r] = got[o][r]
        BY <1>2, <3>1, <3>2
      <3>4. \A o \in Outputs : Has(o, v) => got'[o][Root(t)] = v.number
        BY <1>2, <3>1, <3>2 DEF Has
      <3> QED BY <1>v, <3>2, <3>3, <3>4 DEF GotStep
    <2>2. CASE x \in Inputs /\ got' = got
      <3>1. x \notin Outputs
        BY <2>2, LinksAssumption DEF LinksAssumption
      <3> QED BY <1>2, <1>v, <2>2, <3>1 DEF GotStep, Has
    <2> QED BY <1>2, <2>1, <2>2
  <1>7. /\ n \in Fans(t) /\ Fans(t)' = Fans(t)
        /\ \A k \in Fans(t) : k # n => stack'[t][k] = stack[t][k]
    BY <1>0, InsideStack DEF n
  <1>8. /\ \A o \in Outputs : Has(o, v) => got'[o][v.root] = v.number
        /\ \A j \in Inputs : AllHave(j, v) => AllHave(j, v)'
        /\ v = Carried(t)'
    BY <1>0, <1>1, <1>5, <1>6, <1>v, GotKept, WithinFacts
  <1>m. PICK m : m = n
    OBVIOUS
  <1>9. ReachedBy(t, m)'
    <2>1. ReachedBy(t, n)
      BY <1>0, <1>7 DEF ReachedInv
    <2>2. /\ \A o \in Subscribers[i] \ f.todo : Has(o, v)
          /\ \A j \in Gone(i, f.todo) : AllHave(j, v)
      <3>1. ~(n < Len(stack[t]))
        BY <1>1 DEF n
      <3> QED BY <1>i, <1>v, <2>1, <3>1 DEF ReachedBy, f
    <2>3. ASSUME NEW o \in Subscribers[i] \ (f.todo \ {x}) PROVE Has(o, v)'
      <3>1. o \in Outputs
        BY LinksAssumption DEF LinksAssumption
      <3>2. o = x \/ Has(o, v)
        BY <2>2
      <3> QED BY <1>6, <1>8, <3>1, <3>2 DEF Has
    <2>4. ASSUME NEW j \in Gone(i, f.todo \ {x})
          PROVE  AllHave(j, v)' \/ (n < Len(stack'[t]) /\ stack'[t][n + 1].pv = j)
      <3>1. j \in Inputs
        BY GoneFacts
      <3>2. j \in Gone(i, f.todo) \/ j \in js
        <4>1. Subscribers[i] \subseteq Outputs /\ Destinations[i] \subseteq Inputs /\ Inputs \cap Outputs = {}
          BY LinksAssumption DEF LinksAssumption
        <4>2. CASE j \in Destinations[i] \ (f.todo \ {x})
          <5>1. j \in Gone(i, f.todo) \/ j = x
            BY <4>2 DEF Gone
          <5> QED BY <3>1, <4>1, <5>1
        <4>3. ASSUME NEW o \in Subscribers[i] \ (f.todo \ {x}), j \in Acknowledges[o]
              PROVE  j \in Gone(i, f.todo) \/ j \in js
          <5>1. o \notin f.todo => j \in Gone(i, f.todo)
            BY <4>3 DEF Gone
          <5> QED BY <4>1, <4>3, <5>1
        <4> QED BY <4>2, <4>3 DEF Gone
      <3>3. j \in js => n < Len(stack'[t]) /\ stack'[t][n + 1].pv = j
        BY <1>1, <1>4
      <3> QED BY <1>8, <2>2, <3>1, <3>2, <3>3
    <2>5. stack'[t][m].pv = i /\ stack'[t][m].todo = f.todo \ {x}
      BY <1>3, <1>m
    <2>6. \A j \in Gone(i, f.todo \ {x}) :
            AllHave(j, v)' \/ (m < Len(stack'[t]) /\ stack'[t][m + 1].pv = j)
      BY <1>m, <2>4
    <2> QED BY <1>8, <2>3, <2>5, <2>6 DEF ReachedBy, Has, AllHave
  <1>10. ASSUME NEW k \in Fans(t)' PROVE ReachedBy(t, k)'
    <2>1. CASE k = n
      BY <1>9, <1>m, <2>1
    <2>2. CASE k # n
      <3>1. k \in Fans(t) /\ stack'[t][k] = stack[t][k]
        BY <1>7, <2>2
      <3>2. k \in 1 .. n - 1
        <4>1. k \in 1 .. n
          BY <3>1 DEF Fans, n
        <4> QED BY <1>1, <2>2, <4>1
      <3>3. k < Len(stack'[t]) /\ stack'[t][k + 1].pv = stack[t][k + 1].pv
        <4>1. k + 1 = n \/ k + 1 \in 1 .. n - 1
          BY <1>1, <3>2
        <4>2. stack'[t][k + 1].pv = stack[t][k + 1].pv
          BY <1>1, <1>3, <1>i, <4>1 DEF f
        <4> QED BY <1>1, <1>4, <3>2, <4>2
      <3> QED BY <1>0, <1>5, <1>6, <3>1, <3>3, SameReach
    <2> QED BY <2>1, <2>2
  <1> QED BY <1>0, <1>5, <1>6, <1>10, StepDelivers

\* A call that returns has delivered to all that comes after its PV: the fan-out it was
\* called from can go on, and the root, if it is the last, is done.
LEMMA DeliveredReturn ==
  ASSUME OneCaller, DeliveredInv, NEW t \in Threads, Return(t)
  PROVE  CallerInv' /\ ReachedInv' /\ HomeInv'
  <1> DEFINE n == Len(stack[t])
  <1>0. PushTyped /\ FanInv /\ BelowInv /\ CallerInv /\ ReachedInv /\ HomeInv
    BY DEF DeliveredInv, FanOutInv
  <1>1. InCall(t) /\ Top(t).at = "fan" /\ Top(t).todo = {} /\ calls' = calls /\ got' = got
    BY DEF Return, At
  <1>2. n \in Nat \ {0} /\ Top(t) = stack[t][n] /\ PV(t) \in Inputs
    BY <1>0, <1>1, InFacts
  <1>3. /\ \A u \in Threads \ {t} : stack'[u] = stack[u]
        /\ Len(stack'[t]) = n - 1
        /\ \A k \in 1 .. n - 1 : stack'[t][k] = stack[t][k]
        /\ stack' \in [Threads -> Seq(FrameType)]
    BY <1>0, ReturnFacts
  <1>v. PICK v : v = Carried(t)
    OBVIOUS
  <1>i. PICK i \in Inputs : i = PV(t) /\ i = stack[t][n].pv
    BY <1>2 DEF PV
  <1>4. AllHave(i, v)
    <2>1. n \in Fans(t)
      BY <1>1, <1>2 DEF Fans
    <2>2. ReachedBy(t, n)
      BY <1>0, <2>1 DEF ReachedInv
    <2>3. stack[t][n].todo = {} /\ ~(n < Len(stack[t]))
      BY <1>1, <1>2
    <2>4. /\ \A o \in Subscribers[i] : Has(o, v)
          /\ \A j \in Gone(i, {}) : AllHave(j, v)
      BY <1>i, <1>v, <2>2, <2>3 DEF ReachedBy
    <2> QED BY <2>4, GoneFacts, HaveStep
  <1>5. InCall(t)' <=> n # 1
    <2>1. stack'[t] \in Seq(FrameType)
      BY <1>3
    <2>2. stack'[t] = <<>> <=> Len(stack'[t]) = 0
      BY <2>1, EmptySeq
    <2> QED BY <1>2, <1>3, <2>2 DEF InCall
  <1> HIDE DEF n
  <1>6. Within(t)
    <2>1. ASSUME n # 1 PROVE stack'[t][1].pv = stack[t][1].pv
      <3>1. 1 \in 1 .. n - 1
        BY <1>2, <2>1
      <3> QED BY <1>3, <3>1
    <2>2. ASSUME NEW k \in 1 .. Len(stack'[t])
          PROVE  stack'[t][k].kind = "push" /\ stack'[t][k].value = Carried(t)
      <3>1. k \in 1 .. n - 1 /\ k \in 1 .. Len(stack[t])
        BY <1>2, <1>3 DEF n
      <3> QED BY <1>0, <1>1, <1>3, <3>1 DEF CallerInv
    <2> QED BY <1>1, <1>3, <1>5, <2>1, <2>2 DEF Within
  <1>7. GotStep(t)
    BY <1>0, <1>1, CallerFacts DEF GotStep, Has
  <1>8. ASSUME NEW k \in Fans(t)' PROVE ReachedBy(t, k)'
    <2>1. k \in 1 .. n - 1 /\ stack'[t][k].at = "fan" /\ n # 1
      BY <1>2, <1>3 DEF Fans
    <2>2. stack'[t][k] = stack[t][k]
      BY <1>3, <2>1
    <2>3. k \in Fans(t)
      BY <1>2, <2>1, <2>2 DEF Fans, n
    <2>4. \/ k < Len(stack'[t]) /\ stack'[t][k + 1].pv = stack[t][k + 1].pv
          \/ AllHave(stack[t][k + 1].pv, Carried(t))
      <3>1. CASE k = n - 1
        <4>1. k + 1 = n
          BY <1>2, <3>1
        <4> QED BY <1>4, <1>i, <1>v, <4>1
      <3>2. CASE k # n - 1
        <4>1. k < n - 1 /\ k + 1 \in 1 .. n - 1
          BY <1>2, <2>1, <3>2
        <4> QED BY <1>3, <4>1
      <3> QED BY <3>1, <3>2
    <2> QED BY <1>0, <1>5, <1>6, <1>7, <2>1, <2>2, <2>3, <2>4, SameReach
  <1>9. ~InCall(t)' => AllHave(Root(t), Carried(t))
    BY <1>4, <1>5, <1>i, <1>v DEF Root
  <1> QED BY <1>0, <1>6, <1>7, <1>8, <1>9, StepDelivers

\* A new call is about a new value, of a PV that is not being called.
LEMMA DeliveredCall ==
  ASSUME OneCaller, DeliveredInv, NEW t \in Threads, NEW i \in Inputs, Push(t, i)
  PROVE  CallerInv' /\ ReachedInv' /\ HomeInv'
  <1>0. PushTyped /\ FanInv /\ BelowInv /\ CallerInv /\ ReachedInv /\ HomeInv
    BY DEF DeliveredInv, FanOutInv
  <1>1. i \in PushesOn[t] /\ Call(t, i, "push") /\ "push" \in Kinds
    BY DEF Push, Kinds
  <1>2. /\ stack[t] = <<>> /\ Len(stack'[t]) = 1 /\ stack'[t][1].pv = i /\ stack'[t][1].at # "fan"
        /\ \A u \in Threads \ {t} : stack'[u] = stack[u]
    BY <1>0, <1>1, CallFacts
  <1>3. got' = got /\ calls'[i] = calls[i] + 1 /\ \A j \in Inputs \ {i} : calls'[j] = calls[j]
    BY <1>0, <1>1 DEF Call, PushTyped
  <1>4. stack'[t] = <<Frame(i, "push", Value(i, calls'[i]))>>
    BY <1>0, <1>1 DEF Call, PushTyped
  <1>5. stack'[t][1].kind = "push" /\ stack'[t][1].value = Value(i, calls'[i])
    BY <1>4 DEF Frame
  <1>6. ASSUME NEW u \in Threads \ {t}, InCall(u)
        PROVE  /\ InCall(u)' /\ Root(u)' = Root(u) /\ Root(u) # i /\ Carried(u)' = Carried(u)
               /\ Root(u) \in PushesOn[u]
    <2>1. Root(u) \in PushesOn[u] /\ Root(u) \in Inputs /\ stack'[u] = stack[u]
      BY <1>0, <1>2, <1>6, CallerFacts DEF CallerInv
    <2>2. Root(u) # i
      BY <1>1, <2>1 DEF OneCaller
    <2> QED BY <1>3, <1>6, <2>1, <2>2 DEF InCall, Root, Carried
  <1>7. Root(t)' = i /\ Carried(t)' = Value(i, calls'[i]) /\ InCall(t)' /\ ~InCall(t)
    BY <1>2, <1>4 DEF Root, Carried, InCall
  <1>8. CallerInv'
    <2>1. ASSUME NEW u \in Threads, InCall(u)'
          PROVE  /\ Root(u)' \in PushesOn[u]
                 /\ \A k \in 1 .. Len(stack'[u]) : stack'[u][k].kind = "push" /\ stack'[u][k].value = Carried(u)'
      <3>1. CASE u = t
        <4>1. \A k \in 1 .. Len(stack'[t]) : k = 1
          BY <1>2
        <4> QED BY <1>1, <1>5, <1>7, <3>1, <4>1
      <3>2. CASE u # t
        <4>1. stack'[u] = stack[u] /\ InCall(u)
          BY <1>2, <2>1, <3>2 DEF InCall
        <4>2. \A k \in 1 .. Len(stack[u]) : stack[u][k].kind = "push" /\ stack[u][k].value = Carried(u)
          BY <1>0, <4>1 DEF CallerInv
        <4>3. Root(u)' = Root(u) /\ Carried(u)' = Carried(u) /\ Root(u) \in PushesOn[u]
          BY <1>6, <3>2, <4>1
        <4> QED BY <4>1, <4>2, <4>3
      <3> QED BY <3>1, <3>2
    <2> QED BY <2>1 DEF CallerInv
  <1>9. ReachedInv'
    <2>1. ASSUME NEW u \in Threads, NEW k \in Fans(u)' PROVE ReachedBy(u, k)'
      <3>1. u # t
        <4>1. Fans(t)' = {}
          <5>1. \A m \in 1 .. Len(stack'[t]) : m = 1
            BY <1>2
          <5> QED BY <1>2, <5>1 DEF Fans
        <4> QED BY <2>1, <4>1
      <3>2. stack'[u] = stack[u] /\ k \in Fans(u)
        BY <1>2, <3>1 DEF Fans
      <3>3. InCall(u)
        BY <1>0, <3>2 DEF InCall, Fans, PushTyped
      <3>4. Carried(u)' = Carried(u)
        BY <1>6, <3>1, <3>3
      <3>5. ReachedBy(u, k)
        BY <1>0, <3>2 DEF ReachedInv
      <3> QED BY <1>3, <3>2, <3>4, <3>5 DEF ReachedBy, AllHave, Has
    <2> QED BY <2>1 DEF ReachedInv
  <1>10. HomeInv'
    <2>1. ASSUME NEW j \in Inputs, \A u \in Threads : InCall(u)' => Root(u)' # j
          PROVE  AllHave(j, Value(j, calls[j]))'
      <3>1. j # i /\ calls'[j] = calls[j]
        BY <1>3, <1>7, <2>1
      <3>2. ASSUME NEW u \in Threads, InCall(u) PROVE Root(u) # j
        <4>1. u # t
          BY <1>7, <3>2
        <4> QED BY <1>6, <2>1, <3>2, <4>1
      <3>3. AllHave(j, Value(j, calls[j]))
        BY <1>0, <3>2 DEF HomeInv
      <3> QED BY <1>3, <3>1, <3>3 DEF AllHave, Has
    <2> QED BY <2>1 DEF HomeInv
  <1> QED BY <1>8, <1>9, <1>10

\* At the start nobody calls and nothing has been called.
LEMMA DeliveredInit == Init => DeliveredInv
  <1> SUFFICES ASSUME Init PROVE DeliveredInv
    OBVIOUS
  <1>1. FanOutInv
    BY FanOutInit
  <1>2. \A t \in Threads : ~InCall(t) /\ Fans(t) = {}
    BY DEF Init, InCall, Fans
  <1>3. CallerInv /\ ReachedInv
    BY <1>2 DEF CallerInv, ReachedInv
  <1>4. ASSUME NEW i \in Inputs PROVE AllHave(i, Value(i, calls[i]))
    <2>1. ASSUME NEW x \in Through(i), NEW o \in Subscribers[x] PROVE got[o][i] = 0
      <3>1. x \in Inputs
        BY ThroughFacts
      <3>2. o \in Outputs
        BY <3>1, LinksAssumption DEF LinksAssumption
      <3> QED BY <3>2 DEF Init
    <2>2. calls[i] = 0
      BY DEF Init
    <2> QED BY <2>1, <2>2 DEF AllHave, Has, Value
  <1>5. HomeInv
    BY <1>4 DEF HomeInv
  <1> QED BY <1>1, <1>3, <1>5 DEF DeliveredInv

\* Every step keeps what has been delivered.
LEMMA DeliveredNext ==
  ASSUME OneCaller, DeliveredInv, [Next]_vars
  PROVE  DeliveredInv'
  <1>0. /\ FanOutInv /\ PushTyped /\ FanInv /\ BelowInv /\ CallerInv /\ ReachedInv /\ HomeInv
    BY DEF DeliveredInv, FanOutInv
  <1>1. FanOutInv'
    BY <1>0, FanOutNext
  <1> DEFINE Kept == CallerInv' /\ ReachedInv' /\ HomeInv'
  <1>2. ASSUME UNCHANGED <<stack, calls, got>> PROVE Kept
    <2>1. \A t \in Threads : Root(t)' = Root(t) /\ Carried(t)' = Carried(t) /\ InCall(t)' = InCall(t) /\ Fans(t)' = Fans(t)
      BY <1>2 DEF Root, Carried, InCall, Fans
    <2>2. CallerInv'
      BY <1>0, <1>2, <2>1 DEF CallerInv
    <2>3. ReachedInv'
      BY <1>0, <1>2, <2>1 DEF ReachedInv, ReachedBy, AllHave, Has
    <2>4. HomeInv'
      BY <1>0, <1>2, <2>1 DEF HomeInv, AllHave, Has
    <2> QED BY <2>2, <2>3, <2>4
  <1>3. ASSUME NEW t \in Threads, NEW i \in Inputs, Push(t, i) \/ SetValue(t, i) PROVE Kept
    BY <1>3, DeliveredCall DEF SetValue, OneCaller
  <1>4. ASSUME NEW t \in Threads, NEW o \in Outputs, WriteOutput(t, o) PROVE Kept
    <2>1. Inside(t, o, Acknowledges[o])
      BY <1>0, <1>4, InsideFacts
    <2>2. calls' = calls /\ got' = [got EXCEPT ![o][Top(t).value.root] = Top(t).value.number]
      BY <1>4 DEF WriteOutput
    <2> QED BY <2>1, <2>2, DeliveredInside
  <1>5. ASSUME NEW t \in Threads, NEW j \in Inputs, Replicate(t, j) PROVE Kept
    <2>1. Inside(t, j, {j})
      BY <1>0, <1>5, InsideFacts
    <2>2. calls' = calls /\ got' = got
      BY <1>5 DEF Replicate
    <2> QED BY <2>1, <2>2, DeliveredInside
  <1>6. ASSUME NEW t \in Threads, NEW o \in Outputs, WriteEnds(t, o) PROVE Kept
    BY <1>2, <1>6 DEF WriteEnds
  <1>7. ASSUME NEW t \in Threads, NEW o \in Outputs, WriteThrows(t, o) PROVE Kept
    BY <1>7 DEF WriteThrows, OneCaller
  <1>8. ASSUME NEW t \in Threads, Step(t) PROVE Kept
    <2> HIDE DEF Kept
    <2>1. CASE LockList(t) \/ LoadCount(t) \/ StoreCount(t) \/ ResetCount(t) \/ PassToControlSystem(t) \/ StoreValue(t)
      BY <2>1, DeliveredRetop DEF Kept
    <2>2. CASE Return(t)
      BY <2>2, DeliveredReturn DEF Kept
    <2> QED BY <1>4, <1>5, <1>6, <1>7, <1>8, <2>1, <2>2 DEF Step
  <1>9. ASSUME NEW i \in Inputs, NEW d \in Decimations[i], SetDecimation(i, d) PROVE Kept
    BY <1>2, <1>9 DEF SetDecimation
  <1>10. ASSUME UNCHANGED vars PROVE Kept
    BY <1>2, <1>10 DEF vars
  <1> HIDE DEF Kept
  <1>11. Kept
    BY <1>3, <1>8, <1>9, <1>10 DEF Next, Idle
  <1> QED BY <1>1, <1>11 DEF Kept, DeliveredInv

\* Where no write delegate throws and one thread at a time pushes on a PV, a push that
\* has returned has brought its value to every output downstream, through whatever
\* replications and acknowledgements: nothing is skipped, and no older value comes later.
THEOREM PushesDeliver == OneCaller => (Spec => []Delivered)
  <1> SUFFICES ASSUME OneCaller PROVE Spec => []Delivered
    OBVIOUS
  <1>1. DeliveredInv => Delivered
    <2> SUFFICES ASSUME DeliveredInv, NEW i \in Inputs, Quiet(i), NEW o \in Downstream(i)
                 PROVE  got[o][i] = calls[i]
      BY DEF Delivered
    <2>0. PushTyped /\ CallerInv /\ HomeInv
      BY DEF DeliveredInv, FanOutInv
    <2>1. ASSUME NEW t \in Threads, InCall(t) PROVE Root(t) # i
      BY <2>0, <2>1, CallerFacts DEF Quiet
    <2>2. AllHave(i, Value(i, calls[i]))
      BY <2>0, <2>1 DEF HomeInv
    <2> QED BY <2>2 DEF AllHave, Has, Value, Downstream
  <1>2. Init => DeliveredInv
    BY DeliveredInit
  <1>3. DeliveredInv /\ [Next]_vars => DeliveredInv'
    BY DeliveredNext
  <1> QED BY <1>1, <1>2, <1>3, PTL DEF Spec

-----------------------------------------------------------------------------
(* The type invariant.                                                      *)

\* What has been passed, or is about to be, has arrived.
PassedInv ==
  /\ \A i \in Inputs : ToSet(passed[i]) \subseteq ToSet(arrived[i])
  /\ \A t \in Threads : Deciding(t) => Top(t).value \in ToSet(arrived[PV(t)])

\* One more in a history.
LEMMA OneMoreIn ==
  ASSUME NEW S, NEW a \in Seq(S), NEW v \in S
  PROVE  ToSet(Append(a, v)) = ToSet(a) \cup {v}
  <1>b. PICK b : b = Append(a, v)
    OBVIOUS
  <1>1. /\ b \in Seq(S) /\ Len(b) = Len(a) + 1 /\ b[Len(a) + 1] = v /\ \A k \in 1 .. Len(a) : b[k] = a[k]
        /\ Len(a) \in Nat
    BY <1>b, AppendProperties
  <1>2. \A k : k \in 1 .. Len(b) <=> k = Len(a) + 1 \/ k \in 1 .. Len(a)
    BY <1>1
  <1>3. DOMAIN a = 1 .. Len(a) /\ DOMAIN b = 1 .. Len(b)
    BY <1>1
  <1>4. ToSet(b) = ToSet(a) \cup {v}
    <2>1. ASSUME NEW x \in ToSet(b) PROVE x \in ToSet(a) \cup {v}
      BY <1>1, <1>2, <1>3 DEF ToSet
    <2>2. ASSUME NEW x \in ToSet(a) PROVE x \in ToSet(b)
      BY <1>1, <1>2, <1>3 DEF ToSet
    <2>3. v \in ToSet(b)
      BY <1>1, <1>2, <1>3 DEF ToSet
    <2> QED BY <2>1, <2>2, <2>3
  <1> QED BY <1>4, <1>b

\* The innermost call after its frame changed.
LEMMA RetopTop ==
  ASSUME PushTyped, NEW t \in Threads, InCall(t), NEW f, Retop(t, f)
  PROVE  Top(t)' = f /\ \A u \in Threads \ {t} : Top(u)' = Top(u) /\ InCall(u)' = InCall(u)
  BY DEF Retop, Top, Last, InCall

\* The decimation passes on what has arrived.
LEMMA PassedSteps ==
  ASSUME PushTyped, PassedInv, NEW t \in Threads,
         LoadCount(t) \/ StoreCount(t) \/ ResetCount(t) \/ PassToControlSystem(t)
  PROVE  PassedInv'
  <1>1. InCall(t)
    BY DEF LoadCount, StoreCount, ResetCount, PassToControlSystem, At
  <1>i. PICK i \in Inputs : i = PV(t)
    BY <1>1, InFacts
  <1>v. PICK v \in Called : v = Top(t).value
    BY <1>1, InFacts DEF FrameType
  <1>f. PICK f \in FrameType : Retop(t, f) /\ SameCall(Top(t), f)
    BY MovesFacts DEF Moves
  <1>2. /\ Top(t)' = f /\ f.value = v /\ PV(t)' = i
        /\ \A u \in Threads \ {t} : Top(u)' = Top(u) /\ PV(u)' = PV(u) /\ InCall(u)' = InCall(u)
    BY <1>1, <1>f, <1>i, <1>v, RetopTop DEF SameCall, PV
  <1>3. \A j \in Inputs : arrived[j] \in Seq(Called) /\ passed[j] \in Seq(Called)
    BY DEF PushTyped
  <1>4. CASE LoadCount(t)
    <2>1. arrived' = [arrived EXCEPT ![i] = Append(@, v)] /\ passed' = passed
      BY <1>4, <1>i, <1>v DEF LoadCount
    <2>2. arrived'[i] = Append(arrived[i], v) /\ \A j \in Inputs \ {i} : arrived'[j] = arrived[j]
      BY <2>1 DEF PushTyped
    <2>3. ToSet(arrived'[i]) = ToSet(arrived[i]) \cup {v}
      BY <1>3, <2>2, OneMoreIn
    <2>4. \A j \in Inputs : ToSet(arrived[j]) \subseteq ToSet(arrived'[j])
      BY <2>2, <2>3
    <2>5. ASSUME NEW u \in Threads \ {t}, Deciding(u)' PROVE Top(u)'.value \in ToSet(arrived'[PV(u)'])
      <3>1. Deciding(u) /\ PV(u) \in Inputs
        BY <1>2, <2>5, InFacts DEF Deciding
      <3> QED BY <1>2, <2>4, <3>1 DEF PassedInv
    <2>6. \A j \in Inputs : ToSet(passed'[j]) \subseteq ToSet(arrived'[j])
      BY <2>1, <2>4 DEF PassedInv
    <2> QED BY <1>2, <2>3, <2>5, <2>6 DEF PassedInv
  <1>5. CASE ~LoadCount(t)
    <2>1. arrived' = arrived /\ Deciding(t)
      BY <1>1, <1>5 DEF StoreCount, ResetCount, PassToControlSystem, At, Deciding
    <2>2. v \in ToSet(arrived[i])
      BY <1>i, <1>v, <2>1 DEF PassedInv
    <2>3. ASSUME NEW u \in Threads, Deciding(u)' PROVE Top(u)'.value \in ToSet(arrived'[PV(u)'])
      BY <1>2, <2>1, <2>2, <2>3 DEF PassedInv, Deciding
    <2>4. \A j \in Inputs : ToSet(passed'[j]) \subseteq ToSet(arrived'[j])
      <3>1. CASE PassToControlSystem(t)
        <4>1. passed' = [passed EXCEPT ![i] = Append(@, v)]
          BY <1>i, <1>v, <3>1 DEF PassToControlSystem
        <4>2. passed'[i] = Append(passed[i], v) /\ \A j \in Inputs \ {i} : passed'[j] = passed[j]
          BY <4>1 DEF PushTyped
        <4>3. ToSet(passed'[i]) = ToSet(passed[i]) \cup {v}
          BY <1>3, <4>2, OneMoreIn
        <4> QED BY <2>1, <2>2, <4>2, <4>3 DEF PassedInv
      <3>2. CASE StoreCount(t) \/ ResetCount(t)
        BY <2>1, <3>2 DEF StoreCount, ResetCount, PassedInv
      <3> QED BY <1>5, <3>1, <3>2
    <2> QED BY <2>3, <2>4 DEF PassedInv
  <1> QED BY <1>4, <1>5

\* Every step keeps to it.
LEMMA PassedNext ==
  ASSUME FanOutInv, PassedInv, [Next]_vars
  PROVE  PassedInv'
  <1>0. PushTyped /\ BelowInv
    BY DEF FanOutInv
  <1>1. ASSUME UNCHANGED <<arrived, passed>>, NEW t \in Threads, ~Deciding(t)',
               \A u \in Threads \ {t} : stack'[u] = stack[u]
        PROVE  PassedInv'
    <2>1. ASSUME NEW u \in Threads, Deciding(u)' PROVE Top(u)'.value \in ToSet(arrived'[PV(u)'])
      <3>1. u # t /\ stack'[u] = stack[u]
        BY <1>1, <2>1
      <3>2. Deciding(u) /\ Top(u)' = Top(u) /\ PV(u)' = PV(u)
        BY <2>1, <3>1 DEF Deciding, InCall, Top, PV
      <3> QED BY <1>1, <3>2 DEF PassedInv
    <2> QED BY <1>1, <2>1 DEF PassedInv
  <1>2. ASSUME UNCHANGED <<arrived, passed, stack>> PROVE PassedInv'
    BY <1>2 DEF PassedInv, Deciding, InCall, Top, PV
  <1>3. ASSUME NEW t \in Threads, NEW i \in Inputs, Push(t, i) \/ SetValue(t, i) PROVE PassedInv'
    <2>1. PICK kind \in Kinds : Call(t, i, kind)
      BY <1>3 DEF Push, SetValue, Kinds
    <2>2. UNCHANGED <<arrived, passed>> /\ \A u \in Threads \ {t} : stack'[u] = stack[u]
      BY <1>0, <2>1, CallFacts DEF Call, decimationVars
    <2>3. ~Deciding(t)'
      BY <1>0, <1>3, RestSteps
    <2> QED BY <1>1, <2>2, <2>3
  <1>4. ASSUME NEW t \in Threads, StoreValue(t) \/ LockList(t) \/ Return(t) PROVE PassedInv'
    <2>1. UNCHANGED <<arrived, passed>>
      BY <1>4 DEF StoreValue, LockList, Return, decimationVars
    <2>2. \A u \in Threads \ {t} : stack'[u] = stack[u]
      BY <1>0, <1>4, MovesFacts, LockFacts, ReturnFacts DEF Moves, Retop
    <2>3. ~Deciding(t)'
      BY <1>0, <1>4, RestSteps
    <2> QED BY <1>1, <2>1, <2>2, <2>3
  <1>5. ASSUME NEW t \in Threads, NEW o \in Outputs, WriteOutput(t, o) \/ WriteThrows(t, o) PROVE PassedInv'
    <2>1. UNCHANGED <<arrived, passed>>
      BY <1>5 DEF WriteOutput, WriteThrows, decimationVars
    <2>2. \A u \in Threads \ {t} : stack'[u] = stack[u]
      BY <1>0, <1>5, InsideFacts, ThrowFacts DEF Inside
    <2>3. ~Deciding(t)'
      BY <1>0, <1>5, RestSteps
    <2> QED BY <1>1, <2>1, <2>2, <2>3
  <1>6. ASSUME NEW t \in Threads, NEW j \in Inputs, Replicate(t, j) PROVE PassedInv'
    <2>1. UNCHANGED <<arrived, passed>>
      BY <1>6 DEF Replicate, decimationVars
    <2>2. \A u \in Threads \ {t} : stack'[u] = stack[u]
      BY <1>0, <1>6, InsideFacts DEF Inside
    <2>3. ~Deciding(t)'
      BY <1>0, <1>6, RestSteps
    <2> QED BY <1>1, <2>1, <2>2, <2>3
  <1>7. ASSUME NEW t \in Threads, NEW o \in Outputs, WriteEnds(t, o) PROVE PassedInv'
    BY <1>2, <1>7 DEF WriteEnds, decimationVars
  <1>8. ASSUME NEW t \in Threads, Step(t) PROVE PassedInv'
    BY <1>0, <1>4, <1>5, <1>6, <1>7, <1>8, PassedSteps DEF Step
  <1>9. ASSUME NEW i \in Inputs, NEW d \in Decimations[i], SetDecimation(i, d) PROVE PassedInv'
    <2>1. /\ arrived' = [arrived EXCEPT ![i] = <<>>] /\ passed' = [passed EXCEPT ![i] = <<>>]
          /\ stack' = stack
      BY <1>9 DEF SetDecimation
    <2>2. /\ arrived'[i] = <<>> /\ passed'[i] = <<>>
          /\ \A j \in Inputs \ {i} : arrived'[j] = arrived[j] /\ passed'[j] = passed[j]
      BY <1>0, <2>1 DEF PushTyped
    <2>3. ASSUME NEW t \in Threads, Deciding(t) PROVE PV(t) # i /\ PV(t) \in Inputs
      <3>1. /\ stack[t] \in Seq(FrameType) /\ Len(stack[t]) \in Nat \ {0} /\ Top(t) = stack[t][Len(stack[t])]
            /\ PV(t) \in Inputs
        BY <1>0, <2>3, InFacts DEF Deciding
      <3>2. Top(t) \in ToSet(stack[t])
        BY <3>1 DEF ToSet
      <3> QED BY <1>9, <3>1, <3>2 DEF SetDecimation, PV
    <2>4. ASSUME NEW t \in Threads, Deciding(t)' PROVE Top(t)'.value \in ToSet(arrived'[PV(t)'])
      <3>1. Deciding(t) /\ Top(t)' = Top(t) /\ PV(t)' = PV(t)
        BY <2>1, <2>4 DEF Deciding, InCall, Top, PV
      <3> QED BY <2>2, <2>3, <3>1 DEF PassedInv
    <2>5. \A j \in Inputs : ToSet(passed'[j]) \subseteq ToSet(arrived'[j])
      BY <2>2 DEF PassedInv
    <2> QED BY <2>4, <2>5 DEF PassedInv
  <1>10. ASSUME UNCHANGED vars PROVE PassedInv'
    BY <1>2, <1>10 DEF vars
  <1> QED BY <1>3, <1>8, <1>9, <1>10 DEF Next, Idle

\* Counters keep their width and what is passed to the control system has been pushed.
THEOREM PushTypeCorrect == Spec => []TypeOK
  <1>1. FanOutInv /\ PassedInv => TypeOK
    <2> SUFFICES ASSUME FanOutInv, PassedInv PROVE TypeOK
      OBVIOUS
    <2>0. PushTyped
      BY DEF FanOutInv
    <2>1. ASSUME NEW t \in Threads, NEW f \in ToSet(stack[t])
          PROVE  /\ f.pv \in Inputs /\ f.kind \in {"push", "setValue"} /\ f.value \in Called
                 /\ f.register \in 0..Width-1 /\ f.at \in Places
                 /\ f.todo \subseteq Inputs \cup Outputs
      <3>1. stack[t] \in Seq(FrameType)
        BY <2>0 DEF PushTyped
      <3>2. f \in FrameType
        BY <3>1 DEF ToSet
      <3> QED BY <3>2 DEF FrameType, Kinds
    <2>2. ASSUME NEW i \in Inputs PROVE ToSet(arrived[i]) \subseteq Called /\ ToSet(passed[i]) \subseteq ToSet(arrived[i])
      <3>1. arrived[i] \in Seq(Called)
        BY <2>0 DEF PushTyped
      <3>2. ToSet(arrived[i]) \subseteq Called
        BY <3>1 DEF ToSet
      <3> QED BY <3>2 DEF PassedInv
    <2>3. /\ factor \in [Inputs -> 0..Width-1] /\ count \in [Inputs -> 0..Width-1]
          /\ listLock \in [Inputs -> Threads \cup {NoThread}]
          /\ held \in [Inputs -> Called \cup {NoValue}]
          /\ calls \in [Inputs -> 0..MaxCalls]
          /\ got \in [Outputs -> [Inputs -> 0..MaxCalls]]
          /\ written \in [Outputs -> Called \cup {NoValue}]
          /\ cut \subseteq Inputs /\ ended \in BOOLEAN
      BY <2>0 DEF PushTyped
    <2> HIDE DEF Called
    <2> QED BY <2>1, <2>2, <2>3 DEF TypeOK
  <1>2. Init => FanOutInv /\ PassedInv
    <2> SUFFICES ASSUME Init PROVE FanOutInv /\ PassedInv
      OBVIOUS
    <2>1. \A i \in Inputs : passed[i] = arrived[i]
      BY DEF Init
    <2>2. \A t \in Threads : ~Deciding(t)
      BY DEF Init, Deciding, InCall
    <2> QED BY <2>1, <2>2, FanOutInit DEF PassedInv
  <1>3. FanOutInv /\ PassedInv /\ [Next]_vars => (FanOutInv /\ PassedInv)'
    BY FanOutNext, PassedNext
  <1> QED BY <1>1, <1>2, <1>3, PTL DEF Spec
=============================================================================
