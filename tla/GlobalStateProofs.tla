-------------------------- MODULE GlobalStateProofs --------------------------
(***************************************************************************)
(* Proofs about GlobalState, for any tree, any readers and any timestamps: *)
(* what the loops of getGlobalState and getChildrenState compute, and what *)
(* a read that takes the mutex once per machine is sure to see.            *)
(***************************************************************************)
EXTENDS GlobalState, WellFoundedInduction, SequenceTheorems, TLAPS

\* The least-number principle for sets.
LEMMA LeastOf ==
  ASSUME NEW T, T \subseteq Nat, T # {}
  PROVE  \E m \in T : \A k \in T : m <= k
  <1>1. PICK m \in T : \A k \in T : ~ (<<k, m>> \in OpToRel(<, Nat))
    BY WFMin, NatLessThanWellFounded
  <1>2. ASSUME NEW k \in T PROVE m <= k
    <2>1. k \in Nat /\ m \in Nat
      OBVIOUS
    <2>2. ~ (k < m)
      BY <1>1, <2>1 DEF OpToRel
    <2> QED BY <2>1, <2>2
  <1> QED BY <1>2

-----------------------------------------------------------------------------
(* Samples in their order                                                   *)

Samples == [state : State, stamp : Nat]

\* No two states have one priority.
LEMMA PriorityFacts ==
  /\ \A s \in State : Priority[s] \in Nat
  /\ \A s, t \in State : Priority[s] = Priority[t] => s = t
  /\ \A s \in State \ {"unknown"} : Priority[s] > Priority["unknown"]
  <1>1. \A s \in State : Priority[s] \in Nat
    BY DEF Priority, State
  <1>2. \A s, t \in State : Priority[s] = Priority[t] => s = t
    BY DEF Priority, State
  <1>3. \A s \in State \ {"unknown"} : Priority[s] > Priority["unknown"]
    BY DEF Priority, State
  <1> QED BY <1>1, <1>2, <1>3

\* Not to be above is an order.
LEMMA AboveFacts ==
  ASSUME NEW x \in Samples, NEW y \in Samples, NEW z \in Samples
  PROVE  /\ ~Above(x, x)
         /\ Above(x, y) => ~Above(y, x)
         /\ ~Above(x, y) /\ ~Above(y, z) => ~Above(x, z)
  <1>1. /\ x.state \in State /\ y.state \in State /\ z.state \in State
        /\ x.stamp \in Nat /\ y.stamp \in Nat /\ z.stamp \in Nat
    BY DEF Samples
  <1>2. /\ Priority[x.state] \in Nat /\ Priority[y.state] \in Nat /\ Priority[z.state] \in Nat
        /\ Priority[x.state] = Priority[y.state] => x.state = y.state
        /\ Priority[y.state] = Priority[z.state] => y.state = z.state
        /\ Priority[x.state] = Priority[z.state] => x.state = z.state
    BY <1>1, PriorityFacts
  <1> QED BY <1>1, <1>2 DEF Above

\* What the loop keeps is one of the two, and neither is above it.
LEMMA HighestFacts ==
  ASSUME NEW x \in Samples, NEW y \in Samples
  PROVE  /\ Highest(x, y) \in {x, y}
         /\ ~Above(x, Highest(x, y)) /\ ~Above(y, Highest(x, y))
  BY AboveFacts DEF Highest

\* The history goes down.
LEMMA LowerFacts ==
  ASSUME NEW x \in Samples, NEW y \in Samples
  PROVE  /\ Lower(x, y) \in {x, y}
         /\ ~Above(Lower(x, y), x) /\ ~Above(Lower(x, y), y)
  BY AboveFacts DEF Lower

\* Nothing is above no machine that is in a state.
LEMMA NothingFacts ==
  /\ Nothing \in Samples
  /\ \A x \in Samples : x.state # "unknown" => Above(x, Nothing)
  <1>1. Nothing \in Samples /\ Nothing.state = "unknown"
    BY DEF Nothing, Sample, Samples, State
  <1>2. ASSUME NEW x \in Samples, x.state # "unknown" PROVE Above(x, Nothing)
    <2>1. x.state \in State \ {"unknown"}
      BY <1>2 DEF Samples
    <2> QED BY <1>1, <2>1, PriorityFacts DEF Above
  <1> QED BY <1>1, <1>2

-----------------------------------------------------------------------------
(* The loop over the children                                               *)

\* The sets of positions up to m, with what is collected of them.
Collects(s, m, g) ==
  \A d \in SUBSET (1 .. m) : g[d] = IF d = {} THEN Nothing ELSE Highest(g[d \ {Max(d)}], s[Max(d)])

\* The greatest of the positions up to m is m if it is one of them.
LEMMA MaxFacts ==
  ASSUME NEW m \in Nat, NEW d \in SUBSET (1 .. m), m \in d
  PROVE  Max(d) = m
  <1>1. \A y \in d : y \in Nat /\ m >= y
    OBVIOUS
  <1>2. PICK x \in d : x = Max(d) /\ \A y \in d : x >= y
    BY <1>1 DEF Max
  <1>3. x \in Nat /\ x >= m /\ m >= x
    BY <1>1, <1>2
  <1> QED BY <1>2, <1>3

\* The fold is a function on the sets of positions.
LEMMA CollectionExists ==
  ASSUME NEW s
  PROVE  \A m \in Nat : \E g : g = [d \in SUBSET (1 .. m) |-> g[d]] /\ Collects(s, m, g)
  <1> DEFINE Is(m, g) == g = [d \in SUBSET (1 .. m) |-> g[d]] /\ Collects(s, m, g)
             Bad == { m \in Nat : ~ \E g : Is(m, g) }
  <1> SUFFICES ASSUME Bad # {} PROVE FALSE
    OBVIOUS
  <1>1. PICK m \in Bad : \A k \in Bad : m <= k
    <2>1. Bad \subseteq Nat
      OBVIOUS
    <2> HIDE DEF Bad
    <2> QED BY <2>1, LeastOf
  <1>2. CASE m = 0
    <2> DEFINE g == [d \in SUBSET (1 .. m) |-> Nothing]
    <2>1. \A d \in SUBSET (1 .. m) : d = {}
      BY <1>2
    <2>2. Is(m, g)
      BY <2>1 DEF Collects
    <2> HIDE DEF g, Is
    <2> QED BY <2>2
  <1>3. CASE m # 0
    <2>1. m \in Nat /\ m - 1 \in Nat /\ ~ (m <= m - 1)
      BY <1>3
    <2>2. m - 1 \notin Bad
      <3> HIDE DEF Bad
      <3> QED BY <1>1, <2>1
    <2>3. PICK g : Is(m - 1, g)
      <3> HIDE DEF Is
      <3> QED BY <2>1, <2>2
    <2> DEFINE h == [d \in SUBSET (1 .. m) |-> IF m \in d THEN Highest(g[d \ {m}], s[m]) ELSE g[d]]
    <2>4. \A d \in SUBSET (1 .. m) : m \notin d => d \in SUBSET (1 .. m - 1)
      BY <2>1
    <2>5. ASSUME NEW d \in SUBSET (1 .. m)
          PROVE  h[d] = IF d = {} THEN Nothing ELSE Highest(h[d \ {Max(d)}], s[Max(d)])
      <3>1. CASE m \in d
        <4>1. Max(d) = m /\ d # {}
          BY <3>1, <2>1, MaxFacts
        <4>2. d \ {m} \in SUBSET (1 .. m) /\ m \notin d \ {m}
          OBVIOUS
        <4>3. h[d \ {m}] = g[d \ {m}] /\ h[d] = Highest(g[d \ {m}], s[m])
          BY <3>1, <4>2
        <4> HIDE DEF h
        <4> QED BY <4>1, <4>3
      <3>2. CASE m \notin d
        <4>1. h[d] = g[d] /\ d \in SUBSET (1 .. m - 1)
          BY <3>2, <2>4
        <4>2. g[d] = IF d = {} THEN Nothing ELSE Highest(g[d \ {Max(d)}], s[Max(d)])
          BY <2>3, <4>1 DEF Collects
        <4>3. d \ {Max(d)} \in SUBSET (1 .. m) /\ m \notin d \ {Max(d)}
          BY <3>2
        <4>4. h[d \ {Max(d)}] = g[d \ {Max(d)}]
          BY <4>3
        <4> HIDE DEF h
        <4> QED BY <4>1, <4>2, <4>4
      <3> QED BY <3>1, <3>2
    <2>6. Is(m, h)
      <3>1. h = [d \in SUBSET (1 .. m) |-> h[d]]
        OBVIOUS
      <3> HIDE DEF h
      <3> QED BY <2>5, <3>1 DEF Collects
    <2> HIDE DEF h, Is
    <2> QED BY <2>6
  <1> QED BY <1>2, <1>3

\* What the loop has collected after k children.
Loop(s, h) ==
  /\ h[0] = Nothing
  /\ \A k \in 1 .. Len(s) : h[k] = Highest(h[k - 1], s[k])

LEMMA FoldFacts ==
  ASSUME NEW S, NEW s \in Seq(S)
  PROVE  \E h : Loop(s, h) /\ FoldLeft(Highest, Nothing, s) = h[Len(s)]
  <1> DEFINE n == Len(s)
             Step(g) == [d \in SUBSET (DOMAIN s) |->
                           IF d = {} THEN Nothing ELSE Highest(g[d \ {Max(d)}], s[Max(d)])]
             f == CHOOSE g : g = Step(g)
  <1>1. n \in Nat /\ DOMAIN s = 1 .. n
    OBVIOUS
  <1>2. FoldLeft(Highest, Nothing, s) = f[1 .. n]
    BY <1>1 DEF FoldLeft, MapThenFoldSet
  <1>3. PICK g : g = [d \in SUBSET (1 .. n) |-> g[d]] /\ Collects(s, n, g)
    <2> HIDE DEF n
    <2> QED BY <1>1, CollectionExists
  <1>4. g = Step(g)
    <2> HIDE DEF n
    <2> QED BY <1>1, <1>3 DEF Collects
  <1>5. f = Step(f)
    BY <1>4
  <1>6. \A d \in SUBSET (1 .. n) : f[d] = IF d = {} THEN Nothing ELSE Highest(f[d \ {Max(d)}], s[Max(d)])
    <2> HIDE DEF f, n
    <2> QED BY <1>1, <1>5
  <1> DEFINE h == [k \in 0 .. n |-> f[1 .. k]]
  <1> HIDE DEF f, n
  <1>7. h[0] = Nothing
    <2>1. h[0] = f[{}]
      BY <1>1
    <2> QED BY <1>6, <2>1
  <1>8. ASSUME NEW k \in 1 .. n PROVE h[k] = Highest(h[k - 1], s[k])
    <2>1. k \in Nat /\ k - 1 \in 0 .. n /\ 1 .. k \in SUBSET (1 .. n) /\ k \in 1 .. k /\ k \in 0 .. n
      BY <1>1
    <2>2. Max(1 .. k) = k
      BY <2>1, MaxFacts
    <2>3. (1 .. k) \ {k} = 1 .. k - 1
      BY <2>1
    <2>4. f[1 .. k] = Highest(f[1 .. k - 1], s[k])
      BY <1>6, <2>1, <2>2, <2>3
    <2> QED BY <2>1, <2>4
  <1>9. h[n] = f[1 .. n]
    BY <1>1
  <1>10. Loop(s, h) /\ FoldLeft(Highest, Nothing, s) = h[Len(s)]
    <2> HIDE DEF h
    <2> QED BY <1>2, <1>7, <1>8, <1>9 DEF Loop, n
  <1> HIDE DEF h
  <1> QED BY <1>10

\* What the loop over samples returns: one of them or what it started from, and none of
\* them is above it.
LEMMA FoldIsHighest ==
  ASSUME NEW s \in Seq(Samples)
  PROVE  LET top == FoldLeft(Highest, Nothing, s) IN
         /\ top \in Samples
         /\ top = Nothing \/ \E i \in 1 .. Len(s) : top = s[i]
         /\ \A i \in 1 .. Len(s) : ~Above(s[i], top)
  <1> DEFINE n == Len(s)
  <1>1. n \in Nat /\ \A i \in 1 .. n : s[i] \in Samples
    OBVIOUS
  <1>2. PICK h : Loop(s, h) /\ FoldLeft(Highest, Nothing, s) = h[n]
    BY FoldFacts
  <1>3. h[0] = Nothing /\ \A k \in 1 .. n : h[k] = Highest(h[k - 1], s[k])
    BY <1>2 DEF Loop
  <1> HIDE DEF n
  <1> DEFINE Good(k) == /\ h[k] \in Samples
                        /\ h[k] = Nothing \/ \E i \in 1 .. n : h[k] = s[i]
                        /\ \A i \in 1 .. k : ~Above(s[i], h[k])
             Bad == { k \in 0 .. n : ~Good(k) }
  <1>4. Bad = {}
    <2> SUFFICES ASSUME Bad # {} PROVE FALSE
      OBVIOUS
    <2>1. PICK k \in Bad : \A j \in Bad : k <= j
      <3>1. Bad \subseteq Nat
        BY <1>1
      <3> HIDE DEF Bad
      <3> QED BY <3>1, LeastOf
    <2>2. CASE k = 0
      <3>1. h[k] = Nothing /\ 1 .. k = {}
        BY <1>3, <2>2
      <3>2. Good(k)
        BY <3>1, NothingFacts
      <3> QED BY <2>1, <3>2
    <2>3. CASE k # 0
      <3>1. k \in 1 .. n /\ k - 1 \in 0 .. n /\ ~ (k <= k - 1) /\ k \in Nat
        BY <1>1, <2>1, <2>3
      <3>2. Good(k - 1)
        <4>1. k - 1 \notin Bad
          <5> HIDE DEF Bad
          <5> QED BY <2>1, <3>1
        <4> HIDE DEF Good
        <4> QED BY <3>1, <4>1
      <3>3. h[k] = Highest(h[k - 1], s[k]) /\ h[k - 1] \in Samples /\ s[k] \in Samples
        BY <1>1, <1>3, <3>1, <3>2
      <3>4. /\ h[k] \in {h[k - 1], s[k]} /\ h[k] \in Samples
            /\ ~Above(h[k - 1], h[k]) /\ ~Above(s[k], h[k])
        BY <3>3, HighestFacts
      <3>5. h[k] = Nothing \/ \E i \in 1 .. n : h[k] = s[i]
        BY <3>1, <3>2, <3>4
      <3>6. ASSUME NEW i \in 1 .. k PROVE ~Above(s[i], h[k])
        <4>1. CASE i = k
          BY <3>4, <4>1
        <4>2. CASE i # k
          <5>1. i \in 1 .. k - 1 /\ i \in 1 .. n
            <6>1. i \in Nat /\ k \in Nat /\ n \in Nat /\ 1 <= i /\ i <= k /\ k <= n
              BY <1>1, <3>1
            <6> QED BY <4>2, <6>1
          <5>2. ~Above(s[i], h[k - 1]) /\ s[i] \in Samples
            BY <1>1, <3>2, <5>1
          <5> QED BY <3>3, <3>4, <5>2, AboveFacts
        <4> QED BY <4>1, <4>2
      <3>7. Good(k)
        BY <3>4, <3>5, <3>6
      <3> HIDE DEF Good
      <3> QED BY <2>1, <3>7
    <2> QED BY <2>2, <2>3
  <1>5. Good(n)
    <2>1. n \in 0 .. n
      BY <1>1
    <2> HIDE DEF Good
    <2> QED BY <1>4, <2>1
  <1> QED BY <1>2, <1>5 DEF n

-----------------------------------------------------------------------------
(* Recursion over the tree                                                  *)

\* Of any nodes one has no child among them.
LEMMA BottomMost ==
  ASSUME NEW S \in SUBSET Nodes, S # {}
  PROVE  \E n \in S : \A i \in DOMAIN Children[n] : Children[n][i] \notin S
  <1>1. PICK n \in S : ToSet(Children[n]) \cap S = {}
    BY TreeAssumption
  <1>2. \A i \in DOMAIN Children[n] : Children[n][i] \in ToSet(Children[n])
    BY DEF ToSet
  <1> QED BY <1>1, <1>2

\* Lists of children.
LEMMA ChildFacts ==
  ASSUME NEW n \in Nodes
  PROVE  /\ Len(Children[n]) \in Nat /\ DOMAIN Children[n] = 1 .. Len(Children[n])
         /\ \A i \in DOMAIN Children[n] : Children[n][i] \in Nodes
  BY TreeAssumption

\* What the children of n have been given by g.
Given(g, n) == [i \in DOMAIN Children[n] |-> g[Children[n][i]]]

\* The nodes of A and those below them have been given what F says.
Solves(A, F, g) ==
  /\ A \subseteq Nodes
  /\ \A n \in A : /\ \A i \in DOMAIN Children[n] : Children[n][i] \in A
                  /\ g[n] = F[<<n, Given(g, n)>>]

\* Two of these agree.
LEMMA SolutionsAgree ==
  ASSUME NEW F, NEW A, NEW f, Solves(A, F, f), NEW B, NEW g, Solves(B, F, g), NEW n \in A \cap B
  PROVE  f[n] = g[n]
  <1> DEFINE S == { x \in A \cap B : f[x] # g[x] }
  <1> SUFFICES ASSUME S # {} PROVE FALSE
    OBVIOUS
  <1>1. S \in SUBSET Nodes
    BY DEF Solves
  <1>2. PICK x \in S : \A i \in DOMAIN Children[x] : Children[x][i] \notin S
    BY <1>1, BottomMost
  <1>3. \A i \in DOMAIN Children[x] : Children[x][i] \in A \cap B
    BY <1>2 DEF Solves
  <1>4. \A i \in DOMAIN Children[x] : f[Children[x][i]] = g[Children[x][i]]
    BY <1>2, <1>3
  <1>5. Given(f, x) = Given(g, x)
    BY <1>4 DEF Given
  <1>6. f[x] = F[<<x, Given(f, x)>>] /\ g[x] = F[<<x, Given(g, x)>>]
    BY <1>2 DEF Solves
  <1> QED BY <1>2, <1>5, <1>6

\* A recursive function over the tree has values, whatever F computes from those of
\* the children.
LEMMA TreeRecursion ==
  ASSUME NEW F
  PROVE  \E g : \A n \in Nodes : g[n] = F[<<n, Given(g, n)>>]
  <1> DEFINE Solved(n) == \E A, f : n \in A /\ Solves(A, F, f)
             Is(n, v) == \E A, f : n \in A /\ Solves(A, F, f) /\ v = f[n]
             B == { n \in Nodes : Solved(n) }
             h == [n \in B |-> CHOOSE v : Is(n, v)]
  <1>1. ASSUME NEW A, NEW f, Solves(A, F, f), NEW n \in A
        PROVE  n \in B /\ h[n] = f[n]
    <2>1. n \in B /\ Is(n, f[n])
      BY <1>1 DEF Solves
    <2>2. h[n] = CHOOSE v : Is(n, v)
      BY <2>1
    <2>3. Is(n, h[n])
      <3> HIDE DEF Is, h
      <3> QED BY <2>1, <2>2
    <2>4. PICK C, g : n \in C /\ Solves(C, F, g) /\ h[n] = g[n]
      <3> HIDE DEF h
      <3> QED BY <2>3
    <2>5. f[n] = g[n]
      <3>1. n \in A \cap C
        BY <1>1, <2>4
      <3> QED BY <1>1, <2>4, <3>1, SolutionsAgree
    <2> QED BY <2>1, <2>4, <2>5
  <1>2. Solves(B, F, h)
    <2> SUFFICES ASSUME NEW n \in B
                 PROVE  /\ \A i \in DOMAIN Children[n] : Children[n][i] \in B
                        /\ h[n] = F[<<n, Given(h, n)>>]
      BY DEF Solves
    <2>1. PICK A, f : n \in A /\ Solves(A, F, f)
      OBVIOUS
    <2>2. \A i \in DOMAIN Children[n] : Children[n][i] \in A
      BY <2>1 DEF Solves
    <2> HIDE DEF B, h
    <2>3. \A i \in DOMAIN Children[n] : Children[n][i] \in B /\ h[Children[n][i]] = f[Children[n][i]]
      BY <1>1, <2>1, <2>2
    <2>4. Given(h, n) = Given(f, n)
      BY <2>3 DEF Given
    <2>5. h[n] = f[n] /\ f[n] = F[<<n, Given(f, n)>>]
      BY <1>1, <2>1 DEF Solves
    <2> QED BY <2>3, <2>4, <2>5
  <1>3. B = Nodes
    <2> SUFFICES ASSUME Nodes \ B # {} PROVE FALSE
      OBVIOUS
    <2>1. PICK n \in Nodes \ B : \A i \in DOMAIN Children[n] : Children[n][i] \notin Nodes \ B
      <3>1. Nodes \ B \in SUBSET Nodes
        OBVIOUS
      <3> HIDE DEF B
      <3> QED BY <3>1, BottomMost
    <2>2. \A i \in DOMAIN Children[n] : Children[n][i] \in B
      BY <2>1, ChildFacts
    <2> DEFINE C == B \cup {n}
               g == [x \in C |-> IF x = n THEN F[<<n, Given(h, n)>>] ELSE h[x]]
    <2>3. \A x \in B : x # n /\ g[x] = h[x]
      BY <2>1
    <2>4. Given(g, n) = Given(h, n) /\ \A x \in B : Given(g, x) = Given(h, x)
      <3>1. \A x \in B : \A i \in DOMAIN Children[x] : Children[x][i] \in B
        BY <1>2 DEF Solves
      <3> HIDE DEF g, h, B
      <3> QED BY <2>2, <2>3, <3>1 DEF Given
    <2>5. g[n] = F[<<n, Given(h, n)>>]
      OBVIOUS
    <2>6. Solves(C, F, g)
      <3>1. C \subseteq Nodes
        BY <2>1
      <3>2. ASSUME NEW x \in C
            PROVE  /\ \A i \in DOMAIN Children[x] : Children[x][i] \in C
                   /\ g[x] = F[<<x, Given(g, x)>>]
        <4>1. CASE x = n
          <5> HIDE DEF g, h, B
          <5> QED BY <2>2, <2>4, <2>5, <4>1
        <4>2. CASE x # n
          <5>1. x \in B
            BY <4>2
          <5> HIDE DEF g, h, B
          <5> QED BY <1>2, <2>3, <2>4, <5>1 DEF Solves
        <4> QED BY <4>1, <4>2
      <3> HIDE DEF g
      <3> QED BY <3>1, <3>2 DEF Solves
    <2>7. n \in B
      <3>1. n \in C
        OBVIOUS
      <3> HIDE DEF h, g, B
      <3> QED BY <1>1, <2>6, <3>1
    <2> QED BY <2>1, <2>7
  <1> HIDE DEF h, B
  <1> QED BY <1>2, <1>3 DEF Solves

\* F computes a value of V from values of V, and g has them.
Computes(F, V) == F \in [Nodes \X Seq(V) -> V]

HasValues(F, V, g) ==
  /\ g \in [Nodes -> V]
  /\ \A n \in Nodes : Given(g, n) \in Seq(V) /\ g[n] = F[<<n, Given(g, n)>>]

\* ... and they are of the kind that F computes.
LEMMA TypedRecursion ==
  ASSUME NEW V, NEW F, Computes(F, V)
  PROVE  \E g : HasValues(F, V, g)
  <1>1. PICK f : \A n \in Nodes : f[n] = F[<<n, Given(f, n)>>]
    BY TreeRecursion
  <1> DEFINE g == [n \in Nodes |-> f[n]]
  <1>2. ASSUME NEW n \in Nodes PROVE Given(g, n) = Given(f, n)
    <2>1. \A i \in DOMAIN Children[n] : Children[n][i] \in Nodes
      BY ChildFacts
    <2> QED BY <2>1 DEF Given
  <1>3. \A n \in Nodes : g[n] = F[<<n, Given(g, n)>>]
    BY <1>1, <1>2
  <1>4. ASSUME NEW n \in Nodes, \A i \in DOMAIN Children[n] : g[Children[n][i]] \in V
        PROVE  Given(g, n) \in Seq(V)
    <2> HIDE DEF g
    <2>1. Len(Children[n]) \in Nat /\ DOMAIN Children[n] = 1 .. Len(Children[n])
      BY ChildFacts
    <2> QED BY <1>4, <2>1 DEF Given
  <1> DEFINE S == { n \in Nodes : g[n] \notin V }
  <1>5. S = {}
    <2> SUFFICES ASSUME S # {} PROVE FALSE
      OBVIOUS
    <2>1. PICK n \in S : \A i \in DOMAIN Children[n] : Children[n][i] \notin S
      <3>1. S \in SUBSET Nodes
        OBVIOUS
      <3> HIDE DEF S
      <3> QED BY <3>1, BottomMost
    <2>2. \A i \in DOMAIN Children[n] : g[Children[n][i]] \in V
      <3> HIDE DEF g
      <3> QED BY <2>1, ChildFacts
    <2> HIDE DEF g
    <2>3. Given(g, n) \in Seq(V) /\ g[n] = F[<<n, Given(g, n)>>]
      BY <1>3, <1>4, <2>2
    <2> QED BY <2>3 DEF Computes
  <1>6. \A n \in Nodes : g[n] \in V
    <2> HIDE DEF g
    <2> QED BY <1>5
  <1>7. g \in [Nodes -> V]
    BY <1>6
  <1> HIDE DEF g
  <1>8. \A n \in Nodes : Given(g, n) \in Seq(V)
    BY <1>4, <1>6, ChildFacts
  <1> QED BY <1>3, <1>7, <1>8 DEF HasValues

\* getGlobalState of a node, from those of its children.
FromChildren(held, n, given) ==
  LET below == FoldLeft(Highest, Nothing, given)
  IN IF n \in Owners THEN Highest(held[n], below) ELSE below

LEMMA GlobalFacts ==
  ASSUME NEW held \in [Owners -> Samples]
  PROVE  /\ GlobalOf(held) \in [Nodes -> Samples]
         /\ \A n \in Nodes : /\ Given(GlobalOf(held), n) \in Seq(Samples)
                            /\ GlobalOf(held)[n] = FromChildren(held, n, Given(GlobalOf(held), n))
  <1> DEFINE F == [p \in Nodes \X Seq(Samples) |-> FromChildren(held, p[1], p[2])]
             Step(g) == [n \in Nodes |-> FromChildren(held, n, Given(g, n))]
  <1>1. Computes(F, Samples)
    <2>1. ASSUME NEW n \in Nodes, NEW s \in Seq(Samples) PROVE FromChildren(held, n, s) \in Samples
      <3>1. PICK top : top = FoldLeft(Highest, Nothing, s) /\ top \in Samples
        BY FoldIsHighest
      <3>2. n \in Owners => held[n] \in Samples /\ Highest(held[n], top) \in {held[n], top}
        BY <3>1, HighestFacts
      <3> QED BY <3>1, <3>2 DEF FromChildren
    <2> QED BY <2>1 DEF Computes
  <1>2. PICK g : HasValues(F, Samples, g)
    <2> HIDE DEF F
    <2> QED BY <1>1, TypedRecursion
  <1>3. g = Step(g)
    BY <1>2 DEF HasValues
  <1> DEFINE f == CHOOSE x : x = Step(x)
  <1>4. GlobalOf(held) = f
    BY DEF GlobalOf, FromChildren, Given
  <1>5. f = Step(f)
    BY <1>3
  <1> HIDE DEF f
  <1>6. \A n \in Nodes : f[n] = FromChildren(held, n, Given(f, n))
    BY <1>5
  <1> DEFINE S == { n \in Nodes : f[n] # g[n] }
  <1>7. S = {}
    <2> SUFFICES ASSUME S # {} PROVE FALSE
      OBVIOUS
    <2>1. PICK n \in S : \A i \in DOMAIN Children[n] : Children[n][i] \notin S
      <3>1. S \in SUBSET Nodes
        OBVIOUS
      <3> HIDE DEF S
      <3> QED BY <3>1, BottomMost
    <2>2. \A i \in DOMAIN Children[n] : f[Children[n][i]] = g[Children[n][i]]
      BY <2>1, ChildFacts
    <2>3. Given(f, n) = Given(g, n)
      BY <2>2 DEF Given
    <2>4. g[n] = FromChildren(held, n, Given(g, n))
      BY <1>3
    <2> QED BY <1>6, <2>1, <2>3, <2>4
  <1>8. f = g
    BY <1>2, <1>5, <1>7 DEF HasValues
  <1> QED BY <1>2, <1>4, <1>6, <1>8 DEF HasValues

\* The concatenation of lists has what the lists have.
LEMMA FlattenFacts ==
  ASSUME NEW S, NEW n \in Nat \ {0}, NEW lists \in [1 .. n -> Seq(S)]
  PROVE  /\ FlattenSeq(lists) \in Seq(S)
         /\ \A k \in 1 .. n : Range(lists[k]) \subseteq Range(FlattenSeq(lists))
  <1> DEFINE Step(g, i) == IF i = 1 THEN lists[1] ELSE g[i - 1] \o lists[i]
             Good(m) == {g \in [1 .. m -> Seq(S)] : \A i \in 1 .. m : g[i] = Step(g, i)}
             Bad == {m \in Nat : m \in 1 .. n /\ Good(m) = {}}
  <1>1. Bad = {}
    <2> SUFFICES ASSUME Bad # {} PROVE FALSE
      OBVIOUS
    <2>1. PICK m \in Bad : \A k \in Bad : m <= k
      <3>1. Bad \subseteq Nat
        OBVIOUS
      <3> HIDE DEF Bad
      <3> QED BY <3>1, LeastOf
    <2>2. CASE m = 1
      <3>1. [i \in 1 .. 1 |-> lists[1]] \in Good(1)
        OBVIOUS
      <3> QED BY <2>1, <2>2, <3>1
    <2>3. CASE m # 1
      <3>0. m \in 1 .. n /\ m \in Nat
        BY <2>1
      <3>m. m - 1 \in Nat /\ m - 1 \in 1 .. n /\ ~ (m <= m - 1)
        BY <2>3, <3>0
      <3>1. m - 1 \in 1 .. n /\ m - 1 \notin Bad /\ m \in 1 .. n
        <4> HIDE DEF Bad
        <4> QED BY <2>1, <3>0, <3>m
      <3>g. Good(m - 1) # {}
        <4> HIDE DEF Good
        <4> QED BY <3>m, <3>1
      <3>2. PICK g \in Good(m - 1) : TRUE
        <4> HIDE DEF Good
        <4> QED BY <3>g
      <3> DEFINE h == [i \in 1 .. m |-> IF i = m THEN g[m - 1] \o lists[m] ELSE g[i]]
      <3>3. g \in [1 .. m - 1 -> Seq(S)] /\ \A i \in 1 .. m - 1 : g[i] = Step(g, i)
        BY <3>2
      <3>4. g[m - 1] \in Seq(S) /\ lists[m] \in Seq(S)
        BY <3>1, <3>3, <2>3
      <3>5. g[m - 1] \o lists[m] \in Seq(S)
        BY <3>4, ConcatProperties
      <3>6. h \in [1 .. m -> Seq(S)]
        BY <3>3, <3>5, <3>1
      <3>7. \A i \in 1 .. m : h[i] = Step(h, i)
        <4> TAKE i \in 1 .. m
        <4>1. CASE i = m
          <5>1. i - 1 \in 1 .. m /\ i - 1 # m /\ i # 1 /\ i - 1 = m - 1
            BY <4>1, <3>0, <3>m, <2>3
          <5>2. h[i] = g[m - 1] \o lists[m] /\ h[i - 1] = g[m - 1]
            BY <5>1, <4>1
          <5> QED BY <5>1, <5>2, <4>1
        <4>2. CASE i # m
          <5>0. i \in 1 .. m - 1
            BY <4>2, <3>0
          <5>1. h[i] = g[i] /\ g[i] = Step(g, i) /\ i \in 1 .. m - 1
            BY <4>2, <3>3, <5>0
          <5>2. CASE i = 1
            BY <5>1, <5>2
          <5>3. CASE i # 1
            <6>1. i - 1 \in 1 .. m /\ i - 1 # m
              BY <5>1, <5>3, <3>0
            <6>2. h[i - 1] = g[i - 1]
              BY <6>1
            <6> QED BY <5>1, <5>3, <6>2
          <5> QED BY <5>2, <5>3
        <4> QED BY <4>1, <4>2
      <3>8. h \in Good(m)
        BY <3>6, <3>7
      <3> QED BY <2>1, <3>8
    <2> QED BY <2>2, <2>3
  <1>g. Good(n) # {}
    <2>1. n \notin Bad
      <3> HIDE DEF Bad
      <3> QED BY <1>1
    <2>2. n \in Nat /\ n \in 1 .. n
      OBVIOUS
    <2> HIDE DEF Good
    <2> QED BY <2>1, <2>2
  <1>2. PICK g \in Good(n) : TRUE
    <2> HIDE DEF Good
    <2> QED BY <1>g
  <1>3. DOMAIN lists = 1 .. n /\ Len(lists) = n
    OBVIOUS
  <1> DEFINE flatten == CHOOSE f : f = [i \in 1 .. Len(lists) |->
                IF i = 1 THEN lists[i] ELSE f[i - 1] \o lists[i]]
  <1>4. g = [i \in 1 .. Len(lists) |-> IF i = 1 THEN lists[i] ELSE g[i - 1] \o lists[i]]
    BY <1>2, <1>3
  <1>5. flatten = [i \in 1 .. Len(lists) |-> IF i = 1 THEN lists[i] ELSE flatten[i - 1] \o lists[i]]
    BY <1>4
  <1>6. FlattenSeq(lists) = flatten[n]
    BY <1>3 DEF FlattenSeq
  <1> HIDE DEF flatten
  <1>7. \A i \in 1 .. n : flatten[i] = IF i = 1 THEN lists[i] ELSE flatten[i - 1] \o lists[i]
    BY <1>3, <1>5
  <1> DEFINE Fine(i) == /\ flatten[i] \in Seq(S)
                        /\ \A k \in 1 .. i : Range(lists[k]) \subseteq Range(flatten[i])
             Off == {i \in 1 .. n : ~ Fine(i)}
  <1>8. Off = {}
    <2> SUFFICES ASSUME Off # {} PROVE FALSE
      OBVIOUS
    <2>1. PICK i \in Off : \A k \in Off : i <= k
      <3>1. Off \subseteq Nat
        OBVIOUS
      <3> HIDE DEF Off
      <3> QED BY <3>1, LeastOf
    <2>2. i \in 1 .. n /\ i \in Nat /\ ~ Fine(i)
      BY <2>1
    <2>3. lists[i] \in Seq(S)
      BY <2>2
    <2>4. CASE i = 1
      BY <2>2, <2>3, <2>4, <1>7
    <2>5. CASE i # 1
      <3>1. i - 1 \in 1 .. n /\ ~ (i <= i - 1)
        BY <2>2, <2>5
      <3>2. Fine(i - 1)
        <4>1. i - 1 \notin Off
          <5> HIDE DEF Off
          <5> QED BY <2>1, <3>1
        <4> QED BY <4>1, <3>1
      <3>3. flatten[i] = flatten[i - 1] \o lists[i] /\ flatten[i - 1] \in Seq(S)
        BY <1>7, <2>2, <2>5, <3>2
      <3>4. flatten[i] \in Seq(S)
        BY <2>3, <3>3, ConcatProperties
      <3>5. Range(flatten[i]) = Range(flatten[i - 1]) \cup Range(lists[i])
        BY <2>3, <3>3, RangeConcatenation
      <3>6. ASSUME NEW k \in 1 .. i PROVE Range(lists[k]) \subseteq Range(flatten[i])
        <4>1. CASE k = i
          BY <4>1, <3>5
        <4>2. CASE k # i
          <5>1. k \in 1 .. i - 1
            BY <4>2, <2>2
          <5> QED BY <5>1, <3>2, <3>5
        <4> QED BY <4>1, <4>2
      <3> QED BY <2>2, <3>4, <3>6
    <2> QED BY <2>4, <2>5
  <1>9. Fine(n)
    <2>1. n \notin Off
      <3> HIDE DEF Off
      <3> QED BY <1>8
    <2>2. n \in 1 .. n
      OBVIOUS
    <2> HIDE DEF Fine
    <2> QED BY <2>1, <2>2
  <1> QED BY <1>6, <1>9

\* Below[n]: n's own machine and those below its children.
LEMMA BelowFacts ==
  \A n \in Nodes :
    /\ Below[n] \subseteq Owners
    /\ Below[n] = (IF n \in Owners THEN {n} ELSE {})
                    \cup UNION { Below[Children[n][i]] : i \in DOMAIN Children[n] }
  <1> DEFINE Own(n) == IF n \in Owners THEN {n} ELSE {}
             F == [p \in Nodes \X Seq(SUBSET Owners) |-> Own(p[1]) \cup UNION { p[2][i] : i \in DOMAIN p[2] }]
             Step(g) == [n \in Nodes |-> Own(n) \cup UNION { g[Children[n][i]] : i \in DOMAIN Children[n] }]
  <1>1. Computes(F, SUBSET Owners)
    <2>1. ASSUME NEW n \in Nodes, NEW s \in Seq(SUBSET Owners)
          PROVE  Own(n) \cup UNION { s[i] : i \in DOMAIN s } \in SUBSET Owners
      <3>1. \A i \in DOMAIN s : s[i] \subseteq Owners
        OBVIOUS
      <3> QED BY <3>1
    <2> HIDE DEF Own
    <2> QED BY <2>1 DEF Computes
  <1>2. PICK g : HasValues(F, SUBSET Owners, g)
    <2> HIDE DEF F
    <2> QED BY <1>1, TypedRecursion
  <1>3. ASSUME NEW n \in Nodes
        PROVE  { Given(g, n)[i] : i \in DOMAIN Given(g, n) } = { g[Children[n][i]] : i \in DOMAIN Children[n] }
    BY DEF Given
  <1> HIDE DEF Own
  <1>4. g = Step(g)
    <2>1. ASSUME NEW n \in Nodes PROVE g[n] = Own(n) \cup UNION { g[Children[n][i]] : i \in DOMAIN Children[n] }
      <3>1. <<n, Given(g, n)>> \in Nodes \X Seq(SUBSET Owners) /\ g[n] = F[<<n, Given(g, n)>>]
        BY <1>2 DEF HasValues
      <3>2. F[<<n, Given(g, n)>>] = Own(n) \cup UNION { Given(g, n)[i] : i \in DOMAIN Given(g, n) }
        BY <3>1
      <3> HIDE DEF F
      <3> QED BY <1>3, <3>1, <3>2
    <2> QED BY <1>2, <2>1 DEF HasValues
  <1>5. Below = CHOOSE x : x = Step(x)
    BY DEF Below, Own
  <1>6. Below = Step(Below)
    <2> HIDE DEF Step
    <2> QED BY <1>4, <1>5
  <1>7. \A n \in Nodes : Below[n] = Own(n) \cup UNION { Below[Children[n][i]] : i \in DOMAIN Children[n] }
    BY <1>6
  <1> DEFINE S == { n \in Nodes : ~ (Below[n] \subseteq Owners) }
  <1>8. S = {}
    <2> SUFFICES ASSUME S # {} PROVE FALSE
      OBVIOUS
    <2>1. PICK n \in S : \A i \in DOMAIN Children[n] : Children[n][i] \notin S
      <3>1. S \in SUBSET Nodes
        OBVIOUS
      <3> HIDE DEF S
      <3> QED BY <3>1, BottomMost
    <2>2. \A i \in DOMAIN Children[n] : Below[Children[n][i]] \subseteq Owners
      BY <2>1, ChildFacts
    <2>3. Below[n] \subseteq Owners
      BY <1>7, <2>2 DEF Own
    <2> QED BY <2>1, <2>3
  <1> QED BY <1>7, <1>8 DEF Own

\* ... and is empty of none.
LEMMA FlattenNone ==
  ASSUME NEW s, Len(s) = 0
  PROVE  FlattenSeq(s) = s
  <1>1. FlattenSeq(s) = IF Len(s) = 0 THEN s ELSE FlattenSeq(s)
    BY DEF FlattenSeq
  <1> QED BY <1>1

\* The machines at which a read of n takes the mutex: n's own, or those of its children.
LEMMA EntriesFacts ==
  \A n \in Nodes :
    /\ Entries[n] \in Seq(Nodes)
    /\ n \in Owners => Entries[n] = <<n>>
    /\ \A i \in DOMAIN Children[n] :
         n \notin Owners => Range(Entries[Children[n][i]]) \subseteq Range(Entries[n])
  <1> DEFINE Enters(n, s) == IF n \in Owners THEN <<n>> ELSE FlattenSeq(s)
             F == [p \in Nodes \X Seq(Seq(Nodes)) |-> Enters(p[1], p[2])]
             Step(g) == [n \in Nodes |-> Enters(n, Given(g, n))]
  <1>0. ASSUME NEW s \in Seq(Seq(Nodes))
        PROVE  /\ FlattenSeq(s) \in Seq(Nodes)
               /\ \A k \in DOMAIN s : Range(s[k]) \subseteq Range(FlattenSeq(s))
    <2>1. CASE Len(s) = 0
      <3>1. s = <<>> /\ DOMAIN s = {}
        BY <2>1
      <3>2. FlattenSeq(s) = s
        BY <2>1, FlattenNone
      <3>3. <<>> \in Seq(Nodes)
        OBVIOUS
      <3>4. FlattenSeq(s) \in Seq(Nodes)
        BY <3>1, <3>2, <3>3
      <3> QED BY <3>1, <3>4
    <2>2. CASE Len(s) # 0
      <3>1. Len(s) \in Nat \ {0} /\ s \in [1 .. Len(s) -> Seq(Nodes)] /\ DOMAIN s = 1 .. Len(s)
        BY <2>2
      <3> QED BY <3>1, FlattenFacts
    <2> QED BY <2>1, <2>2
  <1>1. Computes(F, Seq(Nodes))
    <2>1. ASSUME NEW n \in Nodes, NEW s \in Seq(Seq(Nodes)) PROVE Enters(n, s) \in Seq(Nodes)
      BY <1>0
    <2> HIDE DEF Enters
    <2> QED BY <2>1 DEF Computes
  <1>2. PICK g : HasValues(F, Seq(Nodes), g)
    <2> HIDE DEF F
    <2> QED BY <1>1, TypedRecursion
  <1>3. g = Step(g)
    <2> HIDE DEF Enters
    <2> QED BY <1>2 DEF HasValues
  <1>4. Entries = CHOOSE x : x = Step(x)
    BY DEF Entries, Given
  <1>5. Entries = Step(Entries)
    <2> HIDE DEF Step
    <2> QED BY <1>3, <1>4
  <1>6. \A n \in Nodes : Entries[n] = Enters(n, Given(Entries, n))
    <2> HIDE DEF Enters
    <2> QED BY <1>5
  <1> HIDE DEF Step
  <1> DEFINE S == { n \in Nodes : Entries[n] \notin Seq(Nodes) }
  <1>7. ASSUME NEW n \in Nodes, \A i \in DOMAIN Children[n] : Entries[Children[n][i]] \in Seq(Nodes)
        PROVE  Given(Entries, n) \in Seq(Seq(Nodes))
    <2>1. Len(Children[n]) \in Nat /\ DOMAIN Children[n] = 1 .. Len(Children[n])
      BY ChildFacts
    <2> QED BY <1>7, <2>1 DEF Given
  <1>8. S = {}
    <2> SUFFICES ASSUME S # {} PROVE FALSE
      OBVIOUS
    <2>1. PICK n \in S : \A i \in DOMAIN Children[n] : Children[n][i] \notin S
      <3>1. S \in SUBSET Nodes
        OBVIOUS
      <3> HIDE DEF S
      <3> QED BY <3>1, BottomMost
    <2>2. Given(Entries, n) \in Seq(Seq(Nodes))
      BY <1>7, <2>1, ChildFacts
    <2>3. Enters(n, Given(Entries, n)) \in Seq(Nodes)
      BY <1>0, <2>1, <2>2
    <2> QED BY <1>6, <2>1, <2>3
  <1>9. ASSUME NEW n \in Nodes PROVE Entries[n] \in Seq(Nodes)
    BY <1>8
  <1>10. ASSUME NEW n \in Nodes, n \notin Owners, NEW i \in DOMAIN Children[n]
         PROVE  Range(Entries[Children[n][i]]) \subseteq Range(Entries[n])
    <2>1. Given(Entries, n) \in Seq(Seq(Nodes))
      BY <1>7, <1>9, ChildFacts
    <2>2. i \in DOMAIN Given(Entries, n) /\ Given(Entries, n)[i] = Entries[Children[n][i]]
      BY DEF Given
    <2>3. Entries[n] = FlattenSeq(Given(Entries, n))
      BY <1>6, <1>10
    <2> QED BY <1>0, <2>1, <2>2, <2>3
  <1> QED BY <1>6, <1>9, <1>10

\* A read asks for every machine below the node it starts at.
LEMMA EntriesCover ==
  \A n \in Nodes : \A m \in Below[n] : \E j \in DOMAIN Entries[n] : m \in Below[Entries[n][j]]
  <1> DEFINE Covered(n) == \A m \in Below[n] : \E e \in Range(Entries[n]) : m \in Below[e]
             S == { n \in Nodes : ~Covered(n) }
  <1>1. S = {}
    <2> SUFFICES ASSUME S # {} PROVE FALSE
      OBVIOUS
    <2>1. PICK n \in S : \A i \in DOMAIN Children[n] : Children[n][i] \notin S
      <3>1. S \in SUBSET Nodes
        OBVIOUS
      <3> HIDE DEF S
      <3> QED BY <3>1, BottomMost
    <2>2. n \in Nodes /\ \A i \in DOMAIN Children[n] : Children[n][i] \in Nodes /\ Covered(Children[n][i])
      BY <2>1, ChildFacts
    <2>3. CASE n \in Owners
      <3>1. Entries[n] = <<n>> /\ n \in Range(<<n>>)
        BY <2>2, <2>3, EntriesFacts DEF Range
      <3> QED BY <2>1, <3>1
    <2>4. CASE n \notin Owners
      <3>1. ASSUME NEW m \in Below[n] PROVE \E e \in Range(Entries[n]) : m \in Below[e]
        <4>1. PICK i \in DOMAIN Children[n] : m \in Below[Children[n][i]]
          BY <2>2, <2>4, BelowFacts
        <4>2. PICK e \in Range(Entries[Children[n][i]]) : m \in Below[e]
          BY <2>2, <4>1
        <4>3. Range(Entries[Children[n][i]]) \subseteq Range(Entries[n])
          BY <2>2, <2>4, EntriesFacts
        <4> QED BY <4>2, <4>3
      <3> QED BY <2>1, <3>1
    <2> QED BY <2>3, <2>4
  <1> QED BY <1>1 DEF Range

-----------------------------------------------------------------------------
(* What the loops compute                                                   *)

\* The states of machines that have been initialized.
Initialized(held) == held \in [Owners -> Samples] /\ \A m \in Owners : held[m].state # "unknown"

\* The global state of every node is that of a machine below it, and none is above it.
LEMMA LoopsFindHighest ==
  ASSUME NEW held, Initialized(held), NEW n \in Nodes
  PROVE  /\ \E m \in Below[n] : GlobalOf(held)[n] = held[m]
         /\ \A m \in Below[n] : ~Above(held[m], GlobalOf(held)[n])
  <1> DEFINE global == GlobalOf(held)
             Found(x) == /\ \E m \in Below[x] : global[x] = held[m]
                         /\ \A m \in Below[x] : ~Above(held[m], global[x])
             S == { x \in Nodes : ~Found(x) }
  <1>1. /\ global \in [Nodes -> Samples]
        /\ \A x \in Nodes : /\ Given(global, x) \in Seq(Samples)
                            /\ global[x] = FromChildren(held, x, Given(global, x))
    BY GlobalFacts DEF Initialized
  <1>2. \A m \in Owners : held[m] \in Samples /\ held[m].state # "unknown"
    BY DEF Initialized
  <1> HIDE DEF global
  <1>3. S = {}
    <2> SUFFICES ASSUME S # {} PROVE FALSE
      OBVIOUS
    <2>1. PICK x \in S : \A i \in DOMAIN Children[x] : Children[x][i] \notin S
      <3>1. S \in SUBSET Nodes
        OBVIOUS
      <3> HIDE DEF S
      <3> QED BY <3>1, BottomMost
    <2>2. /\ x \in Nodes /\ Below[x] # {} /\ Below[x] \subseteq Owners
          /\ \A i \in DOMAIN Children[x] : Children[x][i] \in Nodes /\ Found(Children[x][i])
      <3>1. Below[x] # {}
        BY <2>1, TreeAssumption
      <3> QED BY <2>1, <3>1, ChildFacts, BelowFacts
    <2>b. Below[x] = (IF x \in Owners THEN {x} ELSE {})
                       \cup UNION { Below[Children[x][i]] : i \in DOMAIN Children[x] }
      BY <2>2, BelowFacts
    <2> DEFINE s == Given(global, x)
               below == FoldLeft(Highest, Nothing, s)
    <2>3. /\ s \in Seq(Samples) /\ DOMAIN s = DOMAIN Children[x] /\ DOMAIN s = 1 .. Len(s)
          /\ \A i \in DOMAIN s : s[i] = global[Children[x][i]]
      BY <1>1, <2>2 DEF Given
    <2>4. /\ below \in Samples
          /\ below = Nothing \/ \E i \in DOMAIN s : below = s[i]
          /\ \A i \in DOMAIN s : ~Above(s[i], below)
      BY <2>3, FoldIsHighest
    <2>5. global[x] = IF x \in Owners THEN Highest(held[x], below) ELSE below
      BY <1>1, <2>2 DEF FromChildren
    <2> HIDE DEF s, below
    <2>6. ASSUME NEW i \in DOMAIN Children[x]
          PROVE  /\ \E m \in Below[x] : s[i] = held[m]
                 /\ \A m \in Below[Children[x][i]] : ~Above(held[m], below)
      <3>1. \A m \in Below[Children[x][i]] : m \in Below[x] /\ m \in Owners
        BY <2>2, <2>b
      <3>2. \E m \in Below[x] : s[i] = held[m]
        BY <2>2, <2>3, <3>1
      <3>3. ASSUME NEW m \in Below[Children[x][i]] PROVE ~Above(held[m], below)
        <4>1. ~Above(held[m], s[i]) /\ ~Above(s[i], below) /\ s[i] \in Samples
          BY <2>2, <2>3, <2>4
        <4>2. held[m] \in Samples
          BY <1>2, <3>1
        <4> QED BY <2>4, <4>1, <4>2, AboveFacts
      <3> QED BY <3>2, <3>3
    <2>7. Found(x)
      <3>1. CASE x \in Owners
        <4>1. held[x] \in Samples /\ held[x].state # "unknown" /\ x \in Below[x]
          BY <1>2, <2>b, <3>1
        <4>2. /\ global[x] \in {held[x], below} /\ global[x] \in Samples
              /\ ~Above(held[x], global[x]) /\ ~Above(below, global[x])
          BY <2>4, <2>5, <3>1, <4>1, HighestFacts
        <4>3. global[x] # Nothing
          BY <4>1, <4>2, NothingFacts
        <4>4. \E m \in Below[x] : global[x] = held[m]
          BY <2>3, <2>4, <2>6, <4>1, <4>2, <4>3
        <4>5. ASSUME NEW m \in Below[x] PROVE ~Above(held[m], global[x])
          <5>1. CASE m = x
            BY <4>2, <5>1
          <5>2. CASE m # x
            <6>1. PICK i \in DOMAIN Children[x] : m \in Below[Children[x][i]]
              BY <2>b, <5>2
            <6>2. ~Above(held[m], below) /\ held[m] \in Samples
              BY <1>2, <2>2, <2>6, <6>1
            <6> QED BY <2>4, <4>2, <6>2, AboveFacts
          <5> QED BY <5>1, <5>2
        <4> QED BY <4>4, <4>5
      <3>2. CASE x \notin Owners
        <4>1. global[x] = below
          BY <2>5, <3>2
        <4>2. \A m \in Below[x] : \E i \in DOMAIN Children[x] : m \in Below[Children[x][i]]
          BY <2>b, <3>2
        <4>3. \A m \in Below[x] : ~Above(held[m], global[x])
          BY <2>6, <4>1, <4>2
        <4>4. PICK m \in Below[x] : held[m] \in Samples /\ held[m].state # "unknown"
          BY <1>2, <2>2
        <4>5. below # Nothing
          BY <4>1, <4>3, <4>4, NothingFacts
        <4>6. \E k \in Below[x] : global[x] = held[k]
          BY <2>3, <2>4, <2>6, <4>1, <4>5
        <4> QED BY <4>3, <4>6
      <3> QED BY <3>1, <3>2
    <2> QED BY <2>1, <2>7
  <1> QED BY <1>3 DEF global

-----------------------------------------------------------------------------
(* The inductive invariant                                                  *)

\* The reads as records: TypeOK without the bound of the timestamps, and the history.
Reads == [node : (Nodes \ Owners) \cup {NoNode}, todo : Seq(Nodes), acc : Samples,
          global : Samples, low : UNION { [D -> Samples] : D \in SUBSET Owners }]

\* A machine below the node is still to be asked, in what is left to do, or the
\* read has collected something that it is not above.
Asked(m, todo, acc, low) ==
  \/ \E j \in DOMAIN todo : m \in Below[todo[j]]
  \/ ~Above(low[m], acc)

\* The history is of the machines below the node, and none is above what its
\* machine holds now.
ReadInv(read) ==
  IF read.node = NoNode THEN read.todo = <<>>
  ELSE /\ DOMAIN read.low = Below[read.node]
       /\ \A m \in Below[read.node] :
            ~Above(read.low[m], Held[m]) /\ Asked(m, read.todo, read.acc, read.low)

IInv ==
  /\ TypeOK
  /\ reading \in [Readers -> Reads]
  /\ \A r \in Readers : ReadInv(reading[r])

\* A row leads from a state to states, and none is unknown.
LEMMA RowFacts ==
  \A row \in Transitions :
    /\ row.via \in State \ {"unknown"} /\ row.to \in State \ {"unknown"}
    /\ row.from \in State \ {"unknown"}
  BY DEF Transitions, Row, State

\* What the machines hold are samples, in states other than unknown.
LEMMA HeldFacts ==
  ASSUME TypeOK
  PROVE  /\ Initialized(Held) /\ Held \in [Owners -> Samples]
         /\ \A m \in Owners : /\ Held[m] \in [state : State, stamp : 0 .. MaxClock]
                              /\ Held[m].state = local[m] /\ Held[m].stamp = stamp[m]
  <1>1. 0 .. MaxClock \subseteq Nat
    BY TreeAssumption
  <1>2. ASSUME NEW m \in Owners
        PROVE  /\ Held[m] = [state |-> local[m], stamp |-> stamp[m]]
               /\ local[m] \in State \ {"unknown"} /\ stamp[m] \in 0 .. MaxClock
    BY DEF TypeOK, Held, Sample
  <1>3. ASSUME NEW m \in Owners PROVE Held[m] \in Samples /\ Held[m].state # "unknown"
    <2>1. local[m] \in State /\ local[m] # "unknown" /\ stamp[m] \in Nat
      BY <1>1, <1>2
    <2>2. [state |-> local[m], stamp |-> stamp[m]] \in Samples
      BY <2>1 DEF Samples
    <2> QED BY <1>2, <2>1, <2>2
  <1>4. Held \in [Owners -> Samples]
    BY <1>3 DEF Held
  <1> QED BY <1>2, <1>3, <1>4 DEF Initialized

\* The global state of any node is a sample that a machine may hold.
LEMMA GlobalHeld ==
  ASSUME TypeOK, NEW n \in Nodes
  PROVE  /\ Global[n] \in Samples /\ Global[n] \in [state : State, stamp : 0 .. MaxClock]
         /\ \A m \in Below[n] : ~Above(Held[m], Global[n])
  <1>1. Initialized(Held) /\ \A m \in Owners : Held[m] \in Samples /\ Held[m] \in [state : State, stamp : 0 .. MaxClock]
    BY HeldFacts DEF Initialized
  <1>2. /\ \E m \in Below[n] : Global[n] = Held[m]
        /\ \A m \in Below[n] : ~Above(Held[m], Global[n])
    BY <1>1, LoopsFindHighest DEF Global
  <1>3. Below[n] \subseteq Owners
    BY BelowFacts
  <1> QED BY <1>1, <1>2, <1>3

\* Nothing is a sample with a timestamp in the bound.
LEMMA NothingBounded == Nothing \in [state : State, stamp : 0 .. MaxClock]
  BY TreeAssumption DEF Nothing, Sample, State

\* No read is a read.
LEMMA NoReadFacts == NoRead \in Reads /\ ReadInv(NoRead)
  <1>1. NoRead.low \in [{} -> Samples] /\ {} \in SUBSET Owners
    BY DEF NoRead
  <1>2. NoRead.low \in UNION { [D -> Samples] : D \in SUBSET Owners }
    BY <1>1
  <1>3. NoRead \in Reads
    BY <1>2, NothingFacts DEF NoRead, Reads
  <1> QED BY <1>3 DEF ReadInv, NoRead

LEMMA InitIInv == Init => IInv
  <1> SUFFICES ASSUME Init PROVE IInv
    OBVIOUS
  <1>1. \A r \in Readers : reading[r] = NoRead
    BY DEF Init
  <1>2. reading \in [Readers -> Reads]
    BY <1>1, NoReadFacts DEF Init
  <1>3. TypeOK
    <2>1. "off" \in State \ {"unknown"} /\ 0 \in 0 .. MaxClock /\ 0 \in 0 .. MaxReads
      BY TreeAssumption DEF State
    <2>2. NoRead.node = NoNode /\ NoRead.acc = Nothing
      BY DEF NoRead
    <2> QED BY <1>1, <2>1, <2>2, NothingBounded DEF Init, TypeOK
  <1> QED BY <1>1, <1>2, <1>3, NoReadFacts DEF IInv

\* A step of a machine: the history is brought up to date and goes down only.
LEMMA StampedStep ==
  ASSUME IInv, NEW m \in Owners, NEW s \in State \ {"unknown"}, local' = [local EXCEPT ![m] = s],
         transit' \in [Owners -> Transitions \cup {NoTransition}], Stamped(m)
  PROVE  IInv'
  <1>1. /\ local' \in [Owners -> State \ {"unknown"}] /\ stamp' \in [Owners -> 0 .. MaxClock]
        /\ reads' = reads
    BY DEF IInv, TypeOK, Stamped, Timestamps
  <1>2. Held' \in [Owners -> Samples]
    <2>1. 0 .. MaxClock \subseteq Nat
      BY TreeAssumption
    <2>2. Held' = [k \in Owners |-> [state |-> local'[k], stamp |-> stamp'[k]]]
      BY DEF Held, Sample
    <2> QED BY <1>1, <2>1, <2>2 DEF Samples
  <1>3. ASSUME NEW r \in Readers, reading[r].node = NoNode
        PROVE  reading'[r] = NoRead
    BY <1>3 DEF Stamped, Witness
  <1>4. ASSUME NEW r \in Readers, reading[r].node # NoNode
        PROVE  /\ reading'[r] \in Reads /\ ReadInv(reading[r])'
               /\ reading'[r].node = reading[r].node /\ reading'[r].acc = reading[r].acc
    <2> DEFINE read == reading[r]
               n == read.node
               global == IF Consistency THEN Lower(read.global, GlobalOf(Held')[n]) ELSE read.global
               low == [k \in DOMAIN read.low |-> Lower(read.low[k], Held'[k])]
    <2>1. reading'[r] = [read EXCEPT !.global = global, !.low = low]
      BY <1>4 DEF Stamped, Witness
    <2>2. /\ read \in Reads /\ ReadInv(read)
      BY DEF IInv
    <2>3. /\ n \in Nodes /\ n # NoNode /\ read.todo \in Seq(Nodes)
          /\ read.acc \in Samples /\ read.global \in Samples
          /\ DOMAIN read.low = Below[n] /\ Below[n] \subseteq Owners
      <3>1. n \in Nodes /\ n # NoNode
        BY <1>4, <2>2 DEF Reads
      <3> QED BY <2>2, <3>1, BelowFacts DEF Reads, ReadInv
    <2>4. read.low \in [Below[n] -> Samples]
      BY <2>2, <2>3 DEF Reads
    <2>5. global \in Samples
      <3>1. GlobalOf(Held')[n] \in Samples
        BY <1>2, <2>3, GlobalFacts
      <3> QED BY <2>3, <3>1, LowerFacts
    <2>6. ASSUME NEW k \in Below[n]
          PROVE  /\ low[k] \in Samples
                 /\ ~Above(low[k], read.low[k]) /\ ~Above(low[k], Held'[k])
      <3>1. read.low[k] \in Samples /\ Held'[k] \in Samples /\ low[k] = Lower(read.low[k], Held'[k])
        BY <1>2, <2>3, <2>4
      <3> HIDE DEF low
      <3> QED BY <3>1, LowerFacts
    <2>7. low \in [Below[n] -> Samples] /\ DOMAIN low = Below[n]
      BY <2>3, <2>6
    <2> HIDE DEF low, global
    <2>8. /\ reading'[r].node = n /\ reading'[r].todo = read.todo /\ reading'[r].acc = read.acc
          /\ reading'[r].low = low
      BY <2>1, <2>2 DEF Reads
    <2>9. reading'[r] \in Reads
      <3>1. low \in UNION { [D -> Samples] : D \in SUBSET Owners }
        BY <2>3, <2>7
      <3> QED BY <2>1, <2>2, <2>5, <3>1 DEF Reads
    <2>10. ASSUME NEW k \in Below[n] PROVE Asked(k, read.todo, read.acc, low)
      <3>1. CASE \E j \in DOMAIN read.todo : k \in Below[read.todo[j]]
        BY <3>1 DEF Asked
      <3>2. CASE ~Above(read.low[k], read.acc)
        <4>1. ~Above(low[k], read.acc)
          BY <2>3, <2>4, <2>6, <3>2, AboveFacts
        <4> QED BY <4>1 DEF Asked
      <3> QED BY <2>2, <2>3, <3>1, <3>2 DEF ReadInv, Asked
    <2>11. ReadInv(reading[r])'
      BY <2>3, <2>6, <2>7, <2>8, <2>10 DEF ReadInv, Asked
    <2> QED BY <2>8, <2>9, <2>11
  <1>5. \A r \in Readers : reading'[r] \in Reads /\ ReadInv(reading[r])'
    BY <1>3, <1>4, NoReadFacts DEF ReadInv, NoRead
  <1>6. reading' \in [Readers -> Reads]
    BY <1>5 DEF Stamped, Witness
  <1>7. TypeOK'
    <2>1. ASSUME NEW r \in Readers PROVE reading'[r].acc \in [state : State, stamp : 0 .. MaxClock]
      <3>1. CASE reading[r].node = NoNode
        <4>1. reading'[r].acc = Nothing
          BY <1>3, <3>1 DEF NoRead
        <4> QED BY <4>1, NothingBounded
      <3>2. CASE reading[r].node # NoNode
        BY <1>4, <3>2 DEF IInv, TypeOK
      <3> QED BY <3>1, <3>2
    <2>2. \A r \in Readers : reading'[r].node \in (Nodes \ Owners) \cup {NoNode}
      BY <1>5 DEF Reads
    <2> QED BY <1>1, <2>1, <2>2 DEF IInv, TypeOK
  <1> QED BY <1>5, <1>6, <1>7 DEF IInv

\* A step of a read leaves the machines and the other reads alone.
LEMMA ReadStep ==
  ASSUME IInv, NEW r \in Readers, UNCHANGED machineVars, reads' \in [Readers -> 0 .. MaxReads],
         NEW read, read \in Reads, ReadInv(read), read.acc \in [state : State, stamp : 0 .. MaxClock],
         reading' = [reading EXCEPT ![r] = read]
  PROVE  IInv'
  <1>1. Held' = Held
    BY DEF Held, machineVars
  <1>2. reading' \in [Readers -> Reads] /\ \A q \in Readers : reading'[q] = IF q = r THEN read ELSE reading[q]
    BY DEF IInv
  <1>3. \A q \in Readers : ReadInv(reading[q])'
    BY <1>1, <1>2 DEF IInv, ReadInv
  <1>4. TypeOK'
    <2>1. \A q \in Readers : /\ reading'[q].node \in (Nodes \ Owners) \cup {NoNode}
                             /\ reading'[q].acc \in [state : State, stamp : 0 .. MaxClock]
      BY <1>2 DEF IInv, TypeOK, Reads
    <2> QED BY <2>1 DEF IInv, TypeOK, machineVars
  <1> QED BY <1>2, <1>3, <1>4 DEF IInv

\* NodeImpl::getGlobalState starts: all machines below the node are to be asked.
LEMMA StartReadStep ==
  ASSUME IInv, NEW r \in Readers, NEW n \in Nodes \ Owners, StartRead(r, n)
  PROVE  IInv'
  <1> DEFINE low == [m \in Below[n] |-> Held[m]]
             global == IF Consistency THEN Global[n] ELSE Nothing
             read == [node |-> n, todo |-> Entries[n], acc |-> Nothing, global |-> global, low |-> low]
  <1>1. /\ reading' = [reading EXCEPT ![r] = read]
        /\ reads' = [reads EXCEPT ![r] = @ + 1] /\ reads[r] < MaxReads /\ UNCHANGED machineVars
    BY DEF StartRead
  <1>2. reads' \in [Readers -> 0 .. MaxReads]
    BY <1>1, TreeAssumption DEF IInv, TypeOK
  <1>3. /\ Entries[n] \in Seq(Nodes) /\ Below[n] \subseteq Owners /\ n # NoNode
        /\ \A m \in Below[n] : \E j \in DOMAIN Entries[n] : m \in Below[Entries[n][j]]
    BY EntriesFacts, EntriesCover, BelowFacts, TreeAssumption
  <1>4. Global[n] \in Samples /\ Nothing \in Samples
    BY GlobalHeld, NothingFacts DEF IInv
  <1>5. \A m \in Below[n] : low[m] = Held[m] /\ Held[m] \in Samples
    BY <1>3, HeldFacts DEF IInv
  <1>6. low \in [Below[n] -> Samples] /\ DOMAIN low = Below[n]
    BY <1>5
  <1> HIDE DEF low
  <1>7. read \in Reads
    <2>1. low \in UNION { [D -> Samples] : D \in SUBSET Owners }
      BY <1>3, <1>6
    <2> QED BY <1>3, <1>4, <2>1 DEF Reads
  <1>8. /\ read.node = n /\ read.todo = Entries[n] /\ read.low = low
        /\ read.acc \in [state : State, stamp : 0 .. MaxClock]
    BY NothingBounded
  <1> HIDE DEF read
  <1>9. ReadInv(read)
    BY <1>3, <1>5, <1>6, <1>8, AboveFacts DEF ReadInv, Asked
  <1> QED BY <1>1, <1>2, <1>7, <1>8, <1>9, ReadStep

\* The next machine is asked: those below it are not above what is then collected.
LEMMA ReadNextStep ==
  ASSUME IInv, NEW r \in Readers, ReadNext(r)
  PROVE  IInv'
  <1> DEFINE old == reading[r]
             n == old.node
             e == Head(old.todo)
             acc == Highest(old.acc, Global[e])
             read == [old EXCEPT !.acc = acc, !.todo = Tail(old.todo)]
  <1>1. /\ reading' = [reading EXCEPT ![r] = read]
        /\ reads' = reads /\ old.todo # <<>> /\ UNCHANGED machineVars
    BY DEF ReadNext
  <1>2. old \in Reads /\ ReadInv(old) /\ old.acc \in [state : State, stamp : 0 .. MaxClock]
    BY DEF IInv, TypeOK
  <1>3. /\ n # NoNode /\ n \in Nodes /\ Below[n] \subseteq Owners
        /\ old.todo \in Seq(Nodes) /\ old.acc \in Samples
        /\ DOMAIN old.low = Below[n] /\ old.low \in [Below[n] -> Samples]
        /\ \A m \in Below[n] : ~Above(old.low[m], Held[m]) /\ Asked(m, old.todo, old.acc, old.low)
    <2>1. n # NoNode
      BY <1>1, <1>2 DEF ReadInv
    <2>2. DOMAIN old.low = Below[n] /\ n \in Nodes
      BY <1>2, <2>1 DEF ReadInv, Reads
    <2> QED BY <1>2, <2>1, <2>2, BelowFacts DEF ReadInv, Reads
  <1>4. /\ e \in Nodes /\ e = old.todo[1] /\ Tail(old.todo) \in Seq(Nodes)
        /\ \A j \in DOMAIN old.todo : j = 1 \/ (j - 1 \in DOMAIN Tail(old.todo) /\ old.todo[j] = Tail(old.todo)[j - 1])
    BY <1>1, <1>3
  <1>5. /\ Global[e] \in Samples /\ Global[e] \in [state : State, stamp : 0 .. MaxClock]
        /\ \A m \in Below[e] : ~Above(Held[m], Global[e])
    BY <1>4, GlobalHeld DEF IInv
  <1>6. /\ acc \in Samples /\ acc \in [state : State, stamp : 0 .. MaxClock]
        /\ ~Above(old.acc, acc) /\ ~Above(Global[e], acc)
    <2>1. acc \in {old.acc, Global[e]} /\ ~Above(old.acc, acc) /\ ~Above(Global[e], acc)
      BY <1>3, <1>5, HighestFacts
    <2> QED BY <1>2, <1>3, <1>5, <2>1
  <1> HIDE DEF acc, e
  <1>7. /\ read.node = n /\ read.todo = Tail(old.todo) /\ read.low = old.low /\ read.acc = acc
        /\ read \in Reads
    BY <1>2, <1>4, <1>6 DEF Reads
  <1>8. ASSUME NEW m \in Below[n] PROVE Asked(m, Tail(old.todo), acc, old.low)
    <2>1. old.low[m] \in Samples /\ Held[m] \in Samples
      BY <1>3, HeldFacts DEF IInv
    <2>2. CASE m \in Below[e]
      <3>1. ~Above(Held[m], acc)
        BY <1>5, <1>6, <2>1, <2>2, AboveFacts
      <3>2. ~Above(old.low[m], acc)
        BY <1>3, <1>6, <2>1, <3>1, AboveFacts
      <3> QED BY <3>2 DEF Asked
    <2>3. CASE \E j \in DOMAIN old.todo : j # 1 /\ m \in Below[old.todo[j]]
      BY <1>4, <2>3 DEF Asked
    <2>4. CASE ~Above(old.low[m], old.acc)
      <3>1. ~Above(old.low[m], acc)
        BY <1>3, <1>6, <2>1, <2>4, AboveFacts
      <3> QED BY <3>1 DEF Asked
    <2> QED BY <1>3, <1>4, <2>2, <2>3, <2>4 DEF Asked
  <1> HIDE DEF read
  <1>9. ReadInv(read)
    BY <1>3, <1>7, <1>8 DEF ReadInv
  <1>10. reads' \in [Readers -> 0 .. MaxReads]
    BY <1>1 DEF IInv, TypeOK
  <1> QED BY <1>1, <1>6, <1>7, <1>9, <1>10, ReadStep

\* Every step keeps it.
LEMMA StepIInv == IInv /\ [Next]_vars => IInv'
  <1> SUFFICES ASSUME IInv, [Next]_vars PROVE IInv'
    OBVIOUS
  <1>1. ASSUME NEW m \in Owners, NEW row \in Transitions, SetState(m, row) PROVE IInv'
    <2>1. row.via \in State \ {"unknown"}
      BY RowFacts
    <2>2. /\ local' = [local EXCEPT ![m] = row.via] /\ Stamped(m)
          /\ transit' \in [Owners -> Transitions \cup {NoTransition}]
      BY <1>1 DEF SetState, IInv, TypeOK
    <2> QED BY <2>1, <2>2, StampedStep
  <1>2. ASSUME NEW m \in Owners, EndTransition(m) PROVE IInv'
    <2>1. transit[m] \in Transitions
      BY <1>2 DEF EndTransition, IInv, TypeOK
    <2>2. "fault" \in State \ {"unknown"}
      BY DEF State
    <2>3. PICK s \in {transit[m].to, transit[m].from, "fault"} : local' = [local EXCEPT ![m] = s]
      BY <1>2 DEF EndTransition
    <2>4. s \in State \ {"unknown"}
      BY <2>1, <2>2, <2>3, RowFacts
    <2>5. Stamped(m) /\ transit' \in [Owners -> Transitions \cup {NoTransition}]
      BY <1>2 DEF EndTransition, IInv, TypeOK
    <2> QED BY <2>3, <2>4, <2>5, StampedStep
  <1>3. ASSUME NEW r \in Readers, EndRead(r) PROVE IInv'
    <2>1. /\ reading' = [reading EXCEPT ![r] = NoRead] /\ reads' = reads /\ UNCHANGED machineVars
      BY <1>3 DEF EndRead
    <2>2. NoRead.acc \in [state : State, stamp : 0 .. MaxClock] /\ reads' \in [Readers -> 0 .. MaxReads]
      BY <2>1, NothingBounded DEF NoRead, IInv, TypeOK
    <2> QED BY <2>1, <2>2, NoReadFacts, ReadStep
  <1>4. CASE UNCHANGED vars
    BY <1>4 DEF IInv, TypeOK, ReadInv, Held, vars
  <1> QED BY <1>1, <1>2, <1>3, <1>4, StartReadStep, ReadNextStep DEF Next

\* It holds in every state of every behaviour.
LEMMA Inductive == Spec => []IInv
  BY InitIInv, StepIInv, PTL DEF Spec

-----------------------------------------------------------------------------
(* Results                                                                  *)

\* The machines are in the states of the table with timestamps of the clock, and
\* what a read has collected is one of them.
THEOREM GlobalTypeCorrect == Spec => []TypeOK
  <1>1. IInv => TypeOK
    BY DEF IInv
  <1> QED BY <1>1, Inductive, PTL

\* getGlobalState of every node of every tree is the state and the timestamp of
\* one of the machines below it, and none of them is above it in (priority,
\* timestamp), whatever the order of the children, while the machines move.
THEOREM GlobalAlwaysHighest == Spec => []GlobalIsHighest
  <1>1. ASSUME IInv PROVE GlobalIsHighest
    <2>1. Initialized(Held)
      BY <1>1, HeldFacts DEF IInv
    <2> QED BY <2>1, LoopsFindHighest DEF GlobalIsHighest, Global
  <1> QED BY <1>1, Inductive, PTL

\* A read that takes the mutex once per machine returns nothing lower than the
\* lowest state that each machine below has had since the read began, with any
\* number of readers and of transitions in between.
THEOREM NothingEverHidden == Spec => []NothingHidden
  <1>1. ASSUME IInv, NEW r \in Readers, reading[r].node # NoNode, reading[r].todo = <<>>,
               NEW m \in Below[reading[r].node]
        PROVE  ~Above(reading[r].low[m], reading[r].acc)
    <2>1. Asked(m, reading[r].todo, reading[r].acc, reading[r].low)
      BY <1>1 DEF IInv, ReadInv
    <2>2. DOMAIN reading[r].todo = {}
      BY <1>1
    <2> QED BY <2>1, <2>2 DEF Asked
  <1>2. IInv => NothingHidden
    BY <1>1 DEF NothingHidden
  <1> QED BY <1>2, Inductive, PTL
=============================================================================
