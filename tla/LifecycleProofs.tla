--------------------------- MODULE LifecycleProofs ---------------------------
(***************************************************************************)
(* Proofs about NodeLifecycle, for any trees, threads, failures and number *)
(* of calls: what the three registers know of a tree while it is walked    *)
(* through, and what they know of the other trees meanwhile.               *)
(***************************************************************************)
EXTENDS NodeLifecycle, SequenceTheorems, TLAPS

-----------------------------------------------------------------------------
(* The stack of functions                                                   *)

Replaced(s, f)  == Append(Front(s), f)
Pushed(s, f, g) == Append(Front(s), f) \o <<g>>

\* The innermost function is the last of the stack.
LEMMA TopFacts ==
  ASSUME NEW S, NEW s \in Seq(S), s # <<>>
  PROVE  Len(s) \in Nat \ {0} /\ Last(s) = s[Len(s)] /\ Last(s) \in S
  <1>1. Len(s) \in Nat \ {0}
    BY EmptySeq
  <1> QED BY <1>1 DEF Last

\* Without it.
LEMMA PopFacts ==
  ASSUME NEW S, NEW s \in Seq(S), s # <<>>, NEW r, r = Front(s)
  PROVE  r \in Seq(S) /\ Len(r) = Len(s) - 1 /\ \A k \in 1 .. Len(s) - 1 : r[k] = s[k]
  <1>1. Len(s) \in Nat \ {0}
    BY EmptySeq
  <1>2. r = SubSeq(s, 1, Len(s) - 1)
    BY DEF Front
  <1> DEFINE n == Len(s) - 1
  <1>0. n \in Nat
    BY <1>1
  <1>3. 1 \in Int /\ n \in Int /\ \A k \in 1 .. n : s[k] \in S
    BY <1>1
  <1>n. (IF 1 <= n THEN n - 1 + 1 ELSE 0) = n /\ n - 1 + 1 = n /\ \A k \in 1 .. n : 1 + k - 1 = k
    <2> HIDE DEF n
    <2> QED BY <1>0
  <1>4. /\ SubSeq(s, 1, n) \in Seq(S) /\ Len(SubSeq(s, 1, n)) = IF 1 <= n THEN n - 1 + 1 ELSE 0
        /\ \A k \in 1 .. n - 1 + 1 : SubSeq(s, 1, n)[k] = s[1 + k - 1]
    <2> HIDE DEF n
    <2> QED BY <1>3, SubSeqProperties
  <1> QED BY <1>2, <1>4, <1>n

\* Changed.
LEMMA ReplaceFacts ==
  ASSUME NEW S, NEW s \in Seq(S), s # <<>>, NEW f \in S
  PROVE  LET r == Replaced(s, f) IN
         /\ r \in Seq(S) /\ Len(r) = Len(s) /\ r[Len(s)] = f
         /\ \A k \in 1 .. Len(s) - 1 : r[k] = s[k]
  <1> DEFINE b == Front(s)
             r == Replaced(s, f)
  <1>1. /\ b \in Seq(S) /\ Len(b) = Len(s) - 1 /\ Len(s) \in Nat \ {0}
        /\ \A k \in 1 .. Len(s) - 1 : b[k] = s[k]
    BY PopFacts, TopFacts
  <1>2. r = Append(b, f)
    BY DEF Replaced
  <1> HIDE DEF b, r
  <1>3. /\ r \in Seq(S) /\ Len(r) = Len(b) + 1 /\ r[Len(b) + 1] = f
        /\ \A k \in 1 .. Len(b) : r[k] = b[k]
    BY <1>1, <1>2
  <1>4. /\ r \in Seq(S) /\ Len(r) = Len(s) /\ r[Len(s)] = f
        /\ \A k \in 1 .. Len(s) - 1 : r[k] = s[k]
    BY <1>1, <1>3
  <1> QED BY <1>4 DEF r

\* Changed, with a call inside.
LEMMA PushFacts ==
  ASSUME NEW S, NEW s \in Seq(S), s # <<>>, NEW f \in S, NEW g \in S
  PROVE  LET r == Pushed(s, f, g) IN
         /\ r \in Seq(S) /\ Len(r) = Len(s) + 1 /\ r[Len(s)] = f /\ r[Len(s) + 1] = g
         /\ \A k \in 1 .. Len(s) - 1 : r[k] = s[k]
  <1> DEFINE b == Replaced(s, f)
             c == <<g>>
             r == Pushed(s, f, g)
  <1>1. /\ b \in Seq(S) /\ Len(b) = Len(s) /\ Len(s) \in Nat \ {0} /\ b[Len(s)] = f
        /\ \A k \in 1 .. Len(s) - 1 : b[k] = s[k]
    BY ReplaceFacts, TopFacts
  <1>2. c \in Seq(S) /\ Len(c) = 1 /\ c[1] = g /\ r = b \o c
    BY DEF Pushed, Replaced
  <1> HIDE DEF b, c, r
  <1>3. /\ b \o c \in Seq(S) /\ Len(b \o c) = Len(b) + Len(c)
        /\ \A k \in 1 .. Len(b) + Len(c) : (b \o c)[k] = IF k <= Len(b) THEN b[k] ELSE c[k - Len(b)]
    BY <1>1, <1>2, ConcatProperties
  <1>4. Len(r) = Len(s) + 1 /\ r \in Seq(S)
    BY <1>1, <1>2, <1>3
  <1>5. \A k \in 1 .. Len(s) : r[k] = b[k]
    BY <1>1, <1>2, <1>3
  <1>6. r[Len(s) + 1] = g
    BY <1>1, <1>2, <1>3
  <1>7. /\ r \in Seq(S) /\ Len(r) = Len(s) + 1 /\ r[Len(s)] = f /\ r[Len(s) + 1] = g
        /\ \A k \in 1 .. Len(s) - 1 : r[k] = s[k]
    BY <1>1, <1>4, <1>5, <1>6
  <1> QED BY <1>7 DEF r

\* The children that are left when one is taken: a list without repetitions.
LEMMA TailFacts ==
  ASSUME NEW S, NEW s \in Seq(S), s # <<>>, IsInjective(s)
  PROVE  /\ Head(s) \in ToSet(s) /\ Tail(s) \in Seq(S) /\ IsInjective(Tail(s))
         /\ ToSet(Tail(s)) = ToSet(s) \ {Head(s)}
  <1> DEFINE t == Tail(s)
             n == Len(s)
  <1>1. n \in Nat \ {0} /\ Head(s) = s[1] /\ DOMAIN s = 1 .. n
    BY EmptySeq
  <1>2. t \in Seq(S) /\ Len(t) = n - 1 /\ \A k \in 1 .. n - 1 : t[k] = s[k + 1]
    BY <1>1, HeadTailProperties
  <1>4. \A a, b \in 1 .. n : s[a] = s[b] => a = b
    BY <1>1 DEF IsInjective
  <1> HIDE DEF t, n
  <1>a. DOMAIN t = 1 .. n - 1
    BY <1>1, <1>2
  <1>3. DOMAIN t = 1 .. n - 1 /\ ToSet(s) = {s[i] : i \in 1 .. n} /\ ToSet(t) = {t[i] : i \in 1 .. n - 1}
    BY <1>1, <1>a DEF ToSet
  <1>5. \A a, b \in 1 .. n - 1 : t[a] = t[b] => a = b
    <2> SUFFICES ASSUME NEW a \in 1 .. n - 1, NEW b \in 1 .. n - 1, t[a] = t[b] PROVE a = b
      OBVIOUS
    <2>1. a + 1 \in 1 .. n /\ b + 1 \in 1 .. n /\ s[a + 1] = s[b + 1]
      BY <1>1, <1>2
    <2>2. a + 1 = b + 1
      BY <1>4, <2>1
    <2> QED BY <2>2, <1>1
  <1>6. IsInjective(t)
    BY <1>3, <1>5 DEF IsInjective
  <1>7. ASSUME NEW x \in ToSet(t) PROVE x \in ToSet(s) /\ x # Head(s)
    <2>1. PICK i \in 1 .. n - 1 : x = t[i]
      BY <1>3
    <2>2. i + 1 \in 1 .. n /\ x = s[i + 1] /\ i + 1 # 1 /\ 1 \in 1 .. n
      BY <1>1, <1>2, <2>1
    <2> QED BY <1>1, <1>3, <1>4, <2>2
  <1>8. ASSUME NEW x \in ToSet(s), x # Head(s) PROVE x \in ToSet(t)
    <2>1. PICK i \in 1 .. n : x = s[i]
      BY <1>3
    <2>2. i - 1 \in 1 .. n - 1 /\ i = (i - 1) + 1
      BY <1>1, <2>1, <1>8
    <2>3. t[i - 1] = x
      BY <1>2, <2>1, <2>2
    <2> QED BY <1>3, <2>2, <2>3
  <1>9. Head(s) \in ToSet(s)
    BY <1>1, <1>3
  <1> QED BY <1>2, <1>6, <1>7, <1>8, <1>9 DEF t

-----------------------------------------------------------------------------
(* The nearest port above                                                   *)

\* Parents are nodes that have the component for a child.
Chained(par) ==
  /\ par \in [Components -> Components \cup {NoNode}]
  /\ \A c \in Components : par[c] # NoNode => c \in ToSet(Children[par[c]])

\* Of any components one has its parent elsewhere: what an argument that goes up the
\* tree rests on.
LEMMA TopMost ==
  ASSUME NEW par, Chained(par), NEW S \in SUBSET Components, S # {}
  PROVE  \E x \in S : par[x] \notin S
  <1>1. PICK c \in S : \A d \in S : c \notin ToSet(Children[d])
    BY LifecycleAssumption
  <1> QED BY <1>1, LifecycleAssumption DEF Chained

\* What getPort answers on c, with the answers f of the components above.
Answer(par, f, c) ==
  IF Kind[c] = "port" THEN c ELSE IF par[c] = NoNode THEN NoNode ELSE f[par[c]]

Nearest(par) == CHOOSE f : f = [c \in Components |-> Answer(par, f, c)]

\* getPort is this function, for the parents as they are.
LEMMA PortIsNearest == \A c : PortOf(c) = Nearest(parent)[c]
  BY DEF PortOf, Nearest, Answer

\* Answers on part of a tree.
Solves(par, A, f) ==
  /\ A \subseteq Components
  /\ \A c \in A : /\ f[c] = Answer(par, f, c)
                  /\ Kind[c] = "port" \/ par[c] \in A \cup {NoNode}

\* Two of them agree.
LEMMA SolutionsAgree ==
  ASSUME NEW par, Chained(par), NEW A, NEW f, Solves(par, A, f), NEW B, NEW g, Solves(par, B, g),
         NEW c \in A \cap B
  PROVE  f[c] = g[c]
  <1> DEFINE S == { x \in A \cap B : f[x] # g[x] }
  <1> SUFFICES ASSUME S # {} PROVE FALSE
    OBVIOUS
  <1>1. S \in SUBSET Components
    BY DEF Solves
  <1>2. PICK x \in S : par[x] \notin S
    BY <1>1, TopMost
  <1>3. /\ f[x] = Answer(par, f, x) /\ g[x] = Answer(par, g, x) /\ f[x] # g[x]
        /\ Kind[x] = "port" \/ (par[x] \in A \cup {NoNode} /\ par[x] \in B \cup {NoNode})
    BY <1>2 DEF Solves
  <1>4. Kind[x] # "port" /\ par[x] # NoNode
    BY <1>3 DEF Answer
  <1>5. par[x] \in A \cap B /\ f[par[x]] # g[par[x]]
    BY <1>3, <1>4 DEF Answer
  <1> QED BY <1>2, <1>5

\* There are answers for every component.
LEMMA SolutionsReach ==
  ASSUME NEW par, Chained(par), NEW c \in Components
  PROVE  \E A, f : c \in A /\ Solves(par, A, f)
  <1> DEFINE S == { x \in Components : ~ \E A, f : x \in A /\ Solves(par, A, f) }
  <1> SUFFICES ASSUME S # {} PROVE FALSE
    OBVIOUS
  <1>1. PICK x \in S : par[x] \notin S
    BY TopMost
  <1>2. CASE Kind[x] = "port" \/ par[x] = NoNode
    <2> DEFINE f == [y \in {x} |-> IF Kind[x] = "port" THEN x ELSE NoNode]
    <2>1. x \in {x} /\ Solves(par, {x}, f)
      BY <1>2 DEF Solves, Answer
    <2> QED BY <2>1
  <1>3. CASE Kind[x] # "port" /\ par[x] # NoNode
    <2>1. par[x] \in Components
      BY <1>3 DEF Chained
    <2>2. PICK A, g : par[x] \in A /\ Solves(par, A, g)
      BY <1>1, <2>1
    <2>3. x \notin A
      BY <2>2
    <2> DEFINE B == A \cup {x}
               f == [y \in B |-> IF y = x THEN g[par[x]] ELSE g[y]]
    <2>4. \A y \in A : f[y] = g[y]
      BY <2>3
    <2>5. f[x] = g[par[x]]
      OBVIOUS
    <2>6. ASSUME NEW y \in A
          PROVE  f[y] = Answer(par, f, y) /\ (Kind[y] = "port" \/ par[y] \in B \cup {NoNode})
      <3>1. g[y] = Answer(par, g, y) /\ (Kind[y] = "port" \/ par[y] \in A \cup {NoNode})
        BY <2>2 DEF Solves
      <3>2. f[y] = g[y] /\ (par[y] \in A => f[par[y]] = g[par[y]])
        BY <2>4
      <3> HIDE DEF f
      <3> QED BY <3>1, <3>2 DEF Answer
    <2>7. f[x] = Answer(par, f, x) /\ par[x] \in B \cup {NoNode}
      <3>1. f[par[x]] = g[par[x]]
        BY <2>2, <2>4
      <3> HIDE DEF f
      <3> QED BY <1>3, <2>2, <2>5, <3>1 DEF Answer
    <2>8. x \in B /\ Solves(par, B, f)
      <3> HIDE DEF f
      <3> QED BY <2>2, <2>6, <2>7 DEF Solves
    <2> QED BY <2>8
  <1> QED BY <1>2, <1>3

\* getPort answers as its text says.
LEMMA NearestFacts ==
  ASSUME NEW par, Chained(par)
  PROVE  \A c \in Components : Nearest(par)[c] = Answer(par, Nearest(par), c)
  <1> DEFINE Is(c, v) == \E A, f : c \in A /\ Solves(par, A, f) /\ v = f[c]
             h == [c \in Components |-> CHOOSE v : Is(c, v)]
  <1>1. ASSUME NEW c \in Components, NEW A, NEW f, c \in A, Solves(par, A, f)
        PROVE  h[c] = f[c]
    <2>1. Is(c, f[c])
      BY <1>1
    <2>2. Is(c, h[c])
      BY <2>1
    <2>3. PICK B, g : c \in B /\ Solves(par, B, g) /\ h[c] = g[c]
      BY <2>2
    <2>4. c \in A \cap B
      BY <1>1, <2>3
    <2>5. f[c] = g[c]
      BY <1>1, <2>3, <2>4, SolutionsAgree
    <2> QED BY <2>3, <2>5
  <1>2. ASSUME NEW c \in Components PROVE h[c] = Answer(par, h, c)
    <2>1. PICK A, f : c \in A /\ Solves(par, A, f)
      BY SolutionsReach
    <2>a. A \subseteq Components
      BY <2>1 DEF Solves
    <2>2. \A x \in A : h[x] = f[x]
      <3> HIDE DEF h
      <3> QED BY <1>1, <2>1, <2>a
    <2>3. f[c] = Answer(par, f, c) /\ (Kind[c] = "port" \/ par[c] \in A \cup {NoNode})
      BY <2>1 DEF Solves
    <2> HIDE DEF h
    <2> QED BY <2>1, <2>2, <2>3 DEF Answer
  <1>3. h = [c \in Components |-> Answer(par, h, c)]
    <2>1. h = [c \in Components |-> h[c]]
      OBVIOUS
    <2> HIDE DEF h
    <2> QED BY <1>2, <2>1
  <1> HIDE DEF h
  <1>4. Nearest(par) = [c \in Components |-> Answer(par, Nearest(par), c)]
    BY <1>3 DEF Nearest
  <1> DEFINE n == Nearest(par)
  <1> HIDE DEF n
  <1>5. n = [c \in Components |-> Answer(par, n, c)]
    BY <1>4 DEF n
  <1>6. \A c \in Components : n[c] = Answer(par, n, c)
    BY <1>5
  <1> QED BY <1>6 DEF n

\* It is a port that has become a parent, or the component itself.
LEMMA NearestIsParent ==
  ASSUME NEW par, Chained(par), NEW c \in Components, Nearest(par)[c] # NoNode
  PROVE  /\ Nearest(par)[c] \in Ports
         /\ c \in Ports \/ \E x \in Components : par[x] = Nearest(par)[c]
  <1> DEFINE n == Nearest(par)
             S == { x \in Components : /\ n[x] # NoNode
                                       /\ ~ (n[x] \in Ports /\ (x \in Ports \/ \E y \in Components : par[y] = n[x])) }
  <1> SUFFICES ASSUME S # {} PROVE FALSE
    OBVIOUS
  <1>1. PICK x \in S : par[x] \notin S
    BY TopMost
  <1>2. n[x] = Answer(par, n, x) /\ (par[x] \in Components => n[par[x]] = Answer(par, n, par[x]))
    BY NearestFacts
  <1> HIDE DEF n
  <1>3. x \notin Ports /\ par[x] \in Components /\ n[x] = n[par[x]]
    BY <1>1, <1>2 DEF Answer, Ports, Chained
  <1>4. par[x] \in Ports => n[par[x]] = par[x]
    BY <1>2, <1>3 DEF Answer, Ports
  <1> QED BY <1>1, <1>3, <1>4

\* Once found it stays the same, while components get parents.
LEMMA NearestStays ==
  ASSUME NEW par, Chained(par), NEW par2, Chained(par2),
         \A c \in Components : par[c] # NoNode => par2[c] = par[c],
         NEW c \in Components, Nearest(par)[c] # NoNode
  PROVE  Nearest(par2)[c] = Nearest(par)[c]
  <1> DEFINE n == Nearest(par)
             m == Nearest(par2)
             S == { x \in Components : n[x] # NoNode /\ m[x] # n[x] }
  <1> SUFFICES ASSUME S # {} PROVE FALSE
    OBVIOUS
  <1>1. PICK x \in S : par2[x] \notin S
    BY TopMost
  <1>2. n[x] = Answer(par, n, x) /\ m[x] = Answer(par2, m, x)
    BY NearestFacts
  <1> HIDE DEF n, m
  <1>3. par[x] # NoNode /\ par2[x] = par[x] /\ par[x] \in Components /\ Kind[x] # "port" /\ n[x] = n[par[x]]
    BY <1>1, <1>2 DEF Answer, Chained
  <1>4. m[x] = m[par[x]]
    BY <1>2, <1>3 DEF Answer
  <1> QED BY <1>1, <1>3, <1>4

-----------------------------------------------------------------------------
(* Trees                                                                    *)

\* A tree has its root and the children of its members.
LEMMA TreeFacts ==
  ASSUME NEW r \in Components
  PROVE  /\ r \in Tree(r) /\ Tree(r) \subseteq Components
         /\ \A d \in Tree(r) : ToSet(Children[d]) \subseteq Tree(r)
  <1>1. Tree(r) = { c \in Components : \A S \in SUBSET Components :
                      r \in S /\ (\A d \in S : ToSet(Children[d]) \subseteq S) => c \in S }
    BY DEF Tree, Below
  <1>2. \A d \in Components : ToSet(Children[d]) \subseteq Components
    BY LifecycleAssumption DEF ToSet
  <1> QED BY <1>1, <1>2

\* ... and nothing else.
LEMMA TreeIsLeast ==
  ASSUME NEW r \in Components, NEW S \in SUBSET Components, r \in S,
         \A d \in S : ToSet(Children[d]) \subseteq S
  PROVE  Tree(r) \subseteq S
  BY DEF Tree, Below

\* So the trees of its members are inside,
LEMMA TreeInTree ==
  ASSUME NEW r \in Components, NEW d \in Tree(r)
  PROVE  Tree(d) \subseteq Tree(r)
  BY TreeFacts, TreeIsLeast

\* it consists of its root and the trees of the children,
LEMMA TreeOfTrees ==
  ASSUME NEW r \in Components
  PROVE  Tree(r) = {r} \cup UNION { Tree(c) : c \in ToSet(Children[r]) }
  <1> DEFINE S == {r} \cup UNION { Tree(c) : c \in ToSet(Children[r]) }
  <1>1. ToSet(Children[r]) \subseteq Components /\ ToSet(Children[r]) \subseteq Tree(r) /\ r \in Tree(r)
    BY TreeFacts
  <1>2. S \in SUBSET Components
    BY <1>1, TreeFacts
  <1>3. \A d \in S : ToSet(Children[d]) \subseteq S
    BY <1>1, TreeFacts
  <1>4. Tree(r) \subseteq S
    BY <1>2, <1>3, TreeIsLeast
  <1>5. S \subseteq Tree(r)
    BY <1>1, TreeInTree
  <1> QED BY <1>4, <1>5

\* and all but the root are somebody's children.
LEMMA TreeAbove ==
  ASSUME NEW r \in Components, NEW x \in Tree(r), x # r
  PROVE  \E n \in Tree(r) : x \in ToSet(Children[n])
  <1> SUFFICES ASSUME \A n \in Tree(r) : x \notin ToSet(Children[n]) PROVE FALSE
    OBVIOUS
  <1>1. Tree(r) \ {x} \in SUBSET Components /\ r \in Tree(r) \ {x}
    BY TreeFacts
  <1>2. \A d \in Tree(r) \ {x} : ToSet(Children[d]) \subseteq Tree(r) \ {x}
    BY TreeFacts
  <1> QED BY <1>1, <1>2, TreeIsLeast

\* A PV is a tree by itself.
LEMMA TreeOfPV ==
  ASSUME NEW p \in PVs
  PROVE  Tree(p) = {p}
  <1>1. p \in Components /\ Children[p] = <<>>
    BY LifecycleAssumption DEF PVs
  <1>2. ToSet(Children[p]) = {}
    BY <1>1 DEF ToSet
  <1> QED BY <1>1, <1>2, TreeOfTrees

-----------------------------------------------------------------------------
(* The walk through a tree                                                  *)

Places == {"interface", "command", "publish", "register", "adopt", "children", "announce", "start",
           "deregister", "uncommand", "unpublish"}

FrameType == [node : Components, at : Places, todo : Seq(Components)]

Root == request[holder].root
Mode == request[holder].kind

\* Where initialize and deinitialize of a component can be.
PlacesOf(kind, c) ==
  IF kind = "init"
    THEN IF c \in PVs THEN {"command", "publish", "register"}
         ELSE {"command", "adopt", "children"}
                \cup (IF c \in Ports THEN {"interface", "announce"} ELSE {})
                \cup (IF c \in Machines THEN {"start"} ELSE {})
    ELSE IF c \in PVs THEN {"deregister", "uncommand", "unpublish"} ELSE {"uncommand", "children"}

\* The loop over the children has begun.
Past(f) == f.at \in {"children", "announce", "start"}

Typed ==
  /\ parent \in [Components -> Components \cup {NoNode}] /\ DOMAIN name = Components
  /\ interface \in [Ports -> {"none", "open", "announced"}]
  /\ commands \subseteq Components /\ published \subseteq PVs /\ registry \subseteq PVs
  /\ started \subseteq Machines
  /\ stack \in Seq(FrameType)
  /\ held \subseteq Roots /\ last \in [Roots -> {"new", "init", "deinit", "failed"}]
  /\ calls \in 0 .. MaxCalls /\ aborted \in BOOLEAN

\* Who has the mutex is in a call of a root, and only the holder walks.
CallInv ==
  /\ request \in [Threads -> [kind : {"none", "init", "deinit", "failed"}, root : Roots \cup {NoNode}]]
  /\ \A t \in Threads : IF request[t].kind = "none" THEN request[t] = NoCall ELSE request[t].root \in Roots
  /\ holder \in Threads \cup {NoThread}
  /\ holder # NoThread => request[holder].kind # "none"
  /\ \A t \in Threads : request[t].kind = "failed" => t = holder
  /\ stack # <<>> => holder # NoThread /\ Mode \in {"init", "deinit"}

\* A component with children under it has opened its interface if it is a port.
ParentInv ==
  /\ Chained(parent)
  /\ \A c \in Components : parent[c] \in Ports => interface[parent[c]] # "none"

\* What has been done for a component by the time its function is at a place.
FrameOK(f) ==
  /\ f.at \in PlacesOf(Mode, f.node)
  /\ ToSet(f.todo) \subseteq ToSet(Children[f.node]) /\ IsInjective(f.todo)
  /\ Mode = "init" =>
       /\ Past(f) => \A c \in ToSet(Children[f.node]) : parent[c] = f.node
       /\ f.node \in Ports /\ f.at # "interface" => interface[f.node] # "none"
       /\ f.at \notin {"interface", "command"} => f.node \in commands
  /\ f.at \in {"announce", "start"} => f.todo = <<>>
  /\ f.at = "register" => f.node \in published /\ PortOf(f.node) # NoNode
  /\ f.node \in PVs /\ f.at \in {"uncommand", "unpublish"} => f.node \notin registry

\* A function called another one from its loop over the children.
Calls(f, g) ==
  f.at = "children" /\ g.node \in ToSet(Children[f.node]) /\ g.node \notin ToSet(f.todo)

WalkInv ==
  /\ \A f \in ToSet(stack) : FrameOK(f)
  /\ \A k \in 1 .. Len(stack) - 1 : Calls(stack[k], stack[k + 1])
  /\ stack # <<>> => stack[1].node = Root

\* What can be found by name has a port, which knows it.
FoundInv == \A p \in registry : p \in published /\ PortOf(p) # NoNode

KInv == Typed /\ CallInv /\ ParentInv /\ WalkInv /\ FoundInv

-----------------------------------------------------------------------------
(* How a step changes the stack                                             *)

\* A function that is inside of one of its children.
Lower(g) == g \in ToSet(stack) /\ g.at = "children"

\* The innermost function is well formed, and the others are in their loops.
LEMMA TopOfStack ==
  ASSUME Typed, WalkInv, stack # <<>>
  PROVE  /\ Top \in FrameType /\ Top \in ToSet(stack) /\ FrameOK(Top) /\ Top = stack[Len(stack)]
         /\ Len(stack) \in Nat \ {0} /\ DOMAIN stack = 1 .. Len(stack)
         /\ \A k \in 1 .. Len(stack) - 1 : stack[k] \in FrameType /\ Lower(stack[k])
  <1>1. Len(stack) \in Nat \ {0} /\ Top = stack[Len(stack)] /\ Top \in FrameType /\ DOMAIN stack = 1 .. Len(stack)
    BY TopFacts DEF Typed, Top
  <1>2. \A k \in 1 .. Len(stack) : stack[k] \in ToSet(stack) /\ stack[k] \in FrameType
    BY <1>1 DEF ToSet, Typed
  <1>3. \A k \in 1 .. Len(stack) - 1 : k \in 1 .. Len(stack) /\ Calls(stack[k], stack[k + 1])
    BY <1>1 DEF WalkInv
  <1>4. Len(stack) \in 1 .. Len(stack)
    BY <1>1
  <1> QED BY <1>1, <1>2, <1>3, <1>4 DEF WalkInv, Lower, Calls

\* The innermost one is now f.
Moved(f) ==
  /\ stack' \in Seq(FrameType) /\ stack' # <<>> /\ Len(stack') = Len(stack) /\ stack'[Len(stack)] = f
  /\ \A k \in 1 .. Len(stack) - 1 : stack'[k] = stack[k]
  /\ \A g \in ToSet(stack') : g = f \/ Lower(g)

\* It has called g.
Nested(f, g) ==
  /\ stack' \in Seq(FrameType) /\ stack' # <<>> /\ Len(stack') = Len(stack) + 1
  /\ stack'[Len(stack)] = f /\ stack'[Len(stack) + 1] = g
  /\ \A k \in 1 .. Len(stack) - 1 : stack'[k] = stack[k]
  /\ \A h \in ToSet(stack') : h = f \/ h = g \/ Lower(h)

\* It has returned.
Popped ==
  /\ stack' \in Seq(FrameType) /\ Len(stack') = Len(stack) - 1
  /\ \A k \in 1 .. Len(stack) - 1 : stack'[k] = stack[k]
  /\ \A g \in ToSet(stack') : Lower(g)

\* A function that goes on to another place leaves those it is called from as they are.
LEMMA Moves ==
  ASSUME Typed, WalkInv, stack # <<>>, NEW f \in FrameType, Replace(f)
  PROVE  Moved(f)
  <1> DEFINE n == Len(stack)
  <1>1. stack' = Replaced(stack, f) /\ stack \in Seq(FrameType)
    BY DEF Replace, Replaced, Typed
  <1>2. /\ stack' \in Seq(FrameType) /\ Len(stack') = n /\ stack'[n] = f
        /\ \A k \in 1 .. n - 1 : stack'[k] = stack[k]
    <2> HIDE DEF n
    <2>0. stack \in Seq(FrameType)
      BY <1>1
    <2>1. LET r == Replaced(stack, f) IN
          /\ r \in Seq(FrameType) /\ Len(r) = Len(stack) /\ r[Len(stack)] = f
          /\ \A k \in 1 .. Len(stack) - 1 : r[k] = stack[k]
      <3> HIDE DEF FrameType
      <3>1. stack # <<>> /\ f \in FrameType
        OBVIOUS
      <3> QED BY ONLY <2>0, <3>1, ReplaceFacts
    <2> QED BY <1>1, <2>1 DEF n
  <1>3. n \in Nat \ {0} /\ \A k \in 1 .. n - 1 : Lower(stack[k])
    BY TopOfStack
  <1>4. DOMAIN stack' = 1 .. n
    BY <1>2
  <1>5. ASSUME NEW g \in ToSet(stack') PROVE g = f \/ Lower(g)
    <2>1. PICK k \in 1 .. n : g = stack'[k]
      BY <1>4 DEF ToSet
    <2>2. k = n \/ k \in 1 .. n - 1
      BY <1>3
    <2> QED BY <1>2, <1>3, <2>1, <2>2
  <1>6. stack' # <<>>
    BY <1>2, <1>3
  <1> QED BY <1>2, <1>5, <1>6 DEF Moved

\* A call of a child comes on top; what called it is in the loop over the children.
LEMMA Nests ==
  ASSUME Typed, WalkInv, stack # <<>>, NEW f \in FrameType, NEW g \in FrameType,
         stack' = Pushed(stack, f, g)
  PROVE  Nested(f, g)
  <1> DEFINE n == Len(stack)
  <1>2. /\ stack' \in Seq(FrameType) /\ Len(stack') = n + 1 /\ stack'[n] = f /\ stack'[n + 1] = g
        /\ \A k \in 1 .. n - 1 : stack'[k] = stack[k]
    <2> HIDE DEF n
    <2>1. stack \in Seq(FrameType)
      BY DEF Typed
    <2>2. LET r == Pushed(stack, f, g) IN
          /\ r \in Seq(FrameType) /\ Len(r) = Len(stack) + 1
          /\ r[Len(stack)] = f /\ r[Len(stack) + 1] = g
          /\ \A k \in 1 .. Len(stack) - 1 : r[k] = stack[k]
      <3> HIDE DEF FrameType
      <3>1. stack # <<>> /\ f \in FrameType /\ g \in FrameType
        OBVIOUS
      <3> QED BY ONLY <2>1, <3>1, PushFacts
    <2> QED BY <2>2 DEF n
  <1>3. n \in Nat \ {0} /\ \A k \in 1 .. n - 1 : Lower(stack[k])
    BY TopOfStack
  <1>4. DOMAIN stack' = 1 .. n + 1
    BY <1>2
  <1>5. ASSUME NEW h \in ToSet(stack') PROVE h = f \/ h = g \/ Lower(h)
    <2>1. PICK k \in 1 .. n + 1 : h = stack'[k]
      BY <1>4 DEF ToSet
    <2>2. k = n + 1 \/ k = n \/ k \in 1 .. n - 1
      BY <1>3
    <2> QED BY <1>2, <1>3, <2>1, <2>2
  <1>6. stack' # <<>>
    BY <1>2, <1>3
  <1> QED BY <1>2, <1>5, <1>6 DEF Nested

\* A return leaves the callers, which still have what they had to do.
LEMMA Pops ==
  ASSUME Typed, WalkInv, stack # <<>>, Leave
  PROVE  Popped
  <1> DEFINE n == Len(stack)
  <1>1. stack' = Front(stack) /\ stack \in Seq(FrameType)
    BY DEF Leave, Typed
  <1>2. /\ stack' \in Seq(FrameType) /\ Len(stack') = n - 1
        /\ \A k \in 1 .. n - 1 : stack'[k] = stack[k]
    BY <1>1, PopFacts
  <1>3. n \in Nat \ {0} /\ \A k \in 1 .. n - 1 : Lower(stack[k])
    BY TopOfStack
  <1>4. DOMAIN stack' = 1 .. n - 1
    BY <1>2, <1>3
  <1>5. ASSUME NEW g \in ToSet(stack') PROVE Lower(g)
    <2>1. PICK k \in 1 .. n - 1 : g = stack'[k]
      BY <1>4 DEF ToSet
    <2> QED BY <1>2, <1>3, <2>1
  <1> QED BY <1>2, <1>5 DEF Popped

\* What a step of the walk leaves as it is, unless it throws.
Steady ==
  /\ request' = request /\ holder' = holder
  /\ \A c \in Components : parent[c] # NoNode => parent'[c] = parent[c]
  /\ \A p \in Ports : interface[p] # "none" => interface'[p] # "none"
  /\ Mode = "init" => commands \subseteq commands'

\* A function in its loop stays well formed.
LEMMA LowerKept ==
  ASSUME WalkInv, Steady, NEW g \in FrameType, Lower(g)
  PROVE  FrameOK(g)'
  <1>1. FrameOK(g) /\ g.at = "children" /\ Mode' = Mode
    BY DEF Lower, WalkInv, Steady, Mode
  <1>2. g.at # "announce" /\ g.at # "start" /\ g.at # "register" /\ g.at \notin {"uncommand", "unpublish"}
        /\ g.at \notin {"interface", "command"}
    BY <1>1
  <1>3. ASSUME Mode = "init"
        PROVE  /\ \A c \in ToSet(Children[g.node]) : parent'[c] = g.node
               /\ g.node \in Ports => interface'[g.node] # "none"
               /\ g.node \in commands'
    <2>1. g.node \in Components /\ Past(g)
      BY <1>1 DEF FrameType, Past
    <2>2. ToSet(Children[g.node]) \subseteq Components /\ g.node # NoNode
      BY <2>1, LifecycleAssumption, TreeFacts
    <2>3. \A c \in ToSet(Children[g.node]) : parent[c] = g.node
      BY <1>1, <1>3, <2>1 DEF FrameOK
    <2>4. g.node \in commands /\ (g.node \in Ports => interface[g.node] # "none")
      BY <1>1, <1>2, <1>3 DEF FrameOK
    <2> QED BY <1>3, <2>2, <2>3, <2>4 DEF Steady
  <1> QED BY <1>1, <1>2, <1>3 DEF FrameOK

\* The innermost function goes on to a place where it is well formed.
LEMMA WalkMoves ==
  ASSUME Typed, WalkInv, stack # <<>>, Steady, NEW f \in FrameType, Moved(f),
         f.node = Top.node, FrameOK(f)'
  PROVE  WalkInv'
  <1> DEFINE n == Len(stack)
  <1>1. n \in Nat \ {0} /\ Top = stack[n] /\ \A k \in 1 .. n - 1 : Lower(stack[k])
    BY TopOfStack
  <1>2. /\ Len(stack') = n /\ stack'[n] = f /\ \A k \in 1 .. n - 1 : stack'[k] = stack[k]
        /\ stack' \in Seq(FrameType) /\ \A g \in ToSet(stack') : g = f \/ Lower(g)
    BY DEF Moved
  <1>3. \A k \in 1 .. n - 1 : Calls(stack[k], stack[k + 1])
    BY DEF WalkInv
  <1>4. stack[1].node = Root /\ Root' = Root
    BY DEF WalkInv, Steady, Root
  <1> HIDE DEF n
  <1>5. ASSUME NEW g \in ToSet(stack') PROVE FrameOK(g)'
    <2>1. g \in FrameType
      BY <1>2 DEF ToSet
    <2>2. CASE g = f
      BY <2>2
    <2>3. CASE Lower(g)
      BY <2>1, <2>3, LowerKept
    <2> QED BY <1>2, <2>2, <2>3
  <1>6. ASSUME NEW k \in 1 .. n - 1 PROVE Calls(stack'[k], stack'[k + 1])
    <2>1. stack'[k] = stack[k] /\ Calls(stack[k], stack[k + 1])
      BY <1>2, <1>3
    <2>2. CASE k + 1 = n
      <3>1. stack'[k + 1].node = stack[k + 1].node
        BY <1>1, <1>2, <2>2
      <3> QED BY <2>1, <3>1 DEF Calls
    <2>3. CASE k + 1 # n
      <3>1. k + 1 \in 1 .. n - 1
        BY <1>1, <2>3
      <3> QED BY <1>2, <2>1, <3>1
    <2> QED BY <2>2, <2>3
  <1>7. stack'[1].node = Root'
    <2>1. CASE n = 1
      BY <1>1, <1>2, <1>4, <2>1
    <2>2. CASE n # 1
      <3>1. 1 \in 1 .. n - 1
        BY <1>1, <2>2
      <3> QED BY <1>2, <1>4, <3>1
    <2> QED BY <2>1, <2>2
  <1> QED BY <1>2, <1>5, <1>6, <1>7 DEF WalkInv

\* It calls that of a child.
LEMMA WalkNests ==
  ASSUME Typed, WalkInv, stack # <<>>, Steady, NEW f \in FrameType, NEW g \in FrameType, Nested(f, g),
         f.node = Top.node, FrameOK(f)', FrameOK(g)', Calls(f, g)
  PROVE  WalkInv'
  <1> DEFINE n == Len(stack)
  <1>1. n \in Nat \ {0} /\ Top = stack[n] /\ \A k \in 1 .. n - 1 : Lower(stack[k])
    BY TopOfStack
  <1>2. /\ Len(stack') = n + 1 /\ stack'[n] = f /\ stack'[n + 1] = g
        /\ \A k \in 1 .. n - 1 : stack'[k] = stack[k]
        /\ stack' \in Seq(FrameType) /\ \A h \in ToSet(stack') : h = f \/ h = g \/ Lower(h)
    BY DEF Nested
  <1>3. \A k \in 1 .. n - 1 : Calls(stack[k], stack[k + 1])
    BY DEF WalkInv
  <1>4. stack[1].node = Root /\ Root' = Root
    BY DEF WalkInv, Steady, Root
  <1> HIDE DEF n
  <1>5. ASSUME NEW h \in ToSet(stack') PROVE FrameOK(h)'
    <2>1. h \in FrameType
      BY <1>2 DEF ToSet
    <2>2. CASE h = f \/ h = g
      BY <2>2
    <2>3. CASE Lower(h)
      BY <2>1, <2>3, LowerKept
    <2> QED BY <1>2, <2>2, <2>3
  <1>6. ASSUME NEW k \in 1 .. n PROVE Calls(stack'[k], stack'[k + 1])
    <2>1. CASE k = n
      BY <1>2, <2>1
    <2>2. CASE k # n /\ k + 1 = n
      <3>1. k \in 1 .. n - 1
        BY <1>1, <2>2
      <3>2. stack'[k] = stack[k] /\ stack'[k + 1].node = stack[k + 1].node /\ Calls(stack[k], stack[k + 1])
        BY <1>1, <1>2, <1>3, <2>2, <3>1
      <3> QED BY <3>2 DEF Calls
    <2>3. CASE k # n /\ k + 1 # n
      <3>1. k \in 1 .. n - 1 /\ k + 1 \in 1 .. n - 1
        BY <1>1, <2>3
      <3> QED BY <1>2, <1>3, <3>1
    <2> QED BY <2>1, <2>2, <2>3
  <1>7. stack'[1].node = Root'
    <2>1. CASE n = 1
      BY <1>1, <1>2, <1>4, <2>1
    <2>2. CASE n # 1
      <3>1. 1 \in 1 .. n - 1
        BY <1>1, <2>2
      <3> QED BY <1>2, <1>4, <3>1
    <2> QED BY <2>1, <2>2
  <1>8. Len(stack') - 1 = n
    BY <1>1, <1>2
  <1>9. \A k \in 1 .. Len(stack') - 1 : Calls(stack'[k], stack'[k + 1])
    BY <1>6, <1>8
  <1> QED BY <1>5, <1>7, <1>9 DEF WalkInv

\* It returns.
LEMMA WalkPops ==
  ASSUME Typed, WalkInv, stack # <<>>, Steady, Popped
  PROVE  WalkInv'
  <1> DEFINE n == Len(stack)
  <1>1. n \in Nat \ {0}
    BY TopOfStack
  <1>2. /\ Len(stack') = n - 1 /\ \A k \in 1 .. n - 1 : stack'[k] = stack[k]
        /\ stack' \in Seq(FrameType) /\ \A g \in ToSet(stack') : Lower(g)
    BY DEF Popped
  <1>3. \A k \in 1 .. n - 1 : Calls(stack[k], stack[k + 1])
    BY DEF WalkInv
  <1>4. stack[1].node = Root /\ Root' = Root
    BY DEF WalkInv, Steady, Root
  <1> HIDE DEF n
  <1>5. ASSUME NEW g \in ToSet(stack') PROVE FrameOK(g)'
    <2>1. g \in FrameType
      BY <1>2 DEF ToSet
    <2> QED BY <1>2, <2>1, LowerKept
  <1>6. ASSUME NEW k \in 1 .. n - 1 - 1 PROVE Calls(stack'[k], stack'[k + 1])
    <2>1. k \in 1 .. n - 1 /\ k + 1 \in 1 .. n - 1
      BY <1>1
    <2> QED BY <1>2, <1>3, <2>1
  <1>7. ASSUME stack' # <<>> PROVE stack'[1].node = Root'
    <2>1. n - 1 # 0
      BY <1>2, <1>7, EmptySeq
    <2>2. 1 \in 1 .. n - 1
      BY <1>1, <2>1
    <2> QED BY <1>2, <1>4, <2>2
  <1> QED BY <1>2, <1>5, <1>6, <1>7 DEF WalkInv

\* An exception leaves it.
LEMMA WalkThrown ==
  ASSUME stack' = <<>>
  PROVE  WalkInv'
  <1>1. ToSet(stack') = {} /\ 1 .. Len(stack') - 1 = {}
    BY DEF ToSet
  <1> QED BY <1>1 DEF WalkInv

-----------------------------------------------------------------------------
(* What every step leaves                                                   *)

\* A component is of one kind.
LEMMA KindFacts ==
  /\ PVs \subseteq Components /\ Ports \subseteq Components /\ Machines \subseteq Components
  /\ PVs \cap Ports = {} /\ PVs \cap Machines = {} /\ Ports \cap Machines = {}
  /\ \A c \in Components \ (PVs \cup Ports \cup Machines) : Kind[c] = "node"
  /\ \A c \in Ports \cup Machines : Kind[c] # "node"
  BY LifecycleAssumption DEF PVs, Ports, Machines, Kinds

\* getPort in the state after a step, and that it keeps its answer.
LEMMA PortIsNearestNext == \A c : PortOf(c)' = Nearest(parent')[c]
  BY DEF PortOf, Nearest, Answer

\* A port that was found is found again, as parents are set once.
LEMMA PortStays ==
  ASSUME Chained(parent), Chained(parent'),
         \A c \in Components : parent[c] # NoNode => parent'[c] = parent[c],
         NEW c \in Components, PortOf(c) # NoNode
  PROVE  PortOf(c)' = PortOf(c)
  <1>1. PortOf(c) = Nearest(parent)[c] /\ PortOf(c)' = Nearest(parent')[c]
    BY PortIsNearest, PortIsNearestNext
  <1>2. ASSUME NEW par, par = parent, NEW par2, par2 = parent'
        PROVE  Nearest(par2)[c] = Nearest(par)[c]
    BY <1>1, <1>2, NearestStays
  <1> QED BY <1>1, <1>2

\* A function begins well formed.
LEMMA EnterFacts ==
  ASSUME NEW c \in Components, NEW kind \in {"init", "deinit"}, NEW f, f = Enter(kind, c), Mode' = kind
  PROVE  f \in FrameType /\ f.node = c /\ f.todo = <<>> /\ FrameOK(f)' /\ ~ Past(f)
  <1>1. /\ f = [node |-> c, at |-> f.at, todo |-> <<>>]
        /\ f.at = IF kind = "deinit" THEN IF c \in PVs THEN "deregister" ELSE "uncommand"
                  ELSE IF c \in Ports THEN "interface" ELSE "command"
    BY DEF Enter, Frame
  <1>2. f \in FrameType /\ f.node = c /\ f.todo = <<>>
    <2>1. f.at \in Places
      <3>1. f.at \in {"deregister", "uncommand", "interface", "command"}
        BY <1>1
      <3> QED BY <3>1 DEF Places
    <2>2. PICK p \in Places : p = f.at
      BY <2>1
    <2>3. f = [node |-> c, at |-> p, todo |-> <<>>]
      BY <1>1, <2>2
    <2> HIDE DEF Places
    <2> QED BY ONLY <2>2, <2>3, c \in Components DEF FrameType
  <1>3. ToSet(f.todo) = {} /\ IsInjective(f.todo)
    BY <1>2 DEF ToSet, IsInjective
  <1>4. f.at \in PlacesOf(kind, c)
    BY <1>1, KindFacts DEF PlacesOf
  <1>5. /\ f.at \notin {"children", "announce", "start", "register", "unpublish"}
        /\ f.at = "uncommand" => c \notin PVs
        /\ kind = "init" => f.at \in {"interface", "command"} /\ (c \in Ports => f.at = "interface")
    BY <1>1
  <1> QED BY <1>2, <1>3, <1>4, <1>5 DEF FrameOK, Past

\* What does not depend on the step, if the registers lose nothing they need.
LEMMA OthersKept ==
  ASSUME KInv, stack # <<>>, Steady, parent' = parent,
         registry' \subseteq registry, registry' \subseteq published'
  PROVE  CallInv' /\ ParentInv' /\ FoundInv'
  <1>1. CallInv'
    BY DEF KInv, CallInv, Steady, Mode
  <1>2. Chained(parent')
    BY DEF KInv, ParentInv
  <1>3. ParentInv'
    BY <1>2 DEF KInv, ParentInv, Steady
  <1>4. ASSUME NEW p \in registry' PROVE p \in published' /\ PortOf(p)' # NoNode
    <2>1. p \in registry /\ p \in Components /\ PortOf(p) # NoNode
      BY <1>4, KindFacts DEF KInv, FoundInv, Typed
    <2>2. PortOf(p)' = PortOf(p)
      BY <1>2, <2>1, PortStays DEF KInv, ParentInv
    <2> QED BY <1>4, <2>1, <2>2
  <1> QED BY <1>1, <1>3, <1>4 DEF FoundInv

\* An exception changes who is in a call, and where, only.
LEMMA ThrowFacts ==
  ASSUME KInv, stack # <<>>, Throw
  PROVE  CallInv' /\ WalkInv' /\ stack' = <<>> /\ stack' \in Seq(FrameType)
  <1>1. stack' = <<>> /\ holder' = holder /\ holder \in Threads
    BY DEF KInv, CallInv, Throw
  <1>2. request' = [request EXCEPT ![holder] = [@ EXCEPT !.kind = "failed"]]
    BY DEF Throw
  <1>3. /\ request'[holder].kind = "failed" /\ request'[holder].root = request[holder].root
        /\ request'[holder] \in [kind : {"none", "init", "deinit", "failed"}, root : Roots \cup {NoNode}]
        /\ \A t \in Threads \ {holder} : request'[t] = request[t]
    BY <1>1, <1>2 DEF KInv, CallInv
  <1>4. request' \in [Threads -> [kind : {"none", "init", "deinit", "failed"}, root : Roots \cup {NoNode}]]
    BY <1>2, <1>3 DEF KInv, CallInv
  <1>5. request[holder].root \in Roots
    BY <1>1 DEF KInv, CallInv
  <1>6. CallInv'
    <2>1. \A t \in Threads : IF request'[t].kind = "none" THEN request'[t] = NoCall ELSE request'[t].root \in Roots
      BY <1>1, <1>3, <1>5 DEF KInv, CallInv
    <2>2. \A t \in Threads : request'[t].kind = "failed" => t = holder'
      BY <1>1, <1>3 DEF KInv, CallInv
    <2> QED BY <1>1, <1>3, <1>4, <2>1, <2>2 DEF CallInv, KInv
  <1> QED BY <1>1, <1>6, WalkThrown

\* And so does a step that throws, when it has registered nothing.
LEMMA ThrownKept ==
  ASSUME KInv, stack # <<>>, Throw, UNCHANGED <<parent, interface, published, registry>>
  PROVE  CallInv' /\ WalkInv' /\ ParentInv' /\ FoundInv'
  <1>1. CallInv' /\ WalkInv'
    BY ThrowFacts
  <1>2. ParentInv'
    BY DEF KInv, ParentInv
  <1>3. \A p \in registry : PortOf(p)' = PortOf(p)
    <2> SUFFICES ASSUME NEW p \in registry PROVE PortOf(p)' = PortOf(p)
      OBVIOUS
    <2>1. p \in Components /\ PortOf(p) # NoNode
      BY KindFacts DEF KInv, FoundInv, Typed
    <2> QED BY <2>1, PortStays DEF KInv, ParentInv
  <1>4. FoundInv'
    BY <1>3 DEF KInv, FoundInv
  <1> QED BY <1>1, <1>2, <1>4

\* What the walk does not change.
LEMMA TypedKept ==
  ASSUME Typed, stack' \in Seq(FrameType), UNCHANGED <<held, last, calls>>,
         parent' \in [Components -> Components \cup {NoNode}], DOMAIN name' = Components,
         interface' \in [Ports -> {"none", "open", "announced"}],
         commands' \subseteq Components, published' \subseteq PVs, registry' \subseteq PVs,
         started' \subseteq Machines, aborted' \in BOOLEAN
  PROVE  Typed'
  BY DEF Typed

-----------------------------------------------------------------------------
(* Every step keeps the invariant                                           *)

\* The registers have their types after a step.
TypedNext ==
  /\ parent' \in [Components -> Components \cup {NoNode}] /\ DOMAIN name' = Components
  /\ interface' \in [Ports -> {"none", "open", "announced"}]
  /\ commands' \subseteq Components /\ published' \subseteq PVs /\ registry' \subseteq PVs
  /\ started' \subseteq Machines

\* A step in which the innermost function goes on.
LEMMA GoesOn ==
  ASSUME KInv, stack # <<>>, UNCHANGED callVars, Steady, TypedNext, parent' = parent,
         registry' \subseteq registry, registry' \subseteq published',
         NEW f \in FrameType, Replace(f), f.node = Top.node, FrameOK(f)'
  PROVE  KInv'
  <1>1. Moved(f)
    BY Moves DEF KInv
  <1>2. WalkInv'
    BY <1>1, WalkMoves DEF KInv
  <1>3. stack' \in Seq(FrameType)
    BY <1>1 DEF Moved
  <1>4. Typed'
    BY <1>3, TypedKept DEF KInv, TypedNext, callVars, Typed
  <1>5. CallInv' /\ ParentInv' /\ FoundInv'
    BY OthersKept
  <1> QED BY <1>2, <1>4, <1>5 DEF KInv

\* A step in which it returns.
LEMMA Returns ==
  ASSUME KInv, stack # <<>>, UNCHANGED callVars, Steady, TypedNext, parent' = parent,
         registry' \subseteq registry, registry' \subseteq published', Leave
  PROVE  KInv'
  <1>1. Popped
    BY Pops DEF KInv
  <1>2. WalkInv'
    BY <1>1, WalkPops DEF KInv
  <1>3. stack' \in Seq(FrameType)
    BY <1>1 DEF Popped
  <1>4. Typed'
    BY <1>3, TypedKept DEF KInv, TypedNext, callVars, Typed
  <1>5. CallInv' /\ ParentInv' /\ FoundInv'
    BY OthersKept
  <1> QED BY <1>2, <1>4, <1>5 DEF KInv

\* A step in which it throws, having registered nothing.
LEMMA Throws ==
  ASSUME KInv, stack # <<>>, Throw, TypedNext, UNCHANGED <<parent, interface, published, registry>>
  PROVE  KInv'
  <1>1. CallInv' /\ WalkInv' /\ ParentInv' /\ FoundInv'
    BY ThrownKept
  <1>2. stack' \in Seq(FrameType)
    BY ThrowFacts
  <1>3. Typed'
    BY <1>2, TypedKept DEF KInv, TypedNext, Throw, Typed
  <1> QED BY <1>1, <1>3 DEF KInv

\* The innermost function at another place, of which well-formedness is known.
LEMMA GoneTo ==
  ASSUME KInv, stack # <<>>, NEW place \in Places
  PROVE  LET f == [Top EXCEPT !.at = place] IN
         f \in FrameType /\ f.node = Top.node /\ f.at = place /\ f.todo = Top.todo
  <1>1. Top \in FrameType
    BY TopOfStack DEF KInv
  <1> QED BY <1>1 DEF FrameType

\* Whose loop over the children begins.
LEMMA GoneDown ==
  ASSUME KInv, stack # <<>>
  PROVE  LET f == [Top EXCEPT !.at = "children", !.todo = Children[Top.node]] IN
         f \in FrameType /\ f.node = Top.node /\ f.at = "children" /\ f.todo = Children[Top.node]
  <1>1. Top \in FrameType /\ Children \in [Components -> Seq(Components)]
    BY TopOfStack, LifecycleAssumption DEF KInv
  <1>2. Top.node \in Components /\ Children[Top.node] \in Seq(Components) /\ "children" \in Places
    BY <1>1 DEF FrameType, Places
  <1> HIDE DEF Places
  <1> QED BY <1>1, <1>2 DEF FrameType

\* The start of the system.
LEMMA KInit == Init => KInv
  <1> SUFFICES ASSUME Init PROVE KInv
    OBVIOUS
  <1>1. stack = <<>> /\ ToSet(stack) = {} /\ 1 .. Len(stack) - 1 = {} /\ stack \in Seq(FrameType)
    BY DEF Init, ToSet
  <1>2. Typed
    <2>1. parent \in [Components -> Components \cup {NoNode}] /\ DOMAIN name = Components
      BY DEF Init
    <2>2. interface \in [Ports -> {"none", "open", "announced"}] /\ last \in [Roots -> {"new", "init", "deinit", "failed"}]
      BY DEF Init
    <2>3. calls \in 0 .. MaxCalls
      BY LifecycleAssumption DEF Init
    <2> QED BY <1>1, <2>1, <2>2, <2>3 DEF Init, Typed
  <1>3. CallInv
    <2>1. NoCall \in [kind : {"none", "init", "deinit", "failed"}, root : Roots \cup {NoNode}] /\ NoCall.kind = "none"
      BY DEF NoCall
    <2> QED BY <1>1, <2>1 DEF Init, CallInv
  <1>4. ParentInv
    BY LifecycleAssumption, KindFacts DEF Init, ParentInv, Chained
  <1>5. WalkInv
    BY <1>1 DEF WalkInv
  <1>6. FoundInv
    BY DEF Init, FoundInv
  <1> QED BY <1>2, <1>3, <1>4, <1>5, <1>6 DEF KInv

\* getPort looks at the parents only.
LEMMA PortSame ==
  ASSUME parent' = parent, NEW c
  PROVE  PortOf(c)' = PortOf(c)
  <1>1. PortOf(c) = Nearest(parent)[c] /\ PortOf(c)' = Nearest(parent')[c]
    BY PortIsNearest, PortIsNearestNext
  <1>2. ASSUME NEW par, par = parent, NEW par2, par2 = parent'
        PROVE  Nearest(par2)[c] = Nearest(par)[c]
    BY <1>2
  <1> QED BY <1>1, <1>2

\* What a step that is none of the walk keeps,
LEMMA OutsideKept ==
  ASSUME KInv, UNCHANGED <<treeVars, registers>>
  PROVE  ParentInv' /\ FoundInv'
  <1>1. UNCHANGED <<parent, interface, published, registry>>
    BY DEF treeVars, registers
  <1>2. \A c : PortOf(c)' = PortOf(c)
    BY <1>1, PortSame
  <1>3. ParentInv'
    BY <1>1 DEF KInv, ParentInv
  <1>4. FoundInv'
    BY <1>1, <1>2 DEF KInv, FoundInv
  <1> QED BY <1>3, <1>4

\* when nobody walks, or the holder is where it was.
LEMMA WalkStays ==
  ASSUME KInv, UNCHANGED <<treeVars, registers, stack>>,
         stack # <<>> => Mode' = Mode /\ Root' = Root
  PROVE  WalkInv'
  <1>1. UNCHANGED <<parent, commands, interface, published, registry, stack>>
    BY DEF treeVars, registers
  <1>2. \A c : PortOf(c)' = PortOf(c)
    BY <1>1, PortSame
  <1>3. ASSUME NEW f \in ToSet(stack) PROVE FrameOK(f)'
    <2>1. stack # <<>> /\ FrameOK(f)
      BY <1>3 DEF KInv, WalkInv, ToSet
    <2> QED BY <1>1, <1>2, <2>1 DEF FrameOK
  <1> QED BY <1>1, <1>3 DEF KInv, WalkInv

\* A client asks for an initialization or deinitialization: nothing is touched yet.
LEMMA KCalls ==
  ASSUME KInv, NEW t \in Threads, NEW r \in Roots, CallInitialize(t, r) \/ CallDeinitialize(t, r)
  PROVE  KInv'
  <1>1. PICK k \in {"init", "deinit"} :
             /\ request[t] = NoCall /\ request' = [request EXCEPT ![t] = [kind |-> k, root |-> r]]
             /\ UNCHANGED <<treeVars, registers, holder, stack, held, last, aborted>>
             /\ (calls < MaxCalls /\ calls' = calls + 1) \/ calls' = calls
    BY DEF CallInitialize, CallDeinitialize
  <1>2. request[t].kind = "none"
    BY <1>1 DEF NoCall
  <1>3. /\ request'[t] = [kind |-> k, root |-> r] /\ \A u \in Threads \ {t} : request'[u] = request[u]
        /\ request' \in [Threads -> [kind : {"none", "init", "deinit", "failed"}, root : Roots \cup {NoNode}]]
    BY <1>1 DEF KInv, CallInv
  <1>4. holder # NoThread => holder # t /\ holder \in Threads /\ request'[holder] = request[holder]
    BY <1>2, <1>3 DEF KInv, CallInv
  <1>5. stack # <<>> => Mode' = Mode /\ Root' = Root
    BY <1>1, <1>4 DEF KInv, CallInv, Mode, Root
  <1>6. WalkInv' /\ ParentInv' /\ FoundInv'
    BY <1>1, <1>5, WalkStays, OutsideKept
  <1>7. CallInv'
    <2>1. \A u \in Threads : IF request'[u].kind = "none" THEN request'[u] = NoCall ELSE request'[u].root \in Roots
      BY <1>3 DEF KInv, CallInv
    <2>2. \A u \in Threads : request'[u].kind = "failed" => u = holder'
      BY <1>1, <1>3 DEF KInv, CallInv
    <2>3. holder' \in Threads \cup {NoThread} /\ (holder' # NoThread => request'[holder'].kind # "none")
      BY <1>1, <1>4 DEF KInv, CallInv
    <2>4. stack' # <<>> => holder' # NoThread /\ Mode' \in {"init", "deinit"}
      BY <1>1, <1>5 DEF KInv, CallInv
    <2> QED BY <1>3, <2>1, <2>2, <2>3, <2>4 DEF CallInv
  <1>8. Typed'
    <2>1. calls' \in 0 .. MaxCalls
      BY <1>1, LifecycleAssumption DEF KInv, Typed
    <2> QED BY <1>1, <2>1 DEF KInv, Typed, treeVars, registers
  <1> QED BY <1>6, <1>7, <1>8 DEF KInv

\* The holder begins at the root, with an empty stack before.
LEMMA KLock ==
  ASSUME KInv, NEW t \in Threads, Lock(t)
  PROVE  KInv'
  <1>0. PICK f : f = Enter(request[t].kind, request[t].root)
    OBVIOUS
  <1>1. /\ request[t] # NoCall /\ holder = NoThread /\ holder' = t /\ stack' = <<f>>
        /\ UNCHANGED <<treeVars, registers, request, held, last, calls, aborted>>
    BY <1>0 DEF Lock
  <1>2. request[t].kind \in {"init", "deinit"} /\ request[t].root \in Roots /\ t # NoThread
    BY <1>1, LifecycleAssumption DEF KInv, CallInv
  <1>3. request[t].root \in Components /\ Mode' = request[t].kind /\ Root' = request[t].root
    BY <1>1, <1>2, LifecycleAssumption DEF Mode, Root
  <1>4. f \in FrameType /\ f.node = request[t].root /\ FrameOK(f)'
    BY <1>0, <1>2, <1>3, EnterFacts
  <1>5. stack = <<>>
    BY <1>1 DEF KInv, CallInv
  <1>6. ParentInv' /\ FoundInv'
    BY <1>1, OutsideKept
  <1>7. ToSet(stack') = {f} /\ Len(stack') = 1 /\ stack'[1] = f /\ stack' \in Seq(FrameType)
    BY <1>1, <1>4 DEF ToSet
  <1>8. WalkInv'
    <2>1. \A k \in 1 .. Len(stack') - 1 : Calls(stack'[k], stack'[k + 1])
      BY <1>7
    <2>2. \A g \in ToSet(stack') : FrameOK(g)'
      BY <1>4, <1>7
    <2>3. stack'[1].node = Root'
      BY <1>3, <1>4, <1>7
    <2> QED BY <2>1, <2>2, <2>3 DEF WalkInv
  <1>9. CallInv'
    <2>1. \A u \in Threads : request'[u].kind = "failed" => u = holder'
      BY <1>1, LifecycleAssumption DEF KInv, CallInv
    <2> QED BY <1>1, <1>2, <1>3, <2>1 DEF KInv, CallInv
  <1>10. Typed'
    BY <1>1, <1>7 DEF KInv, Typed, treeVars, registers
  <1> QED BY <1>6, <1>8, <1>9, <1>10 DEF KInv

\* The end of a call, by return or by exception.
LEMMA KUnlock ==
  ASSUME KInv, NEW t \in Threads, Unlock(t)
  PROVE  KInv'
  <1>1. /\ holder = t /\ stack = <<>> /\ holder' = NoThread
        /\ request' = [request EXCEPT ![t] = NoCall]
        /\ UNCHANGED <<treeVars, registers, stack, calls, aborted>>
    BY DEF Unlock
  <1>2. WalkInv' /\ ParentInv' /\ FoundInv'
    BY <1>1, WalkStays, OutsideKept
  <1>3. request[t].root \in Roots /\ request[t].kind \in {"init", "deinit", "failed"}
    BY <1>1, LifecycleAssumption DEF KInv, CallInv
  <1>4. held' \subseteq Roots /\ last' \in [Roots -> {"new", "init", "deinit", "failed"}]
    <2>1. held' = held \cup {request[t].root} \/ held' = held \ {request[t].root} \/ held' = held
      BY <1>3 DEF Unlock
    <2>2. last' = [last EXCEPT ![request[t].root] = request[t].kind]
      BY DEF Unlock
    <2> QED BY <1>3, <2>1, <2>2 DEF KInv, Typed
  <1>5. Typed'
    BY <1>1, <1>4 DEF KInv, Typed, treeVars, registers
  <1>6. CallInv'
    <2>1. NoCall \in [kind : {"none", "init", "deinit", "failed"}, root : Roots \cup {NoNode}] /\ NoCall.kind = "none"
      BY DEF NoCall
    <2>2. request'[t] = NoCall /\ \A u \in Threads \ {t} : request'[u] = request[u]
      BY <1>1 DEF KInv, CallInv
    <2>3. request' \in [Threads -> [kind : {"none", "init", "deinit", "failed"}, root : Roots \cup {NoNode}]]
      BY <1>1, <2>1 DEF KInv, CallInv
    <2>4. \A u \in Threads : IF request'[u].kind = "none" THEN request'[u] = NoCall ELSE request'[u].root \in Roots
      BY <2>1, <2>2 DEF KInv, CallInv
    <2>5. \A u \in Threads : request'[u].kind = "failed" => u = holder'
      BY <1>1, <2>1, <2>2 DEF KInv, CallInv
    <2> QED BY <1>1, <2>3, <2>4, <2>5 DEF CallInv
  <1> QED BY <1>2, <1>5, <1>6 DEF KInv

\* Where the holder is, and in what.
LEMMA Here ==
  ASSUME KInv, NEW place, At(place)
  PROVE  /\ stack # <<>> /\ Top \in FrameType /\ Top.node \in Components /\ Top.at = place
         /\ place \in PlacesOf(Mode, Top.node) /\ Mode \in {"init", "deinit"} /\ FrameOK(Top)
         /\ ToSet(Top.todo) \subseteq ToSet(Children[Top.node]) /\ IsInjective(Top.todo)
         /\ aborted = FALSE /\ holder \in Threads
  <1>1. stack # <<>> /\ Top.at = place /\ aborted = FALSE
    BY DEF At, KInv, Typed
  <1>2. Top \in FrameType /\ FrameOK(Top)
    BY <1>1, TopOfStack DEF KInv
  <1>3. Top.node \in Components
    BY <1>2 DEF FrameType
  <1> QED BY <1>1, <1>2, <1>3 DEF KInv, CallInv, FrameOK

\* Nothing but what a step says of the registers it changes.
LEMMA KTypes ==
  ASSUME KInv
  PROVE  /\ parent \in [Components -> Components \cup {NoNode}] /\ DOMAIN name = Components
         /\ interface \in [Ports -> {"none", "open", "announced"}]
         /\ commands \subseteq Components /\ published \subseteq PVs /\ registry \subseteq PVs
         /\ started \subseteq Machines
         /\ Chained(parent) /\ registry \subseteq published
  BY DEF KInv, Typed, ParentInv, FoundInv

\* A port asks for its interface, or the control system throws.
LEMMA KGetInterface ==
  ASSUME KInv, GetInterface
  PROVE  KInv'
  <1>1. At("interface") /\ UNCHANGED <<parent, name, commands, published, registry, started>>
    BY DEF GetInterface, treeVars
  <1>2. /\ stack # <<>> /\ Top.node \in Ports /\ Mode = "init" /\ FrameOK(Top) /\ Top.at = "interface"
        /\ ToSet(Top.todo) \subseteq ToSet(Children[Top.node]) /\ IsInjective(Top.todo)
    <2>1. /\ stack # <<>> /\ Top.node \in Components /\ "interface" \in PlacesOf(Mode, Top.node) /\ Mode \in {"init", "deinit"}
          /\ FrameOK(Top) /\ Top.at = "interface"
          /\ ToSet(Top.todo) \subseteq ToSet(Children[Top.node]) /\ IsInjective(Top.todo)
      BY <1>1, Here
    <2>2. Top.node \in Ports /\ Mode = "init"
      BY <2>1 DEF PlacesOf
    <2> QED BY <2>1, <2>2
  <1>3. CASE /\ interface' = [interface EXCEPT ![Top.node] = IF @ = "none" THEN "open" ELSE @]
             /\ Goto("command") /\ UNCHANGED callVars
    <2>0. PICK f : f = [Top EXCEPT !.at = "command"]
      OBVIOUS
    <2>1. f \in FrameType /\ f.node = Top.node /\ f.at = "command" /\ f.todo = Top.todo /\ Replace(f)
      <3>1. "command" \in Places
        BY DEF Places
      <3> QED BY <1>2, <1>3, <2>0, <3>1, GoneTo DEF Goto
    <2>2. /\ interface'[Top.node] # "none" /\ interface' \in [Ports -> {"none", "open", "announced"}]
          /\ \A p \in Ports : interface[p] # "none" => interface'[p] # "none"
      BY <1>2, <1>3, KTypes
    <2>3. Steady /\ TypedNext
      BY <1>1, <1>3, <2>2, KTypes DEF Steady, TypedNext, callVars
    <2>4. Mode' = "init"
      BY <1>2, <1>3 DEF Mode, callVars
    <2>5. "command" \in PlacesOf("init", f.node)
      BY <1>2, <2>1, KindFacts DEF PlacesOf
    <2>6. FrameOK(f)'
      BY <1>2, <2>1, <2>2, <2>4, <2>5 DEF FrameOK, Past
    <2> QED BY <1>1, <1>2, <1>3, <2>1, <2>3, <2>6, GoesOn, KTypes
  <1>4. CASE MayThrow("getNewInterface") /\ UNCHANGED interface
    BY <1>1, <1>2, <1>4, KTypes, Throws DEF MayThrow, TypedNext
  <1> QED BY <1>3, <1>4 DEF GetInterface

\* The commands of a node are registered; then it turns to its children.
LEMMA KRegisterCommands ==
  ASSUME KInv, RegisterCommands
  PROVE  KInv'
  <1>1. At("command") /\ UNCHANGED <<parent, interface, published, registry, started>> /\ DOMAIN name' = Components
    BY KTypes DEF RegisterCommands
  <1>2. /\ stack # <<>> /\ Top.node \in Components /\ Mode = "init" /\ FrameOK(Top) /\ Top.at = "command"
        /\ ToSet(Top.todo) \subseteq ToSet(Children[Top.node]) /\ IsInjective(Top.todo)
    <2>1. /\ stack # <<>> /\ Top.node \in Components /\ "command" \in PlacesOf(Mode, Top.node) /\ Mode \in {"init", "deinit"}
          /\ FrameOK(Top) /\ Top.at = "command"
          /\ ToSet(Top.todo) \subseteq ToSet(Children[Top.node]) /\ IsInjective(Top.todo)
      BY <1>1, Here
    <2>2. Mode = "init"
      BY <2>1 DEF PlacesOf
    <2> QED BY <2>1, <2>2
  <1> DEFINE place == IF Top.node \in PVs THEN "publish" ELSE "adopt"
  <1>3. CASE commands' = commands \cup {Top.node} /\ Goto(place) /\ UNCHANGED callVars
    <2>0. PICK f : f = [Top EXCEPT !.at = place]
      OBVIOUS
    <2>1. f \in FrameType /\ f.node = Top.node /\ f.at = place /\ f.todo = Top.todo /\ Replace(f)
      <3>1. place \in Places
        BY DEF Places
      <3> QED BY <1>2, <1>3, <2>0, <3>1, GoneTo DEF Goto
    <2>2. Steady /\ TypedNext
      BY <1>1, <1>2, <1>3, KTypes DEF Steady, TypedNext, callVars
    <2>3. Mode' = "init" /\ f.at \in {"publish", "adopt"} /\ f.node \in commands'
      BY <1>2, <1>3, <2>1 DEF Mode, callVars
    <2>4. f.at \in PlacesOf("init", f.node)
      BY <2>1 DEF PlacesOf
    <2>5. f.node \in Ports => interface'[f.node] # "none"
      BY <1>1, <1>2, <2>1 DEF FrameOK
    <2>6. FrameOK(f)'
      BY <1>2, <2>1, <2>3, <2>4, <2>5 DEF FrameOK, Past
    <2> QED BY <1>1, <1>2, <1>3, <2>1, <2>2, <2>6, GoesOn, KTypes
  <1>4. CASE MayThrow("registerCommand") /\ commands' \in {commands, commands \cup {Top.node}}
    <2>1. commands' \subseteq Components
      BY <1>2, <1>4, KTypes
    <2> QED BY <1>1, <1>2, <1>4, <2>1, KTypes, Throws DEF MayThrow, TypedNext
  <1> QED BY <1>3, <1>4 DEF RegisterCommands

\* Who can be there.
LEMMA Who ==
  ASSUME NEW place, NEW c \in Components, NEW kind \in {"init", "deinit"}, place \in PlacesOf(kind, c)
  PROVE  /\ place \in {"interface", "announce"} => kind = "init" /\ c \in Ports
         /\ place \in {"command", "adopt", "publish", "register", "start"} => kind = "init"
         /\ place \in {"publish", "register", "deregister", "unpublish"} => c \in PVs
         /\ place \in {"adopt", "children", "start", "announce", "interface"} => c \notin PVs
         /\ place = "start" => c \in Machines
         /\ place \in {"deregister", "uncommand", "unpublish"} => kind = "deinit"
  BY KindFacts DEF PlacesOf

\* Adopt: the children that had no parent have one now, the others theirs.
LEMMA Adopted ==
  ASSUME KInv, Adopt
  PROVE  /\ stack # <<>> /\ Top.node \in Components \ PVs /\ Mode = "init" /\ FrameOK(Top) /\ Top.at = "adopt"
         /\ Chained(parent') /\ parent' \in [Components -> Components \cup {NoNode}]
         /\ \A c \in Components : parent'[c] = parent[c] \/ (parent[c] = NoNode /\ parent'[c] = Top.node)
  <1>1. At("adopt")
    BY DEF Adopt
  <1>2. /\ stack # <<>> /\ Top.node \in Components /\ "adopt" \in PlacesOf(Mode, Top.node) /\ Mode \in {"init", "deinit"}
        /\ FrameOK(Top) /\ Top.at = "adopt"
    BY <1>1, Here
  <1>3. Mode = "init" /\ Top.node \notin PVs
    BY <1>2, Who
  <1> DEFINE kids   == Children[Top.node]
             taken  == { i \in DOMAIN kids : parent[kids[i]] # NoNode }
             before == { kids[i] : i \in { j \in DOMAIN kids : \A k \in taken : j < k } }
  <1>4. parent' = [c \in Components |-> IF c \in before THEN Top.node ELSE parent[c]]
    BY DEF Adopt
  <1>5. ASSUME NEW c \in before PROVE c \in ToSet(kids) /\ parent[c] = NoNode
    <2>1. PICK i \in { j \in DOMAIN kids : \A k \in taken : j < k } : c = kids[i]
      OBVIOUS
    <2>2. i \in DOMAIN kids /\ (i \in taken => i < i) /\ i \in Nat
      BY <1>2, <2>1, LifecycleAssumption
    <2>3. i \notin taken
      BY <2>2
    <2> QED BY <2>1, <2>2, <2>3 DEF ToSet
  <1> HIDE DEF before
  <1>6. \A c \in Components : parent'[c] = parent[c] \/ (parent[c] = NoNode /\ parent'[c] = Top.node)
    BY <1>4, <1>5
  <1>7. parent' \in [Components -> Components \cup {NoNode}]
    BY <1>2, <1>4, KTypes
  <1>8. Chained(parent')
    <2>1. ASSUME NEW c \in Components, parent'[c] # NoNode PROVE c \in ToSet(Children[parent'[c]])
      <3>1. c \in before => parent'[c] = Top.node /\ c \in ToSet(kids)
        BY <1>4, <1>5
      <3>2. c \notin before => parent'[c] = parent[c]
        BY <1>4
      <3> QED BY <2>1, <3>1, <3>2, KTypes DEF Chained
    <2> QED BY <1>7, <2>1 DEF Chained
  <1> QED BY <1>2, <1>3, <1>6, <1>7, <1>8

\* Of whatever got parents, the ports have interfaces.
LEMMA AdoptedParents ==
  ASSUME KInv, Adopt
  PROVE  ParentInv' /\ FoundInv'
  <1>1. /\ Chained(parent') /\ Top.node \in Components /\ Mode = "init" /\ FrameOK(Top) /\ Top.at = "adopt"
        /\ \A c \in Components : parent'[c] = parent[c] \/ (parent[c] = NoNode /\ parent'[c] = Top.node)
    BY Adopted
  <1>2. UNCHANGED <<interface, published, registry>>
    BY DEF Adopt, registers
  <1>3. Top.node \in Ports => interface[Top.node] # "none"
    BY <1>1 DEF FrameOK
  <1>4. ParentInv'
    BY <1>1, <1>2, <1>3 DEF KInv, ParentInv
  <1>5. ASSUME NEW p \in registry PROVE PortOf(p)' # NoNode
    <2>1. p \in Components /\ PortOf(p) # NoNode
      BY KindFacts, KTypes DEF KInv, FoundInv
    <2>2. \A c \in Components : parent[c] # NoNode => parent'[c] = parent[c]
      BY <1>1
    <2> QED BY <1>1, <2>1, <2>2, PortStays, KTypes
  <1> QED BY <1>2, <1>4, <1>5 DEF KInv, FoundInv

\* setParent of a child, which throws if it has a parent.
LEMMA KAdopt ==
  ASSUME KInv, Adopt
  PROVE  KInv'
  <1> DEFINE kids  == Children[Top.node]
             taken == { i \in DOMAIN kids : parent[kids[i]] # NoNode }
             before == { kids[i] : i \in { j \in DOMAIN kids : \A k \in taken : j < k } }
  <1>1. /\ stack # <<>> /\ Top.node \in Components \ PVs /\ Mode = "init" /\ FrameOK(Top) /\ Top.at = "adopt"
        /\ Chained(parent') /\ parent' \in [Components -> Components \cup {NoNode}]
        /\ \A c \in Components : parent'[c] = parent[c] \/ (parent[c] = NoNode /\ parent'[c] = Top.node)
    BY Adopted
  <1>2. ParentInv' /\ FoundInv'
    BY AdoptedParents
  <1>3. UNCHANGED <<name, interface, commands, published, registry, started>>
    BY DEF Adopt, registers
  <1>4. CASE taken = {} /\ Replace([Top EXCEPT !.at = "children", !.todo = kids]) /\ UNCHANGED callVars
    <2>0. PICK f : f = [Top EXCEPT !.at = "children", !.todo = kids]
      OBVIOUS
    <2>1. f \in FrameType /\ f.node = Top.node /\ f.at = "children" /\ f.todo = kids /\ Replace(f)
      BY <1>1, <1>4, <2>0, GoneDown
    <2>2. Steady
      BY <1>1, <1>3, <1>4 DEF Steady, callVars
    <2>3. Mode' = "init" /\ "children" \in PlacesOf("init", f.node)
      BY <1>1, <1>4, <2>1 DEF Mode, callVars, PlacesOf
    <2>4. \A c \in ToSet(Children[f.node]) : parent'[c] = f.node
      <3>1. parent' = [c \in Components |-> IF c \in before THEN Top.node ELSE parent[c]]
        BY DEF Adopt
      <3>2. ToSet(kids) \subseteq Components
        BY <1>1, TreeFacts
      <3>3. ASSUME NEW c \in ToSet(kids) PROVE c \in before
        <4>1. PICK i \in DOMAIN kids : c = kids[i]
          BY DEF ToSet
        <4> QED BY <1>4, <4>1
      <3> HIDE DEF before
      <3> QED BY <2>1, <3>1, <3>2, <3>3
    <2>5. f.node \in commands' /\ (f.node \in Ports => interface'[f.node] # "none")
      BY <1>1, <1>3, <2>1 DEF FrameOK
    <2>6. IsInjective(f.todo)
      BY <1>1, <2>1, LifecycleAssumption
    <2>7. FrameOK(f)'
      BY <2>1, <2>3, <2>4, <2>5, <2>6 DEF FrameOK
    <2>8. Moved(f)
      BY <1>1, <2>1, Moves DEF KInv
    <2>9. WalkInv'
      BY <1>1, <2>1, <2>2, <2>7, <2>8, WalkMoves DEF KInv
    <2>10. CallInv'
      BY <1>4, <2>8 DEF KInv, CallInv, callVars, Mode, Moved
    <2>11. Typed'
      BY <1>1, <1>3, <1>4, <2>8, KTypes, TypedKept DEF KInv, callVars, Moved, Typed
    <2> QED BY <1>2, <2>9, <2>10, <2>11 DEF KInv
  <1>5. CASE Throw
    <2>1. CallInv' /\ WalkInv' /\ stack' \in Seq(FrameType)
      BY <1>1, <1>5, ThrowFacts
    <2>2. Typed'
      BY <1>1, <1>3, <1>5, <2>1, KTypes, TypedKept DEF KInv, Throw, Typed
    <2> QED BY <1>2, <2>1, <2>2 DEF KInv
  <1> QED BY <1>4, <1>5 DEF Adopt

\* The child that is next is called, and not called again.
LEMMA KCallsChild ==
  ASSUME KInv, At("children"), Top.todo # <<>>, UNCHANGED <<treeVars, registers, callVars>>,
         stack' = Append(Front(stack), [Top EXCEPT !.todo = Tail(@)]) \o <<Enter(request[holder].kind, Head(Top.todo))>>
  PROVE  KInv'
  <1>1. /\ stack # <<>> /\ Top \in FrameType /\ Top.node \in Components /\ Top.at = "children"
        /\ "children" \in PlacesOf(Mode, Top.node) /\ Mode \in {"init", "deinit"} /\ FrameOK(Top)
        /\ ToSet(Top.todo) \subseteq ToSet(Children[Top.node]) /\ IsInjective(Top.todo)
    BY Here
  <1>2. Top.todo \in Seq(Components)
    BY <1>1 DEF FrameType
  <1>3. /\ Head(Top.todo) \in ToSet(Top.todo) /\ Head(Top.todo) \notin ToSet(Tail(Top.todo))
        /\ ToSet(Tail(Top.todo)) \subseteq ToSet(Top.todo) /\ IsInjective(Tail(Top.todo))
        /\ Tail(Top.todo) \in Seq(Components)
    BY <1>1, <1>2, TailFacts
  <1>4. Head(Top.todo) \in Components
    BY <1>1, <1>3, TreeFacts
  <1>5. PICK f : f = [Top EXCEPT !.todo = Tail(@)]
    OBVIOUS
  <1>6. f \in FrameType /\ f.node = Top.node /\ f.at = Top.at /\ f.todo = Tail(Top.todo)
    BY <1>1, <1>3, <1>5 DEF FrameType
  <1>7. PICK g : g = Enter(request[holder].kind, Head(Top.todo))
    OBVIOUS
  <1>8. UNCHANGED <<parent, name, commands, interface, published, registry, started, request, holder, held, last, calls, aborted>>
    BY DEF treeVars, registers, callVars
  <1>9. Mode' = Mode /\ request[holder].kind = Mode
    BY <1>8 DEF Mode
  <1>10. g \in FrameType /\ g.node = Head(Top.todo) /\ FrameOK(g)'
    BY <1>1, <1>4, <1>7, <1>9, EnterFacts
  <1>11. FrameOK(f)'
    <2>1. f.at \in PlacesOf(Mode', f.node) /\ ToSet(f.todo) \subseteq ToSet(Children[f.node]) /\ IsInjective(f.todo)
      BY <1>1, <1>3, <1>6, <1>9
    <2>2. f.at = "children" /\ f.node = Top.node
      BY <1>1, <1>6
    <2> QED BY <1>1, <1>8, <1>9, <2>1, <2>2 DEF FrameOK, Past
  <1>12. Calls(f, g)
    BY <1>1, <1>3, <1>6, <1>10 DEF Calls
  <1>13. Nested(f, g)
    BY <1>1, <1>5, <1>6, <1>7, <1>10, Nests DEF KInv, Pushed
  <1>14. Steady /\ parent' = parent
    BY <1>8 DEF Steady
  <1>15. WalkInv'
    BY <1>1, <1>6, <1>10, <1>11, <1>12, <1>13, <1>14, WalkNests DEF KInv
  <1>16. CallInv' /\ ParentInv' /\ FoundInv'
    BY <1>1, <1>8, <1>14, OthersKept, KTypes
  <1>17. stack' \in Seq(FrameType)
    BY <1>13 DEF Nested
  <1>18. Typed'
    BY <1>8, <1>17 DEF KInv, Typed
  <1> QED BY <1>15, <1>16, <1>18 DEF KInv

\* What a step that leaves the registers is called with.
LEMMA QuietFacts ==
  ASSUME KInv, UNCHANGED <<treeVars, registers, callVars>>
  PROVE  /\ Steady /\ TypedNext /\ parent' = parent /\ registry' \subseteq registry
         /\ registry' \subseteq published' /\ Mode' = Mode
  <1>1. UNCHANGED <<parent, name, commands, interface, published, registry, started, request, holder>>
    BY DEF treeVars, registers, callVars
  <1> QED BY <1>1, KTypes DEF Steady, TypedNext, Mode

\* The loop goes on to the next child, or is over.
LEMMA KNextChild ==
  ASSUME KInv, NextChild
  PROVE  KInv'
  <1>1. At("children") /\ UNCHANGED <<treeVars, registers, callVars>>
    BY DEF NextChild
  <1>2. /\ stack # <<>> /\ Top.node \in Components /\ Top.at = "children"
        /\ "children" \in PlacesOf(Mode, Top.node) /\ Mode \in {"init", "deinit"} /\ FrameOK(Top)
        /\ ToSet(Top.todo) \subseteq ToSet(Children[Top.node]) /\ IsInjective(Top.todo)
    BY <1>1, Here
  <1>3. Top.node \notin PVs
    BY <1>2, Who
  <1>4. CASE Top.todo # <<>>
    BY <1>1, <1>4, KCallsChild DEF NextChild
  <1>5. CASE Top.todo = <<>> /\ Leave
    BY <1>1, <1>2, <1>5, QuietFacts, Returns
  <1> DEFINE place == IF Top.node \in Ports THEN "announce" ELSE "start"
  <1>6. CASE Top.todo = <<>> /\ request[holder].kind # "deinit" /\ Kind[Top.node] # "node" /\ Goto(place)
    <2>0. PICK f : f = [Top EXCEPT !.at = place]
      OBVIOUS
    <2>1. f \in FrameType /\ f.node = Top.node /\ f.at = place /\ f.todo = Top.todo /\ Replace(f)
      <3>1. place \in Places
        BY DEF Places
      <3> QED BY <1>2, <1>6, <2>0, <3>1, GoneTo DEF Goto
    <2>2. Mode = "init" /\ Mode' = "init"
      BY <1>1, <1>2, <1>6, QuietFacts DEF Mode
    <2>3. Top.node \in Ports \cup Machines
      BY <1>2, <1>3, <1>6, KindFacts
    <2>4. f.at \in PlacesOf("init", f.node) /\ f.at \in {"announce", "start"}
      BY <1>3, <2>1, <2>3 DEF PlacesOf
    <2>5. UNCHANGED <<parent, commands, interface>>
      BY <1>1 DEF treeVars, registers
    <2>6. FrameOK(f)'
      <3>1. /\ \A c \in ToSet(Children[Top.node]) : parent[c] = Top.node
            /\ Top.node \in Ports => interface[Top.node] # "none"
            /\ Top.node \in commands
        BY <1>2, <2>2 DEF FrameOK, Past
      <3> QED BY <1>2, <1>3, <1>6, <2>1, <2>2, <2>4, <2>5, <3>1 DEF FrameOK
    <2> QED BY <1>1, <1>2, <2>1, <2>6, QuietFacts, GoesOn
  <1> QED BY <1>1, <1>4, <1>5, <1>6 DEF NextChild

\* A PV is registered with the interface of its port.
LEMMA KPublish ==
  ASSUME KInv, Publish
  PROVE  KInv'
  <1>1. At("publish") /\ UNCHANGED <<treeVars, commands, interface, registry, started>>
    BY DEF Publish
  <1>2. /\ stack # <<>> /\ Top.node \in Components /\ Top.at = "publish"
        /\ "publish" \in PlacesOf(Mode, Top.node) /\ Mode \in {"init", "deinit"} /\ FrameOK(Top)
        /\ ToSet(Top.todo) \subseteq ToSet(Children[Top.node]) /\ IsInjective(Top.todo)
        /\ aborted = FALSE /\ holder \in Threads
    BY <1>1, Here
  <1>3. Mode = "init" /\ Top.node \in PVs
    BY <1>2, Who
  <1>4. UNCHANGED <<parent, name, commands, interface, registry, started>>
    BY <1>1 DEF treeVars
  <1>5. CASE PortOf(Top.node) # NoNode /\ published' = published \cup {Top.node} /\ Goto("register") /\ UNCHANGED callVars
    <2>0. PICK f : f = [Top EXCEPT !.at = "register"]
      OBVIOUS
    <2>1. f \in FrameType /\ f.node = Top.node /\ f.at = "register" /\ f.todo = Top.todo /\ Replace(f)
      <3>1. "register" \in Places
        BY DEF Places
      <3> QED BY <1>2, <1>5, <2>0, <3>1, GoneTo DEF Goto
    <2>2. Steady /\ TypedNext /\ registry' \subseteq published'
      BY <1>3, <1>4, <1>5, KTypes DEF Steady, TypedNext, callVars
    <2>3. Mode' = "init" /\ "register" \in PlacesOf("init", f.node)
      BY <1>3, <1>5, <2>1 DEF Mode, callVars, PlacesOf
    <2>4. PortOf(f.node)' # NoNode
      <3>1. PortOf(f.node)' = PortOf(f.node)
        BY <1>4, PortSame
      <3>2. PortOf(f.node) # NoNode
        BY <1>5, <2>1
      <3> QED BY <3>1, <3>2
    <2>5. f.node \in commands' /\ f.node \in published' /\ f.node \notin Ports
      BY <1>2, <1>3, <1>4, <1>5, <2>1, KindFacts DEF FrameOK
    <2>6. FrameOK(f)'
      BY <1>2, <2>1, <2>3, <2>4, <2>5 DEF FrameOK, Past
    <2> QED BY <1>2, <1>4, <1>5, <2>1, <2>2, <2>6, GoesOn
  <1>6. CASE MayThrow("registerPV") /\ UNCHANGED published
    BY <1>2, <1>4, <1>6, KTypes, Throws DEF MayThrow, TypedNext
  <1>7. CASE aborted' = TRUE /\ UNCHANGED <<published, stack, request, holder, held, last, calls>>
    <2>1. UNCHANGED <<treeVars, registers, stack>> /\ Mode' = Mode /\ Root' = Root
      BY <1>1, <1>7 DEF treeVars, registers, Mode, Root
    <2>2. WalkInv' /\ ParentInv' /\ FoundInv'
      BY <2>1, WalkStays, OutsideKept
    <2>3. CallInv'
      BY <1>7 DEF KInv, CallInv, Mode
    <2>4. Typed'
      BY <1>4, <1>7 DEF KInv, Typed
    <2> QED BY <2>2, <2>3, <2>4 DEF KInv
  <1> QED BY <1>5, <1>6, <1>7 DEF Publish

\* A PV that can be found now is known to its port.
LEMMA KRegister ==
  ASSUME KInv, Register
  PROVE  KInv'
  <1>1. At("register") /\ UNCHANGED <<treeVars, commands, interface, published, started>>
    BY DEF Register
  <1>2. /\ stack # <<>> /\ Top.node \in Components /\ Top.at = "register"
        /\ "register" \in PlacesOf(Mode, Top.node) /\ Mode \in {"init", "deinit"} /\ FrameOK(Top)
    BY <1>1, Here
  <1>3. Top.node \in PVs /\ Top.node \in published /\ PortOf(Top.node) # NoNode
    BY <1>2, Who DEF FrameOK
  <1>4. UNCHANGED <<parent, name, commands, interface, published, started>>
    BY <1>1 DEF treeVars
  <1>5. CASE Throw /\ UNCHANGED registry
    BY <1>2, <1>4, <1>5, KTypes, Throws DEF TypedNext
  <1>6. CASE registry' = registry \cup {Top.node} /\ Leave /\ UNCHANGED callVars
    <2>1. Steady /\ TypedNext
      BY <1>3, <1>4, <1>6, KTypes DEF Steady, TypedNext, callVars
    <2>2. Popped
      BY <1>2, <1>6, Pops DEF KInv
    <2>3. WalkInv'
      BY <1>2, <2>1, <2>2, WalkPops DEF KInv
    <2>4. Typed'
      BY <1>6, <2>1, <2>2, TypedKept DEF KInv, TypedNext, Popped, callVars, Typed
    <2>5. CallInv'
      BY <1>2, <1>6 DEF KInv, CallInv, callVars, Mode
    <2>6. ParentInv'
      BY <1>4 DEF KInv, ParentInv
    <2>7. ASSUME NEW p \in registry' PROVE p \in published' /\ PortOf(p)' # NoNode
      <3>1. p \in published /\ PortOf(p) # NoNode
        BY <1>3, <1>6, <2>7 DEF KInv, FoundInv
      <3>2. PortOf(p)' = PortOf(p)
        BY <1>4, PortSame
      <3> QED BY <1>4, <3>1, <3>2
    <2>8. FoundInv'
      BY <2>7 DEF FoundInv
    <2> QED BY <2>3, <2>4, <2>5, <2>6, <2>8 DEF KInv
  <1> QED BY <1>5, <1>6 DEF Register

\* A machine is set to off at the end of its initialize.
LEMMA KStart ==
  ASSUME KInv, Start
  PROVE  KInv'
  <1>1. /\ At("start") /\ UNCHANGED <<parent, name, commands, interface, published, registry>>
        /\ UNCHANGED callVars /\ Leave /\ started' = started \cup {Top.node}
    BY DEF Start, treeVars
  <1>2. /\ stack # <<>> /\ Top.node \in Components
        /\ "start" \in PlacesOf(Mode, Top.node) /\ Mode \in {"init", "deinit"}
    BY <1>1, Here
  <1>3. Top.node \in Machines
    BY <1>2, Who
  <1>4. Steady /\ TypedNext
    BY <1>1, <1>3, KTypes DEF Steady, TypedNext, callVars
  <1> QED BY <1>1, <1>2, <1>4, Returns, KTypes

\* registrationTerminated, after the whole tree below.
LEMMA KAnnounce ==
  ASSUME KInv, Announce
  PROVE  KInv'
  <1>1. /\ At("announce") /\ UNCHANGED <<parent, name, commands, published, registry, started>>
        /\ UNCHANGED callVars /\ Leave /\ interface' = [interface EXCEPT ![Top.node] = "announced"]
    BY DEF Announce, treeVars
  <1>2. stack # <<>>
    BY <1>1, Here
  <1>3. /\ interface' \in [Ports -> {"none", "open", "announced"}]
        /\ \A p \in Ports : interface[p] # "none" => interface'[p] # "none"
    BY <1>1, KTypes
  <1>4. Steady /\ TypedNext
    BY <1>1, <1>3, KTypes DEF Steady, TypedNext, callVars
  <1> QED BY <1>1, <1>2, <1>4, Returns, KTypes

\* It cannot be found any more before the port is told.
LEMMA KDeregister ==
  ASSUME KInv, Deregister
  PROVE  KInv'
  <1>1. /\ At("deregister") /\ UNCHANGED <<parent, name, commands, interface, published, started>>
        /\ UNCHANGED callVars /\ Goto("uncommand")
        /\ registry' \subseteq registry /\ Top.node \notin registry'
    BY DEF Deregister, treeVars
  <1>2. /\ stack # <<>> /\ Top.node \in Components
        /\ "deregister" \in PlacesOf(Mode, Top.node) /\ Mode \in {"init", "deinit"} /\ FrameOK(Top)
        /\ ToSet(Top.todo) \subseteq ToSet(Children[Top.node]) /\ IsInjective(Top.todo)
    BY <1>1, Here
  <1>3. Mode = "deinit" /\ Top.node \in PVs
    BY <1>2, Who
  <1>4. Steady /\ TypedNext
    BY <1>1, KTypes DEF Steady, TypedNext, callVars
  <1>5. PICK f : f = [Top EXCEPT !.at = "uncommand"]
    OBVIOUS
  <1>6. f \in FrameType /\ f.node = Top.node /\ f.at = "uncommand" /\ f.todo = Top.todo /\ Replace(f)
    <2>1. "uncommand" \in Places
      BY DEF Places
    <2> QED BY <1>1, <1>2, <1>5, <2>1, GoneTo DEF Goto
  <1>7. Mode' = "deinit" /\ "uncommand" \in PlacesOf("deinit", f.node)
    BY <1>1, <1>3, <1>6 DEF Mode, callVars, PlacesOf
  <1>8. FrameOK(f)'
    BY <1>1, <1>2, <1>6, <1>7 DEF FrameOK
  <1> QED BY <1>1, <1>2, <1>4, <1>6, <1>8, GoesOn, KTypes

\* The commands of a node are deregistered; then it turns to its children.
LEMMA KDeregisterCommands ==
  ASSUME KInv, DeregisterCommands
  PROVE  KInv'
  <1>1. /\ At("uncommand") /\ UNCHANGED <<parent, name, interface, published, registry, started>>
        /\ UNCHANGED callVars /\ commands' = commands \ {Top.node}
    BY DEF DeregisterCommands, treeVars
  <1>2. /\ stack # <<>> /\ Top.node \in Components /\ Top.at = "uncommand"
        /\ "uncommand" \in PlacesOf(Mode, Top.node) /\ Mode \in {"init", "deinit"} /\ FrameOK(Top)
        /\ ToSet(Top.todo) \subseteq ToSet(Children[Top.node]) /\ IsInjective(Top.todo)
    BY <1>1, Here
  <1>3. Mode = "deinit" /\ Mode' = "deinit"
    BY <1>1, <1>2, Who DEF Mode, callVars
  <1>4. Steady /\ TypedNext
    BY <1>1, <1>3, KTypes DEF Steady, TypedNext, callVars
  <1>5. CASE Top.node \in PVs
    <2>0. PICK f : f = [Top EXCEPT !.at = "unpublish"]
      OBVIOUS
    <2>1. f \in FrameType /\ f.node = Top.node /\ f.at = "unpublish" /\ f.todo = Top.todo /\ Replace(f)
      <3>1. "unpublish" \in Places /\ Goto("unpublish")
        BY <1>5 DEF Places, DeregisterCommands
      <3> QED BY <1>2, <2>0, <3>1, GoneTo DEF Goto
    <2>2. "unpublish" \in PlacesOf("deinit", f.node) /\ Top.node \notin registry
      BY <1>2, <1>5, <2>1 DEF PlacesOf, FrameOK
    <2>3. FrameOK(f)'
      BY <1>1, <1>2, <1>3, <2>1, <2>2 DEF FrameOK
    <2> QED BY <1>1, <1>2, <1>4, <2>1, <2>3, GoesOn, KTypes
  <1>6. CASE Top.node \notin PVs
    <2>0. PICK f : f = [Top EXCEPT !.at = "children", !.todo = Children[Top.node]]
      OBVIOUS
    <2>1. f \in FrameType /\ f.node = Top.node /\ f.at = "children" /\ f.todo = Children[Top.node] /\ Replace(f)
      <3>1. Replace([Top EXCEPT !.at = "children", !.todo = Children[Top.node]])
        BY <1>6 DEF DeregisterCommands
      <3> QED BY <1>2, <2>0, <3>1, GoneDown
    <2>2. "children" \in PlacesOf("deinit", f.node)
      BY <1>6, <2>1 DEF PlacesOf
    <2>3. IsInjective(f.todo)
      BY <1>2, <2>1, LifecycleAssumption
    <2>4. FrameOK(f)'
      BY <1>1, <1>3, <2>1, <2>2, <2>3 DEF FrameOK
    <2> QED BY <1>1, <1>2, <1>4, <2>1, <2>4, GoesOn, KTypes
  <1> QED BY <1>5, <1>6

\* The port forgets what cannot be found.
LEMMA KUnpublish ==
  ASSUME KInv, Unpublish
  PROVE  KInv'
  <1>1. /\ At("unpublish") /\ UNCHANGED <<parent, name, commands, interface, registry, started>>
        /\ UNCHANGED callVars /\ Leave /\ published' = published \ {Top.node}
    BY DEF Unpublish, treeVars
  <1>2. /\ stack # <<>> /\ Top.node \in Components /\ Top.at = "unpublish"
        /\ "unpublish" \in PlacesOf(Mode, Top.node) /\ Mode \in {"init", "deinit"} /\ FrameOK(Top)
    BY <1>1, Here
  <1>3. Top.node \in PVs
    BY <1>2, Who
  <1>4. Top.node \notin registry
    BY <1>2, <1>3 DEF FrameOK
  <1>5. Steady /\ TypedNext /\ registry' \subseteq published'
    BY <1>1, <1>4, KTypes DEF Steady, TypedNext, callVars
  <1> QED BY <1>1, <1>2, <1>5, Returns

\* The invariant holds of every step,
LEMMA KStep == KInv /\ [Next]_vars => KInv'
  <1> SUFFICES ASSUME KInv, [Next]_vars PROVE KInv'
    OBVIOUS
  <1>1. CASE UNCHANGED vars
    <2>1. UNCHANGED <<treeVars, registers, stack, request, holder, held, last, calls, aborted>>
      BY <1>1 DEF vars, callVars
    <2>2. Mode' = Mode /\ Root' = Root
      BY <2>1 DEF Mode, Root
    <2>3. WalkInv' /\ ParentInv' /\ FoundInv'
      BY <2>1, <2>2, WalkStays, OutsideKept
    <2>4. CallInv' /\ Typed'
      BY <2>1, <2>2 DEF KInv, CallInv, Typed, treeVars, registers
    <2> QED BY <2>3, <2>4 DEF KInv
  <1>2. CASE Next
    <2>1. ASSUME NEW t \in Threads, \E r \in Roots : CallInitialize(t, r) \/ CallDeinitialize(t, r) PROVE KInv'
      BY <2>1, KCalls
    <2>2. ASSUME NEW t \in Threads, Lock(t) \/ Unlock(t) PROVE KInv'
      BY <2>2, KLock, KUnlock
    <2>3. CASE Work
      BY <2>3, KGetInterface, KRegisterCommands, KAdopt, KNextChild, KPublish, KRegister, KStart, KAnnounce,
         KDeregister, KDeregisterCommands, KUnpublish DEF Work
    <2>4. CASE Finished
      BY <1>1, <2>4 DEF Finished
    <2> QED BY <1>2, <2>1, <2>2, <2>3, <2>4 DEF Next
  <1> QED BY <1>1, <1>2

\* In every state the registers are well formed, and so is the walk: the functions of
\* initialize and deinitialize that the holder of the mutex is inside of.
THEOREM LifecycleInvariant == Spec => []KInv
  BY KInit, KStep, PTL DEF Spec

\* A PV that can be found by its name can be used: its port knows it, and has an
\* interface, whichever calls fail and whatever trees have in common (initialize and
\* deinitialize of PVBaseInImpl, PVBaseImpl and PortImpl).
THEOREM KnownAreUsable == Spec => []KnownIsUsable
  <1>1. KInv => KnownIsUsable
    <2> SUFFICES ASSUME KInv, NEW p \in registry
                 PROVE  p \in published /\ PortOf(p) # NoNode /\ interface[PortOf(p)] # "none"
      BY DEF KnownIsUsable
    <2>1. p \in published /\ PortOf(p) # NoNode /\ p \in Components /\ p \notin Ports
      BY KTypes, KindFacts DEF KInv, FoundInv
    <2>2. PortOf(p) = Nearest(parent)[p] /\ Chained(parent)
      BY PortIsNearest, KTypes
    <2>3. PortOf(p) \in Ports /\ \E x \in Components : parent[x] = PortOf(p)
      BY <2>1, <2>2, NearestIsParent
    <2> QED BY <2>1, <2>3 DEF KInv, ParentInv
  <1> QED BY <1>1, LifecycleInvariant, PTL

-----------------------------------------------------------------------------
(* What a call has done with a tree                                         *)

\* Everything below a component has the parent it is a child of.
AdoptedTree(c) == \A n \in Tree(c) : \A d \in ToSet(Children[n]) : parent[d] = n

\* What initialize has done with a tree when it returns, and deinitialize.
Done(c) == Registered(Tree(c)) /\ Tree(c) \cap Machines \subseteq started /\ AdoptedTree(c)
Gone(c) == Tree(c) \cap (commands \cup published \cup registry) = {}

Handled(c) == IF Mode = "init" THEN Done(c) ELSE Gone(c)

\* The same for a function in its loop: the children but those to come, and the one
\* it is in.
FrameHandled(f, in) ==
  /\ Past(f) => \A c \in ToSet(Children[f.node]) : c \in ToSet(f.todo) \/ c = in \/ Handled(c)
  /\ Mode = "deinit" /\ f.at \in {"children", "unpublish"} => f.node \notin commands

HandledInv ==
  stack # <<>> =>
    /\ FrameHandled(Top, NoNode)
    /\ \A k \in 1 .. Len(stack) - 1 : FrameHandled(stack[k], stack[k + 1].node)

\* Which the walk does not undo.
Lasting ==
  /\ Mode = "init" => /\ commands \subseteq commands' /\ published \subseteq published'
                      /\ registry \subseteq registry' /\ started \subseteq started'
  /\ Mode = "deinit" => /\ commands' \subseteq commands /\ published' \subseteq published
                        /\ registry' \subseteq registry

\* A tree whose components have their parents keeps them.
LEMMA AdoptedKept ==
  ASSUME \A c \in Components : parent[c] # NoNode => parent'[c] = parent[c],
         NEW c \in Components, AdoptedTree(c)
  PROVE  AdoptedTree(c)'
  <1>1. ASSUME NEW n \in Tree(c), NEW d \in ToSet(Children[n]) PROVE parent'[d] = n
    <2>1. parent[d] = n /\ d \in Components /\ n \in Components
      BY TreeFacts DEF AdoptedTree
    <2> QED BY <2>1, LifecycleAssumption
  <1> QED BY <1>1 DEF AdoptedTree

\* What is behind a loop stays so, while nothing done is undone.
LEMMA HandledKept ==
  ASSUME Steady, Lasting, Mode \in {"init", "deinit"}, NEW c \in Components, Handled(c)
  PROVE  Handled(c)'
  <1>1. Mode' = Mode
    BY DEF Steady, Mode
  <1>2. CASE Mode = "init"
    <2>1. Registered(Tree(c)) /\ Tree(c) \cap Machines \subseteq started /\ AdoptedTree(c)
      BY <1>2 DEF Handled, Done
    <2>2. AdoptedTree(c)'
      BY <2>1, AdoptedKept DEF Steady
    <2>3. Registered(Tree(c))'
      BY <1>2, <2>1 DEF Registered, Lasting
    <2>4. Tree(c) \cap Machines \subseteq started'
      BY <1>2, <2>1 DEF Lasting
    <2> QED BY <1>1, <1>2, <2>2, <2>3, <2>4 DEF Handled, Done
  <1>3. CASE Mode = "deinit"
    <2>1. Tree(c) \cap (commands' \cup published' \cup registry') = {}
      BY <1>3 DEF Handled, Gone, Lasting
    <2> QED BY <1>1, <1>3, <2>1 DEF Handled, Gone
  <1> QED BY <1>2, <1>3

\* So it does for all that one function has been through.
LEMMA FrameKept ==
  ASSUME Steady, Lasting, Mode \in {"init", "deinit"}, NEW f \in FrameType, NEW in, FrameHandled(f, in)
  PROVE  FrameHandled(f, in)'
  <1>1. Mode' = Mode /\ f.node \in Components
    BY DEF Steady, Mode, FrameType
  <1>2. ToSet(Children[f.node]) \subseteq Components
    BY <1>1, TreeFacts
  <1>3. \A c \in Components : Handled(c) => Handled(c)'
    BY HandledKept
  <1>4. Past(f) => \A c \in ToSet(Children[f.node]) : c \in ToSet(f.todo) \/ c = in \/ Handled(c)'
    BY <1>2, <1>3 DEF FrameHandled
  <1>5. Mode = "deinit" /\ f.at \in {"children", "unpublish"} => f.node \notin commands'
    BY DEF FrameHandled, Lasting
  <1> QED BY <1>1, <1>4, <1>5 DEF FrameHandled

\* The innermost function goes on, calls another one, returns.
LEMMA HandledMoves ==
  ASSUME KInv, stack # <<>>, HandledInv, Steady, Lasting, NEW f \in FrameType, Moved(f),
         f.node = Top.node, FrameHandled(f, NoNode)'
  PROVE  HandledInv'
  <1> DEFINE n == Len(stack)
  <1>1. n \in Nat \ {0} /\ Top = stack[n] /\ \A k \in 1 .. n - 1 : stack[k] \in FrameType
    BY TopOfStack DEF KInv
  <1>2. /\ Len(stack') = n /\ stack'[n] = f /\ \A k \in 1 .. n - 1 : stack'[k] = stack[k]
        /\ stack' \in Seq(FrameType) /\ stack' # <<>>
    BY DEF Moved
  <1>3. Mode \in {"init", "deinit"}
    BY DEF KInv, CallInv
  <1> HIDE DEF n
  <1>4. \A k \in 1 .. n - 1 : FrameHandled(stack[k], stack[k + 1].node)
    BY DEF HandledInv, n
  <1>5. ASSUME NEW k \in 1 .. n - 1 PROVE FrameHandled(stack[k], stack[k + 1].node)'
    <2>1. PICK g \in FrameType : g = stack[k]
      BY <1>1
    <2>2. PICK in : in = stack[k + 1].node
      OBVIOUS
    <2>3. FrameHandled(g, in)'
      BY <1>3, <1>4, <2>1, <2>2, FrameKept
    <2>4. stack'[k] = g
      BY <1>2, <2>1
    <2>5. stack'[k + 1].node = in
      <3>1. CASE k + 1 = n
        BY <1>1, <1>2, <2>2, <3>1
      <3>2. CASE k + 1 # n
        <4>1. k + 1 \in 1 .. n - 1
          BY <1>1, <3>2
        <4> QED BY <1>2, <2>2, <4>1
      <3> QED BY <3>1, <3>2
    <2> QED BY <2>3, <2>4, <2>5
  <1>6. Top' = f
    BY <1>2, TopFacts DEF Top
  <1> QED BY <1>2, <1>5, <1>6 DEF HandledInv

\* A call of a child keeps what is behind the loops of the stack.
LEMMA HandledNests ==
  ASSUME KInv, stack # <<>>, HandledInv, Steady, Lasting, NEW f \in FrameType, NEW g \in FrameType,
         Nested(f, g), f.node = Top.node, FrameHandled(f, g.node)', FrameHandled(g, NoNode)'
  PROVE  HandledInv'
  <1> DEFINE n == Len(stack)
  <1>1. n \in Nat \ {0} /\ Top = stack[n] /\ \A k \in 1 .. n - 1 : stack[k] \in FrameType
    BY TopOfStack DEF KInv
  <1>2. /\ Len(stack') = n + 1 /\ stack'[n] = f /\ stack'[n + 1] = g
        /\ \A k \in 1 .. n - 1 : stack'[k] = stack[k]
        /\ stack' \in Seq(FrameType) /\ stack' # <<>>
    BY DEF Nested
  <1>3. Mode \in {"init", "deinit"}
    BY DEF KInv, CallInv
  <1> HIDE DEF n
  <1>4. \A k \in 1 .. n - 1 : FrameHandled(stack[k], stack[k + 1].node)
    BY DEF HandledInv, n
  <1>5. ASSUME NEW k \in 1 .. n PROVE FrameHandled(stack[k], stack[k + 1].node)'
    <2>1. CASE k = n
      BY <1>2, <2>1
    <2>2. CASE k # n
      <3>0. k \in 1 .. n - 1
        BY <1>1, <2>2
      <3>1. PICK h \in FrameType : h = stack[k]
        BY <1>1, <3>0
      <3>2. PICK in : in = stack[k + 1].node
        OBVIOUS
      <3>3. FrameHandled(h, in)'
        BY <1>3, <1>4, <3>0, <3>1, <3>2, FrameKept
      <3>4. stack'[k] = h
        BY <1>2, <3>0, <3>1
      <3>5. stack'[k + 1].node = in
        <4>1. CASE k + 1 = n
          BY <1>1, <1>2, <3>2, <4>1
        <4>2. CASE k + 1 # n
          <5>1. k + 1 \in 1 .. n - 1
            BY <1>1, <3>0, <4>2
          <5> QED BY <1>2, <3>2, <5>1
        <4> QED BY <4>1, <4>2
      <3> QED BY <3>3, <3>4, <3>5
    <2> QED BY <2>1, <2>2
  <1>6. Top' = g
    BY <1>2, TopFacts DEF Top
  <1>7. Len(stack') - 1 = n
    BY <1>1, <1>2
  <1> QED BY <1>2, <1>5, <1>6, <1>7 DEF HandledInv

\* A return does, if what the function was called for is done.
LEMMA HandledPops ==
  ASSUME KInv, stack # <<>>, HandledInv, Steady, Lasting, Popped,
         NEW m \in Components, m = Top.node, Handled(m)'
  PROVE  HandledInv'
  <1> DEFINE n == Len(stack)
  <1>1. n \in Nat \ {0} /\ Top = stack[n] /\ \A k \in 1 .. n - 1 : stack[k] \in FrameType
    BY TopOfStack DEF KInv
  <1>2. /\ Len(stack') = n - 1 /\ \A k \in 1 .. n - 1 : stack'[k] = stack[k]
        /\ stack' \in Seq(FrameType)
    BY DEF Popped
  <1>3. Mode \in {"init", "deinit"}
    BY DEF KInv, CallInv
  <1> HIDE DEF n
  <1>4. \A k \in 1 .. n - 1 : FrameHandled(stack[k], stack[k + 1].node)
    BY DEF HandledInv, n
  <1>5. ASSUME NEW k \in 1 .. n - 1
        PROVE  /\ k + 1 # n => FrameHandled(stack[k], stack[k + 1].node)'
               /\ k + 1 = n => FrameHandled(stack[k], NoNode)'
    <2>1. PICK h \in FrameType : h = stack[k]
      BY <1>1
    <2>2. PICK in : in = stack[k + 1].node
      OBVIOUS
    <2>3. FrameHandled(h, in)'
      BY <1>3, <1>4, <2>1, <2>2, FrameKept
    <2>4. stack'[k] = h
      BY <1>2, <2>1
    <2>5. CASE k + 1 = n
      <3>1. in = m
        BY <1>1, <2>2, <2>5
      <3>2. FrameHandled(h, NoNode)'
        BY <2>3, <3>1 DEF FrameHandled
      <3> QED BY <2>4, <2>5, <3>2
    <2>6. CASE k + 1 # n
      <3>1. k + 1 \in 1 .. n - 1
        BY <1>1, <2>6
      <3>2. stack'[k + 1].node = in
        BY <1>2, <2>2, <3>1
      <3> QED BY <2>3, <2>4, <2>6, <3>2
    <2> QED BY <2>5, <2>6
  <1>6. ASSUME stack' # <<>> PROVE n - 1 \in 1 .. n - 1 /\ Top' = stack'[n - 1]
    <2>1. Len(stack') # 0
      BY <1>2, <1>6, EmptySeq
    <2>2. n - 1 \in 1 .. n - 1
      BY <1>1, <1>2, <2>1
    <2> QED BY <1>2, <1>6, <2>2, TopFacts DEF Top
  <1>7. ASSUME stack' # <<>> PROVE FrameHandled(Top, NoNode)'
    <2>1. n - 1 \in 1 .. n - 1 /\ (n - 1) + 1 = n /\ Top' = stack'[n - 1]
      BY <1>1, <1>6, <1>7
    <2>2. PICK k \in 1 .. n - 1 : k = n - 1 /\ k + 1 = n /\ Top' = stack'[k]
      BY <2>1
    <2>3. FrameHandled(stack[k], NoNode)'
      BY <1>5, <2>2
    <2> QED BY <2>2, <2>3
  <1>8. \A k \in 1 .. Len(stack') - 1 : k \in 1 .. n - 1 /\ k + 1 # n
    BY <1>1, <1>2
  <1>9. \A k \in 1 .. Len(stack') - 1 : FrameHandled(stack[k], stack[k + 1].node)'
    BY <1>5, <1>8
  <1> QED BY <1>7, <1>9 DEF HandledInv

\* A tree is done when its root and the trees below it are.
LEMMA TreeDone ==
  ASSUME NEW m \in Components \ PVs, m \in commands,
         \A c \in ToSet(Children[m]) : Done(c) /\ parent[c] = m
  PROVE  Registered(Tree(m)) /\ Tree(m) \cap Machines \subseteq started \cup {m} /\ AdoptedTree(m)
  <1>1. Tree(m) = {m} \cup UNION { Tree(c) : c \in ToSet(Children[m]) }
    BY TreeOfTrees
  <1>2. Registered(Tree(m))
    BY <1>1 DEF Done, Registered
  <1>3. Tree(m) \cap Machines \subseteq started \cup {m}
    BY <1>1 DEF Done
  <1>4. AdoptedTree(m)
    BY <1>1 DEF Done, AdoptedTree
  <1> QED BY <1>2, <1>3, <1>4

\* A tree is gone when its root's commands and the trees below are.
LEMMA TreeGone ==
  ASSUME KInv, NEW m \in Components \ PVs, m \notin commands,
         \A c \in ToSet(Children[m]) : Gone(c)
  PROVE  Gone(m)
  <1>1. Tree(m) = {m} \cup UNION { Tree(c) : c \in ToSet(Children[m]) }
    BY TreeOfTrees
  <1>2. m \notin published /\ m \notin registry
    BY KTypes
  <1> QED BY <1>1, <1>2 DEF Gone

\* A step of the walk that throws nothing is steady, and undoes nothing.
LEMMA WorkIsSteady ==
  ASSUME KInv, Work, UNCHANGED <<request, holder>>
  PROVE  Steady /\ Lasting
  <1>1. stack # <<>> => Mode \in {"init", "deinit"} /\ holder \in Threads
    BY DEF KInv, CallInv
  <1>2. ASSUME stack # <<>>, Throw PROVE FALSE
    <2>1. CallInv' /\ request'[holder].kind = "failed"
      BY <1>1, <1>2, ThrowFacts DEF KInv, CallInv, Throw
    <2> QED BY <1>1, <1>2, <2>1 DEF Mode
  <1>3. ASSUME NEW call, stack # <<>> PROVE ~ MayThrow(call)
    BY <1>2, <1>3 DEF MayThrow
  <1>4. CASE GetInterface
    <2>1. At("interface") /\ stack # <<>>
      BY <1>4, Here DEF GetInterface
    <2>2. interface' = [interface EXCEPT ![Top.node] = IF @ = "none" THEN "open" ELSE @]
      BY <1>3, <1>4, <2>1 DEF GetInterface
    <2>3. \A p \in Ports : interface[p] # "none" => interface'[p] # "none"
      BY <2>2, KTypes
    <2> QED BY <1>4, <2>3 DEF GetInterface, Steady, Lasting, treeVars
  <1>5. CASE RegisterCommands
    <2>1. At("command") /\ stack # <<>> /\ Top.node \in Components
          /\ "command" \in PlacesOf(Mode, Top.node) /\ Mode \in {"init", "deinit"}
      BY <1>5, Here DEF RegisterCommands
    <2>2. Mode = "init"
      BY <2>1, Who
    <2> QED BY <1>5, <2>2 DEF RegisterCommands, Steady, Lasting
  <1>6. CASE Adopt
    BY <1>6, Adopted DEF Adopt, Steady, Lasting, registers
  <1>7. CASE NextChild
    BY <1>7 DEF NextChild, Steady, Lasting, treeVars, registers
  <1>8. CASE Publish
    <2>1. At("publish") /\ stack # <<>> /\ Top.node \in Components
          /\ "publish" \in PlacesOf(Mode, Top.node) /\ Mode \in {"init", "deinit"}
      BY <1>8, Here DEF Publish
    <2>2. Mode = "init"
      BY <2>1, Who
    <2>3. published \subseteq published'
      BY <1>8 DEF Publish
    <2> QED BY <1>8, <2>2, <2>3 DEF Publish, Steady, Lasting, treeVars
  <1>9. CASE Register
    <2>1. At("register") /\ stack # <<>> /\ Top.node \in Components
          /\ "register" \in PlacesOf(Mode, Top.node) /\ Mode \in {"init", "deinit"}
      BY <1>9, Here DEF Register
    <2>2. Mode = "init"
      BY <2>1, Who
    <2>3. registry \subseteq registry'
      BY <1>9 DEF Register
    <2> QED BY <1>9, <2>2, <2>3 DEF Register, Steady, Lasting, treeVars
  <1>10. CASE Start
    BY <1>10 DEF Start, Steady, Lasting, treeVars
  <1>11. CASE Announce
    <2>1. \A p \in Ports : interface[p] # "none" => interface'[p] # "none"
      BY <1>11, KTypes DEF Announce
    <2> QED BY <1>11, <2>1 DEF Announce, Steady, Lasting, treeVars
  <1>12. CASE Deregister
    <2>1. At("deregister") /\ stack # <<>> /\ Top.node \in Components
          /\ "deregister" \in PlacesOf(Mode, Top.node) /\ Mode \in {"init", "deinit"}
      BY <1>12, Here DEF Deregister
    <2>2. Mode = "deinit"
      BY <2>1, Who
    <2>3. registry' \subseteq registry
      BY <1>12 DEF Deregister
    <2> QED BY <1>12, <2>2, <2>3 DEF Deregister, Steady, Lasting, treeVars
  <1>13. CASE DeregisterCommands
    <2>1. At("uncommand") /\ stack # <<>> /\ Top.node \in Components
          /\ "uncommand" \in PlacesOf(Mode, Top.node) /\ Mode \in {"init", "deinit"}
      BY <1>13, Here DEF DeregisterCommands
    <2>2. Mode = "deinit"
      BY <2>1, Who
    <2> QED BY <1>13, <2>2 DEF DeregisterCommands, Steady, Lasting, treeVars
  <1>14. CASE Unpublish
    <2>1. At("unpublish") /\ stack # <<>> /\ Top.node \in Components
          /\ "unpublish" \in PlacesOf(Mode, Top.node) /\ Mode \in {"init", "deinit"}
      BY <1>14, Here DEF Unpublish
    <2>2. Mode = "deinit"
      BY <2>1, Who
    <2> QED BY <1>14, <2>2 DEF Unpublish, Steady, Lasting, treeVars
  <1> QED BY <1>4, <1>5, <1>6, <1>7, <1>8, <1>9, <1>10, <1>11, <1>12, <1>13, <1>14 DEF Work

\* Nobody walks, or the holder is where it was.
LEMMA HandledStays ==
  ASSUME KInv, HandledInv, UNCHANGED <<treeVars, registers, stack>>,
         stack # <<>> => Mode' = Mode
  PROVE  HandledInv'
  <1>1. UNCHANGED <<parent, commands, published, registry, started, stack>>
    BY DEF treeVars, registers
  <1>2. ASSUME NEW c, Mode' = Mode PROVE Handled(c)' = Handled(c)
    BY <1>1, <1>2 DEF Handled, Done, Gone, Registered, AdoptedTree
  <1>3. ASSUME NEW f, NEW in, Mode' = Mode, FrameHandled(f, in) PROVE FrameHandled(f, in)'
    BY <1>1, <1>2, <1>3 DEF FrameHandled
  <1>4. CASE stack # <<>>
    <2>1. Mode' = Mode /\ FrameHandled(Top, NoNode)
          /\ \A k \in 1 .. Len(stack) - 1 : FrameHandled(stack[k], stack[k + 1].node)
      BY <1>4 DEF HandledInv
    <2>2. FrameHandled(Top, NoNode)'
      <3>1. PICK f : f = Top
        OBVIOUS
      <3>2. Top' = f
        BY <1>1, <3>1 DEF Top
      <3> QED BY <1>3, <2>1, <3>1, <3>2
    <2>3. ASSUME NEW k \in 1 .. Len(stack) - 1 PROVE FrameHandled(stack[k], stack[k + 1].node)'
      <3>1. PICK f, in : f = stack[k] /\ in = stack[k + 1].node
        OBVIOUS
      <3>2. FrameHandled(f, in)'
        BY <1>3, <2>1, <3>1
      <3> QED BY <1>1, <3>1, <3>2
    <2> QED BY <1>1, <2>2, <2>3 DEF HandledInv
  <1>5. CASE stack = <<>>
    BY <1>1, <1>5 DEF HandledInv
  <1> QED BY <1>4, <1>5

\* In the loop the children behind are handled.
LEMMA HandledHere ==
  ASSUME KInv, HandledInv, NEW place, At(place)
  PROVE  FrameHandled(Top, NoNode)
  BY Here DEF HandledInv

\* NextChild goes down,
LEMMA HandledDown ==
  ASSUME KInv, HandledInv, NextChild, Top.todo # <<>>
  PROVE  HandledInv'
  <1>1. At("children") /\ UNCHANGED <<treeVars, registers, callVars>>
        /\ stack' = Append(Front(stack), [Top EXCEPT !.todo = Tail(@)]) \o <<Enter(request[holder].kind, Head(Top.todo))>>
    BY DEF NextChild
  <1>2. /\ stack # <<>> /\ Top \in FrameType /\ Top.node \in Components /\ Top.at = "children"
        /\ "children" \in PlacesOf(Mode, Top.node) /\ Mode \in {"init", "deinit"} /\ FrameOK(Top)
        /\ ToSet(Top.todo) \subseteq ToSet(Children[Top.node]) /\ IsInjective(Top.todo)
    BY <1>1, Here
  <1>3. Top.todo \in Seq(Components)
    BY <1>2 DEF FrameType
  <1>4. /\ Head(Top.todo) \in ToSet(Top.todo) /\ Tail(Top.todo) \in Seq(Components)
        /\ ToSet(Tail(Top.todo)) = ToSet(Top.todo) \ {Head(Top.todo)}
    BY <1>2, <1>3, TailFacts
  <1>5. Head(Top.todo) \in Components
    BY <1>2, <1>4, TreeFacts
  <1>6. PICK f : f = [Top EXCEPT !.todo = Tail(@)]
    OBVIOUS
  <1>7. f \in FrameType /\ f.node = Top.node /\ f.at = Top.at /\ f.todo = Tail(Top.todo)
    BY <1>2, <1>4, <1>6 DEF FrameType
  <1>8. PICK g : g = Enter(request[holder].kind, Head(Top.todo))
    OBVIOUS
  <1>9. Mode' = Mode /\ request[holder].kind = Mode /\ Steady
    BY <1>1, QuietFacts DEF Mode
  <1>10. g \in FrameType /\ g.node = Head(Top.todo) /\ ~ Past(g)
    BY <1>2, <1>5, <1>8, <1>9, EnterFacts
  <1>11. g.at \notin {"children", "unpublish"}
    BY <1>8 DEF Enter, Frame
  <1>12. Nested(f, g)
    BY <1>1, <1>2, <1>6, <1>7, <1>8, <1>10, Nests DEF KInv, Pushed
  <1>13. Lasting
    BY <1>1 DEF registers, Lasting
  <1>14. FrameHandled(g, NoNode)'
    BY <1>10, <1>11 DEF FrameHandled
  <1>15. FrameHandled(Top, NoNode)
    BY <1>1, HandledHere
  <1>16. ASSUME NEW c \in ToSet(Children[f.node])
         PROVE  c \in ToSet(f.todo) \/ c = g.node \/ Handled(c)'
    <2>1. c \in Components /\ c # NoNode
      BY <1>2, <1>7, TreeFacts, LifecycleAssumption
    <2>2. c \in ToSet(Top.todo) \/ Handled(c)
      BY <1>2, <1>7, <1>15, <2>1 DEF FrameHandled, Past
    <2>3. Handled(c) => Handled(c)'
      BY <1>2, <1>9, <1>13, <2>1, HandledKept
    <2> QED BY <1>4, <1>7, <1>10, <2>2, <2>3
  <1>17. FrameHandled(f, g.node)'
    <2>1. Mode' = "deinit" => f.node \notin commands'
      BY <1>1, <1>2, <1>7, <1>9, <1>15 DEF FrameHandled, registers
    <2> QED BY <1>16, <2>1 DEF FrameHandled
  <1> QED BY <1>2, <1>7, <1>9, <1>10, <1>12, <1>13, <1>14, <1>17, HandledNests

\* and at its end the tree is handled, but for the machine's state.
LEMMA LoopDone ==
  ASSUME KInv, HandledInv, NEW place \in {"children", "announce", "start"}, At(place), Top.todo = <<>>
  PROVE  /\ Mode = "init" => /\ Registered(Tree(Top.node)) /\ AdoptedTree(Top.node)
                             /\ Tree(Top.node) \cap Machines \subseteq started \cup {Top.node}
         /\ Mode = "deinit" => Gone(Top.node)
  <1>1. /\ stack # <<>> /\ Top.node \in Components /\ Top.at = place
        /\ place \in PlacesOf(Mode, Top.node) /\ Mode \in {"init", "deinit"} /\ FrameOK(Top)
    BY Here
  <1>2. Top.node \notin PVs
    BY <1>1, Who
  <1>3. Past(Top) /\ ToSet(Top.todo) = {} /\ FrameHandled(Top, NoNode)
    BY <1>1, HandledHere DEF Past, ToSet
  <1>4. \A c \in ToSet(Children[Top.node]) : c # NoNode /\ Handled(c)
    BY <1>1, <1>3, TreeFacts, LifecycleAssumption DEF FrameHandled
  <1>5. ASSUME Mode = "init"
        PROVE  /\ Registered(Tree(Top.node)) /\ AdoptedTree(Top.node)
               /\ Tree(Top.node) \cap Machines \subseteq started \cup {Top.node}
    <2>1. /\ \A c \in ToSet(Children[Top.node]) : parent[c] = Top.node /\ Done(c)
          /\ Top.node \in commands
      BY <1>1, <1>3, <1>4, <1>5 DEF FrameOK, Handled, Past
    <2> QED BY <1>1, <1>2, <2>1, TreeDone
  <1>6. ASSUME Mode = "deinit" PROVE Gone(Top.node)
    <2>1. place = "children"
      BY <1>1, <1>6 DEF PlacesOf
    <2>2. /\ \A c \in ToSet(Children[Top.node]) : Gone(c)
          /\ Top.node \notin commands
      BY <1>1, <1>3, <1>4, <1>6, <2>1 DEF FrameHandled, Handled
    <2> QED BY <1>1, <1>2, <2>2, TreeGone
  <1> QED BY <1>5, <1>6

\* What a call that has succeeded has done.
EndInv == holder # NoThread /\ stack = <<>> /\ Mode # "failed" => Handled(Root)

\* The innermost function goes on; it returns, having handled its tree.
LEMMA HandledOn ==
  ASSUME KInv, stack # <<>>, HandledInv, Steady, Lasting, NEW f \in FrameType, Replace(f),
         f.node = Top.node, FrameHandled(f, NoNode)'
  PROVE  HandledInv' /\ EndInv'
  <1>1. Moved(f)
    BY Moves DEF KInv
  <1>2. stack' # <<>>
    BY <1>1 DEF Moved
  <1> QED BY <1>1, <1>2, HandledMoves DEF EndInv

\* A return does, also if it is the last and ends the call.
LEMMA HandledEnd ==
  ASSUME KInv, stack # <<>>, HandledInv, Steady, Lasting, Leave,
         NEW m \in Components, m = Top.node, Handled(m)'
  PROVE  HandledInv' /\ EndInv'
  <1>1. Popped
    BY Pops DEF KInv
  <1>2. HandledInv'
    BY <1>1, HandledPops
  <1>3. ASSUME stack' = <<>> PROVE Root' = m
    <2>1. Len(stack) \in Nat /\ Top = stack[Len(stack)]
      BY TopOfStack DEF KInv
    <2>2. Len(stack) - 1 = 0
      BY <1>1, <1>3 DEF Popped
    <2>3. Len(stack) = 1
      BY <2>1, <2>2
    <2>4. Top = stack[1]
      BY <2>1, <2>3
    <2>5. stack[1].node = Root
      BY DEF KInv, WalkInv
    <2> QED BY <2>4, <2>5 DEF Steady, Root
  <1>4. EndInv'
    BY <1>3 DEF EndInv
  <1> QED BY <1>2, <1>4

\* At the places that say nothing about the children.
LEMMA HandledElsewhere ==
  ASSUME NEW f, f.at \notin {"children", "announce", "start", "unpublish"}, NEW in
  PROVE  FrameHandled(f, in)'
  BY DEF FrameHandled, Past

\* An exception has handled nothing.
LEMMA HandledThrown ==
  ASSUME KInv, stack # <<>>, Throw
  PROVE  HandledInv' /\ EndInv'
  <1>1. holder \in Threads /\ stack' = <<>> /\ holder' = holder
    BY DEF KInv, CallInv, Throw
  <1>2. request'[holder].kind = "failed"
    BY <1>1 DEF KInv, CallInv, Throw
  <1> QED BY <1>1, <1>2 DEF HandledInv, EndInv, Mode

\* A PV that is registered is done, and one that is deregistered is gone.
LEMMA HandledRegister ==
  ASSUME KInv, HandledInv, Register
  PROVE  HandledInv' /\ EndInv'
  <1>1. At("register") /\ UNCHANGED <<treeVars, commands, interface, published, started>>
    BY DEF Register
  <1>2. /\ stack # <<>> /\ Top.node \in Components /\ Top.at = "register"
        /\ "register" \in PlacesOf(Mode, Top.node) /\ Mode \in {"init", "deinit"} /\ FrameOK(Top)
    BY <1>1, Here
  <1>3. Top.node \in PVs /\ Top.node \in published /\ Mode = "init" /\ Top.node \in commands
    BY <1>2, Who DEF FrameOK
  <1>4. CASE registry' = registry \cup {Top.node} /\ Leave /\ UNCHANGED callVars
    <2>1. Work /\ request' = request /\ holder' = holder
      BY <1>4 DEF Work, callVars
    <2>2. Steady /\ Lasting /\ Mode' = "init"
      BY <1>3, <2>1, WorkIsSteady DEF Mode
    <2>3. PICK m : m = Top.node
      OBVIOUS
    <2>4. m \in PVs /\ Tree(m) = {m} /\ Tree(m) \cap Machines = {} /\ Children[m] = <<>> /\ m \in Components
      BY <1>3, <2>3, TreeOfPV, KindFacts, LifecycleAssumption DEF PVs
    <2>5. ToSet(Children[m]) = {}
      BY <2>4 DEF ToSet
    <2>6. Registered(Tree(m))' /\ AdoptedTree(m)'
      BY <1>1, <1>3, <1>4, <2>3, <2>4, <2>5 DEF Registered, AdoptedTree
    <2>7. Handled(m)'
      BY <2>2, <2>4, <2>6 DEF Handled, Done
    <2> QED BY <1>2, <1>4, <2>2, <2>3, <2>4, <2>7, HandledEnd
  <1>5. CASE Throw
    BY <1>2, <1>5, HandledThrown
  <1> QED BY <1>4, <1>5 DEF Register

\* A PV that is deregistered is gone, and its function returns or goes on.
LEMMA HandledUnpublish ==
  ASSUME KInv, HandledInv, Unpublish
  PROVE  HandledInv' /\ EndInv'
  <1>1. /\ At("unpublish") /\ UNCHANGED <<parent, name, commands, interface, registry, started>>
        /\ UNCHANGED callVars /\ Leave /\ published' = published \ {Top.node}
    BY DEF Unpublish, treeVars
  <1>2. /\ stack # <<>> /\ Top.node \in Components /\ Top.at = "unpublish"
        /\ "unpublish" \in PlacesOf(Mode, Top.node) /\ Mode \in {"init", "deinit"} /\ FrameOK(Top)
    BY <1>1, Here
  <1>3. Top.node \in PVs /\ Mode = "deinit"
    BY <1>2, Who
  <1>4. Top.node \notin registry
    BY <1>2, <1>3 DEF FrameOK
  <1>5. Top.node \notin commands
    BY <1>1, <1>2, <1>3, HandledHere DEF FrameHandled
  <1>6. Work /\ request' = request /\ holder' = holder
    BY <1>1 DEF Work, callVars
  <1>7. Steady /\ Lasting /\ Mode' = "deinit"
    BY <1>3, <1>6, WorkIsSteady DEF Mode
  <1>8. PICK m : m = Top.node
    OBVIOUS
  <1>9. m \in PVs /\ Tree(m) = {m}
    BY <1>3, <1>8, TreeOfPV
  <1>10. Handled(m)'
    BY <1>1, <1>4, <1>5, <1>7, <1>8, <1>9 DEF Handled, Gone
  <1> QED BY <1>1, <1>2, <1>7, <1>8, <1>10, HandledEnd

\* A machine that is started is done.
LEMMA HandledStart ==
  ASSUME KInv, HandledInv, Start
  PROVE  HandledInv' /\ EndInv'
  <1>1. /\ At("start") /\ UNCHANGED <<parent, name, commands, interface, published, registry>>
        /\ UNCHANGED callVars /\ Leave /\ started' = started \cup {Top.node}
    BY DEF Start, treeVars
  <1>2. /\ stack # <<>> /\ Top.node \in Components /\ Top.at = "start"
        /\ "start" \in PlacesOf(Mode, Top.node) /\ Mode \in {"init", "deinit"} /\ FrameOK(Top)
    BY <1>1, Here
  <1>3. Mode = "init" /\ Top.todo = <<>>
    BY <1>2, Who DEF FrameOK
  <1>4. Work /\ request' = request /\ holder' = holder
    BY <1>1 DEF Work, callVars
  <1>5. Steady /\ Lasting /\ Mode' = "init"
    BY <1>3, <1>4, WorkIsSteady DEF Mode
  <1>6. PICK m \in Components : m = Top.node
    BY <1>2
  <1>7. Registered(Tree(m)) /\ AdoptedTree(m) /\ Tree(m) \cap Machines \subseteq started \cup {m}
    BY <1>1, <1>3, <1>6, LoopDone
  <1>8. Registered(Tree(m))' /\ AdoptedTree(m)' /\ Tree(m) \cap Machines \subseteq started'
    BY <1>1, <1>6, <1>7 DEF Registered, AdoptedTree
  <1>9. Handled(m)'
    BY <1>5, <1>8 DEF Handled, Done
  <1> QED BY <1>1, <1>2, <1>5, <1>6, <1>9, HandledEnd

\* A port that has announced its registration is done.
LEMMA HandledAnnounce ==
  ASSUME KInv, HandledInv, Announce
  PROVE  HandledInv' /\ EndInv'
  <1>1. At("announce") /\ UNCHANGED callVars /\ Leave
    BY DEF Announce
  <1>2. /\ stack # <<>> /\ Top.node \in Components /\ Top.at = "announce"
        /\ "announce" \in PlacesOf(Mode, Top.node) /\ Mode \in {"init", "deinit"} /\ FrameOK(Top)
    BY <1>1, Here
  <1>3. Mode = "init" /\ Top.todo = <<>> /\ Top.node \in Ports
    BY <1>2, Who DEF FrameOK
  <1>4. Work /\ request' = request /\ holder' = holder
    BY <1>1 DEF Work, callVars
  <1>5. Steady /\ Lasting
    BY <1>4, WorkIsSteady
  <1>6. PICK m \in Components : m = Top.node
    BY <1>2
  <1>7. Registered(Tree(m)) /\ AdoptedTree(m) /\ Tree(m) \cap Machines \subseteq started \cup {m}
    BY <1>1, <1>3, <1>6, LoopDone
  <1>8. Handled(m)
    BY <1>3, <1>6, <1>7, KindFacts DEF Handled, Done
  <1>9. Handled(m)'
    BY <1>2, <1>5, <1>8, HandledKept
  <1> QED BY <1>1, <1>2, <1>5, <1>6, <1>9, HandledEnd

\* A child the loop takes is not yet behind it; a loop that ends has all behind it.
LEMMA HandledNextChild ==
  ASSUME KInv, HandledInv, NextChild
  PROVE  HandledInv' /\ EndInv'
  <1>1. At("children") /\ UNCHANGED <<treeVars, registers, callVars>>
    BY DEF NextChild
  <1>2. /\ stack # <<>> /\ Top.node \in Components /\ Mode \in {"init", "deinit"} /\ FrameOK(Top)
        /\ "children" \in PlacesOf(Mode, Top.node)
    BY <1>1, Here
  <1>3. Work /\ request' = request /\ holder' = holder
    BY <1>1 DEF Work, NextChild, callVars
  <1>4. Steady /\ Lasting /\ Mode' = Mode
    BY <1>3, WorkIsSteady DEF Mode
  <1>5. CASE Top.todo # <<>>
    <2>1. HandledInv' /\ stack' = Append(Front(stack), [Top EXCEPT !.todo = Tail(@)]) \o <<Enter(request[holder].kind, Head(Top.todo))>>
      BY <1>5, HandledDown DEF NextChild
    <2>2. Front(stack) \in Seq(FrameType)
      BY <1>2, PopFacts DEF KInv, Typed
    <2>3. stack' # <<>>
      BY <2>1, <2>2
    <2> QED BY <2>1, <2>3 DEF EndInv
  <1>6. CASE Top.todo = <<>> /\ Leave /\ (request[holder].kind = "deinit" \/ Kind[Top.node] = "node")
    <2>1. PICK m \in Components : m = Top.node
      BY <1>2
    <2>2. Handled(m)
      <3>1. CASE Mode = "deinit"
        BY <1>1, <1>6, <2>1, <3>1, LoopDone DEF Handled
      <3>2. CASE Mode = "init"
        <4>1. Kind[m] = "node"
          BY <1>6, <2>1, <3>2 DEF Mode
        <4>2. m \notin Machines
          BY <4>1, KindFacts
        <4>3. Registered(Tree(m)) /\ AdoptedTree(m) /\ Tree(m) \cap Machines \subseteq started \cup {m}
          BY <1>1, <1>6, <2>1, <3>2, LoopDone
        <4> QED BY <3>2, <4>2, <4>3 DEF Handled, Done
      <3> QED BY <1>2, <3>1, <3>2
    <2>3. Handled(m)'
      BY <1>2, <1>4, <2>2, HandledKept
    <2> QED BY <1>2, <1>4, <1>6, <2>1, <2>3, HandledEnd
  <1> DEFINE place == IF Top.node \in Ports THEN "announce" ELSE "start"
  <1>7. CASE Top.todo = <<>> /\ request[holder].kind # "deinit" /\ Goto(place)
    <2>0. PICK f : f = [Top EXCEPT !.at = place]
      OBVIOUS
    <2>1. f \in FrameType /\ f.node = Top.node /\ f.at = place /\ f.todo = Top.todo /\ Replace(f)
      <3>1. place \in Places
        BY DEF Places
      <3> QED BY <1>2, <1>7, <2>0, <3>1, GoneTo DEF Goto
    <2>2. Mode' = "init" /\ Mode = "init"
      BY <1>2, <1>4, <1>7 DEF Mode
    <2>3. FrameHandled(Top, NoNode) /\ Past(Top)
      BY <1>1, HandledHere, Here DEF Past
    <2>4. FrameHandled(f, NoNode)'
      <3>1. ToSet(Children[f.node]) \subseteq Components
        BY <1>2, <2>1, TreeFacts
      <3>2. \A c \in ToSet(Children[f.node]) : c \in ToSet(f.todo) \/ c = NoNode \/ Handled(c)
        BY <2>1, <2>3 DEF FrameHandled
      <3>3. \A c \in Components : Handled(c) => Handled(c)'
        BY <1>2, <1>4, HandledKept
      <3>4. \A c \in ToSet(Children[f.node]) : c \in ToSet(f.todo) \/ c = NoNode \/ Handled(c)'
        BY <3>1, <3>2, <3>3
      <3> QED BY <2>2, <3>4 DEF FrameHandled
    <2> QED BY <1>2, <1>4, <2>1, <2>4, HandledOn
  <1> QED BY <1>5, <1>6, <1>7 DEF NextChild

\* setParent takes nothing back of what is behind the loops.
LEMMA HandledAdopt ==
  ASSUME KInv, HandledInv, Adopt
  PROVE  HandledInv' /\ EndInv'
  <1>1. stack # <<>> /\ Top.node \in Components \ PVs /\ Mode = "init"
    BY Adopted
  <1>2. CASE Replace([Top EXCEPT !.at = "children", !.todo = Children[Top.node]]) /\ UNCHANGED callVars
    <2>0. PICK f : f = [Top EXCEPT !.at = "children", !.todo = Children[Top.node]]
      OBVIOUS
    <2>1. f \in FrameType /\ f.node = Top.node /\ f.at = "children" /\ f.todo = Children[Top.node] /\ Replace(f)
      BY <1>1, <1>2, <2>0, GoneDown
    <2>2. Work /\ request' = request /\ holder' = holder
      BY <1>2 DEF Work, callVars
    <2>3. Steady /\ Lasting /\ Mode' = "init"
      BY <1>1, <2>2, WorkIsSteady DEF Mode
    <2>4. FrameHandled(f, NoNode)'
      BY <2>1, <2>3 DEF FrameHandled
    <2> QED BY <1>1, <2>1, <2>3, <2>4, HandledOn
  <1>3. CASE Throw
    BY <1>1, <1>3, HandledThrown
  <1> QED BY <1>2, <1>3 DEF Adopt

\* Nor does the deregistration of commands.
LEMMA HandledDeregisterCommands ==
  ASSUME KInv, HandledInv, DeregisterCommands
  PROVE  HandledInv' /\ EndInv'
  <1>1. At("uncommand") /\ UNCHANGED callVars /\ commands' = commands \ {Top.node}
    BY DEF DeregisterCommands
  <1>2. /\ stack # <<>> /\ Top.node \in Components
    BY <1>1, Here
  <1>3. Work /\ request' = request /\ holder' = holder
    BY <1>1 DEF Work, callVars
  <1>4. Steady /\ Lasting
    BY <1>3, WorkIsSteady
  <1>5. CASE Top.node \in PVs
    <2>0. PICK f : f = [Top EXCEPT !.at = "unpublish"]
      OBVIOUS
    <2>1. f \in FrameType /\ f.node = Top.node /\ f.at = "unpublish" /\ Replace(f)
      <3>1. "unpublish" \in Places /\ Goto("unpublish")
        BY <1>5 DEF Places, DeregisterCommands
      <3> QED BY <1>2, <2>0, <3>1, GoneTo DEF Goto
    <2>2. f.node \notin commands'
      BY <1>1, <2>1
    <2>3. FrameHandled(f, NoNode)'
      BY <2>1, <2>2 DEF FrameHandled, Past
    <2> QED BY <1>2, <1>4, <2>1, <2>3, HandledOn
  <1>6. CASE Top.node \notin PVs
    <2>0. PICK f : f = [Top EXCEPT !.at = "children", !.todo = Children[Top.node]]
      OBVIOUS
    <2>1. f \in FrameType /\ f.node = Top.node /\ f.at = "children" /\ f.todo = Children[Top.node] /\ Replace(f)
      <3>1. Replace([Top EXCEPT !.at = "children", !.todo = Children[Top.node]])
        BY <1>6 DEF DeregisterCommands
      <3> QED BY <1>2, <2>0, <3>1, GoneDown
    <2>2. f.node \notin commands'
      BY <1>1, <2>1
    <2>3. FrameHandled(f, NoNode)'
      BY <2>1, <2>2 DEF FrameHandled
    <2> QED BY <1>2, <1>4, <2>1, <2>3, HandledOn
  <1> QED BY <1>5, <1>6

\* The steps to a place that says nothing about the children.
LEMMA HandledGoes ==
  ASSUME KInv, HandledInv, Work, stack # <<>>, UNCHANGED callVars,
         NEW place \in Places \ {"children", "announce", "start", "unpublish"}, Goto(place)
  PROVE  HandledInv' /\ EndInv'
  <1>1. PICK f : f = [Top EXCEPT !.at = place]
    OBVIOUS
  <1>2. f \in FrameType /\ f.node = Top.node /\ f.at = place /\ Replace(f)
    BY <1>1, GoneTo DEF Goto
  <1>3. Steady /\ Lasting
    BY WorkIsSteady DEF callVars
  <1>4. FrameHandled(f, NoNode)'
    BY <1>2, HandledElsewhere
  <1> QED BY <1>2, <1>3, <1>4, HandledOn

\* The walk keeps track of what it has handled.
LEMMA HandledWork ==
  ASSUME KInv, HandledInv, Work
  PROVE  HandledInv' /\ EndInv'
  <1>1. stack # <<>>
    BY DEF Work, GetInterface, RegisterCommands, Adopt, NextChild, Publish, Register, Start, Announce,
           Deregister, DeregisterCommands, Unpublish, At
  <1>2. CASE GetInterface
    <2>1. CASE Goto("command") /\ UNCHANGED callVars
      BY <1>1, <2>1, HandledGoes DEF Places
    <2>2. CASE Throw
      BY <1>1, <2>2, HandledThrown
    <2> QED BY <1>2, <2>1, <2>2 DEF GetInterface, MayThrow
  <1>3. CASE RegisterCommands
    <2>1. CASE Goto(IF Top.node \in PVs THEN "publish" ELSE "adopt") /\ UNCHANGED callVars
      BY <1>1, <2>1, HandledGoes DEF Places
    <2>2. CASE Throw
      BY <1>1, <2>2, HandledThrown
    <2> QED BY <1>3, <2>1, <2>2 DEF RegisterCommands, MayThrow
  <1>4. CASE Publish
    <2>1. CASE Goto("register") /\ UNCHANGED callVars
      BY <1>1, <2>1, HandledGoes DEF Places
    <2>2. CASE Throw
      BY <1>1, <2>2, HandledThrown
    <2>3. CASE UNCHANGED <<published, stack, request, holder>>
      <3>1. UNCHANGED <<treeVars, registers, stack>> /\ Mode' = Mode
        BY <1>4, <2>3 DEF Publish, registers, Mode
      <3>2. HandledInv'
        BY <3>1, HandledStays
      <3> QED BY <1>1, <2>3, <3>2 DEF EndInv
    <2> QED BY <1>4, <2>1, <2>2, <2>3 DEF Publish, MayThrow
  <1>5. CASE Deregister
    BY <1>1, <1>5, HandledGoes DEF Places, Deregister
  <1> QED BY <1>2, <1>3, <1>4, <1>5, HandledAdopt, HandledNextChild, HandledRegister, HandledStart,
         HandledAnnounce, HandledDeregisterCommands, HandledUnpublish DEF Work

\* And so does the system.
LEMMA HandledStep ==
  ASSUME KInv, HandledInv, [Next]_vars
  PROVE  HandledInv'
  <1>1. ASSUME UNCHANGED vars PROVE HandledInv'
    <2>1. UNCHANGED <<treeVars, registers, stack, request, holder>>
      BY <1>1 DEF vars, callVars
    <2> QED BY <2>1, HandledStays DEF Mode
  <1>2. ASSUME NEW t \in Threads, NEW r \in Roots, CallInitialize(t, r) \/ CallDeinitialize(t, r)
        PROVE  HandledInv'
    <2>1. /\ UNCHANGED <<treeVars, registers, holder, stack>> /\ request[t] = NoCall
          /\ \E k : request' = [request EXCEPT ![t] = [kind |-> k, root |-> r]]
      BY <1>2 DEF CallInitialize, CallDeinitialize
    <2>2. stack # <<>> => holder # t
      BY <2>1 DEF KInv, CallInv, NoCall
    <2>3. stack # <<>> => request'[holder] = request[holder]
      BY <2>1, <2>2 DEF KInv, CallInv
    <2> QED BY <2>1, <2>3, HandledStays DEF Mode
  <1>3. ASSUME NEW t \in Threads, Lock(t) PROVE HandledInv'
    <2>1. PICK f : f = Enter(request[t].kind, request[t].root)
      OBVIOUS
    <2>2. stack' = <<f>> /\ f.at \in {"deregister", "uncommand", "interface", "command"}
      BY <1>3, <2>1 DEF Lock, Enter, Frame
    <2>3. Top' = f /\ Len(stack') = 1
      BY <2>2 DEF Top, Last
    <2>4. FrameHandled(f, NoNode)'
      BY <2>2, HandledElsewhere
    <2>5. FrameHandled(Top, NoNode)'
      BY <2>3, <2>4
    <2> QED BY <2>3, <2>5 DEF HandledInv
  <1>4. ASSUME NEW t \in Threads, Unlock(t) PROVE HandledInv'
    BY <1>4 DEF Unlock, HandledInv
  <1>5. CASE Work
    BY <1>5, HandledWork
  <1>6. CASE Finished
    BY <1>1, <1>6 DEF Finished
  <1> QED BY <1>1, <1>2, <1>3, <1>4, <1>5, <1>6 DEF Next

\* At first no function is called.
LEMMA HandledInit == Init => HandledInv
  BY DEF Init, HandledInv

\* registrationTerminated is called of a port when everything below it has been
\* registered, and its machines have pushed their states (initialize of PortImpl, which
\* ends with it, and of NodeImpl).
THEOREM TerminatedAreRegistered == Spec => TerminatedMeansRegistered
  <1> DEFINE Terminates(p) ==
        interface[p] # "announced" /\ interface'[p] = "announced" =>
          /\ Registered(Tree(p) \ {p}) /\ p \in commands
          /\ Tree(p) \cap Machines \subseteq started
  <1>1. ASSUME KInv, HandledInv, [Next]_vars PROVE [\A p \in Ports : Terminates(p)]_vars
    <2>1. SUFFICES ASSUME NEW p \in Ports, interface[p] # "announced", interface'[p] = "announced"
                   PROVE  /\ Registered(Tree(p) \ {p}) /\ p \in commands
                          /\ Tree(p) \cap Machines \subseteq started
      OBVIOUS
    <2>2. interface' # interface
      BY <2>1
    <2>3. CASE GetInterface
      <3>1. Top.node \in Ports /\ interface' = [interface EXCEPT ![Top.node] = IF @ = "none" THEN "open" ELSE @]
        <4>1. At("interface")
          BY <2>3 DEF GetInterface
        <4>2. Top.node \in Components /\ "interface" \in PlacesOf(Mode, Top.node) /\ Mode \in {"init", "deinit"}
          BY <1>1, <4>1, Here
        <4> QED BY <2>2, <2>3, <4>2, Who DEF GetInterface
      <3> QED BY <1>1, <2>1, <3>1, KTypes
    <2>4. CASE Announce
      <3>1. At("announce") /\ interface' = [interface EXCEPT ![Top.node] = "announced"]
        BY <2>4 DEF Announce
      <3>2. /\ Top.node \in Components /\ "announce" \in PlacesOf(Mode, Top.node) /\ Mode \in {"init", "deinit"}
            /\ FrameOK(Top) /\ Top.at = "announce"
        BY <1>1, <3>1, Here
      <3>3. Mode = "init" /\ Top.todo = <<>> /\ Top.node \in Ports /\ Top.node \in commands
        BY <3>2, Who DEF FrameOK
      <3>4. p = Top.node
        BY <1>1, <2>1, <3>1, <3>3, KTypes
      <3>5. Registered(Tree(p)) /\ Tree(p) \cap Machines \subseteq started \cup {p}
        BY <1>1, <3>1, <3>3, <3>4, LoopDone
      <3> QED BY <3>3, <3>4, <3>5, KindFacts DEF Registered
    <2>5. UNCHANGED interface \/ GetInterface \/ Announce
      BY <1>1 DEF Next, Work, CallInitialize, CallDeinitialize, Lock, Unlock, RegisterCommands, Adopt, NextChild,
                  Publish, Register, Start, Deregister, DeregisterCommands, Unpublish, Finished, vars, registers
    <2> QED BY <2>2, <2>3, <2>4, <2>5
  <1>2. KInv /\ HandledInv /\ [Next]_vars => HandledInv'
    BY HandledStep
  <1>3. Init /\ [][Next]_vars => [](KInv /\ HandledInv)
    BY <1>2, KInit, KStep, HandledInit, PTL
  <1>4. KInv /\ HandledInv /\ [Next]_vars => [\A p \in Ports : Terminates(p)]_vars
    BY <1>1
  <1>5. Init /\ [][Next]_vars => [][\A p \in Ports : Terminates(p)]_vars
    BY <1>3, <1>4, PTL
  <1> QED BY <1>5 DEF Spec, TerminatedMeansRegistered

-----------------------------------------------------------------------------
(* Which functions there are after a step of the walk                       *)

\* One that was there; the innermost one, further on; that of its next child.
Follows(g) ==
  \/ g \in ToSet(stack)
  \/ /\ g.node = Top.node
     /\ Past(g) =>
          \/ Past(Top) /\ ToSet(g.todo) \subseteq ToSet(Top.todo)
          \/ Mode = "deinit"
          \/ /\ ToSet(g.todo) \subseteq ToSet(Children[g.node])
             /\ \A c \in ToSet(Children[g.node]) : parent[c] = NoNode
  \/ ~ Past(g) /\ Past(Top) /\ g.node \in ToSet(Top.todo)

\* A function that goes on: the others are as before.
LEMMA FollowsMoves ==
  ASSUME KInv, stack # <<>>, NEW f \in FrameType, Replace(f), Follows(f)
  PROVE  \A g \in ToSet(stack') : Follows(g)
  BY Moves DEF KInv, Moved, Lower, Follows

\* So it is for the places that are not about the loop.
LEMMA FollowsGoes ==
  ASSUME KInv, stack # <<>>, NEW place \in Places \ {"children", "announce", "start"}, Goto(place)
  PROVE  \A g \in ToSet(stack') : Follows(g)
  <1>1. PICK f : f = [Top EXCEPT !.at = place]
    OBVIOUS
  <1>2. f \in FrameType /\ f.node = Top.node /\ f.at = place /\ Replace(f)
    BY <1>1, GoneTo DEF Goto
  <1>3. Follows(f)
    BY <1>2 DEF Follows, Past
  <1> QED BY <1>2, <1>3, FollowsMoves

\* A return: the callers are as before.
LEMMA FollowsReturns ==
  ASSUME KInv, stack # <<>>, Leave
  PROVE  \A g \in ToSet(stack') : Follows(g)
  BY Pops DEF KInv, Popped, Lower, Follows

\* The next child, or the end of the loop.
LEMMA FollowsNextChild ==
  ASSUME KInv, NextChild
  PROVE  \A g \in ToSet(stack') : Follows(g)
  <1>1. At("children") /\ UNCHANGED <<treeVars, registers, callVars>>
    BY DEF NextChild
  <1>2. /\ stack # <<>> /\ Top \in FrameType /\ Top.node \in Components /\ Mode \in {"init", "deinit"}
        /\ Top.at = "children" /\ ToSet(Top.todo) \subseteq ToSet(Children[Top.node]) /\ IsInjective(Top.todo)
    BY <1>1, Here
  <1>3. CASE Top.todo # <<>>
    <2>1. stack' = Append(Front(stack), [Top EXCEPT !.todo = Tail(@)]) \o <<Enter(request[holder].kind, Head(Top.todo))>>
      BY <1>3 DEF NextChild
    <2>2. Top.todo \in Seq(Components)
      BY <1>2 DEF FrameType
    <2>3. /\ Head(Top.todo) \in ToSet(Top.todo) /\ Tail(Top.todo) \in Seq(Components)
          /\ ToSet(Tail(Top.todo)) \subseteq ToSet(Top.todo)
      BY <1>2, <1>3, <2>2, TailFacts
    <2>4. Head(Top.todo) \in Components
      BY <1>2, <2>3, TreeFacts
    <2>5. PICK f : f = [Top EXCEPT !.todo = Tail(@)]
      OBVIOUS
    <2>6. f \in FrameType /\ f.node = Top.node /\ f.at = Top.at /\ f.todo = Tail(Top.todo)
      BY <1>2, <2>3, <2>5 DEF FrameType
    <2>7. PICK g : g = Enter(request[holder].kind, Head(Top.todo))
      OBVIOUS
    <2>8. Mode' = Mode /\ request[holder].kind = Mode
      BY <1>1, QuietFacts DEF Mode
    <2>9. g \in FrameType /\ g.node = Head(Top.todo) /\ ~ Past(g)
      BY <1>2, <2>4, <2>7, <2>8, EnterFacts
    <2>10. Nested(f, g)
      BY <1>2, <2>1, <2>5, <2>6, <2>7, <2>9, Nests DEF KInv, Pushed
    <2>11. Follows(f) /\ Follows(g)
      BY <1>2, <2>3, <2>6, <2>9 DEF Follows, Past
    <2> QED BY <2>10, <2>11 DEF Nested, Lower, Follows
  <1>4. CASE Leave
    BY <1>2, <1>4, FollowsReturns
  <1> DEFINE place == IF Top.node \in Ports THEN "announce" ELSE "start"
  <1>5. CASE Goto(place)
    <2>0. PICK f : f = [Top EXCEPT !.at = place]
      OBVIOUS
    <2>1. f \in FrameType /\ f.node = Top.node /\ f.at = place /\ f.todo = Top.todo /\ Replace(f)
      <3>1. place \in Places
        BY DEF Places
      <3> QED BY <1>2, <1>5, <2>0, <3>1, GoneTo DEF Goto
    <2>2. Follows(f)
      BY <1>2, <2>1 DEF Follows, Past
    <2> QED BY <1>2, <2>1, <2>2, FollowsMoves
  <1> QED BY <1>3, <1>4, <1>5 DEF NextChild

\* The beginning of the loop over the children.
LEMMA FollowsDown ==
  ASSUME KInv, stack # <<>>, Replace([Top EXCEPT !.at = "children", !.todo = Children[Top.node]]),
         Mode = "deinit" \/ \A c \in ToSet(Children[Top.node]) : parent[c] = NoNode
  PROVE  \A g \in ToSet(stack') : Follows(g)
  <1>0. PICK f : f = [Top EXCEPT !.at = "children", !.todo = Children[Top.node]]
    OBVIOUS
  <1>1. f \in FrameType /\ f.node = Top.node /\ f.at = "children" /\ f.todo = Children[Top.node] /\ Replace(f)
    BY <1>0, GoneDown
  <1>2. Follows(f)
    BY <1>1 DEF Follows
  <1> QED BY <1>1, <1>2, FollowsMoves

\* All the steps of the walk.
LEMMA WorkFollows ==
  ASSUME KInv, Work
  PROVE  /\ stack # <<>> /\ UNCHANGED <<holder, held, last>>
         /\ (stack' = <<>> /\ Throw) \/ request' = request
         /\ \A g \in ToSet(stack') : Follows(g)
  <1>1. stack # <<>>
    BY DEF Work, GetInterface, RegisterCommands, Adopt, NextChild, Publish, Register, Start, Announce,
           Deregister, DeregisterCommands, Unpublish, At
  <1>2. ASSUME Throw
        PROVE  /\ UNCHANGED <<holder, held, last>> /\ stack' = <<>> /\ \A g \in ToSet(stack') : Follows(g)
    <2>1. ToSet(stack') = {}
      BY <1>2 DEF Throw, ToSet
    <2> QED BY <1>2, <2>1 DEF Throw
  <1>3. CASE GetInterface
    <2>1. CASE Goto("command") /\ UNCHANGED callVars
      BY <1>1, <2>1, FollowsGoes DEF Places, callVars
    <2> QED BY <1>1, <1>2, <1>3, <2>1 DEF GetInterface, MayThrow
  <1>4. CASE RegisterCommands
    <2>1. CASE Goto(IF Top.node \in PVs THEN "publish" ELSE "adopt") /\ UNCHANGED callVars
      BY <1>1, <2>1, FollowsGoes DEF Places, callVars
    <2> QED BY <1>1, <1>2, <1>4, <2>1 DEF RegisterCommands, MayThrow
  <1>5. CASE Adopt
    <2> DEFINE kids  == Children[Top.node]
               taken == { i \in DOMAIN kids : parent[kids[i]] # NoNode }
    <2>1. CASE taken = {} /\ Replace([Top EXCEPT !.at = "children", !.todo = kids]) /\ UNCHANGED callVars
      <3>1. \A c \in ToSet(Children[Top.node]) : parent[c] = NoNode
        BY <2>1 DEF ToSet
      <3> QED BY <1>1, <2>1, <3>1, FollowsDown DEF callVars
    <2> QED BY <1>1, <1>2, <1>5, <2>1 DEF Adopt
  <1>6. CASE NextChild
    BY <1>1, <1>6, FollowsNextChild DEF NextChild, callVars
  <1>7. CASE Publish
    <2>1. CASE Goto("register") /\ UNCHANGED callVars
      BY <1>1, <2>1, FollowsGoes DEF Places, callVars
    <2>2. CASE UNCHANGED <<published, stack, request, holder, held, last, calls>>
      BY <1>1, <2>2 DEF Follows
    <2> QED BY <1>1, <1>2, <1>7, <2>1, <2>2 DEF Publish, MayThrow
  <1>8. CASE Register
    <2>1. CASE Leave /\ UNCHANGED callVars
      BY <1>1, <2>1, FollowsReturns DEF callVars
    <2> QED BY <1>1, <1>2, <1>8, <2>1 DEF Register
  <1>9. CASE Start \/ Announce \/ Unpublish
    BY <1>1, <1>9, FollowsReturns DEF Start, Announce, Unpublish, callVars
  <1>10. CASE Deregister
    BY <1>1, <1>10, FollowsGoes DEF Deregister, Places, callVars
  <1>11. CASE DeregisterCommands
    <2>1. At("uncommand") /\ UNCHANGED callVars
      BY <1>11 DEF DeregisterCommands
    <2>2. Top.node \in Components /\ "uncommand" \in PlacesOf(Mode, Top.node) /\ Mode \in {"init", "deinit"}
      BY <2>1, Here
    <2>3. Mode = "deinit"
      BY <2>2, Who
    <2>4. CASE Goto("unpublish")
      BY <1>1, <2>1, <2>4, FollowsGoes DEF Places, callVars
    <2>5. CASE Replace([Top EXCEPT !.at = "children", !.todo = Children[Top.node]])
      BY <1>1, <2>1, <2>3, <2>5, FollowsDown DEF callVars
    <2> QED BY <1>11, <2>4, <2>5 DEF DeregisterCommands
  <1> QED BY <1>3, <1>4, <1>5, <1>6, <1>7, <1>8, <1>9, <1>10, <1>11 DEF Work

-----------------------------------------------------------------------------
(* What there is between the calls                                          *)

\* A root that has been initialized and not since failed, or is held still.
Settled(r) == r \in held \/ last[r] = "deinit"

SettledInv == \A r \in Roots : Settled(r) => AdoptedTree(r)

\* The factory deinitializes what it holds, each once.
PendingInv ==
  /\ \A t \in Threads : request[t].kind = "deinit" => request[t].root \in held
  /\ \A t, u \in Threads :
       request[t].kind = "deinit" /\ request[u].kind = "deinit" /\ request[t].root = request[u].root => t = u

\* The children of a root are adopted once.
LoneInv ==
  \A f \in ToSet(stack) :
    Mode = "init" /\ f.node = Root /\ Past(f) /\ Settled(Root) => ToSet(Children[Root]) = {}

\* Parents are set once, by whatever step.
LEMMA ParentsKept ==
  ASSUME KInv, [Next]_vars
  PROVE  \A c \in Components : parent[c] # NoNode => parent'[c] = parent[c]
  <1>1. CASE Adopt
    BY <1>1, Adopted
  <1>2. Adopt \/ UNCHANGED parent
    BY DEF Next, Work, CallInitialize, CallDeinitialize, Lock, Unlock, GetInterface, RegisterCommands, NextChild,
           Publish, Register, Start, Announce, Deregister, DeregisterCommands, Unpublish, Finished, vars, treeVars
  <1> QED BY <1>1, <1>2

\* The steps by what they change: a call that begins, the lock, the end of a call, the
\* walk, or nothing.
LEMMA Steps ==
  ASSUME [Next]_vars
  PROVE  \/ \E t \in Threads : \E r \in Roots : CallInitialize(t, r) \/ CallDeinitialize(t, r)
         \/ \E t \in Threads : Lock(t)
         \/ \E t \in Threads : Unlock(t)
         \/ Work
         \/ UNCHANGED <<treeVars, registers, stack, request, holder, held, last>>
  <1>1. CASE UNCHANGED vars
    BY <1>1 DEF vars, callVars
  <1>2. CASE Finished
    BY <1>1, <1>2 DEF Finished
  <1> QED BY <1>1, <1>2 DEF Next

\* Calls that begin leave the holder in its own.
LEMMA CallFacts ==
  ASSUME KInv, NEW t \in Threads, NEW r \in Roots, CallInitialize(t, r) \/ CallDeinitialize(t, r)
  PROVE  /\ UNCHANGED <<treeVars, registers, holder, stack, held, last>>
         /\ \A u \in Threads \ {t} : request'[u] = request[u]
         /\ request'[t].root = r /\ request[t].kind = "none"
         /\ holder # NoThread => Mode' = Mode /\ Root' = Root
  <1>1. PICK k : /\ UNCHANGED <<treeVars, registers, holder, stack, held, last>> /\ request[t] = NoCall
                 /\ request' = [request EXCEPT ![t] = [kind |-> k, root |-> r]]
    BY DEF CallInitialize, CallDeinitialize
  <1>2. /\ \A u \in Threads \ {t} : request'[u] = request[u]
        /\ request'[t].root = r /\ request[t].kind = "none"
    BY <1>1 DEF KInv, CallInv, NoCall
  <1>3. holder # NoThread => holder # t /\ holder \in Threads
    BY <1>1 DEF KInv, CallInv, NoCall
  <1>4. holder # NoThread => Mode' = Mode /\ Root' = Root
    BY <1>1, <1>2, <1>3 DEF Mode, Root
  <1> QED BY <1>1, <1>2, <1>4

\* The end of a call.
LEMMA UnlockFacts ==
  ASSUME KInv, NEW t \in Threads, Unlock(t)
  PROVE  /\ holder = t /\ holder # NoThread /\ stack = <<>> /\ holder' = NoThread
         /\ Root \in Roots /\ Mode \in {"init", "deinit", "failed"}
         /\ UNCHANGED <<treeVars, registers, stack>>
         /\ \A u \in Threads \ {t} : request'[u] = request[u]
         /\ request'[t] = NoCall /\ NoCall.kind = "none"
         /\ Mode = "init" => held' = held \cup {Root}
         /\ Mode = "deinit" => held' = held \ {Root}
         /\ Mode = "failed" => held' = held
         /\ \A r \in Roots : last'[r] = IF r = Root THEN Mode ELSE last[r]
  <1>1. /\ holder = t /\ stack = <<>> /\ holder' = NoThread
        /\ request' = [request EXCEPT ![t] = NoCall]
        /\ UNCHANGED <<treeVars, registers, stack>>
        /\ last' = [last EXCEPT ![Root] = Mode]
    BY DEF Unlock, Root, Mode
  <1>2. Root \in Roots /\ Mode \in {"init", "deinit", "failed"}
    BY <1>1, LifecycleAssumption DEF KInv, CallInv, Root, Mode
  <1>3. /\ Mode = "init" => held' = held \cup {Root}
        /\ Mode = "deinit" => held' = held \ {Root}
        /\ Mode = "failed" => held' = held
    BY <1>1 DEF Unlock, Root, Mode
  <1>4. request'[t] = NoCall /\ \A u \in Threads \ {t} : request'[u] = request[u]
    BY <1>1 DEF KInv, CallInv
  <1>5. \A r \in Roots : last'[r] = IF r = Root THEN Mode ELSE last[r]
    BY <1>1 DEF KInv, Typed
  <1>6. NoCall.kind = "none" /\ t # NoThread
    BY LifecycleAssumption DEF NoCall
  <1> QED BY <1>1, <1>2, <1>3, <1>4, <1>5, <1>6

\* What the end of a call rests on.
LEMMA EndStep ==
  ASSUME KInv, HandledInv, EndInv, [Next]_vars
  PROVE  EndInv'
  <1>1. ASSUME NEW t \in Threads, NEW r \in Roots, CallInitialize(t, r) \/ CallDeinitialize(t, r)
        PROVE  EndInv'
    <2>1. /\ UNCHANGED <<treeVars, registers, holder, stack>>
          /\ holder # NoThread => Mode' = Mode /\ Root' = Root
      BY <1>1, CallFacts
    <2>2. ASSUME NEW c, Mode' = Mode PROVE Handled(c)' = Handled(c)
      BY <2>1, <2>2 DEF Handled, Done, Gone, Registered, AdoptedTree, treeVars, registers
    <2>3. PICK c : c = Root
      OBVIOUS
    <2> QED BY <2>1, <2>2, <2>3 DEF EndInv
  <1>2. ASSUME NEW t \in Threads, Lock(t) PROVE EndInv'
    <2>1. stack' # <<>>
      BY <1>2 DEF Lock
    <2> QED BY <2>1 DEF EndInv
  <1>3. ASSUME NEW t \in Threads, Unlock(t) PROVE EndInv'
    BY <1>3 DEF Unlock, EndInv
  <1>4. CASE Work
    BY <1>4, HandledWork
  <1>5. CASE UNCHANGED <<treeVars, registers, stack, request, holder, held, last>>
    BY <1>5 DEF EndInv, Handled, Done, Gone, Registered, AdoptedTree, treeVars, registers, Mode, Root
  <1> QED BY <1>1, <1>2, <1>3, <1>4, <1>5, Steps

\* Every step keeps it.
LEMMA PendingStep ==
  ASSUME KInv, PendingInv, [Next]_vars
  PROVE  PendingInv'
  <1>1. ASSUME NEW t \in Threads, NEW r \in Roots, CallInitialize(t, r) PROVE PendingInv'
    <2>1. /\ held' = held /\ \A u \in Threads \ {t} : request'[u] = request[u]
          /\ request'[t].kind = "init"
      BY <1>1, CallFacts DEF CallInitialize, KInv, CallInv
    <2> QED BY <2>1 DEF PendingInv
  <1>2. ASSUME NEW t \in Threads, NEW r \in Roots, CallDeinitialize(t, r) PROVE PendingInv'
    <2>1. /\ held' = held /\ \A u \in Threads \ {t} : request'[u] = request[u]
          /\ request'[t].root = r /\ r \in held
          /\ \A u \in Threads : request[u] # [kind |-> "deinit", root |-> r]
      BY <1>2, CallFacts DEF CallDeinitialize
    <2>2. \A u \in Threads : ~ (request[u].kind = "deinit" /\ request[u].root = r)
      <3>1. \A u \in Threads : request[u] = [kind |-> request[u].kind, root |-> request[u].root]
        BY DEF KInv, CallInv
      <3> QED BY <2>1, <3>1
    <2> QED BY <2>1, <2>2 DEF PendingInv
  <1>3. ASSUME NEW t \in Threads, Lock(t) PROVE PendingInv'
    BY <1>3 DEF Lock, PendingInv
  <1>4. ASSUME NEW t \in Threads, Unlock(t) PROVE PendingInv'
    <2>1. /\ \A u \in Threads \ {t} : request'[u] = request[u]
          /\ request'[t].kind = "none" /\ held \ {Root} \subseteq held'
          /\ Mode # "deinit" => held \subseteq held'
      BY <1>4, UnlockFacts
    <2>2. holder = t
      BY <1>4, UnlockFacts
    <2>3. ASSUME NEW u \in Threads, request'[u].kind = "deinit" PROVE request'[u].root \in held'
      <3>1. u # t /\ request'[u] = request[u] /\ request[u].root \in held
        BY <2>1, <2>3 DEF PendingInv
      <3>2. Mode = "deinit" => request[u].root # Root
        BY <2>2, <2>3, <3>1 DEF PendingInv, Mode, Root
      <3> QED BY <2>1, <3>1, <3>2
    <2> QED BY <2>1, <2>3 DEF PendingInv
  <1>5. CASE Work
    <2>1. CASE request' = request
      BY <1>5, <2>1, WorkFollows DEF PendingInv
    <2>2. CASE Throw
      <3>1. held' = held /\ request' = [request EXCEPT ![holder] = [@ EXCEPT !.kind = "failed"]]
        BY <2>2 DEF Throw
      <3>2. \A u \in Threads : request'[u].kind = "deinit" => request'[u] = request[u]
        BY <3>1 DEF KInv, CallInv
      <3> QED BY <3>1, <3>2 DEF PendingInv
    <2> QED BY <1>5, <2>1, <2>2, WorkFollows
  <1>6. CASE UNCHANGED <<treeVars, registers, stack, request, holder, held, last>>
    BY <1>6 DEF PendingInv
  <1> QED BY <1>1, <1>2, <1>3, <1>4, <1>5, <1>6, Steps

\* A call that ends well has given parents to the whole tree.
LEMMA SettledStep ==
  ASSUME KInv, EndInv, PendingInv, SettledInv, [Next]_vars
  PROVE  SettledInv'
  <1>1. ASSUME NEW r \in Roots, AdoptedTree(r) PROVE AdoptedTree(r)'
    <2>1. r \in Components
      BY LifecycleAssumption
    <2> QED BY <1>1, <2>1, ParentsKept, AdoptedKept
  <1>2. CASE UNCHANGED <<held, last>>
    BY <1>1, <1>2 DEF SettledInv, Settled
  <1>3. ASSUME NEW t \in Threads, Unlock(t) PROVE SettledInv'
    <2>1. SUFFICES ASSUME NEW r \in Roots, Settled(r)' PROVE AdoptedTree(r)
      BY <1>1 DEF SettledInv
    <2>2. /\ holder = t /\ holder # NoThread /\ stack = <<>> /\ Mode \in {"init", "deinit", "failed"}
          /\ last'[r] = IF r = Root THEN Mode ELSE last[r]
          /\ Mode = "init" => held' = held \cup {Root}
          /\ Mode = "deinit" => held' = held \ {Root}
          /\ Mode = "failed" => held' = held
      BY <1>3, UnlockFacts
    <2>3. CASE Settled(r)
      BY <2>3 DEF SettledInv
    <2>4. CASE r = Root /\ Mode = "init"
      BY <2>2, <2>4 DEF EndInv, Handled, Done
    <2>5. CASE r = Root /\ Mode = "deinit"
      <3>1. r \in held
        BY <2>2, <2>5 DEF PendingInv, Mode, Root
      <3> QED BY <3>1 DEF SettledInv, Settled
    <2> QED BY <2>1, <2>2, <2>3, <2>4, <2>5 DEF Settled
  <1>4. UNCHANGED <<held, last>> \/ \E t \in Threads : Unlock(t)
    BY Steps, WorkFollows DEF CallInitialize, CallDeinitialize, Lock
  <1> QED BY <1>2, <1>3, <1>4

\* Every step keeps it.
LEMMA LoneStep ==
  ASSUME KInv, SettledInv, LoneInv, [Next]_vars
  PROVE  LoneInv'
  <1>1. CASE UNCHANGED <<stack, held, last>> /\ (stack # <<>> => Mode' = Mode /\ Root' = Root)
    <2>1. ToSet(stack) # {} => stack # <<>>
      BY DEF ToSet
    <2> QED BY <1>1, <2>1 DEF LoneInv, Settled
  <1>2. ASSUME NEW t \in Threads, NEW r \in Roots, CallInitialize(t, r) \/ CallDeinitialize(t, r)
        PROVE  LoneInv'
    <2>1. UNCHANGED <<stack, held, last>> /\ (holder # NoThread => Mode' = Mode /\ Root' = Root)
      BY <1>2, CallFacts
    <2> QED BY <1>1, <2>1 DEF KInv, CallInv
  <1>3. ASSUME NEW t \in Threads, Lock(t) PROVE LoneInv'
    <2>1. PICK f : f = Enter(request[t].kind, request[t].root)
      OBVIOUS
    <2>2. stack' = <<f>> /\ f.at \in {"deregister", "uncommand", "interface", "command"}
      BY <1>3, <2>1 DEF Lock, Enter, Frame
    <2>3. ToSet(stack') = {f} /\ ~ Past(f)
      BY <2>2 DEF ToSet, Past
    <2> QED BY <2>3 DEF LoneInv
  <1>4. ASSUME NEW t \in Threads, Unlock(t) PROVE LoneInv'
    <2>1. ToSet(stack') = {}
      BY <1>4 DEF Unlock, ToSet
    <2> QED BY <2>1 DEF LoneInv
  <1>5. CASE Work
    <2>1. /\ stack # <<>> /\ UNCHANGED <<holder, held, last>> /\ \A g \in ToSet(stack') : Follows(g)
          /\ (stack' = <<>> /\ Throw) \/ request' = request
      BY <1>5, WorkFollows
    <2>2. CASE stack' = <<>>
      <3>1. ToSet(stack') = {}
        BY <2>2 DEF ToSet
      <3> QED BY <3>1 DEF LoneInv
    <2>3. CASE request' = request
      <3>1. Mode' = Mode /\ Root' = Root /\ Root \in Roots /\ Root \in Components
        BY <2>1, <2>3, LifecycleAssumption DEF Mode, Root, KInv, CallInv
      <3>2. SUFFICES ASSUME NEW g \in ToSet(stack'), Mode = "init", g.node = Root, Past(g), Settled(Root)
                     PROVE  ToSet(Children[Root]) = {}
        BY <2>1, <3>1 DEF LoneInv, Settled
      <3>3. Top \in ToSet(stack) /\ Top.node \in Components
        BY <2>1, TopOfStack DEF KInv, FrameType
      <3>4. CASE g \in ToSet(stack)
        BY <3>2, <3>4 DEF LoneInv
      <3>5. CASE g.node = Top.node /\ Past(Top)
        BY <3>2, <3>3, <3>5 DEF LoneInv
      <3>6. CASE \A c \in ToSet(Children[g.node]) : parent[c] = NoNode
        <4>1. AdoptedTree(Root) /\ Root \in Tree(Root) /\ Root # NoNode
          BY <3>1, <3>2, TreeFacts, LifecycleAssumption DEF SettledInv
        <4>2. \A c \in ToSet(Children[Root]) : parent[c] = Root
          BY <4>1 DEF AdoptedTree
        <4> QED BY <3>2, <3>6, <4>1, <4>2
      <3> QED BY <2>1, <3>2, <3>4, <3>5, <3>6 DEF Follows
    <2> QED BY <2>1, <2>2, <2>3
  <1>6. CASE UNCHANGED <<treeVars, registers, stack, request, holder, held, last>>
    BY <1>1, <1>6 DEF Mode, Root
  <1> QED BY <1>2, <1>3, <1>4, <1>5, <1>6, Steps

-----------------------------------------------------------------------------
(* Where the walk is in the trees                                           *)

\* Each function on the stack was called for a child of the one before.
LEMMA Links ==
  ASSUME KInv, NEW k \in 1 .. Len(stack) - 1
  PROVE  /\ stack[k] \in ToSet(stack) /\ stack[k + 1] \in ToSet(stack)
         /\ stack[k].node \in Components /\ stack[k].at = "children"
         /\ stack[k + 1].node \in ToSet(Children[stack[k].node])
         /\ stack[k + 1].node \notin ToSet(stack[k].todo)
         /\ Mode = "init" => \A c \in ToSet(Children[stack[k].node]) : parent[c] = stack[k].node
  <1>1. stack # <<>> /\ Len(stack) \in Nat /\ DOMAIN stack = 1 .. Len(stack)
    BY EmptySeq DEF KInv, Typed
  <1>2. stack[k] \in FrameType /\ stack[k] \in ToSet(stack) /\ stack[k + 1] \in ToSet(stack)
    BY <1>1 DEF KInv, Typed, ToSet
  <1>3. Calls(stack[k], stack[k + 1]) /\ FrameOK(stack[k])
    BY <1>2 DEF KInv, WalkInv
  <1>4. stack[k].node \in Components
    BY <1>2 DEF FrameType
  <1> QED BY <1>2, <1>3, <1>4 DEF Calls, FrameOK, Past

\* What the functions on the stack are about.
LEMMA Nodes ==
  ASSUME KInv, NEW k \in 1 .. Len(stack)
  PROVE  stack[k].node \in Components /\ stack[k] \in ToSet(stack) /\ Len(stack) \in Nat
  <1>1. stack[k] \in FrameType /\ stack[k] \in ToSet(stack) /\ Len(stack) \in Nat
    BY DEF KInv, Typed, ToSet
  <1> QED BY <1>1 DEF FrameType

\* It is in no component twice,
LEMMA NodesDistinct ==
  ASSUME KInv, NEW i \in 1 .. Len(stack), NEW j \in 1 .. Len(stack), i < j
  PROVE  stack[i].node # stack[j].node
  <1> SUFFICES ASSUME stack[i].node = stack[j].node PROVE FALSE
    OBVIOUS
  <1> DEFINE S == { stack[m].node : m \in i + 1 .. j }
  <1>0. Len(stack) \in Nat
    BY Nodes
  <1>1. \A m \in i + 1 .. j : m \in 1 .. Len(stack) /\ m - 1 \in 1 .. Len(stack) - 1 /\ (m - 1) + 1 = m
    BY <1>0
  <1>2. S \in SUBSET Components
    BY <1>1, Nodes
  <1>3. stack[j].node \in S
    BY <1>0
  <1>4. PICK c \in S : \A d \in S : c \notin ToSet(Children[d])
    BY <1>2, <1>3, LifecycleAssumption
  <1>5. PICK m \in i + 1 .. j : c = stack[m].node
    BY <1>4
  <1>6. PICK l \in 1 .. Len(stack) - 1 : l = m - 1 /\ l + 1 = m
    BY <1>1, <1>5
  <1>7. stack[l].node \in S
    <2>1. CASE l = i
      BY <1>3, <2>1
    <2>2. CASE l # i
      <3>1. l \in i + 1 .. j
        BY <1>6, <2>2
      <3> QED BY <3>1
    <2> QED BY <2>1, <2>2
  <1>8. c \in ToSet(Children[stack[l].node])
    BY <1>5, <1>6, Links
  <1> HIDE DEF S
  <1> QED BY <1>4, <1>7, <1>8

\* stays in the tree of the root,
LEMMA InsideRoot ==
  ASSUME KInv, NEW k \in 1 .. Len(stack)
  PROVE  stack[k].node \in Tree(Root) /\ Root \in Components
  <1> DEFINE S == { stack[m].node : m \in { l \in 1 .. Len(stack) : stack[l].node \notin Tree(Root) } }
  <1>0. Len(stack) \in Nat \ {0} /\ stack[1].node = Root /\ stack # <<>>
    <2>1. Len(stack) \in Nat \ {0}
      BY Nodes
    <2>2. stack # <<>>
      BY <2>1
    <2> QED BY <2>1, <2>2 DEF KInv, WalkInv
  <1>1. Root \in Components
    <2>1. 1 \in 1 .. Len(stack)
      BY <1>0
    <2> QED BY <1>0, <2>1, Nodes
  <1> SUFFICES ASSUME S # {} PROVE FALSE
    BY <1>1
  <1>2. S \in SUBSET Components
    BY Nodes
  <1>3. PICK c \in S : \A d \in S : c \notin ToSet(Children[d])
    BY <1>2, LifecycleAssumption
  <1>4. PICK m \in 1 .. Len(stack) : stack[m].node \notin Tree(Root) /\ c = stack[m].node
    BY <1>3
  <1>5. m # 1
    BY <1>0, <1>1, <1>4, TreeFacts
  <1>6. PICK l \in 1 .. Len(stack) - 1 : l + 1 = m /\ l \in 1 .. Len(stack)
    BY <1>0, <1>4, <1>5
  <1>7. c \in ToSet(Children[stack[l].node])
    BY <1>4, <1>6, Links
  <1>8. stack[l].node \notin S
    BY <1>3, <1>7
  <1>9. stack[l].node \in Tree(Root)
    BY <1>6, <1>8
  <1> QED BY <1>1, <1>4, <1>7, <1>9, TreeFacts

\* No root is below another: what the drivers make with createRootNode.
RootsAreTop == \A r \in Roots : \A c \in Components : r \notin ToSet(Children[c])

\* and is not in that of another root whose tree has been adopted.
LEMMA NotVisited ==
  ASSUME RootsAreTop, KInv, Mode = "init", NEW r \in Roots, AdoptedTree(r), r # Root, NEW k \in 1 .. Len(stack)
  PROVE  stack[k].node \notin Tree(r)
  <1> DEFINE S == { stack[m].node : m \in { l \in 1 .. Len(stack) : stack[l].node \in Tree(r) } }
  <1> SUFFICES ASSUME S # {} PROVE FALSE
    OBVIOUS
  <1>0. Len(stack) \in Nat \ {0} /\ stack[1].node = Root /\ Root \in Components /\ r \in Components
    <2>1. Len(stack) \in Nat \ {0}
      BY Nodes
    <2>2. stack # <<>>
      BY <2>1
    <2> QED BY <2>1, <2>2, InsideRoot, LifecycleAssumption DEF KInv, WalkInv
  <1>1. S \in SUBSET Components
    BY Nodes
  <1>2. PICK c \in S : \A d \in S : c \notin ToSet(Children[d])
    BY <1>1, LifecycleAssumption
  <1>3. PICK m \in 1 .. Len(stack) : stack[m].node \in Tree(r) /\ c = stack[m].node
    BY <1>2
  <1>4. ASSUME NEW x \in Tree(r), x # r PROVE parent[x] \in Tree(r) /\ x \in ToSet(Children[parent[x]])
    BY <1>0, <1>4, TreeAbove DEF AdoptedTree
  <1>5. Root \notin Tree(r)
    <2>1. Root \in Roots
      BY <1>0, EmptySeq DEF KInv, CallInv, Root
    <2> QED BY <1>0, <2>1, TreeAbove, TreeFacts DEF RootsAreTop
  <1>6. m # 1
    BY <1>0, <1>3, <1>5
  <1>7. PICK l \in 1 .. Len(stack) - 1 : l + 1 = m /\ l \in 1 .. Len(stack)
    BY <1>0, <1>3, <1>6
  <1>8. c \in ToSet(Children[stack[l].node]) /\ parent[c] = stack[l].node /\ stack[l].node \in Components
    BY <1>3, <1>7, Links
  <1>9. c # r
    BY <1>8 DEF RootsAreTop
  <1>10. stack[l].node \in Tree(r)
    BY <1>3, <1>4, <1>8, <1>9
  <1>11. stack[l].node \in S
    BY <1>7, <1>10
  <1> QED BY <1>2, <1>8, <1>11

\* Trees that have been adopted have nothing in common.
LEMMA Apart ==
  ASSUME RootsAreTop, NEW r \in Roots, NEW s \in Roots, r # s, AdoptedTree(r), AdoptedTree(s)
  PROVE  Tree(r) \cap Tree(s) = {}
  <1> DEFINE S == Tree(r) \cap Tree(s)
  <1> SUFFICES ASSUME S # {} PROVE FALSE
    OBVIOUS
  <1>0. r \in Components /\ s \in Components
    BY LifecycleAssumption
  <1>1. S \in SUBSET Components
    BY <1>0, TreeFacts
  <1>2. PICK c \in S : \A d \in S : c \notin ToSet(Children[d])
    BY <1>1, LifecycleAssumption
  <1>3. c # r /\ c # s
    BY <1>0, <1>2, TreeAbove, TreeFacts DEF RootsAreTop
  <1>4. parent[c] \in Tree(r) /\ c \in ToSet(Children[parent[c]])
    BY <1>0, <1>2, <1>3, TreeAbove DEF AdoptedTree
  <1>5. parent[c] \in Tree(s)
    BY <1>0, <1>2, <1>3, TreeAbove DEF AdoptedTree
  <1> QED BY <1>2, <1>4, <1>5

-----------------------------------------------------------------------------
(* What the registers keep of the other trees                               *)

\* In the register of PVs a name stands for one of them.
UniqueInv == \A p, q \in registry : name[p] = name[q] => p = q

\* What initialize has yet to register is not there.
FreshInv ==
  \A f \in ToSet(stack) :
    Mode = "init" =>
      /\ Past(f) => ToSet(f.todo) \cap registry = {}
      /\ f.node \in PVs => f.node \notin registry

\* What can be found has a parent.
LEMMA FoundHasParent ==
  ASSUME KInv, NEW p \in registry
  PROVE  parent[p] # NoNode /\ p \in PVs
  <1>1. p \in PVs /\ p \in Components /\ p \notin Ports /\ PortOf(p) # NoNode
    BY KTypes, KindFacts DEF KInv, FoundInv
  <1>2. PortOf(p) = Answer(parent, Nearest(parent), p)
    <2>1. PortOf(p) = Nearest(parent)[p] /\ Chained(parent)
      BY PortIsNearest, KTypes
    <2>2. Nearest(parent)[p] = Answer(parent, Nearest(parent), p)
      BY <1>1, <2>1, NearestFacts
    <2> QED BY <2>1, <2>2
  <1> QED BY <1>1, <1>2 DEF Answer, Ports

\* What initialize does to the registers, and deinitialize.
LEMMA InitRegisters ==
  ASSUME KInv, Work, Mode = "init"
  PROVE  /\ commands \subseteq commands' /\ published \subseteq published' /\ registry \subseteq registry'
         /\ commands' \subseteq commands \cup {Top.node} /\ published' \subseteq published \cup {Top.node}
         /\ registry' \subseteq registry \cup {Top.node}
         /\ registry' = registry \/ Register
         /\ name' = name \/ (RegisterCommands /\ registry' = registry)
  <1>1. ASSUME NEW place \in {"deregister", "uncommand", "unpublish"}, At(place) PROVE FALSE
    <2>1. Top.node \in Components /\ place \in PlacesOf("init", Top.node)
      BY <1>1, Here
    <2> QED BY <2>1, Who
  <1>2. ~ Deregister /\ ~ DeregisterCommands /\ ~ Unpublish
    BY <1>1 DEF Deregister, DeregisterCommands, Unpublish
  <1>3. CASE GetInterface \/ NextChild \/ Start \/ Announce
    BY <1>3 DEF GetInterface, NextChild, Start, Announce, registers, treeVars
  <1>4. CASE RegisterCommands
    BY <1>4 DEF RegisterCommands
  <1>5. CASE Adopt
    BY <1>5 DEF Adopt, registers
  <1>6. CASE Publish
    BY <1>6 DEF Publish, treeVars
  <1>7. CASE Register
    BY <1>7 DEF Register, treeVars
  <1> QED BY <1>2, <1>3, <1>4, <1>5, <1>6, <1>7 DEF Work

\* A step of a deinitialization takes out of each register at most the component it is
\* about; out of the registry, by its name.
LEMMA DeinitRegisters ==
  ASSUME KInv, Work, Mode = "deinit"
  PROVE  /\ commands' \subseteq commands /\ published' \subseteq published /\ registry' \subseteq registry
         /\ commands \subseteq commands' \cup {Top.node} /\ published \subseteq published' \cup {Top.node}
         /\ name' = name /\ request' = request
         /\ \A p \in registry \ registry' : Top.node \in PVs /\ name[p] = name[Top.node]
  <1>1. ASSUME NEW place \in {"interface", "command", "adopt", "publish", "register", "start", "announce"}, At(place)
        PROVE  FALSE
    <2>1. Top.node \in Components /\ place \in PlacesOf("deinit", Top.node)
      BY <1>1, Here
    <2> QED BY <2>1, Who
  <1>2. ~ GetInterface /\ ~ RegisterCommands /\ ~ Adopt /\ ~ Publish /\ ~ Register /\ ~ Start /\ ~ Announce
    BY <1>1 DEF GetInterface, RegisterCommands, Adopt, Publish, Register, Start, Announce
  <1>3. CASE NextChild
    BY <1>3 DEF NextChild, registers, treeVars, callVars
  <1>4. CASE Deregister
    <2>1. Top.node \in PVs
      <3>1. At("deregister")
        BY <1>4 DEF Deregister
      <3>2. Top.node \in Components /\ "deregister" \in PlacesOf("deinit", Top.node)
        BY <3>1, Here
      <3> QED BY <3>2, Who
    <2>2. \A p \in registry \ registry' : name[p] = name[Top.node]
      BY <1>4 DEF Deregister
    <2>3. registry' \subseteq registry
      BY <1>4 DEF Deregister
    <2> QED BY <1>4, <2>1, <2>2, <2>3 DEF Deregister, treeVars, callVars
  <1>5. CASE DeregisterCommands
    BY <1>5 DEF DeregisterCommands, treeVars, callVars
  <1>6. CASE Unpublish
    BY <1>6 DEF Unpublish, treeVars, callVars
  <1> QED BY <1>2, <1>3, <1>4, <1>5, <1>6 DEF Work

\* The PV that is registered is on no other list.
LEMMA FreshRegister ==
  ASSUME KInv, FreshInv, Register, request' = request
  PROVE  FreshInv'
  <1>1. At("register") /\ holder' = holder
    BY DEF Register, callVars, Throw
  <1>2. /\ stack # <<>> /\ Top.node \in Components /\ Mode \in {"init", "deinit"} /\ holder \in Threads
        /\ "register" \in PlacesOf(Mode, Top.node)
    BY <1>1, Here
  <1>3. Mode = "init" /\ Mode' = "init"
    BY <1>1, <1>2, Who DEF Mode
  <1>4. CASE Throw
    <2>1. request'[holder].kind = "failed"
      BY <1>2, <1>4 DEF Throw, KInv, CallInv
    <2> QED BY <1>1, <1>3, <2>1 DEF Mode
  <1>5. CASE Leave /\ registry' = registry \cup {Top.node}
    <2>1. Popped /\ Len(stack) \in Nat \ {0} /\ Top = stack[Len(stack)]
      BY <1>2, <1>5, Pops, TopOfStack DEF KInv
    <2>2. ASSUME NEW g \in ToSet(stack')
          PROVE  /\ Past(g) => ToSet(g.todo) \cap registry' = {}
                 /\ g.node \in PVs => g.node \notin registry'
      <3>1. PICK k \in 1 .. Len(stack) - 1 : g = stack[k]
        BY <2>1, <2>2 DEF Popped, ToSet
      <3>2. /\ g \in ToSet(stack) /\ g.node \in Components /\ g.at = "children"
            /\ \A c \in ToSet(Children[g.node]) : parent[c] = g.node
        BY <1>3, <3>1, Links
      <3>3. FrameOK(g) /\ g.node \notin PVs
        <4>1. FrameOK(g)
          BY <3>2 DEF KInv, WalkInv
        <4>2. "children" \in PlacesOf("init", g.node)
          BY <1>3, <3>2, <4>1 DEF FrameOK
        <4> QED BY <3>2, <4>1, <4>2, Who
      <3>4. ToSet(g.todo) \cap registry = {} /\ ToSet(g.todo) \subseteq ToSet(Children[g.node])
        BY <1>3, <3>2, <3>3 DEF FreshInv, FrameOK, Past
      <3>5. ASSUME Top.node \in ToSet(g.todo) PROVE FALSE
        <4>1. PICK l \in 1 .. Len(stack) - 1 : l + 1 = Len(stack) /\ l \in 1 .. Len(stack) /\ k <= l
          <5> DEFINE n == Len(stack)
          <5>1. n \in Nat \ {0} /\ k \in 1 .. n - 1
            BY <2>1, <3>1
          <5> HIDE DEF n
          <5>2. n - 1 \in 1 .. n - 1 /\ (n - 1) + 1 = n /\ n - 1 \in 1 .. n /\ k <= n - 1
            BY <5>1
          <5>3. \E l \in 1 .. n - 1 : l + 1 = n /\ l \in 1 .. n /\ k <= l
            BY <5>2
          <5> QED BY <5>3 DEF n
        <4>2. /\ Top.node \in ToSet(Children[stack[l].node]) /\ Top.node \notin ToSet(stack[l].todo)
              /\ parent[Top.node] = stack[l].node
          BY <1>3, <2>1, <4>1, Links
        <4>3. parent[Top.node] = g.node
          BY <3>2, <3>4, <3>5
        <4>4. k # l
          BY <3>1, <3>5, <4>2
        <4>5. k < l /\ k \in 1 .. Len(stack)
          BY <2>1, <3>1, <4>1, <4>4
        <4> QED BY <3>1, <4>1, <4>2, <4>3, <4>5, NodesDistinct
      <3> QED BY <1>5, <3>3, <3>4, <3>5
    <2> QED BY <2>2 DEF FreshInv
  <1> QED BY <1>4, <1>5 DEF Register

\* Every step keeps it.
LEMMA FreshStep ==
  ASSUME KInv, FreshInv, [Next]_vars
  PROVE  FreshInv'
  <1>1. CASE UNCHANGED <<stack, registers>> /\ (stack # <<>> => Mode' = Mode)
    <2>1. ToSet(stack) # {} => stack # <<>>
      BY DEF ToSet
    <2> QED BY <1>1, <2>1 DEF FreshInv, registers
  <1>2. ASSUME NEW t \in Threads, NEW r \in Roots, CallInitialize(t, r) \/ CallDeinitialize(t, r)
        PROVE  FreshInv'
    <2>1. UNCHANGED <<stack, registers>> /\ (holder # NoThread => Mode' = Mode)
      BY <1>2, CallFacts
    <2> QED BY <1>1, <2>1 DEF KInv, CallInv
  <1>3. ASSUME NEW t \in Threads, Lock(t) PROVE FreshInv'
    <2>1. PICK f : f = Enter(request[t].kind, request[t].root)
      OBVIOUS
    <2>2. stack' = <<f>> /\ f.at \in {"deregister", "uncommand", "interface", "command"} /\ f.node = request[t].root
      BY <1>3, <2>1 DEF Lock, Enter, Frame
    <2>3. ToSet(stack') = {f} /\ ~ Past(f)
      BY <2>2 DEF ToSet, Past
    <2>4. request[t].root \in Roots
      BY <1>3 DEF Lock, KInv, CallInv
    <2>5. f.node \notin PVs
      BY <2>2, <2>4, LifecycleAssumption
    <2> QED BY <2>3, <2>5 DEF FreshInv
  <1>4. ASSUME NEW t \in Threads, Unlock(t) PROVE FreshInv'
    <2>1. ToSet(stack') = {}
      BY <1>4 DEF Unlock, ToSet
    <2> QED BY <2>1 DEF FreshInv
  <1>5. CASE Work
    <2>1. /\ stack # <<>> /\ UNCHANGED <<holder, held, last>> /\ \A g \in ToSet(stack') : Follows(g)
          /\ (stack' = <<>> /\ Throw) \/ request' = request
      BY <1>5, WorkFollows
    <2>2. CASE stack' = <<>>
      <3>1. ToSet(stack') = {}
        BY <2>2 DEF ToSet
      <3> QED BY <3>1 DEF FreshInv
    <2>3. CASE request' = request
      <3>1. Mode' = Mode /\ Top \in ToSet(stack) /\ Top.node \in Components /\ FrameOK(Top)
        BY <2>1, <2>3, TopOfStack DEF Mode, KInv, FrameType
      <3>2. CASE Register
        BY <2>3, <3>2, FreshRegister
      <3>3. CASE registry' = registry
        <4>1. SUFFICES ASSUME NEW g \in ToSet(stack'), Mode = "init"
                       PROVE  /\ Past(g) => ToSet(g.todo) \cap registry = {}
                              /\ g.node \in PVs => g.node \notin registry
          BY <3>1, <3>3 DEF FreshInv
        <4>2. /\ Past(Top) => ToSet(Top.todo) \cap registry = {}
              /\ Top.node \in PVs => Top.node \notin registry
          BY <3>1, <4>1 DEF FreshInv
        <4>3. CASE g \in ToSet(stack)
          BY <4>1, <4>3 DEF FreshInv
        <4>4. CASE g.node = Top.node /\ (Past(g) => Past(Top) /\ ToSet(g.todo) \subseteq ToSet(Top.todo))
          BY <4>2, <4>4
        <4>5. CASE /\ g.node = Top.node
                   /\ ToSet(g.todo) \subseteq ToSet(Children[g.node])
                   /\ \A c \in ToSet(Children[g.node]) : parent[c] = NoNode
          <5>1. ToSet(g.todo) \cap registry = {}
            BY <4>5, FoundHasParent
          <5> QED BY <4>2, <4>5, <5>1
        <4>6. CASE ~ Past(g) /\ Past(Top) /\ g.node \in ToSet(Top.todo)
          BY <4>2, <4>6
        <4> QED BY <2>1, <4>1, <4>3, <4>4, <4>5, <4>6 DEF Follows
      <3>4. CASE Mode # "init"
        BY <3>1, <3>4 DEF FreshInv
      <3> QED BY <1>5, <3>2, <3>3, <3>4, InitRegisters
    <2> QED BY <2>1, <2>2, <2>3
  <1>6. CASE UNCHANGED <<treeVars, registers, stack, request, holder, held, last>>
    BY <1>1, <1>6 DEF Mode
  <1> QED BY <1>2, <1>3, <1>4, <1>5, <1>6, Steps

\* A name that is in the registry is refused.
LEMMA UniqueStep ==
  ASSUME KInv, FreshInv, UniqueInv, [Next]_vars
  PROVE  UniqueInv'
  <1>1. CASE UNCHANGED <<treeVars, registers>>
    BY <1>1 DEF UniqueInv, treeVars, registers
  <1>2. CASE Work
    <2>1. stack # <<>> /\ Mode \in {"init", "deinit"} /\ Top \in ToSet(stack)
      BY <1>2, WorkFollows, TopOfStack DEF KInv, CallInv
    <2>2. CASE name' = name /\ registry' \subseteq registry
      BY <2>2 DEF UniqueInv
    <2>3. CASE Mode = "init" /\ Register
      <3>1. name' = name /\ (registry' = registry \/ (registry' = registry \cup {Top.node}
                               /\ ~ \E p \in registry : name[p] = name[Top.node]))
        BY <2>3 DEF Register, treeVars
      <3> QED BY <3>1 DEF UniqueInv
    <2>4. CASE Mode = "init" /\ RegisterCommands /\ registry' = registry
      <3>1. name' = [name EXCEPT ![Top.node] = FullName(Top.node)]
        BY <2>4 DEF RegisterCommands
      <3>2. Top.node \notin registry /\ registry \subseteq Components
        BY <2>1, <2>4, KTypes, KindFacts DEF FreshInv
      <3>3. \A p \in registry : name'[p] = name[p]
        BY <3>1, <3>2, KTypes
      <3> QED BY <2>4, <3>3 DEF UniqueInv
    <2>5. CASE Mode = "deinit"
      BY <1>2, <2>2, <2>5, DeinitRegisters
    <2>6. CASE Mode = "init"
      BY <1>2, <2>2, <2>3, <2>4, <2>6, InitRegisters
    <2> QED BY <2>1, <2>5, <2>6
  <1>3. Work \/ UNCHANGED <<treeVars, registers>>
    BY Steps DEF CallInitialize, CallDeinitialize, Lock, Unlock
  <1> QED BY <1>1, <1>2, <1>3

\* The call in progress deinitializes this root.
Leaving(r) == holder # NoThread /\ Mode = "deinit" /\ Root = r

\* What is held is registered, what was deinitialized is not, unless it is being changed.
HeldInv == \A r \in held : Leaving(r) \/ Registered(Tree(r))
LastInv == \A r \in Roots : last[r] = "deinit" => (holder # NoThread /\ Root = r) \/ Gone(r)

\* The PVs that are held have names of their own.
NamesInv ==
  \A r, s \in held : \A p \in Tree(r) \cap PVs, q \in Tree(s) \cap PVs : name[p] = name[q] => p = q

\* Where the innermost function is.
LEMMA TopVisits ==
  ASSUME KInv, stack # <<>>
  PROVE  /\ Len(stack) \in 1 .. Len(stack) /\ 1 \in 1 .. Len(stack) /\ Top = stack[Len(stack)]
         /\ Top.node \in Tree(Root) /\ Root \in Roots
  <1>1. Len(stack) \in Nat \ {0} /\ Top = stack[Len(stack)]
    BY TopOfStack DEF KInv
  <1>2. Len(stack) \in 1 .. Len(stack) /\ 1 \in 1 .. Len(stack)
    BY <1>1
  <1>3. Top.node \in Tree(Root)
    BY <1>1, <1>2, InsideRoot
  <1>4. Root \in Roots
    BY DEF KInv, CallInv, Root
  <1> QED BY <1>1, <1>2, <1>3, <1>4

\* initialize visits no PV of a tree that has been initialized.
LEMMA NotAgain ==
  ASSUME RootsAreTop, KInv, SettledInv, LoneInv, Mode = "init", stack # <<>>, Top.node \in PVs,
         NEW r \in Roots, Settled(r)
  PROVE  Top.node \notin Tree(r)
  <1>1. /\ Len(stack) \in 1 .. Len(stack) /\ 1 \in 1 .. Len(stack) /\ Top = stack[Len(stack)]
        /\ Root \in Roots /\ AdoptedTree(r)
    BY TopVisits DEF SettledInv
  <1>2. CASE r # Root
    BY <1>1, <1>2, NotVisited
  <1>3. CASE r = Root
    <2>1. stack[1].node = Root /\ Root \notin PVs
      BY <1>1, LifecycleAssumption DEF KInv, WalkInv
    <2>2. Len(stack) # 1
      BY <1>1, <2>1
    <2>3. 1 \in 1 .. Len(stack) - 1
      <3>1. Len(stack) \in Nat
        BY <1>1, Nodes
      <3> DEFINE n == Len(stack)
      <3>2. n \in Nat /\ n \in 1 .. n /\ n # 1
        BY <1>1, <2>2, <3>1
      <3> HIDE DEF n
      <3>3. 1 \in 1 .. n - 1
        BY <3>2
      <3> QED BY <3>3 DEF n
    <2>4. /\ stack[1] \in ToSet(stack) /\ stack[1].at = "children"
          /\ stack[1 + 1].node \in ToSet(Children[stack[1].node])
      BY <2>3, Links
    <2>5. ToSet(Children[Root]) = {}
      BY <1>3, <2>1, <2>4 DEF LoneInv, Past
    <2> QED BY <2>1, <2>4, <2>5
  <1> QED BY <1>2, <1>3

\* Every step keeps it: a tree that is held is the business of its own deinitialization
\* only.
LEMMA HeldStep ==
  ASSUME RootsAreTop, KInv, EndInv, PendingInv, SettledInv, NamesInv, HeldInv, [Next]_vars
  PROVE  HeldInv'
  <1>1. held \subseteq Roots /\ Roots \subseteq Components
    BY LifecycleAssumption DEF KInv, Typed
  <1>2. ASSUME UNCHANGED <<treeVars, registers, held>>, NEW r \in held, Leaving(r) => Leaving(r)'
        PROVE  Leaving(r)' \/ Registered(Tree(r))'
    BY <1>2 DEF HeldInv, Registered, registers
  <1>3. ASSUME NEW t \in Threads, NEW r \in Roots, CallInitialize(t, r) \/ CallDeinitialize(t, r)
        PROVE  HeldInv'
    <2>1. /\ UNCHANGED <<treeVars, registers, held, holder>>
          /\ holder # NoThread => Mode' = Mode /\ Root' = Root
      BY <1>3, CallFacts
    <2> QED BY <1>2, <2>1 DEF HeldInv, Leaving
  <1>4. ASSUME NEW t \in Threads, Lock(t) PROVE HeldInv'
    <2>1. UNCHANGED <<treeVars, registers, held>> /\ holder = NoThread
      BY <1>4 DEF Lock
    <2> QED BY <1>2, <2>1 DEF HeldInv, Leaving
  <1>5. ASSUME NEW t \in Threads, Unlock(t) PROVE HeldInv'
    <2>1. /\ holder # NoThread /\ stack = <<>> /\ Mode \in {"init", "deinit", "failed"}
          /\ UNCHANGED <<treeVars, registers>>
          /\ Mode = "init" => held' = held \cup {Root}
          /\ Mode = "deinit" => held' = held \ {Root}
          /\ Mode = "failed" => held' = held
      BY <1>5, UnlockFacts
    <2>2. \A r \in held' : Registered(Tree(r))
      <3>1. Mode = "init" => Registered(Tree(Root))
        BY <2>1 DEF EndInv, Handled, Done
      <3> QED BY <2>1, <3>1 DEF HeldInv, Leaving
    <2>3. \A r \in held' : Registered(Tree(r))'
      BY <2>1, <2>2 DEF Registered, registers
    <2> QED BY <2>3 DEF HeldInv
  <1>6. CASE Work
    <2>1. /\ stack # <<>> /\ UNCHANGED <<holder, held, last>> /\ Mode \in {"init", "deinit"} /\ holder \in Threads
          /\ holder # NoThread
      BY <1>6, WorkFollows, LifecycleAssumption DEF KInv, CallInv
    <2>2. CASE Mode = "init"
      <3>1. commands \subseteq commands' /\ published \subseteq published' /\ registry \subseteq registry'
        BY <1>6, <2>2, InitRegisters
      <3>2. \A r \in held : Registered(Tree(r))
        BY <2>2 DEF HeldInv, Leaving
      <3>3. \A r \in held : Registered(Tree(r))'
        BY <3>1, <3>2 DEF Registered
      <3> QED BY <2>1, <3>3 DEF HeldInv
    <2>3. CASE Mode = "deinit"
      <3>1. /\ commands \subseteq commands' \cup {Top.node} /\ published \subseteq published' \cup {Top.node}
            /\ request' = request
            /\ \A p \in registry \ registry' : Top.node \in PVs /\ name[p] = name[Top.node]
        BY <1>6, <2>3, DeinitRegisters
      <3>2. Top.node \in Tree(Root) /\ Root \in Roots /\ Root \in held
        BY <2>1, <2>3, TopVisits DEF PendingInv, Mode, Root
      <3>3. ASSUME NEW r \in held, r # Root PROVE Registered(Tree(r))'
        <4>1. Registered(Tree(r)) /\ AdoptedTree(r) /\ AdoptedTree(Root)
          BY <1>1, <3>2, <3>3 DEF HeldInv, Leaving, SettledInv, Settled
        <4>2. Top.node \notin Tree(r)
          BY <1>1, <3>2, <3>3, <4>1, Apart
        <4>3. ASSUME NEW p \in Tree(r) \cap PVs PROVE p \in registry'
          <5>1. p \in registry
            BY <4>1, <4>3 DEF Registered
          <5>2. Top.node \in PVs => name[p] # name[Top.node]
            BY <3>2, <3>3, <4>2, <4>3 DEF NamesInv
          <5> QED BY <3>1, <5>1, <5>2
        <4> QED BY <3>1, <4>1, <4>2, <4>3 DEF Registered
      <3>4. Leaving(Root)'
        BY <2>1, <2>3, <3>1 DEF Leaving, Mode, Root
      <3>5. ASSUME NEW r \in held PROVE Leaving(r)' \/ Registered(Tree(r))'
        <4>1. CASE r = Root
          BY <2>1, <2>3, <3>1, <4>1 DEF Leaving, Mode, Root
        <4>2. CASE r # Root
          BY <3>3, <4>2
        <4> QED BY <4>1, <4>2
      <3> QED BY <2>1, <3>5 DEF HeldInv
    <2> QED BY <2>1, <2>2, <2>3
  <1>7. CASE UNCHANGED <<treeVars, registers, stack, request, holder, held, last>>
    BY <1>2, <1>7 DEF HeldInv, Leaving, Mode, Root
  <1> QED BY <1>3, <1>4, <1>5, <1>6, <1>7, Steps

\* Every step keeps it: what is gone is not registered again.
LEMMA LastStep ==
  ASSUME RootsAreTop, KInv, EndInv, SettledInv, LastInv, [Next]_vars
  PROVE  LastInv'
  <1>1. ASSUME UNCHANGED <<treeVars, registers>>, NEW r, Gone(r) PROVE Gone(r)'
    BY <1>1 DEF Gone, registers
  <1>2. ASSUME NEW t \in Threads, NEW r \in Roots, CallInitialize(t, r) \/ CallDeinitialize(t, r)
        PROVE  LastInv'
    <2>1. /\ UNCHANGED <<treeVars, registers, last, holder>>
          /\ holder # NoThread => Root' = Root
      BY <1>2, CallFacts
    <2> QED BY <1>1, <2>1 DEF LastInv
  <1>3. ASSUME NEW t \in Threads, Lock(t) PROVE LastInv'
    <2>1. UNCHANGED <<treeVars, registers, last>> /\ holder = NoThread
      BY <1>3 DEF Lock
    <2> QED BY <1>1, <2>1 DEF LastInv
  <1>4. ASSUME NEW t \in Threads, Unlock(t) PROVE LastInv'
    <2>1. /\ holder # NoThread /\ stack = <<>> /\ Mode \in {"init", "deinit", "failed"}
          /\ UNCHANGED <<treeVars, registers>>
          /\ \A r \in Roots : last'[r] = IF r = Root THEN Mode ELSE last[r]
      BY <1>4, UnlockFacts
    <2>2. Mode = "deinit" => Gone(Root)
      BY <2>1 DEF EndInv, Handled
    <2>3. \A r \in Roots : last'[r] = "deinit" => Gone(r)
      BY <2>1, <2>2 DEF LastInv
    <2> QED BY <1>1, <2>1, <2>3 DEF LastInv
  <1>5. CASE Work
    <2>1. /\ stack # <<>> /\ UNCHANGED <<holder, held, last>> /\ Mode \in {"init", "deinit"} /\ holder \in Threads
          /\ holder # NoThread
          /\ (stack' = <<>> /\ Throw) \/ request' = request
      BY <1>5, WorkFollows, LifecycleAssumption DEF KInv, CallInv
    <2>2. Root' = Root
      <3>1. CASE Throw
        BY <2>1, <3>1 DEF Throw, Root, KInv, CallInv
      <3>2. CASE request' = request
        BY <2>1, <3>2 DEF Root
      <3> QED BY <2>1, <3>1, <3>2
    <2>3. ASSUME NEW r \in Roots, last[r] = "deinit", r # Root PROVE Gone(r)'
      <3>1. Gone(r) /\ AdoptedTree(r)
        BY <2>3 DEF LastInv, SettledInv, Settled
      <3>2. CASE Mode = "deinit"
        <4>1. commands' \subseteq commands /\ published' \subseteq published /\ registry' \subseteq registry
          BY <1>5, <3>2, DeinitRegisters
        <4> QED BY <3>1, <4>1 DEF Gone
      <3>3. CASE Mode = "init"
        <4>1. Top.node \notin Tree(r)
          BY <2>1, <2>3, <3>1, <3>3, NotVisited, TopVisits
        <4>2. /\ commands' \subseteq commands \cup {Top.node} /\ published' \subseteq published \cup {Top.node}
              /\ registry' \subseteq registry \cup {Top.node}
          BY <1>5, <3>3, InitRegisters
        <4> QED BY <3>1, <4>1, <4>2 DEF Gone
      <3> QED BY <2>1, <3>2, <3>3
    <2> QED BY <2>1, <2>2, <2>3 DEF LastInv
  <1>6. CASE UNCHANGED <<treeVars, registers, stack, request, holder, held, last>>
    BY <1>1, <1>6 DEF LastInv, Root
  <1> QED BY <1>2, <1>3, <1>4, <1>5, <1>6, Steps

\* Every step keeps it: the name under which a PV is deregistered is its own.
LEMMA NamesStep ==
  ASSUME RootsAreTop, KInv, EndInv, SettledInv, LoneInv, UniqueInv, HeldInv, NamesInv, [Next]_vars
  PROVE  NamesInv'
  <1>1. held \subseteq Roots /\ Roots \subseteq Components
    BY LifecycleAssumption DEF KInv, Typed
  <1>2. CASE name' = name /\ held' \subseteq held
    BY <1>2 DEF NamesInv
  <1>3. ASSUME NEW t \in Threads, Unlock(t) PROVE NamesInv'
    <2>1. /\ holder # NoThread /\ stack = <<>> /\ Mode \in {"init", "deinit", "failed"}
          /\ UNCHANGED <<treeVars, registers>>
          /\ Mode = "init" => held' = held \cup {Root}
          /\ Mode = "deinit" => held' = held \ {Root}
          /\ Mode = "failed" => held' = held
      BY <1>3, UnlockFacts
    <2>2. CASE Mode = "init"
      <3>1. Registered(Tree(Root))
        BY <2>1, <2>2 DEF EndInv, Handled, Done
      <3>2. \A r \in held' : Registered(Tree(r))
        BY <2>1, <2>2, <3>1 DEF HeldInv, Leaving
      <3>3. \A r \in held' : Tree(r) \cap PVs \subseteq registry
        BY <3>2 DEF Registered
      <3>4. name' = name
        BY <2>1 DEF treeVars
      <3> QED BY <3>3, <3>4 DEF UniqueInv, NamesInv
    <2>3. CASE Mode # "init"
      BY <1>2, <2>1, <2>3 DEF treeVars
    <2> QED BY <2>2, <2>3
  <1>4. CASE Work
    <2>1. stack # <<>> /\ held' = held /\ Mode \in {"init", "deinit"}
      BY <1>4, WorkFollows DEF KInv, CallInv
    <2>2. CASE RegisterCommands /\ Mode = "init"
      <3>1. name' = [name EXCEPT ![Top.node] = FullName(Top.node)]
        BY <2>2 DEF RegisterCommands
      <3>2. ASSUME NEW r \in held, NEW p \in Tree(r) \cap PVs PROVE name'[p] = name[p]
        <4>1. p # Top.node
          BY <1>1, <2>1, <2>2, <3>2, NotAgain DEF Settled
        <4>2. p \in Components
          BY KindFacts
        <4> QED BY <3>1, <4>1, <4>2, KTypes
      <3> QED BY <2>1, <3>2 DEF NamesInv
    <2> QED BY <1>2, <1>4, <2>1, <2>2, InitRegisters, DeinitRegisters
  <1>5. Work \/ (\E t \in Threads : Unlock(t)) \/ (name' = name /\ held' = held)
    BY Steps DEF CallInitialize, CallDeinitialize, Lock, treeVars
  <1> QED BY <1>2, <1>3, <1>4, <1>5

\* All together.
RInv ==
  /\ KInv /\ HandledInv /\ EndInv /\ PendingInv /\ SettledInv /\ LoneInv
  /\ FreshInv /\ UniqueInv /\ HeldInv /\ LastInv /\ NamesInv

\* At first nothing is registered and nothing held.
LEMMA RInit == Init => RInv
  <1> SUFFICES ASSUME Init PROVE RInv
    OBVIOUS
  <1>1. KInv /\ HandledInv
    BY KInit, HandledInit
  <1>2. ToSet(stack) = {} /\ holder = NoThread /\ held = {} /\ registry = {}
    BY DEF Init, ToSet
  <1>3. \A r \in Roots : last[r] = "new"
    BY DEF Init
  <1>4. \A t \in Threads : request[t].kind = "none"
    BY DEF Init, NoCall
  <1>5. EndInv /\ PendingInv /\ SettledInv
    BY <1>2, <1>3, <1>4 DEF EndInv, PendingInv, SettledInv, Settled
  <1>6. LoneInv /\ FreshInv /\ UniqueInv
    BY <1>2 DEF LoneInv, FreshInv, UniqueInv
  <1>7. HeldInv /\ LastInv /\ NamesInv
    BY <1>2, <1>3 DEF HeldInv, LastInv, NamesInv
  <1> QED BY <1>1, <1>5, <1>6, <1>7 DEF RInv

\* The registers agree on every tree between the calls, for drivers whose roots are
\* nobody's children: what the factory holds is registered, what it has deinitialized is
\* not, and neither a call that failed nor what two trees wanted to share changes that
\* (initializeRootNode and deinitializeRootNode of NodeImpl, with holdNode).
THEOREM TreesAgree == RootsAreTop => (Spec => []RegistersAgree)
  <1> SUFFICES ASSUME RootsAreTop PROVE Spec => []RegistersAgree
    OBVIOUS
  <1>1. RInv /\ [Next]_vars => RInv'
    <2> SUFFICES ASSUME RInv, [Next]_vars PROVE RInv'
      OBVIOUS
    <2>1. KInv /\ HandledInv /\ EndInv /\ PendingInv /\ SettledInv /\ LoneInv
          /\ FreshInv /\ UniqueInv /\ HeldInv /\ LastInv /\ NamesInv
      BY DEF RInv
    <2>2. KInv' /\ HandledInv' /\ EndInv'
      BY <2>1, KStep, HandledStep, EndStep
    <2>3. PendingInv' /\ SettledInv' /\ LoneInv'
      BY <2>1, PendingStep, SettledStep, LoneStep
    <2>4. FreshInv' /\ UniqueInv'
      BY <2>1, FreshStep, UniqueStep
    <2>5. HeldInv' /\ LastInv' /\ NamesInv'
      BY <2>1, HeldStep, LastStep, NamesStep
    <2> QED BY <2>2, <2>3, <2>4, <2>5 DEF RInv
  <1>2. RInv => RegistersAgree
    BY DEF RInv, HeldInv, LastInv, Leaving, Gone, RegistersAgree
  <1> QED BY <1>1, <1>2, RInit, PTL DEF Spec

=============================================================================
