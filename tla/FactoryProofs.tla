---------------------------- MODULE FactoryProofs ----------------------------
(***************************************************************************)
(* Proofs about the two sides of FactoryBaseImpl.                          *)
(*                                                                         *)
(* The names it gives, for any files, rules and devices (IniFileParser and *)
(* NamingRules): what it has read says what the files say, and every name  *)
(* is the one that the rules in force give.                                *)
(*                                                                         *)
(* The devices it creates and destroys, for any threads, devices and       *)
(* outcomes (DeviceFactory): as long as no device is created while another *)
(* one is destroyed, the nodes of a device never outlive the object its    *)
(* delegates are bound to, and a destruction touches no node but those of  *)
(* the device it is about.                                                 *)
(***************************************************************************)
EXTENDS DeviceFactory, NamingRules, WellFoundedInduction, FiniteSetTheorems, SequenceTheorems, TLAPS

-----------------------------------------------------------------------------
(* Numbers                                                                  *)

\* The least-number principle for sets.
LEMMA LeastOf ==
  ASSUME NEW T, T \subseteq Nat, T # {}
  PROVE  \E m \in T : \A k \in T : m <= k
  <1>1. PICK m \in T : \A k \in T : ~ (<<k, m>> \in OpToRel(<, Nat))
    BY WFMin, NatLessThanWellFounded
  <1>2. ASSUME NEW k \in T PROVE m <= k
    <2>1. k \in Nat /\ m \in Nat
      OBVIOUS
    <2>2. ~ (k < m)
      BY <1>1, <2>1 DEF OpToRel
    <2> QED BY <2>1, <2>2
  <1> QED BY <1>2

\* The least number of a set is in it.
LEMMA MinFacts ==
  ASSUME NEW d, d \subseteq Nat, d # {}
  PROVE  Min(d) \in d /\ \A y \in d : Min(d) <= y
  <1>1. \E x \in d : \A y \in d : x <= y
    BY LeastOf
  <1> QED BY <1>1 DEF Min

\* ... and is what it ought to be.
LEMMA MinIs ==
  ASSUME NEW d, d \subseteq Nat, NEW m \in d, \A y \in d : m <= y
  PROVE  Min(d) = m
  <1>1. Min(d) \in d /\ Min(d) <= m /\ m <= Min(d) /\ m \in Nat
    BY MinFacts
  <1>2. Min(d) \in Nat
    BY <1>1
  <1> QED BY <1>1, <1>2

\* The greatest number of a bounded set is in it.
LEMMA MaxFacts ==
  ASSUME NEW n \in Nat, NEW d, d \subseteq 0 .. n, d # {}
  PROVE  Max(d) \in d /\ \A y \in d : Max(d) >= y
  <1> DEFINE U == { u \in Nat : \A y \in d : y <= u }
  <1>1. \A y \in d : y \in Nat /\ y <= n
    OBVIOUS
  <1>2. n \in U
    BY <1>1
  <1>3. PICK m \in U : \A k \in U : m <= k
    <2>1. U \subseteq Nat /\ U # {}
      BY <1>2
    <2> HIDE DEF U
    <2> QED BY <2>1, LeastOf
  <1>4. m \in Nat /\ \A y \in d : y <= m
    BY <1>3
  <1>5. m \in d
    <2> SUFFICES ASSUME m \notin d PROVE FALSE
      OBVIOUS
    <2>1. \A y \in d : y \in Nat /\ y < m
      BY <1>1, <1>4
    <2>2. m > 0
      <3>1. PICK y \in d : TRUE
        OBVIOUS
      <3> QED BY <1>4, <2>1, <3>1
    <2>3. m - 1 \in Nat /\ \A y \in d : y <= m - 1
      BY <1>4, <2>1, <2>2
    <2>4. m - 1 \in U
      BY <2>3
    <2>5. m <= m - 1
      <3> HIDE DEF U
      <3> QED BY <1>3, <2>4
    <2> QED BY <1>4, <2>5
  <1>6. \A y \in d : m >= y
    BY <1>1, <1>4
  <1> QED BY <1>5, <1>6 DEF Max

\* ... and is what it ought to be.
LEMMA MaxIs ==
  ASSUME NEW d, d \subseteq Nat, NEW m \in d, \A y \in d : m >= y
  PROVE  Max(d) = m
  <1>1. \E x \in d : \A y \in d : x >= y
    OBVIOUS
  <1>2. Max(d) \in d /\ \A y \in d : Max(d) >= y
    BY <1>1 DEF Max
  <1>3. Max(d) \in Nat /\ m \in Nat /\ Max(d) >= m /\ m >= Max(d)
    BY <1>2
  <1> QED BY <1>3

\* Induction up to a bound.
LEMMA UpTo ==
  ASSUME NEW n \in Nat, NEW A, 0 \in A, \A k \in 1 .. n : k - 1 \in A => k \in A
  PROVE  \A k \in 0 .. n : k \in A
  <1> DEFINE Bad == { k \in 0 .. n : k \notin A }
  <1> SUFFICES ASSUME Bad # {} PROVE FALSE
    OBVIOUS
  <1>1. PICK k \in Bad : \A j \in Bad : k <= j
    <2>1. Bad \subseteq Nat
      OBVIOUS
    <2> HIDE DEF Bad
    <2> QED BY <2>1, LeastOf
  <1>2. k \in 0 .. n /\ k \notin A /\ k # 0
    BY <1>1
  <1>3. k \in 1 .. n /\ k - 1 \in 0 .. n /\ ~ (k <= k - 1)
    BY <1>2
  <1>4. k - 1 \notin Bad
    <2> HIDE DEF Bad
    <2> QED BY <1>1, <1>3
  <1>5. k - 1 \in A
    BY <1>3, <1>4
  <1> QED BY <1>2, <1>3, <1>5

\* ch picks a position of every set of them.
Picks(ch, n) == \A d \in SUBSET (1 .. n) : d # {} => ch[d] \in d

\* g computes F over the positions in the order that ch picks them.
FoldsTo(g, S, n, base, F, ch) ==
  /\ g \in [SUBSET (1 .. n) -> S]
  /\ \A d \in SUBSET (1 .. n) : g[d] = IF d = {} THEN base ELSE F[<<ch[d], g[d \ {ch[d]}]>>]

\* A fold over positions exists, whatever it computes.
LEMMA FoldExists ==
  ASSUME NEW S, NEW n \in Nat, NEW base \in S, NEW F \in [(1 .. n) \X S -> S],
         NEW ch, Picks(ch, n)
  PROVE  \E g : FoldsTo(g, S, n, base, F, ch)
  <1> USE DEF Picks
  <1> DEFINE Value(g, d) == IF d = {} THEN base ELSE F[<<ch[d], g[d \ {ch[d]}]>>]
             Is(m, g) == /\ g \in [SUBSET (1 .. n) -> S]
                         /\ \A d \in SUBSET (1 .. n) : Cardinality(d) <= m => g[d] = Value(g, d)
             A == { m \in Nat : \E g : Is(m, g) }
  <1>1. \A d \in SUBSET (1 .. n) : IsFiniteSet(d) /\ Cardinality(d) \in Nat /\ Cardinality(d) <= n
    <2>1. 1 \in Int /\ n \in Int /\ Cardinality(1 .. n) = IF 1 > n THEN 0 ELSE n - 1 + 1
      BY FS_Interval
    <2>2. IsFiniteSet(1 .. n)
      BY <2>1, FS_Interval
    <2>3. Cardinality(1 .. n) = n
      BY <2>1
    <2>4. ASSUME NEW d \in SUBSET (1 .. n)
          PROVE  IsFiniteSet(d) /\ Cardinality(d) \in Nat /\ Cardinality(d) <= n
      <3>1. IsFiniteSet(d) /\ Cardinality(d) <= Cardinality(1 .. n)
        BY <2>2, FS_Subset
      <3> QED BY <2>3, <3>1, FS_CardinalityType
    <2> QED BY <2>4
  <1>2. \A g \in [SUBSET (1 .. n) -> S] : \A d \in SUBSET (1 .. n) : Value(g, d) \in S
    <2> SUFFICES ASSUME NEW g \in [SUBSET (1 .. n) -> S], NEW d \in SUBSET (1 .. n), d # {}
                 PROVE  F[<<ch[d], g[d \ {ch[d]}]>>] \in S
      OBVIOUS
    <2>1. ch[d] \in 1 .. n /\ d \ {ch[d]} \in SUBSET (1 .. n)
      OBVIOUS
    <2>2. <<ch[d], g[d \ {ch[d]}]>> \in (1 .. n) \X S
      BY <2>1
    <2> QED BY <2>2
  <1>3. 0 \in A
    <2> DEFINE g == [d \in SUBSET (1 .. n) |-> base]
    <2>1. \A d \in SUBSET (1 .. n) : Cardinality(d) <= 0 => d = {}
      <3> SUFFICES ASSUME NEW d \in SUBSET (1 .. n), Cardinality(d) <= 0 PROVE d = {}
        OBVIOUS
      <3>1. Cardinality(d) = 0
        BY <1>1
      <3> QED BY <1>1, <3>1, FS_EmptySet
    <2>2. Is(0, g)
      BY <2>1
    <2> HIDE DEF g, Is
    <2> QED BY <2>2
  <1>4. ASSUME NEW m \in 1 .. n, m - 1 \in A PROVE m \in A
    <2>1. PICK g : Is(m - 1, g)
      <3> HIDE DEF Is
      <3> QED BY <1>4
    <2> DEFINE h == [d \in SUBSET (1 .. n) |-> Value(g, d)]
    <2>2. h \in [SUBSET (1 .. n) -> S]
      <3>1. g \in [SUBSET (1 .. n) -> S]
        BY <2>1
      <3> HIDE DEF Value
      <3> QED BY <1>2, <3>1
    <2>3. ASSUME NEW d \in SUBSET (1 .. n), Cardinality(d) <= m PROVE h[d] = Value(h, d)
      <3>1. CASE d = {}
        BY <3>1
      <3>2. CASE d # {}
        <4>1. ch[d] \in d /\ d \ {ch[d]} \in SUBSET (1 .. n)
          BY <3>2
        <4>2. Cardinality(d \ {ch[d]}) = Cardinality(d) - 1
          BY <1>1, <4>1, FS_RemoveElement
        <4>3. Cardinality(d \ {ch[d]}) <= m - 1
          BY <1>1, <2>3, <4>1, <4>2
        <4>4. g[d \ {ch[d]}] = Value(g, d \ {ch[d]})
          BY <2>1, <4>1, <4>3
        <4>5. h[d \ {ch[d]}] = g[d \ {ch[d]}]
          BY <4>1, <4>4
        <4>6. h[d] = F[<<ch[d], g[d \ {ch[d]}]>>]
          BY <3>2
        <4> HIDE DEF h
        <4> QED BY <3>2, <4>5, <4>6
      <3> QED BY <3>1, <3>2
    <2>4. Is(m, h)
      <3> HIDE DEF h, Value
      <3> QED BY <2>2, <2>3
    <2> HIDE DEF h, Is
    <2> QED BY <2>4
  <1>5. n \in A
    <2>1. n \in 0 .. n
      OBVIOUS
    <2> HIDE DEF A
    <2> QED BY <1>3, <1>4, <2>1, UpTo
  <1>6. PICK g : Is(n, g)
    <2> HIDE DEF Is
    <2> QED BY <1>5
  <1>7. FoldsTo(g, S, n, base, F, ch)
    BY <1>1, <1>6 DEF FoldsTo
  <1> QED BY <1>7

\* A loop that starts from a and computes its k-th value from the one before.
Loops(g, S, n, a, F) ==
  g \in [0 .. n -> S] /\ g[0] = a /\ \A k \in 1 .. n : g[k] = F[<<k, g[k - 1]>>]

\* A loop over positions exists, whatever it computes.
LEMMA LoopExists ==
  ASSUME NEW S, NEW n \in Nat, NEW a \in S, NEW F \in [(1 .. n) \X S -> S]
  PROVE  \E g : Loops(g, S, n, a, F)
  <1> DEFINE ch == [d \in SUBSET (1 .. n) |-> Max(d)]
  <1>1. \A d \in SUBSET (1 .. n) : d # {} => ch[d] \in d
    <2> SUFFICES ASSUME NEW d \in SUBSET (1 .. n), d # {} PROVE Max(d) \in d
      OBVIOUS
    <2>1. d \subseteq 0 .. n
      OBVIOUS
    <2> QED BY <2>1, MaxFacts
  <1>2. PICK f : /\ f \in [SUBSET (1 .. n) -> S]
                 /\ \A d \in SUBSET (1 .. n) : f[d] = IF d = {} THEN a ELSE F[<<ch[d], f[d \ {ch[d]}]>>]
    <2> HIDE DEF ch
    <2>1. Picks(ch, n)
      BY <1>1 DEF Picks
    <2>2. \E f : FoldsTo(f, S, n, a, F, ch)
      BY <2>1, FoldExists
    <2> QED BY <2>2 DEF FoldsTo
  <1> DEFINE g == [k \in 0 .. n |-> f[1 .. k]]
  <1>3. g \in [0 .. n -> S]
    <2>1. \A k \in 0 .. n : 1 .. k \in SUBSET (1 .. n)
      OBVIOUS
    <2> QED BY <1>2, <2>1
  <1>4. g[0] = a
    <2>1. 1 .. 0 = {} /\ 0 \in 0 .. n
      OBVIOUS
    <2>2. f[{}] = a
      BY <1>2
    <2> QED BY <2>1, <2>2
  <1>5. ASSUME NEW k \in 1 .. n PROVE g[k] = F[<<k, g[k - 1]>>]
    <2>1. k \in Nat /\ k \in 0 .. n /\ k - 1 \in 0 .. n /\ 1 .. k \in SUBSET (1 .. n) /\ k \in 1 .. k
      OBVIOUS
    <2>2. (1 .. k) \ {k} = 1 .. k - 1
      <3>1. \A y : y \in 1 .. k /\ y # k <=> y \in 1 .. k - 1
        BY <2>1
      <3> QED BY <3>1
    <2>3. ch[1 .. k] = k
      <3>1. \A y \in 1 .. k : k >= y
        BY <2>1
      <3>2. 1 .. k \subseteq Nat
        OBVIOUS
      <3>3. Max(1 .. k) = k
        BY <2>1, <3>1, <3>2, MaxIs
      <3> QED BY <2>1, <3>3
    <2>4. f[1 .. k] = F[<<k, f[1 .. k - 1]>>]
      <3> HIDE DEF ch
      <3> QED BY <1>2, <2>1, <2>2, <2>3
    <2>5. g[k] = f[1 .. k] /\ g[k - 1] = f[1 .. k - 1]
      BY <2>1
    <2> QED BY <2>4, <2>5
  <1>6. Loops(g, S, n, a, F)
    <2> HIDE DEF g
    <2> QED BY <1>3, <1>4, <1>5 DEF Loops
  <1> QED BY <1>6

-----------------------------------------------------------------------------
(* The parser                                                               *)

\* Maps of texts, and of sections.
MapsTo(V) == UNION { [D -> V] : D \in SUBSET Seq(Tokens) }
Maps == MapsTo(MapsTo(Seq(Tokens)))

\* A map with one more entry is a map.
LEMMA PutTyped ==
  ASSUME NEW V, NEW map \in MapsTo(V), NEW key \in Seq(Tokens), NEW value \in V
  PROVE  Put(map, key, value) \in MapsTo(V)
  <1>1. PICK D \in SUBSET Seq(Tokens) : map \in [D -> V]
    BY DEF MapsTo
  <1>2. Put(map, key, value) \in [D \cup {key} -> V] /\ D \cup {key} \in SUBSET Seq(Tokens)
    BY <1>1 DEF Put
  <1> QED BY <1>2 DEF MapsTo

KeysUpTo(lines, k) == { i \in KeyLines(lines) : i <= k }

\* A map says what the first k lines say.
SaysUpTo(lines, k, map) ==
  /\ DOMAIN map = { SectionAt(lines, i) : i \in KeysUpTo(lines, k) }
  /\ \A s \in DOMAIN map :
       /\ DOMAIN map[s] =
            { Means[lines[i]].name : i \in { j \in KeysUpTo(lines, k) : SectionAt(lines, j) = s } }
       /\ \A key \in DOMAIN map[s] :
            map[s][key] = Means[lines[Max({ i \in LinesFor(lines, s, key) : i <= k })]].value

\* A file of which rest is still to be read: the section is that of the next line,
\* the map says what the lines so far say, and no line so far was an error.
Reading(lines, rest, section, map) ==
  /\ lines \in Files \cup Reloads /\ rest \in Seq(DOMAIN Means)
  /\ section \in Seq(Tokens) /\ map \in Maps
  /\ \E k \in 0 .. Len(lines) :
       /\ Len(rest) = Len(lines) - k
       /\ \A j \in 1 .. Len(rest) : rest[j] = lines[k + j]
       /\ section = SectionAt(lines, k + 1)
       /\ \A i \in 1 .. k : Means[lines[i]].kind \in {"section", "key", "nothing"}
       /\ SaysUpTo(lines, k, map)

ParserInv ==
  /\ parse \in {"idle", "reading", "syntax error", "terminated"}
  /\ parse = "reading" => Reading(loading, unread, lastSection, sections)
  /\ parse = "syntax error" => \E i \in DOMAIN loading : Means[loading[i]].kind = "syntax error"

\* The lines of a file and what they mean.
LEMMA FileLines ==
  ASSUME NEW lines \in Files \cup Reloads
  PROVE  /\ lines \in Seq(DOMAIN Means) /\ Len(lines) \in Nat /\ DOMAIN lines = 1 .. Len(lines)
         /\ \A i \in DOMAIN lines : i \in Nat /\ i >= 1
  <1>1. lines \in Seq(DOMAIN Means)
    BY NamingAssumption
  <1> QED BY <1>1

\* What a line of a file means is of one of the five kinds.
LEMMA FileFacts ==
  ASSUME NEW lines \in Files \cup Reloads, NEW i \in DOMAIN lines
  PROVE  Means[lines[i]] \in [kind : {"nothing", "section", "key", "syntax error", "terminated"},
                              name : Seq(Tokens), value : Seq(Tokens)]
  <1>1. lines[i] \in DOMAIN Means
    BY FileLines
  <1> QED BY <1>1, NamingAssumption

\* A header changes the section of the lines that follow.
LEMMA SectionFollows ==
  ASSUME NEW lines \in Files \cup Reloads, NEW k \in DOMAIN lines
  PROVE  SectionAt(lines, k + 1) =
           IF Means[lines[k]].kind = "section" THEN Means[lines[k]].name ELSE SectionAt(lines, k)
  <1> DEFINE Headers(i) == { j \in 1 .. i - 1 : Means[lines[j]].kind = "section" }
  <1>1. k \in Nat /\ k >= 1 /\ k + 1 - 1 = k
    BY FileLines
  <1>2. CASE Means[lines[k]].kind = "section"
    <2>1. k \in Headers(k + 1) /\ \A j \in Headers(k + 1) : k >= j
      BY <1>1, <1>2
    <2>2. Max(Headers(k + 1)) = k
      BY <1>1, <2>1, MaxIs
    <2>3. Headers(k + 1) # {}
      BY <2>1
    <2> QED BY <1>2, <2>2, <2>3 DEF SectionAt
  <1>3. CASE Means[lines[k]].kind # "section"
    <2>1. Headers(k + 1) = Headers(k)
      BY <1>1, <1>3
    <2> QED BY <1>3, <2>1 DEF SectionAt
  <1> QED BY <1>2, <1>3

\* A line that is no key adds nothing to the map.
LEMMA OtherLine ==
  ASSUME NEW lines \in Files \cup Reloads, NEW k \in DOMAIN lines, Means[lines[k]].kind # "key",
         NEW map, SaysUpTo(lines, k - 1, map)
  PROVE  SaysUpTo(lines, k, map)
  <1>1. k \in Nat /\ \A i \in DOMAIN lines : i \in Nat
    BY FileLines
  <1>2. KeysUpTo(lines, k) = KeysUpTo(lines, k - 1)
    BY <1>1 DEF KeysUpTo, KeyLines
  <1>3. \A s, key : { i \in LinesFor(lines, s, key) : i <= k } = { i \in LinesFor(lines, s, key) : i <= k - 1 }
    BY <1>1 DEF LinesFor, KeyLines
  <1> QED BY <1>2, <1>3 DEF SaysUpTo

\* A key goes to the section it stands in, and the last of a name counts.
LEMMA KeyLine ==
  ASSUME NEW lines \in Files \cup Reloads, NEW k \in DOMAIN lines, Means[lines[k]].kind = "key",
         SaysUpTo(lines, k - 1, sections)
  PROVE  LET s == SectionAt(lines, k)
             line == Means[lines[k]]
         IN SaysUpTo(lines, k, Put(sections, s, Put(KeysOf(s), line.name, line.value)))
  <1> DEFINE here == SectionAt(lines, k)
             line == Means[lines[k]]
             keys == Put(KeysOf(here), line.name, line.value)
             map  == Put(sections, here, keys)
             Of_(s, n) == { j \in KeysUpTo(lines, n) : SectionAt(lines, j) = s }
             For(s, key, n) == { i \in LinesFor(lines, s, key) : i <= n }
  <1>1. /\ k \in Nat /\ \A i \in DOMAIN lines : i \in Nat
        /\ k \in KeyLines(lines) /\ \A i \in KeyLines(lines) : i \in DOMAIN lines
    BY FileLines DEF KeyLines
  <1>2. KeysUpTo(lines, k) = KeysUpTo(lines, k - 1) \cup {k}
    BY <1>1 DEF KeysUpTo
  <1>3. /\ DOMAIN map = DOMAIN sections \cup {here}
        /\ map[here] = keys
        /\ \A s \in DOMAIN sections : s # here => map[s] = sections[s]
    BY DEF Put
  <1>4. /\ DOMAIN keys = DOMAIN KeysOf(here) \cup {line.name}
        /\ keys[line.name] = line.value
        /\ \A key \in DOMAIN KeysOf(here) : key # line.name => keys[key] = KeysOf(here)[key]
    BY DEF Put
  <1>5. DOMAIN map = { SectionAt(lines, i) : i \in KeysUpTo(lines, k) }
    <2>1. DOMAIN sections = { SectionAt(lines, i) : i \in KeysUpTo(lines, k - 1) }
      BY DEF SaysUpTo
    <2> HIDE DEF map
    <2> QED BY <1>2, <1>3, <2>1
  <1>6. DOMAIN KeysOf(here) = { Means[lines[i]].name : i \in Of_(here, k - 1) }
    <2>1. CASE here \in DOMAIN sections
      BY <2>1 DEF SaysUpTo, KeysOf
    <2>2. CASE here \notin DOMAIN sections
      <3>1. Of_(here, k - 1) = {}
        BY <2>2 DEF SaysUpTo
      <3>2. DOMAIN KeysOf(here) = {}
        BY <2>2 DEF KeysOf, NoKeys
      <3> QED BY <3>1, <3>2
    <2> QED BY <2>1, <2>2
  <1>7. DOMAIN keys = { Means[lines[i]].name : i \in Of_(here, k) }
    <2>1. Of_(here, k) = Of_(here, k - 1) \cup {k}
      BY <1>2
    <2> HIDE DEF keys, Of_
    <2> QED BY <1>4, <1>6, <2>1
  <1>8. keys[line.name] = Means[lines[Max(For(here, line.name, k))]].value
    <2>1. k \in For(here, line.name, k) /\ \A i \in For(here, line.name, k) : k >= i
      BY <1>1 DEF LinesFor
    <2>2. For(here, line.name, k) \subseteq Nat
      BY <1>1 DEF LinesFor
    <2>3. Max(For(here, line.name, k)) = k
      <3> HIDE DEF For
      <3> QED BY <2>1, <2>2, MaxIs
    <2> QED BY <1>4, <2>3
  <1>9. \A s, key : s # here \/ key # line.name => For(s, key, k) = For(s, key, k - 1)
    BY <1>1 DEF LinesFor
  <1>10. ASSUME NEW key \in DOMAIN keys
         PROVE  keys[key] = Means[lines[Max(For(here, key, k))]].value
    <2>1. CASE key = line.name
      BY <1>8, <2>1
    <2>2. CASE key # line.name
      <3>1. key \in DOMAIN KeysOf(here) /\ keys[key] = KeysOf(here)[key]
        BY <1>4, <2>2
      <3>2. here \in DOMAIN sections /\ KeysOf(here) = sections[here]
        BY <3>1 DEF KeysOf, NoKeys
      <3>3. sections[here][key] = Means[lines[Max(For(here, key, k - 1))]].value
        BY <3>1, <3>2 DEF SaysUpTo
      <3> HIDE DEF keys, For
      <3> QED BY <1>9, <2>2, <3>1, <3>2, <3>3
    <2> QED BY <2>1, <2>2
  <1>11. ASSUME NEW s \in DOMAIN map
         PROVE  /\ DOMAIN map[s] = { Means[lines[i]].name : i \in Of_(s, k) }
                /\ \A key \in DOMAIN map[s] : map[s][key] = Means[lines[Max(For(s, key, k))]].value
    <2>1. CASE s = here
      <3> HIDE DEF map, keys, For, Of_
      <3> QED BY <1>3, <1>7, <1>10, <2>1
    <2>2. CASE s # here
      <3>1. s \in DOMAIN sections /\ map[s] = sections[s]
        BY <1>3, <2>2
      <3>2. Of_(s, k) = Of_(s, k - 1)
        BY <1>2, <2>2
      <3>3. /\ DOMAIN sections[s] = { Means[lines[i]].name : i \in Of_(s, k - 1) }
            /\ \A key \in DOMAIN sections[s] : sections[s][key] = Means[lines[Max(For(s, key, k - 1))]].value
        BY <3>1 DEF SaysUpTo
      <3> HIDE DEF map, For, Of_
      <3> QED BY <1>9, <2>2, <3>1, <3>2, <3>3
    <2> QED BY <2>1, <2>2
  <1>12. SaysUpTo(lines, k, map)
    <2> HIDE DEF map
    <2> QED BY <1>5, <1>11 DEF SaysUpTo
  <1> QED BY <1>12

\* One turn of the loop.
LEMMA ReadLineStep ==
  ASSUME LinesAsMeant, ParserInv, ReadLine, UNCHANGED ruleVars
  PROVE  ParserInv'
  <1>1. Reading(loading, unread, lastSection, sections) /\ unread # <<>> /\ parse = "reading"
    BY DEF ReadLine, ParserInv
  <1>2. /\ loading \in Files \cup Reloads /\ loading' = loading
        /\ unread \in Seq(DOMAIN Means) /\ lastSection \in Seq(Tokens) /\ sections \in Maps
    BY <1>1 DEF Reading, ruleVars
  <1>3. PICK done \in 0 .. Len(loading) :
          /\ Len(unread) = Len(loading) - done
          /\ \A j \in 1 .. Len(unread) : unread[j] = loading[done + j]
          /\ lastSection = SectionAt(loading, done + 1)
          /\ \A i \in 1 .. done : Means[loading[i]].kind \in {"section", "key", "nothing"}
          /\ SaysUpTo(loading, done, sections)
    BY <1>1 DEF Reading
  <1>4. Len(loading) \in Nat /\ DOMAIN loading = 1 .. Len(loading) /\ Len(unread) \in Nat
    BY <1>2, FileLines
  <1>5. Len(unread) # 0
    BY <1>1, <1>2
  <1> DEFINE k == done + 1
             line == Means[loading[k]]
  <1>6. k \in DOMAIN loading /\ k \in Nat /\ k - 1 = done /\ k \in 0 .. Len(loading) /\ done \in Nat
    BY <1>3, <1>4, <1>5
  <1>7. LineOf(Head(unread)) = line
    <2>1. Head(unread) = unread[1] /\ 1 \in 1 .. Len(unread)
      BY <1>1, <1>2, <1>4, <1>5
    <2>2. Head(unread) = loading[k]
      BY <1>3, <2>1
    <2> QED BY <1>2, <1>6, <2>2 DEF LinesAsMeant
  <1>8. /\ unread' = Tail(unread)
        /\ lastSection' = IF line.kind = "section" THEN line.name ELSE lastSection
        /\ sections' = IF line.kind = "key"
                         THEN Put(sections, lastSection, Put(KeysOf(lastSection), line.name, line.value))
                         ELSE sections
        /\ parse' = IF line.kind \in {"syntax error", "terminated"} THEN line.kind ELSE "reading"
    BY <1>1, <1>7 DEF ReadLine
  <1>9. /\ line.kind \in {"nothing", "section", "key", "syntax error", "terminated"}
        /\ line.name \in Seq(Tokens) /\ line.value \in Seq(Tokens)
    <2>1. line \in [kind : {"nothing", "section", "key", "syntax error", "terminated"},
                    name : Seq(Tokens), value : Seq(Tokens)]
      BY <1>2, <1>6, FileFacts
    <2> HIDE DEF line
    <2> QED BY <2>1
  <1>10. lastSection = SectionAt(loading, k) /\ SaysUpTo(loading, k - 1, sections)
    BY <1>3, <1>6
  <1> HIDE DEF line
  <1>11. CASE line.kind \notin {"syntax error", "terminated"}
    <2>1. /\ unread' \in Seq(DOMAIN Means) /\ Len(unread') = Len(unread) - 1
          /\ \A j \in 1 .. Len(unread') : unread'[j] = unread[j + 1]
      <3>1. unread' = Tail(unread) /\ unread # <<>> /\ unread \in Seq(DOMAIN Means)
        BY <1>1, <1>2, <1>8
      <3>2. /\ Tail(unread) \in Seq(DOMAIN Means) /\ Len(Tail(unread)) = Len(unread) - 1
            /\ \A j \in 1 .. Len(Tail(unread)) : Tail(unread)[j] = unread[j + 1]
        BY <3>1
      <3> QED BY <3>1, <3>2
    <2>2. Len(unread') = Len(loading) - k
      BY <1>3, <1>4, <1>6, <2>1
    <2>3. ASSUME NEW j \in 1 .. Len(unread') PROVE unread'[j] = loading[k + j]
      <3>1. j + 1 \in 1 .. Len(unread) /\ j \in Nat /\ done + (j + 1) = k + j
        BY <1>4, <1>6, <2>1
      <3>2. unread[j + 1] = loading[done + (j + 1)]
        BY <1>3, <3>1
      <3> QED BY <2>1, <3>1, <3>2
    <2>4. lastSection' = SectionAt(loading, k + 1)
      BY <1>2, <1>6, <1>8, <1>10, SectionFollows DEF line
    <2>5. ASSUME NEW i \in 1 .. k PROVE Means[loading[i]].kind \in {"section", "key", "nothing"}
      <3>1. CASE i = k
        BY <1>9, <1>11, <3>1 DEF line
      <3>2. CASE i # k
        <4>1. i \in 1 .. done
          BY <1>6, <3>2
        <4> QED BY <1>3, <4>1
      <3> QED BY <3>1, <3>2
    <2>6. SaysUpTo(loading, k, sections')
      <3>1. CASE line.kind = "key"
        <4>1. sections' = Put(sections, SectionAt(loading, k),
                              Put(KeysOf(SectionAt(loading, k)), line.name, line.value))
          BY <1>8, <1>10, <3>1
        <4> QED BY <1>2, <1>6, <1>10, <3>1, <4>1, KeyLine DEF line
      <3>2. CASE line.kind # "key"
        <4>1. sections' = sections
          BY <1>8, <3>2
        <4> QED BY <1>2, <1>6, <1>10, <3>2, <4>1, OtherLine DEF line
      <3> QED BY <3>1, <3>2
    <2>7. lastSection' \in Seq(Tokens) /\ sections' \in Maps
      <3>1. lastSection' \in Seq(Tokens)
        BY <1>2, <1>8, <1>9
      <3>2. KeysOf(lastSection) \in MapsTo(Seq(Tokens))
        <4>1. CASE lastSection \in DOMAIN sections
          <5>1. \A map \in Maps : \A s \in DOMAIN map : map[s] \in MapsTo(Seq(Tokens))
            <6>1. \A V : \A map \in MapsTo(V) : \A s \in DOMAIN map : map[s] \in V
              BY DEF MapsTo
            <6> QED BY <6>1 DEF Maps
          <5> QED BY <1>2, <4>1, <5>1 DEF KeysOf
        <4>2. CASE lastSection \notin DOMAIN sections
          <5>1. <<>> \in [{} -> Seq(Tokens)] /\ {} \in SUBSET Seq(Tokens)
            OBVIOUS
          <5> QED BY <4>2, <5>1 DEF KeysOf, NoKeys, MapsTo
        <4> QED BY <4>1, <4>2
      <3>3. Put(KeysOf(lastSection), line.name, line.value) \in MapsTo(Seq(Tokens))
        BY <1>9, <3>2, PutTyped
      <3>4. Put(sections, lastSection, Put(KeysOf(lastSection), line.name, line.value)) \in Maps
        BY <1>2, <3>3, PutTyped DEF Maps
      <3> QED BY <1>2, <1>8, <3>1, <3>4
    <2>8. Reading(loading', unread', lastSection', sections')
      <3> HIDE DEF k
      <3> QED BY <1>2, <1>6, <2>1, <2>2, <2>3, <2>4, <2>5, <2>6, <2>7 DEF Reading
    <2> QED BY <1>8, <1>11, <2>8 DEF ParserInv
  <1>12. CASE line.kind \in {"syntax error", "terminated"}
    <2>1. parse' = line.kind /\ parse' # "reading"
      BY <1>8, <1>12
    <2>2. parse' = "syntax error" => \E i \in DOMAIN loading' : Means[loading'[i]].kind = "syntax error"
      BY <1>2, <1>6, <2>1 DEF line
    <2> QED BY <1>12, <2>1, <2>2 DEF ParserInv
  <1> QED BY <1>11, <1>12

\* The constructor begins with the whole file and an empty map.
LEMMA LoadStep ==
  ASSUME NEW lines \in Files \cup Reloads, LoadNamingRules(lines)
  PROVE  ParserInv'
  <1>1. /\ unread' = lines /\ loading' = lines /\ sections' = <<>> /\ lastSection' = <<>>
        /\ parse' = "reading"
    BY DEF LoadNamingRules, ConstructParser, NoKeys
  <1>2. /\ lines \in Seq(DOMAIN Means) /\ Len(lines) \in Nat /\ DOMAIN lines = 1 .. Len(lines)
    BY FileLines
  <1>3. SectionAt(lines, 1) = <<>>
    BY DEF SectionAt
  <1>4. SaysUpTo(lines, 0, <<>>)
    <2>1. KeysUpTo(lines, 0) = {}
      BY <1>2 DEF KeysUpTo, KeyLines
    <2> QED BY <2>1 DEF SaysUpTo
  <1>5. Reading(lines, lines, <<>>, <<>>)
    <2>1. 0 \in 0 .. Len(lines) /\ Len(lines) = Len(lines) - 0 /\ \A j \in 1 .. Len(lines) : 0 + j = j
      BY <1>2
    <2>2. <<>> \in Maps /\ <<>> \in Seq(Tokens)
      <3>1. \A V : <<>> \in MapsTo(V)
        <4>1. \A V : <<>> \in [{} -> V] /\ {} \in SUBSET Seq(Tokens)
          OBVIOUS
        <4> QED BY <4>1 DEF MapsTo
      <3> QED BY <3>1 DEF Maps
    <2>3. \A j \in 1 .. Len(lines) : lines[j] = lines[0 + j]
      BY <2>1
    <2>4. 0 + 1 = 1 /\ 1 .. 0 = {}
      OBVIOUS
    <2>5. lines \in Seq(DOMAIN Means)
      BY <1>2
    <2> QED BY <1>3, <1>4, <2>1, <2>2, <2>3, <2>4, <2>5 DEF Reading
  <1> QED BY <1>1, <1>5 DEF ParserInv

\* Every step keeps it.
LEMMA ParserStep == LinesAsMeant /\ ParserInv /\ [Next]_vars => ParserInv'
  <1> SUFFICES ASSUME LinesAsMeant, ParserInv, [Next]_vars PROVE ParserInv'
    OBVIOUS
  <1>1. ASSUME NEW lines \in IF loads = 0 THEN Files ELSE Reloads, LoadNamingRules(lines) PROVE ParserInv'
    BY <1>1, LoadStep
  <1>2. ASSUME ReadLine, UNCHANGED <<ruleVars, nameVars>> PROVE ParserInv'
    BY <1>2, ReadLineStep
  <1>3. ASSUME FinishLoad PROVE ParserInv'
    BY <1>3 DEF FinishLoad, ParserInv
  <1>4. ASSUME FailLoad PROVE ParserInv'
    BY <1>4 DEF FailLoad, ParserInv
  <1>5. ASSUME UNCHANGED <<parserVars, loading>> PROVE ParserInv'
    BY <1>5 DEF ParserInv, parserVars
  <1>6. ASSUME NEW n \in RuleNames, SetNamingRules(n) PROVE ParserInv'
    BY <1>5, <1>6 DEF SetNamingRules
  <1>7. ASSUME NEW r \in Renames, SetExternalName(r[1], r[2]) PROVE ParserInv'
    BY <1>5, <1>7 DEF SetExternalName, ruleVars
  <1>8. ASSUME NEW c \in Components, Initialize(c) PROVE ParserInv'
    BY <1>5, <1>8 DEF Initialize, ruleVars
  <1>9. ASSUME InitializeThrows PROVE ParserInv'
    BY <1>5, <1>9 DEF InitializeThrows, ruleVars
  <1>10. ASSUME UNCHANGED vars PROVE ParserInv'
    BY <1>5, <1>10 DEF vars, ruleVars
  <1> QED BY <1>1, <1>2, <1>3, <1>4, <1>6, <1>7, <1>8, <1>9, <1>10 DEF Next, Idle

\* When the constructor is through, the map says what the file says.
LEMMA ParsedFacts ==
  ASSUME ParserInv, Parsed
  PROVE  /\ loading \in Files \cup Reloads /\ sections \in Maps
         /\ \A i \in DOMAIN loading : Means[loading[i]].kind \in {"section", "key", "nothing"}
         /\ SaysUpTo(loading, Len(loading), sections)
  <1>1. Reading(loading, unread, lastSection, sections) /\ unread = <<>>
    BY DEF Parsed, ParserInv
  <1>2. loading \in Files \cup Reloads /\ sections \in Maps
    BY <1>1 DEF Reading
  <1>3. Len(loading) \in Nat /\ DOMAIN loading = 1 .. Len(loading)
    BY <1>2, FileLines
  <1>4. PICK k \in 0 .. Len(loading) :
          /\ Len(unread) = Len(loading) - k
          /\ \A i \in 1 .. k : Means[loading[i]].kind \in {"section", "key", "nothing"}
          /\ SaysUpTo(loading, k, sections)
    BY <1>1 DEF Reading
  <1>5. Len(unread) = 0
    BY <1>1
  <1>6. k = Len(loading)
    <2>1. k \in Int /\ Len(loading) \in Int
      BY <1>3
    <2>2. Len(unread) = Len(loading) - k
      BY <1>4
    <2>3. 0 = Len(loading) - k
      BY <1>5, <2>2
    <2> QED BY <2>1, <2>3
  <1> QED BY <1>2, <1>3, <1>4, <1>6

\* All lines of a file are among those up to its length.
LEMMA WholeFile ==
  ASSUME NEW lines \in Files \cup Reloads
  PROVE  /\ KeysUpTo(lines, Len(lines)) = KeyLines(lines)
         /\ \A s, key : { i \in LinesFor(lines, s, key) : i <= Len(lines) } = LinesFor(lines, s, key)
  <1>1. \A i \in DOMAIN lines : i <= Len(lines)
    BY FileLines
  <1> QED BY <1>1 DEF KeysUpTo, KeyLines, LinesFor

\* A file is read as the page on naming rules means it, line by line, comments,
\* escapes, empty sections and keys that are defined twice included; what a line
\* means is the hypothesis, and TLC compares it with LineOf.
THEOREM ParsedAsWritten == ASSUME LinesAsMeant PROVE Spec => []SectionsAsWritten
  <1>1. Init => ParserInv
    BY DEF Init, ParserInit, ParserInv
  <1>2. ASSUME ParserInv PROVE SectionsAsWritten
    <2>1. ASSUME Parsed
          PROVE  /\ \A i \in DOMAIN loading : Means[loading[i]].kind \in {"section", "key", "nothing"}
                 /\ SaysUpTo(loading, Len(loading), sections)
      BY <1>2, <2>1, ParsedFacts
    <2>2. ASSUME Parsed
          PROVE  /\ KeysUpTo(loading, Len(loading)) = KeyLines(loading)
                 /\ \A s, key : { i \in LinesFor(loading, s, key) : i <= Len(loading) } = LinesFor(loading, s, key)
      BY <1>2, <2>2, ParsedFacts, WholeFile
    <2>3. parse = "syntax error" => \E i \in DOMAIN loading : Means[loading[i]].kind = "syntax error"
      BY <1>2 DEF ParserInv
    <2> QED BY <2>1, <2>2, <2>3 DEF SectionsAsWritten, SaysUpTo, Says
  <1> QED BY <1>1, <1>2, ParserStep, PTL DEF Spec

-----------------------------------------------------------------------------
(* The path of a component                                                  *)

Rank(c) == Min({ i \in DOMAIN Order : Order[i] = c })

\* Its place in the order of initialization is after that of its parent.
LEMMA RankFacts ==
  ASSUME NEW c \in Components
  PROVE  /\ Rank(c) \in 1 .. Len(Order) /\ Order[Rank(c)] = c
         /\ Parent[c] # NoParent => Parent[c] \in Components /\ Rank(Parent[c]) < Rank(c)
  <1> DEFINE Places(d) == { i \in DOMAIN Order : Order[i] = d }
  <1>1. /\ Order \in Seq(Components) /\ ToSet(Order) = Components
        /\ \A i \in DOMAIN Order :
             Parent[Order[i]] = NoParent \/ \E j \in 1 .. i - 1 : Order[j] = Parent[Order[i]]
    BY NamingAssumption
  <1>2. Len(Order) \in Nat /\ DOMAIN Order = 1 .. Len(Order)
    BY <1>1
  <1>3. ASSUME NEW d, Places(d) # {}
        PROVE  /\ Rank(d) \in 1 .. Len(Order) /\ Order[Rank(d)] = d /\ \A i \in Places(d) : Rank(d) <= i
    <2>1. Places(d) \subseteq Nat
      BY <1>2
    <2>2. Min(Places(d)) \in Places(d) /\ \A i \in Places(d) : Min(Places(d)) <= i
      <3> HIDE DEF Places
      <3> QED BY <1>3, <2>1, MinFacts
    <2> QED BY <1>2, <2>2 DEF Rank
  <1>4. Places(c) # {}
    BY <1>1 DEF ToSet
  <1>5. Rank(c) \in 1 .. Len(Order) /\ Order[Rank(c)] = c
    BY <1>3, <1>4
  <1>6. ASSUME Parent[c] # NoParent PROVE Parent[c] \in Components /\ Rank(Parent[c]) < Rank(c)
    <2>1. PICK j \in 1 .. Rank(c) - 1 : Order[j] = Parent[c]
      BY <1>1, <1>2, <1>5, <1>6
    <2>2. j \in DOMAIN Order /\ j \in Nat /\ j < Rank(c) /\ j \in Places(Parent[c])
      BY <1>2, <1>5, <2>1
    <2>3. Rank(Parent[c]) \in 1 .. Len(Order) /\ Rank(Parent[c]) <= j
      BY <1>3, <2>2
    <2>4. Order[j] \in Components
      BY <1>1, <2>2
    <2> QED BY <1>2, <1>5, <2>1, <2>2, <2>3, <2>4
  <1> QED BY <1>5, <1>6

\* One component more.
PathFrom(f) ==
  [c \in Components |-> IF Parent[c] = NoParent THEN <<c>> ELSE <<c>> \o f[Parent[c]]]

\* Whatever the depth of the device, every component has a path.
LEMMA PathExists == \E f \in [Components -> Seq(Components)] : f = PathFrom(f)
  <1> DEFINE S == [Components -> Seq(Components)]
             n == Len(Order)
             F == [x \in (1 .. n + 1) \X S |-> PathFrom(x[2])]
             a == [c \in Components |-> <<>>]
  <1>1. n \in Nat /\ n + 1 \in Nat
    <2>1. Order \in Seq(Components)
      BY NamingAssumption
    <2> QED BY <2>1
  <1>2. ASSUME NEW f \in S PROVE PathFrom(f) \in S
    <2> SUFFICES ASSUME NEW c \in Components
                 PROVE  (IF Parent[c] = NoParent THEN <<c>> ELSE <<c>> \o f[Parent[c]]) \in Seq(Components)
      BY DEF PathFrom
    <2>1. <<c>> \in Seq(Components)
      OBVIOUS
    <2>2. Parent[c] # NoParent => f[Parent[c]] \in Seq(Components)
      BY <1>2, RankFacts
    <2> QED BY <2>1, <2>2
  <1>3. F \in [(1 .. n + 1) \X S -> S]
    <2> HIDE DEF S, n
    <2> QED BY <1>2
  <1>4. a \in S
    OBVIOUS
  <1>5. PICK g : Loops(g, S, n + 1, a, F)
    <2> HIDE DEF S, n, F, a
    <2> QED BY <1>1, <1>3, <1>4, LoopExists
  <1>6. /\ \A k \in 0 .. n + 1 : g[k] \in S
        /\ \A k \in 0 .. n : g[k + 1] = PathFrom(g[k])
    <2>1. /\ \A k \in 0 .. n + 1 : g[k] \in S
          /\ \A k \in 1 .. n + 1 : g[k] = F[<<k, g[k - 1]>>]
      <3> HIDE DEF S, n, F, a
      <3> QED BY <1>5 DEF Loops
    <2>2. ASSUME NEW k \in 0 .. n PROVE g[k + 1] = PathFrom(g[k])
      <3>1. k + 1 \in 1 .. n + 1 /\ k + 1 - 1 = k /\ k \in 0 .. n + 1
        BY <1>1
      <3>2. g[k + 1] = F[<<k + 1, g[k]>>] /\ <<k + 1, g[k]>> \in (1 .. n + 1) \X S
        <4> HIDE DEF S, n, F
        <4> QED BY <2>1, <3>1
      <3> HIDE DEF S, n
      <3> QED BY <3>2
    <2> QED BY <2>1, <2>2
  <1> HIDE DEF S, F, a
  <1> DEFINE A == { k \in 0 .. n : \A c \in Components : Rank(c) <= k => g[k + 1][c] = g[k][c] }
  <1>7. 0 \in A
    <2>1. 0 \in 0 .. n
      BY <1>1
    <2>2. ASSUME NEW c \in Components PROVE ~ (Rank(c) <= 0)
      BY <1>1, RankFacts
    <2> HIDE DEF n
    <2> QED BY <2>1, <2>2
  <1>8. ASSUME NEW k \in 1 .. n, k - 1 \in A PROVE k \in A
    <2>1. k \in 0 .. n /\ k - 1 \in 0 .. n /\ k - 1 + 1 = k /\ k \in Nat
      BY <1>1
    <2>2. \A c \in Components : Rank(c) <= k - 1 => g[k][c] = g[k - 1][c]
      BY <1>8, <2>1
    <2>3. g[k + 1] = PathFrom(g[k]) /\ g[k] = PathFrom(g[k - 1])
      BY <1>6, <2>1
    <2>4. ASSUME NEW c \in Components, Rank(c) <= k PROVE g[k + 1][c] = g[k][c]
      <3>1. CASE Parent[c] = NoParent
        BY <2>3, <3>1 DEF PathFrom
      <3>2. CASE Parent[c] # NoParent
        <4>1. Parent[c] \in Components /\ Rank(Parent[c]) <= k - 1
          <5>1. Rank(Parent[c]) < Rank(c) /\ Parent[c] \in Components
            BY <3>2, RankFacts
          <5>2. Rank(c) \in Nat /\ Rank(Parent[c]) \in Nat
            BY <5>1, RankFacts, <1>1
          <5> QED BY <2>1, <2>4, <5>1, <5>2
        <4>2. g[k][Parent[c]] = g[k - 1][Parent[c]]
          BY <2>2, <4>1
        <4> QED BY <2>3, <4>2 DEF PathFrom
      <3> QED BY <3>1, <3>2
    <2> QED BY <2>1, <2>4
  <1>9. n \in A
    <2>1. n \in 0 .. n
      BY <1>1
    <2> HIDE DEF A, n
    <2> QED BY <1>1, <1>7, <1>8, <2>1, UpTo
  <1>10. g[n] = PathFrom(g[n])
    <2>1. \A c \in Components : g[n + 1][c] = g[n][c]
      <3>1. ASSUME NEW c \in Components PROVE Rank(c) <= n
        BY <1>1, RankFacts
      <3> QED BY <1>9, <3>1
    <2>2. g[n + 1] = PathFrom(g[n]) /\ g[n] \in S
      BY <1>1, <1>6
    <2>3. \A c \in Components : PathFrom(g[n])[c] = g[n][c]
      BY <2>1, <2>2
    <2>4. g[n] = [c \in Components |-> g[n][c]]
      BY <2>2 DEF S
    <2>5. PathFrom(g[n]) = [c \in Components |-> PathFrom(g[n])[c]]
      BY DEF PathFrom
    <2> QED BY <2>3, <2>4, <2>5
  <1>11. g[n] \in [Components -> Seq(Components)]
    BY <1>1, <1>6 DEF S
  <1> QED BY <1>10, <1>11

\* ... which begins with the component and goes on as that of its parent does.
LEMMA PathIs ==
  ASSUME NEW c \in Components
  PROVE  Path[c] = IF Parent[c] = NoParent THEN <<c>> ELSE <<c>> \o Path[Parent[c]]
  <1>1. PICK f \in [Components -> Seq(Components)] : f = PathFrom(f)
    BY PathExists
  <1>2. Path = CHOOSE p : p = PathFrom(p)
    BY DEF Path, PathFrom
  <1>3. Path = PathFrom(Path)
    BY <1>1, <1>2
  <1>4. PathFrom(Path)[c] = IF Parent[c] = NoParent THEN <<c>> ELSE <<c>> \o Path[Parent[c]]
    BY DEF PathFrom
  <1> QED BY <1>3, <1>4

\* What passes from a component to those below it holds of all.
LEMMA FromTheRoot ==
  ASSUME NEW A,
         \A c \in Components : Parent[c] = NoParent \/ Parent[c] \in A => c \in A
  PROVE  \A c \in Components : c \in A
  <1> DEFINE Bad == { c \in Components : c \notin A }
             Ranks == { Rank(c) : c \in Bad }
  <1> SUFFICES ASSUME Bad # {} PROVE FALSE
    OBVIOUS
  <1>1. Ranks \subseteq Nat /\ Ranks # {}
    BY RankFacts
  <1>2. PICK m \in Ranks : \A k \in Ranks : m <= k
    <2> HIDE DEF Ranks
    <2> QED BY <1>1, LeastOf
  <1>3. PICK c \in Bad : m = Rank(c)
    BY <1>2
  <1>4. Parent[c] \in Components /\ Rank(Parent[c]) < Rank(c) /\ Parent[c] \notin A
    BY <1>3, RankFacts
  <1>5. Rank(Parent[c]) \in Ranks
    BY <1>4
  <1>6. Rank(c) <= Rank(Parent[c]) /\ Rank(c) \in Nat /\ Rank(Parent[c]) \in Nat
    BY <1>1, <1>2, <1>3, <1>5
  <1> QED BY <1>4, <1>6

\* A path and those that are parts of it.
Regular(c) ==
  /\ Path[c] \in Seq(Components) /\ Len(Path[c]) \in 1 .. Rank(c) /\ Path[c][1] = c
  /\ Len(Path[c]) = 1 <=> Parent[c] = NoParent
  /\ \A k \in 1 .. Len(Path[c]) :
       /\ Len(Path[Path[c][k]]) = Len(Path[c]) - k + 1
       /\ \A j \in 1 .. Len(Path[c]) - k + 1 : Path[Path[c][k]][j] = Path[c][k - 1 + j]

\* Every path is regular.
LEMMA PathFacts == \A c \in Components : Regular(c)
  <1> DEFINE A == { c \in Components : Regular(c) }
  <1>1. ASSUME NEW c \in Components, Parent[c] = NoParent PROVE Regular(c)
    <2>1. Path[c] = <<c>>
      BY <1>1, PathIs
    <2>2. <<c>> \in Seq(Components) /\ Len(<<c>>) = 1 /\ <<c>>[1] = c
      OBVIOUS
    <2>3. 1 \in 1 .. Rank(c)
      <3>1. Rank(c) \in 1 .. Len(Order)
        BY RankFacts
      <3> QED BY <3>1
    <2>4. \A k \in 1 .. 1 : k = 1 /\ 1 - k + 1 = 1 /\ Path[c][k] = c
      BY <2>1, <2>2
    <2>5. \A j \in 1 .. 1 : 1 - 1 + j = j
      OBVIOUS
    <2>6. /\ Len(Path[c]) = 1 /\ Path[c] \in Seq(Components) /\ Path[c][1] = c
      BY <2>1, <2>2
    <2> QED BY <1>1, <2>3, <2>4, <2>5, <2>6 DEF Regular
  <1>2. ASSUME NEW c \in Components, Parent[c] # NoParent, Parent[c] \in A PROVE Regular(c)
    <2> DEFINE up == Path[Parent[c]]
               path == Path[c]
               m == Len(up)
    <2>1. Parent[c] \in Components /\ Regular(Parent[c])
      BY <1>2
    <2>2. up \in Seq(Components) /\ m \in 1 .. Rank(Parent[c]) /\ m \in Nat /\ m >= 1
      <3>1. up \in Seq(Components) /\ m \in 1 .. Rank(Parent[c])
        BY <2>1 DEF Regular
      <3> HIDE DEF up
      <3> QED BY <3>1
    <2>3. path = <<c>> \o up
      BY <1>2, PathIs
    <2>4. /\ path \in Seq(Components) /\ Len(path) = m + 1 /\ path[1] = c
          /\ \A k \in 1 .. m : path[k + 1] = up[k]
      <3> HIDE DEF path, up
      <3>1. <<c>> \in Seq(Components) /\ Len(<<c>>) = 1 /\ <<c>>[1] = c
        OBVIOUS
      <3>2. /\ Len(<<c>> \o up) = 1 + m /\ <<c>> \o up \in Seq(Components) /\ (<<c>> \o up)[1] = c
            /\ \A k \in 1 .. m : (<<c>> \o up)[k + 1] = up[k]
        BY <2>2, <3>1
      <3> QED BY <2>2, <2>3, <3>2
    <2>5. Len(path) \in 1 .. Rank(c) /\ Len(path) # 1
      <3>1. /\ Rank(Parent[c]) < Rank(c) /\ Rank(c) \in Nat /\ Rank(Parent[c]) \in Nat
        <4>1. Rank(c) \in 1 .. Len(Order) /\ Rank(Parent[c]) \in 1 .. Len(Order) /\ Rank(Parent[c]) < Rank(c)
          BY <1>2, <2>1, RankFacts
        <4> QED BY <4>1
      <3> HIDE DEF path, m
      <3> QED BY <2>2, <2>4, <3>1
    <2>6. ASSUME NEW k \in 1 .. Len(path)
          PROVE  /\ Len(Path[path[k]]) = Len(path) - k + 1
                 /\ \A j \in 1 .. Len(path) - k + 1 : Path[path[k]][j] = path[k - 1 + j]
      <3>1. k \in Nat /\ k >= 1 /\ k <= m + 1
        <4> HIDE DEF path, m
        <4> QED BY <2>2, <2>4
      <3>2. CASE k = 1
        <4>1. path[k] = c /\ Len(path) - k + 1 = Len(path) /\ Len(path) \in Nat
          <5> HIDE DEF path, m
          <5> QED BY <2>2, <2>4, <3>2
        <4>2. \A j \in 1 .. Len(path) : k - 1 + j = j
          BY <3>2
        <4> QED BY <4>1, <4>2
      <3>3. CASE k # 1
        <4>1. k - 1 \in 1 .. m /\ path[k] = up[k - 1]
          <5>1. k - 1 \in 1 .. m /\ k - 1 + 1 = k
            <6> HIDE DEF m
            <6> QED BY <2>2, <3>1, <3>3
          <5>2. path[k - 1 + 1] = up[k - 1]
            <6> HIDE DEF path, m, up
            <6> QED BY <2>4, <5>1
          <5> QED BY <5>1, <5>2
        <4>2. /\ Len(Path[up[k - 1]]) = m - (k - 1) + 1
              /\ \A j \in 1 .. m - (k - 1) + 1 : Path[up[k - 1]][j] = up[k - 1 - 1 + j]
          BY <2>1, <4>1 DEF Regular
        <4>3. m - (k - 1) + 1 = Len(path) - k + 1
          <5> HIDE DEF path, m
          <5> QED BY <2>2, <2>4, <3>1
        <4>4. ASSUME NEW j \in 1 .. Len(path) - k + 1 PROVE up[k - 1 - 1 + j] = path[k - 1 + j]
          <5>1. k - 1 - 1 + j \in 1 .. m /\ k - 1 - 1 + j + 1 = k - 1 + j
            <6> HIDE DEF path, m
            <6> QED BY <2>2, <2>4, <3>1, <3>3
          <5>2. path[k - 1 - 1 + j + 1] = up[k - 1 - 1 + j]
            <6> HIDE DEF path, m, up
            <6> QED BY <2>4, <5>1
          <5> QED BY <5>1, <5>2
        <4> HIDE DEF path, m, up
        <4> QED BY <4>1, <4>2, <4>3, <4>4
      <3> QED BY <3>2, <3>3
    <2> QED BY <1>2, <2>4, <2>5, <2>6 DEF Regular
  <1>3. \A c \in Components : Parent[c] = NoParent \/ Parent[c] \in A => c \in A
    BY <1>1, <1>2
  <1>4. \A c \in Components : c \in A
    <2> HIDE DEF A
    <2> QED BY <1>3, FromTheRoot
  <1> QED BY <1>4

-----------------------------------------------------------------------------
(* Names along a path                                                       *)

\* Joining the parts W of a path, the last in front.
Climbs(path, W, g) == g[0] = <<>> /\ \A k \in 1 .. Len(path) : g[k] = W[path[k]] \o g[k - 1]

Joins(path, W, g) == g \in [0 .. Len(path) -> Seq(Tokens)] /\ Climbs(path, W, g)

\* The names along a path can be joined.
LEMMA JoinExists ==
  ASSUME NEW path \in Seq(Components), NEW W \in [Components -> Seq(Tokens)]
  PROVE  \E g : Joins(path, W, g)
  <1> DEFINE n == Len(path)
             S == Seq(Tokens)
             F == [x \in (1 .. n) \X S |-> W[path[x[1]]] \o x[2]]
  <1>1. n \in Nat /\ \A k \in 1 .. n : path[k] \in Components
    OBVIOUS
  <1>2. F \in [(1 .. n) \X S -> S]
    <2>1. ASSUME NEW x \in (1 .. n) \X S PROVE W[path[x[1]]] \o x[2] \in S
      <3>1. W[path[x[1]]] \in Seq(Tokens) /\ x[2] \in Seq(Tokens)
        BY <1>1
      <3> QED BY <3>1
    <2> HIDE DEF n, S
    <2> QED BY <2>1
  <1>3. PICK g : Loops(g, S, n, <<>>, F)
    <2>1. <<>> \in S
      OBVIOUS
    <2> HIDE DEF n, S, F
    <2> QED BY <1>1, <1>2, <2>1, LoopExists
  <1>4. /\ g \in [0 .. n -> S] /\ g[0] = <<>>
        /\ \A k \in 1 .. n : g[k] = F[<<k, g[k - 1]>>]
    <2> HIDE DEF n, S, F
    <2> QED BY <1>3 DEF Loops
  <1>5. ASSUME NEW k \in 1 .. n PROVE g[k] = W[path[k]] \o g[k - 1]
    <2>1. k - 1 \in 0 .. n
      BY <1>1
    <2>2. g[k - 1] \in S /\ g[k] = F[<<k, g[k - 1]>>]
      BY <1>4, <2>1
    <2>3. <<k, g[k - 1]>> \in (1 .. n) \X S
      BY <2>2
    <2> HIDE DEF n, S
    <2> QED BY <2>2, <2>3
  <1> QED BY <1>4, <1>5 DEF Joins, Climbs

\* A path has one name for given parts.
LEMMA JoinsOnce ==
  ASSUME NEW path \in Seq(Components), NEW W \in [Components -> Seq(Tokens)],
         NEW g, Joins(path, W, g),
         NEW h, Climbs(path, W, h)
  PROVE  \A k \in 0 .. Len(path) : h[k] = g[k]
  <1> DEFINE n == Len(path)
             A == { k \in 0 .. n : h[k] = g[k] }
  <1>1. n \in Nat
    OBVIOUS
  <1>2. /\ g[0] = <<>> /\ \A k \in 1 .. n : g[k] = W[path[k]] \o g[k - 1]
        /\ h[0] = <<>> /\ \A k \in 1 .. n : h[k] = W[path[k]] \o h[k - 1]
    BY DEF Joins, Climbs
  <1>3. 0 \in A
    BY <1>1, <1>2
  <1>4. ASSUME NEW k \in 1 .. n, k - 1 \in A PROVE k \in A
    <2>1. k \in 0 .. n /\ h[k - 1] = g[k - 1]
      BY <1>1, <1>4
    <2> QED BY <1>2, <2>1
  <1>5. \A k \in 0 .. n : k \in A
    <2> HIDE DEF n, A
    <2> QED BY <1>1, <1>3, <1>4, UpTo
  <1> QED BY <1>5

\* The fold of the code computes it.
LEMMA JoinedIs ==
  ASSUME NEW path \in Seq(Components), NEW W \in [Components -> Seq(Tokens)],
         \A c \in Components : Part(c) = W[c], NEW g, Joins(path, W, g)
  PROVE  Joined(path) = g[Len(path)]
  <1> DEFINE n == Len(path)
             S == Seq(Tokens)
             F == [x \in (1 .. n) \X S |-> W[path[x[1]]] \o x[2]]
             ch == [d \in SUBSET (1 .. n) |-> Max(d)]
             Turn(f) == [d \in SUBSET (DOMAIN path) |->
                           IF d = {} THEN <<>> ELSE Part(path[Max(d)]) \o f[d \ {Max(d)}]]
             iter == CHOOSE f : f = Turn(f)
  <1>1. n \in Nat /\ DOMAIN path = 1 .. n /\ \A k \in 1 .. n : path[k] \in Components
    OBVIOUS
  <1>2. Joined(path) = iter[1 .. n]
    BY <1>1 DEF Joined, FoldLeft, MapThenFoldSet
  <1>3. F \in [(1 .. n) \X S -> S]
    <2>1. ASSUME NEW x \in (1 .. n) \X S PROVE W[path[x[1]]] \o x[2] \in S
      <3>1. W[path[x[1]]] \in Seq(Tokens) /\ x[2] \in Seq(Tokens)
        BY <1>1
      <3> QED BY <3>1
    <2> HIDE DEF n, S
    <2> QED BY <2>1
  <1>4. \A d \in SUBSET (1 .. n) : d # {} => Max(d) \in d
    <2> SUFFICES ASSUME NEW d \in SUBSET (1 .. n), d # {} PROVE Max(d) \in d
      OBVIOUS
    <2>1. d \subseteq 0 .. n
      BY <1>1
    <2> QED BY <1>1, <2>1, MaxFacts
  <1>5. PICK f : FoldsTo(f, S, n, <<>>, F, ch)
    <2>1. Picks(ch, n)
      BY <1>4 DEF Picks
    <2>2. <<>> \in S
      OBVIOUS
    <2> HIDE DEF n, S, F, ch
    <2> QED BY <1>1, <1>3, <2>1, <2>2, FoldExists
  <1>6. /\ f \in [SUBSET (1 .. n) -> S]
        /\ \A d \in SUBSET (1 .. n) : f[d] = IF d = {} THEN <<>> ELSE F[<<Max(d), f[d \ {Max(d)}]>>]
    <2> HIDE DEF n, S, F
    <2> QED BY <1>5 DEF FoldsTo
  <1>7. f = Turn(f)
    <2>1. ASSUME NEW d \in SUBSET (1 .. n)
          PROVE  f[d] = IF d = {} THEN <<>> ELSE Part(path[Max(d)]) \o f[d \ {Max(d)}]
      <3>1. CASE d = {}
        BY <1>6, <3>1
      <3>2. CASE d # {}
        <4>1. Max(d) \in 1 .. n /\ d \ {Max(d)} \in SUBSET (1 .. n)
          BY <1>4, <3>2
        <4>2. <<Max(d), f[d \ {Max(d)}]>> \in (1 .. n) \X S
          BY <1>6, <4>1
        <4>3. F[<<Max(d), f[d \ {Max(d)}]>>] = W[path[Max(d)]] \o f[d \ {Max(d)}]
          <5> HIDE DEF n, S
          <5> QED BY <4>2
        <4>4. W[path[Max(d)]] = Part(path[Max(d)])
          BY <1>1, <4>1
        <4> HIDE DEF F
        <4> QED BY <1>6, <3>2, <4>3, <4>4
      <3> QED BY <3>1, <3>2
    <2> HIDE DEF n
    <2> QED BY <1>1, <1>6, <2>1
  <1>8. iter = Turn(iter)
    <2> HIDE DEF Turn
    <2> QED BY <1>7
  <1>9. \A d \in SUBSET (1 .. n) :
          iter[d] = IF d = {} THEN <<>> ELSE Part(path[Max(d)]) \o iter[d \ {Max(d)}]
    <2> HIDE DEF iter, n
    <2> QED BY <1>1, <1>8
  <1> DEFINE h == [k \in 0 .. n |-> iter[1 .. k]]
  <1> HIDE DEF iter, F, S, ch, Turn
  <1>10. h[0] = <<>>
    <2>1. h[0] = iter[{}]
      BY <1>1
    <2> QED BY <1>9, <2>1
  <1>11. ASSUME NEW k \in 1 .. n PROVE h[k] = W[path[k]] \o h[k - 1]
    <2>1. k \in Nat /\ k - 1 \in 0 .. n /\ 1 .. k \in SUBSET (1 .. n) /\ k \in 1 .. k /\ k \in 0 .. n
      BY <1>1
    <2>2. Max(1 .. k) = k
      <3>1. 1 .. k \subseteq Nat /\ \A y \in 1 .. k : k >= y
        BY <2>1
      <3> QED BY <2>1, <3>1, MaxIs
    <2>3. (1 .. k) \ {k} = 1 .. k - 1
      <3>1. \A y : y \in 1 .. k /\ y # k <=> y \in 1 .. k - 1
        BY <2>1
      <3> QED BY <3>1
    <2>4. iter[1 .. k] = Part(path[k]) \o iter[1 .. k - 1]
      BY <1>9, <2>1, <2>2, <2>3
    <2>5. Part(path[k]) = W[path[k]]
      BY <1>1
    <2> QED BY <2>1, <2>4, <2>5
  <1>12. h[n] = g[n]
    <2>1. n \in 0 .. n
      BY <1>1
    <2>2. Climbs(path, W, h)
      <3> HIDE DEF h
      <3> QED BY <1>10, <1>11 DEF Climbs
    <2> HIDE DEF h
    <2> QED BY <2>1, <2>2, JoinsOnce
  <1> QED BY <1>1, <1>2, <1>12

\* Texts are joined from either end.
LEMMA Associative == \A a, b, d \in Seq(Tokens) : a \o (b \o d) = (a \o b) \o d
  BY ConcatAssociative

\* A path in two pieces.
Splits(path, m, above, below) ==
  /\ path \in Seq(Components) /\ above \in Seq(Components) /\ below \in Seq(Components)
  /\ m \in Nat /\ Len(below) = m /\ Len(above) = Len(path) - m
  /\ \A k \in 1 .. m : below[k] = path[k]
  /\ \A k \in 1 .. Len(above) : above[k] = path[m + k]

\* The three names of such a path.
JoinSplit(path, m, above, below, W) ==
  \A g, ga, gb : Joins(path, W, g) /\ Joins(above, W, ga) /\ Joins(below, W, gb)
                   => g[Len(path)] = ga[Len(above)] \o gb[m]

\* What is joined first stands last.
LEMMA JoinSplits ==
  ASSUME NEW path, NEW above, NEW below, NEW m, Splits(path, m, above, below),
         NEW W \in [Components -> Seq(Tokens)]
  PROVE  JoinSplit(path, m, above, below, W)
  <1> SUFFICES ASSUME NEW g, Joins(path, W, g), NEW ga, Joins(above, W, ga), NEW gb, Joins(below, W, gb)
               PROVE  g[Len(path)] = ga[Len(above)] \o gb[m]
    BY DEF JoinSplit
  <1> USE DEF Splits
  <1> DEFINE n == Len(path)
             r == Len(above)
  <1>1. n \in Nat /\ r \in Nat /\ n = m + r
    <2>1. n \in Nat /\ r \in Nat
      OBVIOUS
    <2> QED BY <2>1
  <1>2. g[0] = <<>> /\ \A k \in 1 .. n : g[k] = W[path[k]] \o g[k - 1]
    BY DEF Joins, Climbs
  <1>3. ga[0] = <<>> /\ (\A k \in 1 .. r : ga[k] = W[above[k]] \o ga[k - 1]) /\ \A k \in 0 .. r : ga[k] \in Seq(Tokens)
    BY DEF Joins, Climbs
  <1>4. \A k \in 0 .. m : g[k] = gb[k]
    <2>1. ASSUME NEW k \in 1 .. Len(below) PROVE g[k] = W[below[k]] \o g[k - 1]
      <3>1. k \in 1 .. n
        BY <1>1, <2>1
      <3> QED BY <1>2, <3>1, <2>1
    <2>2. Climbs(below, W, g)
      BY <1>2, <2>1 DEF Climbs
    <2>3. below \in Seq(Components) /\ W \in [Components -> Seq(Tokens)] /\ Joins(below, W, gb)
      OBVIOUS
    <2>4. \A k \in 0 .. Len(below) : g[k] = gb[k]
      BY ONLY <2>2, <2>3, JoinsOnce
    <2> QED BY <2>4
  <1>5. gb[m] \in Seq(Tokens)
    <2>1. m \in 0 .. Len(below)
      OBVIOUS
    <2> QED BY <2>1 DEF Joins
  <1> DEFINE A == { k \in 0 .. r : g[m + k] = ga[k] \o gb[m] }
  <1>6. 0 \in A
    <2>1. m + 0 = m /\ 0 \in 0 .. r /\ m \in 0 .. m
      BY <1>1
    <2>2. <<>> \o gb[m] = gb[m]
      BY <1>5
    <2> HIDE DEF n, r
    <2> QED BY <1>3, <1>4, <2>1, <2>2
  <1>7. ASSUME NEW k \in 1 .. r, k - 1 \in A PROVE k \in A
    <2>1. k \in 0 .. r /\ k - 1 \in 0 .. r /\ m + k \in 1 .. n /\ m + k - 1 = m + (k - 1)
      BY <1>1
    <2>2. g[m + k] = W[path[m + k]] \o g[m + (k - 1)]
      <3> DEFINE j == m + k
      <3>1. j \in 1 .. n /\ j - 1 = m + (k - 1)
        BY <2>1
      <3>2. g[j] = W[path[j]] \o g[j - 1]
        <4> HIDE DEF j, n
        <4> QED BY <1>2, <3>1
      <3> QED BY <3>1, <3>2
    <2>3. g[m + (k - 1)] = ga[k - 1] \o gb[m] /\ above[k] = path[m + k]
      BY <1>7
    <2>4. W[above[k]] \in Seq(Tokens) /\ ga[k - 1] \in Seq(Tokens)
      <3>1. above[k] \in Components
        BY <1>7
      <3> QED BY <1>3, <2>1, <3>1
    <2>5. W[above[k]] \o (ga[k - 1] \o gb[m]) = (W[above[k]] \o ga[k - 1]) \o gb[m]
      BY <1>5, <2>4, Associative
    <2>6. ga[k] = W[above[k]] \o ga[k - 1]
      BY <1>3
    <2>7. g[m + k] = ga[k] \o gb[m]
      BY <2>2, <2>3, <2>5, <2>6
    <2> HIDE DEF r
    <2> QED BY <2>1, <2>7
  <1>8. r \in A
    <2>1. r \in 0 .. r
      BY <1>1
    <2> HIDE DEF r, A
    <2> QED BY <1>1, <1>6, <1>7, <2>1, UpTo
  <1> QED BY <1>1, <1>8

\* Joining is the concatenation of the parts from the root down.
LEMMA FlattenIs ==
  ASSUME NEW path \in Seq(Components), Len(path) >= 1,
         NEW W \in [Components -> Seq(Tokens)], NEW g, Joins(path, W, g)
  PROVE  FlattenSeq([i \in 1 .. Len(path) |-> W[path[Len(path) + 1 - i]]]) = g[Len(path)]
  <1> DEFINE n == Len(path)
             s == [i \in 1 .. n |-> W[path[n + 1 - i]]]
             S == Seq(Tokens)
             F == [x \in (1 .. n) \X S |-> x[2] \o s[x[1]]]
             Turn(f) == [i \in 1 .. n |-> IF i = 1 THEN s[i] ELSE f[i - 1] \o s[i]]
             flatten == CHOOSE f : f = Turn(f)
  <1>1. n \in Nat /\ n >= 1
    OBVIOUS
  <1>2. \A i \in 1 .. n : s[i] = W[path[n + 1 - i]] /\ s[i] \in Seq(Tokens)
    <2>1. ASSUME NEW i \in 1 .. n PROVE W[path[n + 1 - i]] \in Seq(Tokens)
      <3>1. n + 1 - i \in 1 .. n
        BY <1>1
      <3>2. path[n + 1 - i] \in Components
        BY <3>1
      <3> QED BY <3>2
    <2> HIDE DEF n
    <2> QED BY <2>1
  <1>3. FlattenSeq(s) = flatten[n]
    <2>1. Len(s) = n /\ n # 0
      BY <1>1
    <2> HIDE DEF s
    <2> QED BY <2>1 DEF FlattenSeq
  <1> HIDE DEF s
  <1>4. F \in [(1 .. n) \X S -> S]
    <2>1. ASSUME NEW x \in (1 .. n) \X S PROVE x[2] \o s[x[1]] \in S
      <3>1. s[x[1]] \in Seq(Tokens) /\ x[2] \in Seq(Tokens)
        BY <1>2
      <3> QED BY <3>1
    <2> HIDE DEF n, S
    <2> QED BY <2>1
  <1>5. PICK h : Loops(h, S, n, <<>>, F)
    <2>1. <<>> \in S
      OBVIOUS
    <2> HIDE DEF n, S, F
    <2> QED BY <1>1, <1>4, <2>1, LoopExists
  <1>6. /\ h \in [0 .. n -> S] /\ h[0] = <<>>
        /\ \A k \in 1 .. n : h[k] = F[<<k, h[k - 1]>>]
    <2> HIDE DEF n, S, F
    <2> QED BY <1>5 DEF Loops
  <1>7. ASSUME NEW k \in 1 .. n PROVE h[k] = h[k - 1] \o s[k]
    <2>1. k - 1 \in 0 .. n
      BY <1>1
    <2>2. h[k - 1] \in S /\ h[k] = F[<<k, h[k - 1]>>]
      BY <1>6, <2>1
    <2>3. <<k, h[k - 1]>> \in (1 .. n) \X S
      BY <2>2
    <2> HIDE DEF n, S
    <2> QED BY <2>2, <2>3
  <1>8. h[1] = s[1]
    <2>1. 1 \in 1 .. n /\ 1 - 1 = 0
      BY <1>1
    <2>2. h[1] = <<>> \o s[1] /\ s[1] \in Seq(Tokens)
      <3>1. \A k \in 1 .. n : k - 1 = 0 => h[k] = h[0] \o s[k]
        <4> HIDE DEF n
        <4> QED BY <1>7
      <3> QED BY <1>2, <1>6, <2>1, <3>1
    <2> QED BY <2>2
  <1> DEFINE f == [i \in 1 .. n |-> h[i]]
  <1>9. f = Turn(f)
    <2>1. ASSUME NEW i \in 1 .. n PROVE f[i] = IF i = 1 THEN s[i] ELSE f[i - 1] \o s[i]
      <3>1. i # 1 => i - 1 \in 1 .. n
        BY <1>1
      <3> HIDE DEF n
      <3> QED BY <1>7, <1>8, <3>1
    <2>2. Turn(f) = [i \in 1 .. n |-> f[i]]
      <3> HIDE DEF f, n
      <3> QED BY <2>1
    <2> QED BY <2>2
  <1>10. flatten = Turn(flatten)
    <2>1. \E e : e = Turn(e)
      <3> HIDE DEF Turn, f
      <3> QED BY <1>9
    <2> HIDE DEF Turn
    <2> QED BY <2>1
  <1>11. \A i \in 1 .. n : flatten[i] = IF i = 1 THEN s[i] ELSE flatten[i - 1] \o s[i]
    <2> HIDE DEF flatten, n
    <2> QED BY <1>10
  <1> HIDE DEF flatten
  <1> DEFINE A == { i \in 0 .. n : i # 0 => flatten[i] = h[i] /\ h[i] \o g[n - i] = g[n] }
  <1>12. /\ \A k \in 0 .. n : g[k] \in Seq(Tokens)
         /\ \A k \in 1 .. n : g[k] = W[path[k]] \o g[k - 1]
    BY DEF Joins, Climbs
  <1>13. ASSUME NEW i \in 1 .. n, i - 1 \in A PROVE i \in A
    <2>1. i \in 0 .. n /\ i - 1 \in 0 .. n /\ n - i \in 0 .. n /\ n + 1 - i \in 1 .. n
          /\ n + 1 - i - 1 = n - i /\ n - (i - 1) = n + 1 - i
      BY <1>1
    <2>2. g[n + 1 - i] = s[i] \o g[n - i]
      <3> DEFINE j == n + 1 - i
      <3>1. j \in 1 .. n /\ j - 1 = n - i
        BY <2>1
      <3>2. g[j] = W[path[j]] \o g[j - 1]
        <4> HIDE DEF j, n
        <4> QED BY <1>12, <3>1
      <3>3. s[i] = W[path[j]]
        BY <1>2
      <3> QED BY <3>1, <3>2, <3>3
    <2>3. CASE i = 1
      <3>1. flatten[i] = h[i] /\ h[i] = s[i]
        BY <1>8, <1>11, <2>3
      <3>2. n + 1 - i = n
        BY <1>1, <2>3
      <3>3. s[i] \o g[n - i] = g[n]
        BY <2>2, <3>2
      <3> HIDE DEF n
      <3> QED BY <2>1, <3>1, <3>3
    <2>4. CASE i # 1
      <3>1. flatten[i - 1] = h[i - 1] /\ h[i - 1] \o g[n - (i - 1)] = g[n]
        <4>1. i - 1 # 0
          BY <1>1, <2>4
        <4> HIDE DEF n
        <4> QED BY <1>13, <4>1
      <3>2. flatten[i] = h[i - 1] \o s[i] /\ h[i] = h[i - 1] \o s[i]
        BY <1>7, <1>11, <2>4, <3>1
      <3>3. h[i - 1] \o (s[i] \o g[n - i]) = g[n]
        BY <2>1, <2>2, <3>1
      <3>4. h[i - 1] \in Seq(Tokens) /\ s[i] \in Seq(Tokens) /\ g[n - i] \in Seq(Tokens)
        BY <1>2, <1>6, <1>12, <2>1
      <3>5. (h[i - 1] \o s[i]) \o g[n - i] = g[n]
        <4>1. h[i - 1] \o (s[i] \o g[n - i]) = (h[i - 1] \o s[i]) \o g[n - i]
          BY <3>4, Associative
        <4> QED BY <3>3, <4>1
      <3> HIDE DEF n
      <3> QED BY <2>1, <3>2, <3>5
    <2> QED BY <2>3, <2>4
  <1>14. n \in A
    <2>1. 0 \in 0 .. n /\ n \in 0 .. n
      BY <1>1
    <2>2. 0 \in A
      <3> HIDE DEF n
      <3> QED BY <2>1
    <2> HIDE DEF n, A
    <2> QED BY <1>1, <1>13, <2>1, <2>2, UpTo
  <1>15. flatten[n] = h[n] /\ h[n] \o g[0] = g[n]
    <2>1. n # 0 /\ n - n = 0
      BY <1>1
    <2> HIDE DEF n
    <2> QED BY <1>14, <2>1
  <1>16. h[n] \in Seq(Tokens) /\ g[0] = <<>>
    <2>1. n \in 0 .. n
      BY <1>1
    <2> QED BY <1>6, <2>1 DEF Joins, Climbs
  <1>17. h[n] \o <<>> = h[n]
    BY <1>16
  <1> QED BY <1>3, <1>15, <1>16, <1>17 DEF s

\* Joining the constructors' names of a path, the last first.
Dash(c, name) == (IF name = <<>> THEN name ELSE name \o <<"-">>) \o OwnName[c]

Descends(path, g) ==
  g[0] = <<>> /\ \A k \in 1 .. Len(path) : g[k] = Dash(path[Len(path) + 1 - k], g[k - 1])

\* A text with one more word is a text.
LEMMA DashTyped ==
  ASSUME NEW c \in Components, NEW name \in Seq(Tokens)
  PROVE  /\ Dash(c, name) \in Seq(Tokens)
         /\ OwnName[c] # <<>> => Dash(c, name) # <<>>
  <1>1. OwnName[c] \in Seq(Tokens) /\ "-" \in Tokens
    BY NamingAssumption
  <1> DEFINE front == IF name = <<>> THEN name ELSE name \o <<"-">>
  <1>2. front \in Seq(Tokens)
    <2>1. <<"-">> \in Seq(Tokens)
      BY <1>1
    <2> QED BY <2>1
  <1> HIDE DEF front
  <1>3. front \o OwnName[c] \in Seq(Tokens) /\ Len(front \o OwnName[c]) = Len(front) + Len(OwnName[c])
    BY <1>1, <1>2
  <1>4. ASSUME OwnName[c] # <<>> PROVE front \o OwnName[c] # <<>>
    <2>1. Len(OwnName[c]) \in Nat /\ Len(OwnName[c]) # 0 /\ Len(front) \in Nat
      BY <1>1, <1>2, <1>4
    <2>2. Len(front \o OwnName[c]) # 0
      BY <1>3, <2>1
    <2> QED BY <2>2
  <1> QED BY <1>3, <1>4 DEF Dash, front

\* The fold of the code computes it.
LEMMA DashedIs ==
  ASSUME NEW path \in Seq(Components)
  PROVE  \E g : Descends(path, g) /\ Dashed(path) = g[Len(path)] /\ \A k \in 0 .. Len(path) : g[k] \in Seq(Tokens)
  <1> DEFINE n == Len(path)
             S == Seq(Tokens)
             F == [x \in (1 .. n) \X S |-> Dash(path[x[1]], x[2])]
             ch == [d \in SUBSET (1 .. n) |-> Min(d)]
             Turn(f) == [d \in SUBSET (DOMAIN path) |->
                           IF d = {} THEN <<>>
                           ELSE (IF f[d \ {Min(d)}] = <<>> THEN f[d \ {Min(d)}]
                                 ELSE f[d \ {Min(d)}] \o <<"-">>) \o OwnName[path[Min(d)]]]
             iter == CHOOSE f : f = Turn(f)
  <1>1. n \in Nat /\ DOMAIN path = 1 .. n /\ \A k \in 1 .. n : path[k] \in Components
    OBVIOUS
  <1>2. Dashed(path) = iter[1 .. n]
    BY <1>1 DEF Dashed, FoldRight, MapThenFoldSet
  <1>3. F \in [(1 .. n) \X S -> S]
    <2>1. ASSUME NEW x \in (1 .. n) \X S PROVE Dash(path[x[1]], x[2]) \in S
      BY <1>1, DashTyped
    <2> HIDE DEF n, S
    <2> QED BY <2>1
  <1>4. \A d \in SUBSET (1 .. n) : d # {} => Min(d) \in d
    <2> SUFFICES ASSUME NEW d \in SUBSET (1 .. n), d # {} PROVE Min(d) \in d
      OBVIOUS
    <2>1. d \subseteq Nat
      BY <1>1
    <2> QED BY <2>1, MinFacts
  <1>5. PICK f : FoldsTo(f, S, n, <<>>, F, ch)
    <2>1. Picks(ch, n)
      BY <1>4 DEF Picks
    <2>2. <<>> \in S
      OBVIOUS
    <2> HIDE DEF n, S, F, ch
    <2> QED BY <1>1, <1>3, <2>1, <2>2, FoldExists
  <1>6. /\ f \in [SUBSET (1 .. n) -> S]
        /\ \A d \in SUBSET (1 .. n) : f[d] = IF d = {} THEN <<>> ELSE F[<<Min(d), f[d \ {Min(d)}]>>]
    <2> HIDE DEF n, S, F
    <2> QED BY <1>5 DEF FoldsTo
  <1>7. f = Turn(f)
    <2>1. ASSUME NEW d \in SUBSET (1 .. n)
          PROVE  f[d] = IF d = {} THEN <<>> ELSE Dash(path[Min(d)], f[d \ {Min(d)}])
      <3>1. CASE d = {}
        BY <1>6, <3>1
      <3>2. CASE d # {}
        <4>1. Min(d) \in 1 .. n /\ d \ {Min(d)} \in SUBSET (1 .. n)
          BY <1>4, <3>2
        <4>2. <<Min(d), f[d \ {Min(d)}]>> \in (1 .. n) \X S
          BY <1>6, <4>1
        <4>3. F[<<Min(d), f[d \ {Min(d)}]>>] = Dash(path[Min(d)], f[d \ {Min(d)}])
          <5> HIDE DEF n, S
          <5> QED BY <4>2
        <4> HIDE DEF F
        <4> QED BY <1>6, <3>2, <4>3
      <3> QED BY <3>1, <3>2
    <2> HIDE DEF n
    <2> QED BY <1>1, <1>6, <2>1 DEF Dash
  <1>8. iter = Turn(iter)
    <2> HIDE DEF Turn
    <2> QED BY <1>7
  <1>9. \A d \in SUBSET (1 .. n) :
          iter[d] = IF d = {} THEN <<>> ELSE Dash(path[Min(d)], iter[d \ {Min(d)}])
    <2> HIDE DEF iter, n
    <2> QED BY <1>1, <1>8 DEF Dash
  <1> DEFINE h == [k \in 0 .. n |-> iter[n + 1 - k .. n]]
  <1> HIDE DEF iter, F, S, ch, Turn
  <1>10. h[0] = <<>>
    <2>1. n + 1 - 0 .. n = {} /\ 0 \in 0 .. n
      BY <1>1
    <2>2. iter[{}] = <<>>
      BY <1>9
    <2> HIDE DEF n
    <2> QED BY <2>1, <2>2
  <1>11. ASSUME NEW k \in 1 .. n PROVE h[k] = Dash(path[n + 1 - k], h[k - 1])
    <2> DEFINE j == n + 1 - k
    <2>1. /\ k \in Nat /\ k - 1 \in 0 .. n /\ k \in 0 .. n /\ j \in Nat /\ j >= 1 /\ j <= n
          /\ n + 1 - (k - 1) = j + 1
      BY <1>1
    <2>2. h[k] = iter[j .. n] /\ h[k - 1] = iter[j + 1 .. n]
      <3> HIDE DEF n
      <3> QED BY <2>1
    <2> HIDE DEF j, h
    <2>3. j .. n \in SUBSET (1 .. n) /\ j \in j .. n
      BY <1>1, <2>1
    <2>4. Min(j .. n) = j
      <3>1. j .. n \subseteq Nat /\ \A y \in j .. n : j <= y
        BY <2>1
      <3> QED BY <2>3, <3>1, MinIs
    <2>5. (j .. n) \ {j} = j + 1 .. n
      <3>1. \A y : y \in j .. n /\ y # j <=> y \in j + 1 .. n
        BY <1>1, <2>1
      <3> QED BY <3>1
    <2>6. iter[j .. n] = Dash(path[j], iter[j + 1 .. n])
      BY <1>9, <2>3, <2>4, <2>5
    <2> QED BY <2>2, <2>6 DEF j
  <1> DEFINE A == { k \in 0 .. n : h[k] \in Seq(Tokens) }
  <1>12. \A k \in 0 .. n : k \in A
    <2>1. 0 \in A
      <3>1. 0 \in 0 .. n
        BY <1>1
      <3>2. h[0] \in Seq(Tokens)
        <4> HIDE DEF h
        <4> QED BY <1>10
      <3> HIDE DEF n, h
      <3> QED BY <3>1, <3>2
    <2>2. ASSUME NEW k \in 1 .. n, k - 1 \in A PROVE k \in A
      <3>1. k \in 0 .. n /\ n + 1 - k \in 1 .. n
        BY <1>1
      <3>2. h[k] \in Seq(Tokens)
        <4> HIDE DEF n, h
        <4> QED BY <1>1, <1>11, <2>2, <3>1, DashTyped
      <3> HIDE DEF n, h
      <3> QED BY <3>1, <3>2
    <2> HIDE DEF n, A
    <2> QED BY <1>1, <2>1, <2>2, UpTo
  <1>13. Dashed(path) = h[n]
    <2>1. n \in 0 .. n /\ n + 1 - n = 1
      BY <1>1
    <2> HIDE DEF n
    <2> QED BY <1>2, <2>1
  <1>14. Descends(path, h) /\ Dashed(path) = h[Len(path)] /\ \A k \in 0 .. Len(path) : h[k] \in Seq(Tokens)
    <2> HIDE DEF h
    <2> QED BY <1>10, <1>11, <1>12, <1>13 DEF Descends
  <1> HIDE DEF h
  <1> QED BY <1>14

\* What is below is joined last, behind a dash, unless a name is empty.
LEMMA DashSplits ==
  ASSUME \A c \in Components : OwnName[c] # <<>>,
         NEW path, NEW above, NEW below, NEW m, Splits(path, m, above, below),
         m >= 1, Len(above) >= 1
  PROVE  Dashed(path) = Dashed(above) \o <<"-">> \o Dashed(below)
  <1> USE DEF Splits
  <1> DEFINE n == Len(path)
             r == Len(above)
  <1>1. n \in Nat /\ r \in Nat /\ n = m + r /\ r >= 1
    <2>1. n \in Nat /\ r \in Nat
      OBVIOUS
    <2> QED BY <2>1
  <1>2. PICK g : Descends(path, g) /\ Dashed(path) = g[n] /\ \A k \in 0 .. n : g[k] \in Seq(Tokens)
    BY DashedIs
  <1>3. PICK ga : Descends(above, ga) /\ Dashed(above) = ga[r] /\ \A k \in 0 .. r : ga[k] \in Seq(Tokens)
    BY DashedIs
  <1>4. PICK gb : Descends(below, gb) /\ Dashed(below) = gb[m] /\ \A k \in 0 .. m : gb[k] \in Seq(Tokens)
    <2>1. \E f : Descends(below, f) /\ Dashed(below) = f[Len(below)] /\ \A k \in 0 .. Len(below) : f[k] \in Seq(Tokens)
      BY DashedIs
    <2> QED BY <2>1
  <1>5. /\ g[0] = <<>> /\ \A k \in 1 .. n : g[k] = Dash(path[n + 1 - k], g[k - 1])
        /\ ga[0] = <<>> /\ \A k \in 1 .. r : ga[k] = Dash(above[r + 1 - k], ga[k - 1])
        /\ gb[0] = <<>> /\ \A k \in 1 .. m : gb[k] = Dash(below[m + 1 - k], gb[k - 1])
    BY <1>2, <1>3, <1>4 DEF Descends
  <1>6. /\ \A k \in 1 .. r : ga[k] = Dash(path[n + 1 - k], ga[k - 1])
        /\ \A k \in 1 .. m : gb[k] = Dash(path[m + 1 - k], gb[k - 1])
    <2>1. ASSUME NEW k \in 1 .. r PROVE above[r + 1 - k] = path[n + 1 - k]
      <3>1. r + 1 - k \in 1 .. r /\ m + (r + 1 - k) = n + 1 - k
        BY <1>1
      <3> QED BY <3>1
    <2>2. ASSUME NEW k \in 1 .. m PROVE below[m + 1 - k] = path[m + 1 - k]
      <3>1. m + 1 - k \in 1 .. m
        OBVIOUS
      <3> QED BY <3>1
    <2> HIDE DEF n, r
    <2> QED BY <1>5, <2>1, <2>2
  <1>7. \A k \in 1 .. n : path[k] \in Components
    OBVIOUS
  <1> HIDE DEF n, r
  <1>8. g[r] = ga[r]
    <2> DEFINE A == { k \in 0 .. r : g[k] = ga[k] }
    <2>1. 0 \in A
      BY <1>1, <1>5
    <2>2. ASSUME NEW k \in 1 .. r, k - 1 \in A PROVE k \in A
      <3>1. k \in 1 .. n /\ k \in 0 .. r
        BY <1>1
      <3> QED BY <1>5, <1>6, <2>2, <3>1
    <2>3. r \in A
      <3>1. r \in 0 .. r
        BY <1>1
      <3> HIDE DEF A
      <3> QED BY <1>1, <2>1, <2>2, <3>1, UpTo
    <2> QED BY <2>3
  <1>9. ga[r] \in Seq(Tokens) /\ ga[r] # <<>>
    <2>1. r \in 1 .. r /\ r - 1 \in 0 .. r /\ n + 1 - r \in 1 .. n /\ r \in 0 .. r
      BY <1>1
    <2>2. ga[r] = Dash(path[n + 1 - r], ga[r - 1])
      BY <1>6, <2>1
    <2> QED BY <1>3, <1>7, <2>1, <2>2, DashTyped
  <1> DEFINE front == ga[r] \o <<"-">>
             A == { k \in 0 .. m : k # 0 => gb[k] # <<>> /\ g[r + k] = front \o gb[k] }
  <1>10. front \in Seq(Tokens) /\ <<"-">> \in Seq(Tokens)
    <2>1. "-" \in Tokens
      BY NamingAssumption
    <2>2. <<"-">> \in Seq(Tokens)
      BY <2>1
    <2> QED BY <1>9, <2>2
  <1>11. ASSUME NEW k \in 1 .. m, k - 1 \in A PROVE k \in A
    <2> DEFINE j == r + k
               c == path[m + 1 - k]
    <2>1. j \in 1 .. n /\ j - 1 = r + (k - 1) /\ n + 1 - j = m + 1 - k /\ m + 1 - k \in 1 .. n
          /\ k \in 0 .. m /\ k - 1 \in 0 .. m
      <3>1. k \in Int /\ 1 <= k /\ k <= m
        BY <1>1
      <3> HIDE DEF A, front, c
      <3>2. j \in Int /\ 1 <= j /\ j <= n /\ j - 1 = r + (k - 1) /\ n + 1 - j = m + 1 - k
        BY <1>1, <3>1
      <3>3. m + 1 - k \in Int /\ 1 <= m + 1 - k /\ m + 1 - k <= n
        BY <1>1, <3>1
      <3> HIDE DEF j
      <3> QED BY <1>1, <3>1, <3>2, <3>3
    <2>2. c \in Components
      BY <1>7, <2>1
    <2>3. g[j] = Dash(c, g[r + (k - 1)])
      <3>1. g[j] = Dash(path[n + 1 - j], g[j - 1])
        <4> HIDE DEF j
        <4> QED BY <1>5, <2>1
      <3> HIDE DEF j
      <3> QED BY <2>1, <3>1
    <2>4. gb[k] = Dash(c, gb[k - 1]) /\ gb[k - 1] \in Seq(Tokens)
      BY <1>4, <1>6, <2>1
    <2>5. gb[k] # <<>>
      BY <2>2, <2>4, DashTyped
    <2>6. OwnName[c] \in Seq(Tokens)
      BY <2>2, NamingAssumption
    <2>7. g[j] = front \o gb[k]
      <3>1. CASE k = 1
        <4>1. r + (k - 1) = r /\ k - 1 = 0
          BY <1>1, <3>1
        <4>2. g[j] = Dash(c, ga[r]) /\ gb[k] = Dash(c, <<>>)
          BY <1>5, <1>8, <2>3, <2>4, <4>1
        <4>3. Dash(c, ga[r]) = front \o OwnName[c]
          BY <1>9 DEF Dash
        <4>4. Dash(c, <<>>) = OwnName[c]
          <5>1. <<>> \o OwnName[c] = OwnName[c]
            BY <2>6
          <5> QED BY <5>1 DEF Dash
        <4> QED BY <4>2, <4>3, <4>4
      <3>2. CASE k # 1
        <4>1. gb[k - 1] # <<>> /\ g[r + (k - 1)] = front \o gb[k - 1]
          <5>1. k - 1 # 0
            BY <3>2
          <5> QED BY <1>11, <5>1
        <4> HIDE DEF front, c
        <4> DEFINE x == gb[k - 1]
                   o == OwnName[c]
        <4>2. x \in Seq(Tokens) /\ o \in Seq(Tokens)
          BY <2>4, <2>6
        <4>3. front \o x # <<>>
          <5>1. Len(front \o x) = Len(front) + Len(x) /\ Len(x) \in Nat /\ Len(x) # 0 /\ Len(front) \in Nat
            BY <1>10, <4>1, <4>2
          <5> QED BY <5>1
        <4>4. g[j] = ((front \o x) \o <<"-">>) \o o
          BY <2>3, <4>1, <4>3 DEF Dash
        <4>5. gb[k] = (x \o <<"-">>) \o o
          BY <2>4, <4>1 DEF Dash
        <4> HIDE DEF x, o
        <4>6. (front \o x) \o <<"-">> = front \o (x \o <<"-">>)
          BY <1>10, <4>2, Associative
        <4>7. x \o <<"-">> \in Seq(Tokens)
          BY <1>10, <4>2
        <4>8. front \o ((x \o <<"-">>) \o o) = (front \o (x \o <<"-">>)) \o o
          BY <1>10, <4>2, <4>7, Associative
        <4> QED BY <4>4, <4>5, <4>6, <4>8
      <3> QED BY <3>1, <3>2
    <2> HIDE DEF front
    <2> QED BY <2>1, <2>5, <2>7
  <1>12. m \in A
    <2>1. 0 \in 0 .. m /\ m \in 0 .. m
      OBVIOUS
    <2>2. 0 \in A
      <3> HIDE DEF front
      <3> QED BY <2>1
    <2> HIDE DEF A
    <2> QED BY <1>11, <2>1, <2>2, UpTo
  <1>13. g[r + m] = front \o gb[m] /\ r + m = n
    <2>1. m # 0 /\ r + m = n
      BY <1>1
    <2> HIDE DEF front
    <2> QED BY <1>12, <2>1
  <1> QED BY <1>2, <1>3, <1>4, <1>13

-----------------------------------------------------------------------------
(* Ports                                                                    *)

Outside(c) == { i \in DOMAIN Path[c] : Path[c][i] \in Ports }
Inside(c)  == IF Outside(c) = {} THEN Path[c] ELSE SubSeq(Path[c], 1, Min(Outside(c)) - 1)

\* What is below the nearest port, and the path of the port.
LEMMA PortPath ==
  ASSUME NEW c \in Components, Outside(c) # {}
  PROVE  LET m == Min(Outside(c)) - 1
             port == Path[c][Min(Outside(c))]
         IN /\ port \in Components /\ Splits(Path[c], m, Path[port], Inside(c))
            /\ port # c => m >= 1
            /\ Len(Path[port]) >= 1
  <1> DEFINE path == Path[c]
             i == Min(Outside(c))
             port == path[i]
  <1>1. path \in Seq(Components) /\ Len(path) \in Nat /\ path[1] = c
    <2>1. path \in Seq(Components) /\ path[1] = c
      BY PathFacts DEF Regular
    <2> QED BY <2>1
  <1>2. i \in 1 .. Len(path) /\ i \in Nat
    <2>1. Outside(c) \subseteq 1 .. Len(path) /\ Outside(c) \subseteq Nat
      BY <1>1 DEF Outside
    <2>2. Min(Outside(c)) \in Outside(c)
      BY <2>1, MinFacts
    <2> HIDE DEF path
    <2> QED BY <2>1, <2>2
  <1>3. port \in Components
    <2> HIDE DEF path, i
    <2> QED BY <1>1, <1>2
  <1>4. /\ Len(Path[port]) = Len(path) - i + 1
        /\ \A j \in 1 .. Len(path) - i + 1 : Path[port][j] = path[i - 1 + j]
    <2> HIDE DEF i
    <2> QED BY <1>2, PathFacts DEF Regular
  <1>5. Path[port] \in Seq(Components)
    BY <1>3, PathFacts DEF Regular
  <1>6. Inside(c) = SubSeq(path, 1, i - 1)
    BY DEF Inside
  <1> HIDE DEF path, i
  <1>7. /\ SubSeq(path, 1, i - 1) \in Seq(Components) /\ Len(SubSeq(path, 1, i - 1)) = i - 1
        /\ \A k \in 1 .. i - 1 : SubSeq(path, 1, i - 1)[k] = path[k]
    BY <1>1, <1>2
  <1>8. port # c => i # 1
    BY <1>1
  <1>9. /\ i - 1 \in Nat /\ i - 1 <= Len(path) - 1 /\ (i # 1 => i - 1 >= 1)
        /\ Len(path) - i + 1 = Len(path) - (i - 1) /\ Len(path) - i + 1 >= 1
    BY <1>1, <1>2
  <1>10. /\ port \in Components /\ Splits(path, i - 1, Path[port], Inside(c))
         /\ port # c => i - 1 >= 1
         /\ Len(Path[port]) >= 1
    <2> HIDE DEF port
    <2> QED BY <1>1, <1>3, <1>4, <1>5, <1>6, <1>7, <1>8, <1>9 DEF Splits
  <1> QED BY <1>10 DEF path, i

\* A name inside of NDS is that of the port, a dash and that from the port.
LEMMA FullNameSplits ==
  ASSUME NEW c \in Components, Outside(c) # {}, c # Path[c][Min(Outside(c))],
         \A d \in Components : OwnName[d] # <<>>
  PROVE  FullName(c) = FullName(Path[c][Min(Outside(c))]) \o <<"-">> \o FullNameFromPort(c)
  <1> DEFINE m == Min(Outside(c)) - 1
             port == Path[c][Min(Outside(c))]
  <1>1. Splits(Path[c], m, Path[port], Inside(c)) /\ m >= 1 /\ Len(Path[port]) >= 1
    BY PortPath
  <1>2. Dashed(Path[c]) = Dashed(Path[port]) \o <<"-">> \o Dashed(Inside(c))
    <2> HIDE DEF m, port
    <2> QED BY <1>1, DashSplits
  <1> QED BY <1>2 DEF FullName, FullNameFromPort, Inside, Outside

-----------------------------------------------------------------------------
(* The names that are due                                                   *)

\* What was in force when a component was initialized.
Rulings == [file : {<<>>} \cup Files \cup Reloads, name : Seq(Tokens), words : [Components -> Seq(Tokens)]]

\* A rule that is there is a text.
LEMMA OfTyped ==
  ASSUME NEW by \in Rulings, NEW key, Has(by, key)
  PROVE  Of(by, key) \in Seq(Tokens)
  <1> DEFINE found == LinesFor(by.file, by.name, <<key>>)
  <1>1. found # {}
    BY DEF Has
  <1>2. by.file \in Files \cup Reloads
    <2>1. by.file # <<>>
      BY <1>1 DEF LinesFor, KeyLines
    <2> QED BY <2>1 DEF Rulings
  <1>3. found \subseteq DOMAIN by.file
    BY DEF LinesFor, KeyLines
  <1>4. Max(found) \in found
    <2>0. DOMAIN by.file = 1 .. Len(by.file) /\ Len(by.file) \in Nat
      BY <1>2, FileLines
    <2>1. found \subseteq 0 .. Len(by.file) /\ Len(by.file) \in Nat
      <3> HIDE DEF found
      <3> QED BY <1>3, <2>0
    <2> HIDE DEF found
    <2> QED BY <1>1, <2>1, MaxFacts
  <1>5. Max(found) \in DOMAIN by.file
    BY <1>3, <1>4
  <1>6. Means[by.file[Max(found)]].value \in Seq(Tokens)
    <2> HIDE DEF found
    <2> QED BY <1>2, <1>5, FileFacts
  <1> QED BY <1>6 DEF Of, Says

\* A text in another case is a text.
LEMMA CaseTyped ==
  ASSUME NEW name \in Seq(Tokens), NEW case, \A w \in DOMAIN case : case[w] \in Tokens
  PROVE  ApplyCase(case, name) \in Seq(Tokens)
  <1>1. \A i \in DOMAIN name : name[i] \in Tokens
    OBVIOUS
  <1>2. \A i \in DOMAIN name : (IF name[i] \in DOMAIN case THEN case[name[i]] ELSE name[i]) \in Tokens
    BY <1>1
  <1>3. Len(name) \in Nat /\ DOMAIN name = 1 .. Len(name)
    OBVIOUS
  <1> QED BY <1>2, <1>3 DEF ApplyCase

\* A rule with the name put in is a text.
LEMMA FormatTyped ==
  ASSUME NEW rule \in Seq(Tokens), NEW name \in Seq(Tokens)
  PROVE  Format(rule, name) \in Seq(Tokens)
  <1>1. CASE "%s" \notin ToSet(rule)
    BY <1>1 DEF Format
  <1>2. CASE "%s" \in ToSet(rule)
    <2> DEFINE found == { i \in 1 .. Len(rule) : rule[i] \in {"%s"} }
               i == FirstOf(rule, {"%s"}, 1)
    <2>1. Len(rule) \in Nat /\ DOMAIN rule = 1 .. Len(rule)
      OBVIOUS
    <2>2. found # {} /\ found \subseteq Nat
      BY <1>2, <2>1 DEF ToSet
    <2>3. i \in 1 .. Len(rule)
      <3>1. i = Min(found)
        BY <2>2 DEF FirstOf
      <3>2. Min(found) \in found
        <4> HIDE DEF found
        <4> QED BY <2>2, MinFacts
      <3> HIDE DEF i
      <3> QED BY <3>1, <3>2
    <2> HIDE DEF i
    <2>4. SubSeq(rule, 1, i - 1) \in Seq(Tokens) /\ SubSeq(rule, i + 1, Len(rule)) \in Seq(Tokens)
      BY <2>1, <2>3
    <2>5. SubSeq(rule, 1, i - 1) \o name \o SubSeq(rule, i + 1, Len(rule)) \in Seq(Tokens)
      BY <2>4
    <2> QED BY <1>2, <2>5 DEF Format, i
  <1> QED BY <1>1, <1>2

\* A text without its spaces is a text.
LEMMA SpacedTyped ==
  ASSUME NEW text \in Seq(Tokens)
  PROVE  [i \in DOMAIN text |-> IF text[i] = " " THEN "0" ELSE text[i]] \in Seq(Tokens)
  <1>1. Len(text) \in Nat /\ DOMAIN text = 1 .. Len(text) /\ \A i \in DOMAIN text : text[i] \in Tokens
    OBVIOUS
  <1>2. "0" \in Tokens
    BY NamingAssumption
  <1> DEFINE New(i) == IF text[i] = " " THEN "0" ELSE text[i]
  <1>3. \A i \in 1 .. Len(text) : New(i) \in Tokens
    BY <1>1, <1>2
  <1>4. [i \in 1 .. Len(text) |-> New(i)] \in Seq(Tokens)
    <2> HIDE DEF New
    <2> QED BY <1>1, <1>3
  <1> QED BY <1>1, <1>4

\* The separators that a level looks for.
Levels(by, level) == { n \in 0 .. level : Has(by, SeparatorKey(n)) }
Inherits(by, level) == level > 0 /\ (Has(by, "separator0") \/ Has(by, "separator1"))

\* The greatest of the levels looked for is one of them.
LEMMA LevelFacts ==
  ASSUME NEW by, NEW level \in Nat, Inherits(by, level) \/ level \in Levels(by, level)
  PROVE  Max(Levels(by, level)) \in Levels(by, level)
  <1>1. SeparatorKey(0) = "separator0" /\ SeparatorKey(1) = "separator1"
    BY NamingAssumption
  <1>2. Levels(by, level) # {}
    <2>1. CASE level \in Levels(by, level)
      BY <2>1
    <2>2. CASE Inherits(by, level)
      <3>1. 0 \in 0 .. level /\ 1 \in 0 .. level
        BY <2>2 DEF Inherits
      <3> QED BY <1>1, <2>2, <3>1 DEF Inherits, Levels
    <2> QED BY <2>1, <2>2
  <1>3. Levels(by, level) \subseteq 0 .. level
    BY DEF Levels
  <1> QED BY <1>2, <1>3, MaxFacts

\* Separators are texts.
LEMMA SeparatorTyped ==
  ASSUME NEW by \in Rulings, NEW level \in 0 .. Len(Order) - 1
  PROVE  DueSeparator(by, level) \in Seq(Tokens)
  <1>1. DefaultSeparator[level] \in Seq(Tokens)
    BY NamingAssumption
  <1>2. level \in Nat
    OBVIOUS
  <1>3. ASSUME Inherits(by, level) \/ level \in Levels(by, level)
        PROVE  Of(by, SeparatorKey(Max(Levels(by, level)))) \in Seq(Tokens)
    <2>1. Max(Levels(by, level)) \in Levels(by, level)
      BY <1>2, <1>3, LevelFacts
    <2>2. Has(by, SeparatorKey(Max(Levels(by, level))))
      BY <2>1 DEF Levels
    <2> QED BY <2>2, OfTyped
  <1> QED BY <1>1, <1>3 DEF DueSeparator, Levels, Inherits

\* The rules for a type are numbered.
LEMMA ChainFacts == \A kind \in DOMAIN Chain : DOMAIN Chain[kind] \subseteq Nat
  <1>1. ASSUME NEW a, NEW b, NEW d
        PROVE  DOMAIN <<a>> \subseteq Nat /\ DOMAIN <<a, b>> \subseteq Nat /\ DOMAIN <<a, b, d>> \subseteq Nat
    OBVIOUS
  <1>2. ASSUME NEW kind \in DOMAIN Chain
        PROVE  \E a, b, d : Chain[kind] \in {<<a>>, <<a, b>>, <<a, b, d>>}
    BY <1>2 DEF Chain
  <1> QED BY <1>1, <1>2

\* What the rules make of a name is a text,
LEMMA WordsTyped ==
  ASSUME NEW by \in Rulings, NEW kind \in DOMAIN Chain, NEW words \in Seq(Tokens)
  PROVE  DueWords(by, kind, words) \in Seq(Tokens)
  <1> DEFINE defined == { i \in DOMAIN Chain[kind] : Has(by, Chain[kind][i]) }
             lower == Has(by, "toLower") /\ Of(by, "toLower") = <<"1">>
             upper == Has(by, "toUpper") /\ Of(by, "toUpper") = <<"1">>
             case == IF lower THEN Lower ELSE IF upper THEN Upper ELSE <<>>
             shaped == ApplyCase(case, words)
             text == IF defined = {} THEN shaped ELSE Format(Of(by, Chain[kind][Min(defined)]), shaped)
  <1>1. shaped \in Seq(Tokens)
    <2>1. \A w \in DOMAIN case : case[w] \in Tokens
      <3>1. (\A w \in DOMAIN Lower : Lower[w] \in Tokens) /\ \A w \in DOMAIN Upper : Upper[w] \in Tokens
        BY NamingAssumption
      <3>2. case = Lower \/ case = Upper \/ case = <<>>
        OBVIOUS
      <3> HIDE DEF case
      <3> QED BY <3>1, <3>2
    <2> HIDE DEF case
    <2> QED BY <2>1, CaseTyped
  <1>2. defined # {} => Min(defined) \in defined
    <2>1. DOMAIN Chain[kind] \subseteq Nat
      BY ChainFacts
    <2>2. defined \subseteq Nat
      BY <2>1
    <2> HIDE DEF defined
    <2> QED BY <2>2, MinFacts
  <1>3. text \in Seq(Tokens)
    <2>1. CASE defined = {}
      BY <1>1, <2>1
    <2>2. CASE defined # {}
      <3>1. Has(by, Chain[kind][Min(defined)])
        BY <1>2, <2>2
      <3>2. Of(by, Chain[kind][Min(defined)]) \in Seq(Tokens)
        BY <3>1, OfTyped
      <3> HIDE DEF shaped, defined
      <3> QED BY <1>1, <2>2, <3>2, FormatTyped
    <2> QED BY <2>1, <2>2
  <1>4. DueWords(by, kind, words) = [i \in DOMAIN text |-> IF text[i] = " " THEN "0" ELSE text[i]]
    BY DEF DueWords
  <1> HIDE DEF text
  <1> QED BY <1>3, <1>4, SpacedTyped

\* The level of a component has a default separator, and only the root has level 0.
LEMMA LevelTyped ==
  ASSUME NEW c \in Components
  PROVE  /\ Level(c) \in 0 .. Len(Order) - 1 /\ Level(c) \in Nat
         /\ Level(c) = 0 <=> Parent[c] = NoParent
  <1>1. Len(Path[c]) \in 1 .. Rank(c) /\ (Len(Path[c]) = 1 <=> Parent[c] = NoParent)
    BY PathFacts DEF Regular
  <1>2. Rank(c) \in 1 .. Len(Order)
    BY RankFacts
  <1>3. Len(Order) \in Nat
    <2>1. Order \in Seq(Components)
      BY NamingAssumption
    <2> QED BY <2>1
  <1> QED BY <1>1, <1>2, <1>3 DEF Level

\* ... and so is the part that a component adds.
LEMMA PartTyped ==
  ASSUME NEW by \in Rulings, NEW c \in Components
  PROVE  DuePart(by, c) \in Seq(Tokens)
  <1> DEFINE plain == by.file = <<>> \/ by.name = <<>>
             level == Level(c)
             kind == IF level = 0 THEN "root" ELSE Kind[c]
             words == IF plain THEN by.words[c] ELSE DueWords(by, kind, by.words[c])
             apart == IF plain THEN DefaultSeparator[level] ELSE DueSeparator(by, level)
  <1>1. by.words[c] \in Seq(Tokens)
    BY DEF Rulings
  <1>2. level \in 0 .. Len(Order) - 1
    BY LevelTyped
  <1>3. kind \in DOMAIN Chain
    <2>1. "root" \in DOMAIN Chain
      BY DEF Chain
    <2>2. Kind[c] \in DOMAIN Chain
      BY NamingAssumption
    <2> QED BY <2>1, <2>2
  <1>4. words \in Seq(Tokens)
    <2> HIDE DEF kind
    <2> QED BY <1>1, <1>3, WordsTyped
  <1>5. apart \in Seq(Tokens)
    <2>1. DefaultSeparator[level] \in Seq(Tokens)
      BY <1>2, NamingAssumption
    <2> HIDE DEF level
    <2> QED BY <1>2, <2>1, SeparatorTyped
  <1>6. DuePart(by, c) = IF level > 0 /\ words = <<>> THEN <<>> ELSE apart \o words
    BY DEF DuePart
  <1> HIDE DEF words, apart, level
  <1>7. apart \o words \in Seq(Tokens) /\ <<>> \in Seq(Tokens)
    BY <1>4, <1>5
  <1> QED BY <1>6, <1>7

DueParts(by) == [c \in Components |-> DuePart(by, c)]

\* The name of a path.
Due(by, path) == (CHOOSE g : Joins(path, DueParts(by), g))[Len(path)]

\* The name due to a component, as a join of the parts along its path.
LEMMA DueIs ==
  ASSUME NEW by \in Rulings, NEW path \in Seq(Components)
  PROVE  /\ DueParts(by) \in [Components -> Seq(Tokens)]
         /\ \E g : Joins(path, DueParts(by), g) /\ Due(by, path) = g[Len(path)]
  <1>1. DueParts(by) \in [Components -> Seq(Tokens)]
    BY PartTyped DEF DueParts
  <1>2. \E g : Joins(path, DueParts(by), g)
    BY <1>1, JoinExists
  <1> QED BY <1>1, <1>2 DEF Due

\* It is the concatenation of the parts that are due ...
LEMMA DueFlattens ==
  ASSUME NEW by \in Rulings, NEW path \in Seq(Components), Len(path) >= 1
  PROVE  Due(by, path) = FlattenSeq([i \in 1 .. Len(path) |-> DuePart(by, path[Len(path) + 1 - i])])
  <1> DEFINE n == Len(path)
  <1>1. PICK g : Joins(path, DueParts(by), g) /\ Due(by, path) = g[n]
    BY DueIs
  <1>2. FlattenSeq([i \in 1 .. n |-> DueParts(by)[path[n + 1 - i]]]) = g[n]
    BY <1>1, DueIs, FlattenIs
  <1>3. [i \in 1 .. n |-> DueParts(by)[path[n + 1 - i]]] = [i \in 1 .. n |-> DuePart(by, path[n + 1 - i])]
    <2>1. ASSUME NEW i \in 1 .. n PROVE DueParts(by)[path[n + 1 - i]] = DuePart(by, path[n + 1 - i])
      <3>1. n + 1 - i \in 1 .. n /\ n \in Nat
        OBVIOUS
      <3>2. path[n + 1 - i] \in Components
        BY <3>1
      <3> QED BY <3>2 DEF DueParts
    <2> HIDE DEF n
    <2> QED BY <2>1
  <1> QED BY <1>1, <1>2, <1>3

\* ... and splits as the path does, at a port, say.
LEMMA DueSplits ==
  ASSUME NEW by \in Rulings, NEW path, NEW above, NEW below, NEW m, Splits(path, m, above, below)
  PROVE  Due(by, path) = Due(by, above) \o Due(by, below)
  <1>1. path \in Seq(Components) /\ above \in Seq(Components) /\ below \in Seq(Components) /\ Len(below) = m
    BY DEF Splits
  <1>2. PICK W \in [Components -> Seq(Tokens)] :
          \A p \in Seq(Components) : \E g : Joins(p, W, g) /\ Due(by, p) = g[Len(p)]
    <2>1. /\ DueParts(by) \in [Components -> Seq(Tokens)]
          /\ \A p \in Seq(Components) : \E g : Joins(p, DueParts(by), g) /\ Due(by, p) = g[Len(p)]
      BY <1>1, DueIs
    <2> QED BY <2>1
  <1>3. PICK g : Joins(path, W, g) /\ Due(by, path) = g[Len(path)]
    BY <1>1, <1>2
  <1>4. PICK ga : Joins(above, W, ga) /\ Due(by, above) = ga[Len(above)]
    BY <1>1, <1>2
  <1>5. PICK gb : Joins(below, W, gb) /\ Due(by, below) = gb[m]
    BY <1>1, <1>2
  <1>6. g[Len(path)] = ga[Len(above)] \o gb[m]
    <2>1. /\ Joins(path, W, g) /\ Joins(above, W, ga) /\ Joins(below, W, gb)
          /\ Splits(path, m, above, below) /\ W \in [Components -> Seq(Tokens)]
      BY <1>3, <1>4, <1>5
    <2>2. JoinSplit(path, m, above, below, W)
      BY <2>1, JoinSplits
    <2> QED BY <2>1, <2>2 DEF JoinSplit
  <1> QED BY <1>3, <1>4, <1>5, <1>6

\* The full name of a component is that of its port and that from the port.
LEMMA DueAtPort ==
  ASSUME NEW by \in Rulings, NEW c \in Components, Outside(c) # {}
  PROVE  Due(by, Path[c]) = Due(by, Path[Path[c][Min(Outside(c))]]) \o Due(by, Inside(c))
  <1>1. Splits(Path[c], Min(Outside(c)) - 1, Path[Path[c][Min(Outside(c))]], Inside(c))
    BY PortPath
  <1> QED BY <1>1, DueSplits

-----------------------------------------------------------------------------
(* The rules in force                                                       *)

\* The factory has no rules, or the map of the file they are from.
RulesInv ==
  /\ rulesName \in Seq(Tokens) /\ external \in [Components -> Seq(Tokens)]
  /\ \/ rules = NoRules /\ inForce = <<>>
     \/ /\ rules # NoRules /\ inForce \in Files \cup Reloads
        /\ SaysUpTo(inForce, Len(inForce), rules)

Ruling == [file |-> inForce, name |-> rulesName, words |-> external]

\* What a component is initialized with is one of the rulings.
LEMMA RulingTyped == ASSUME RulesInv PROVE Ruling \in Rulings
  <1>1. inForce \in {<<>>} \cup Files \cup Reloads
    BY DEF RulesInv
  <1> QED BY <1>1 DEF RulesInv, Ruling, Rulings

\* Rules apply unless no file or no section has been chosen.
LEMMA PlainAgrees ==
  ASSUME RulesInv, ~MissingSection
  PROVE  NoRulesApply <=> inForce = <<>> \/ rulesName = <<>>
  <1>1. ASSUME NoRulesApply PROVE inForce = <<>> \/ rulesName = <<>>
    BY <1>1 DEF RulesInv, NoRulesApply
  <1>2. ASSUME inForce = <<>>, ~NoRulesApply PROVE FALSE
    <2>1. rulesName \in DOMAIN rules /\ SaysUpTo(inForce, Len(inForce), rules)
      BY <1>2 DEF MissingSection, RulesInv, NoRulesApply, GetSections
    <2>2. KeysUpTo(inForce, Len(inForce)) = {}
      BY <1>2 DEF KeysUpTo, KeyLines
    <2>3. DOMAIN rules = {}
      BY <2>1, <2>2 DEF SaysUpTo
    <2> QED BY <2>1, <2>3
  <1>3. ASSUME rulesName = <<>> PROVE NoRulesApply
    BY <1>3 DEF NoRulesApply
  <1> QED BY <1>1, <1>2, <1>3

\* A rule is what the file says of it.
LEMMA RuleAgrees ==
  ASSUME RulesInv, ~MissingSection, ~NoRulesApply, NEW key
  PROVE  /\ Defined(key) <=> Has(Ruling, key)
         /\ \A default : Rule(key, default) = IF Has(Ruling, key) THEN Of(Ruling, key) ELSE default
  <1>1. /\ rulesName \in DOMAIN rules /\ SaysUpTo(inForce, Len(inForce), rules)
        /\ inForce \in Files \cup Reloads
    BY DEF MissingSection, RulesInv, NoRulesApply, GetSections
  <1>2. /\ KeysUpTo(inForce, Len(inForce)) = KeyLines(inForce)
        /\ { i \in LinesFor(inForce, rulesName, <<key>>) : i <= Len(inForce) } = LinesFor(inForce, rulesName, <<key>>)
    BY <1>1, WholeFile
  <1>3. DOMAIN rules[rulesName] =
          { Means[inForce[i]].name : i \in { j \in KeyLines(inForce) : SectionAt(inForce, j) = rulesName } }
    BY <1>1, <1>2 DEF SaysUpTo
  <1>4. <<key>> \in DOMAIN rules[rulesName] <=> LinesFor(inForce, rulesName, <<key>>) # {}
    BY <1>3 DEF LinesFor
  <1>5. <<key>> \in DOMAIN rules[rulesName] =>
          rules[rulesName][<<key>>] = Means[inForce[Max(LinesFor(inForce, rulesName, <<key>>))]].value
    BY <1>1, <1>2 DEF SaysUpTo
  <1>6. Ruling.file = inForce /\ Ruling.name = rulesName
    BY DEF Ruling
  <1> QED BY <1>4, <1>5, <1>6 DEF Defined, Rule, KeyExists, GetString, Has, Of, Says

\* A level without a separator of its own has that of the level above.
LEMMA SeparatorAgrees ==
  ASSUME RulesInv, ~MissingSection, ~NoRulesApply, NEW level \in Nat
  PROVE  Separator(level) = DueSeparator(Ruling, level)
  <1> DEFINE by == Ruling
             S == { DefaultSeparator[n] : n \in 0 .. level } \cup { Rule(SeparatorKey(n), Nameless) : n \in 0 .. level }
             inherit == Defined("separator1") \/ Defined("separator0")
             F == [x \in (1 .. level) \X S |->
                     Rule(SeparatorKey(x[1]), IF inherit THEN x[2] ELSE DefaultSeparator[x[1]])]
             a == Rule(SeparatorKey(0), DefaultSeparator[0])
             Turn(f) == [n \in 0 .. level |->
                           Rule(SeparatorKey(n), IF inherit /\ n > 0 THEN f[n - 1] ELSE DefaultSeparator[n])]
             from == CHOOSE f : f = Turn(f)
  <1>1. Separator(level) = from[level]
    BY DEF Separator
  <1>2. \A n \in 0 .. level : \A default \in S : Rule(SeparatorKey(n), default) \in S
    <2>1. ASSUME NEW n \in 0 .. level, NEW default \in S PROVE Rule(SeparatorKey(n), default) \in S
      <3>1. Rule(SeparatorKey(n), default) = default \/ Rule(SeparatorKey(n), default) = Rule(SeparatorKey(n), Nameless)
        BY DEF Rule, GetString
      <3>2. Rule(SeparatorKey(n), Nameless) \in S
        OBVIOUS
      <3> HIDE DEF S
      <3> QED BY <2>1, <3>1, <3>2
    <2> HIDE DEF S
    <2> QED BY <2>1
  <1>3. \A n \in 0 .. level : DefaultSeparator[n] \in S
    OBVIOUS
  <1>4. a \in S
    <2>1. 0 \in 0 .. level
      OBVIOUS
    <2> HIDE DEF S
    <2> QED BY <1>2, <1>3, <2>1
  <1> HIDE DEF inherit, S
  <1>5. F \in [(1 .. level) \X S -> S]
    <2>1. ASSUME NEW x \in (1 .. level) \X S
          PROVE  Rule(SeparatorKey(x[1]), IF inherit THEN x[2] ELSE DefaultSeparator[x[1]]) \in S
      <3>1. x[1] \in 0 .. level /\ x[2] \in S
        OBVIOUS
      <3> QED BY <1>2, <1>3, <3>1
    <2> QED BY <2>1
  <1>6. PICK g : Loops(g, S, level, a, F)
    <2> HIDE DEF F, a
    <2> QED BY <1>4, <1>5, LoopExists
  <1>7. /\ g \in [0 .. level -> S] /\ g[0] = a
        /\ \A k \in 1 .. level : g[k] = F[<<k, g[k - 1]>>]
    <2> HIDE DEF F, a
    <2> QED BY <1>6 DEF Loops
  <1>8. ASSUME NEW k \in 1 .. level
        PROVE  g[k] = Rule(SeparatorKey(k), IF inherit THEN g[k - 1] ELSE DefaultSeparator[k])
    <2>1. k - 1 \in 0 .. level
      OBVIOUS
    <2>2. g[k - 1] \in S /\ g[k] = F[<<k, g[k - 1]>>]
      <3> HIDE DEF F
      <3> QED BY <1>7, <2>1
    <2>3. <<k, g[k - 1]>> \in (1 .. level) \X S
      BY <2>2
    <2> QED BY <2>2, <2>3
  <1>9. g = Turn(g)
    <2>1. ASSUME NEW n \in 0 .. level
          PROVE  g[n] = Rule(SeparatorKey(n), IF inherit /\ n > 0 THEN g[n - 1] ELSE DefaultSeparator[n])
      <3>1. CASE n = 0
        BY <1>7, <3>1
      <3>2. CASE n # 0
        <4>1. n \in 1 .. level /\ n > 0
          BY <3>2
        <4> QED BY <1>8, <4>1
      <3> QED BY <3>1, <3>2
    <2> QED BY <1>7, <2>1
  <1>10. from = Turn(from)
    <2> HIDE DEF Turn
    <2> QED BY <1>9
  <1>11. \A n \in 0 .. level :
           from[n] = Rule(SeparatorKey(n), IF inherit /\ n > 0 THEN from[n - 1] ELSE DefaultSeparator[n])
    <2> HIDE DEF from
    <2> QED BY <1>10
  <1> HIDE DEF from, F, a, Turn
  <1>12. inherit <=> Has(by, "separator0") \/ Has(by, "separator1")
    BY RuleAgrees DEF inherit
  <1>13. ASSUME NEW n \in 0 .. level
         PROVE  from[n] = IF Has(by, SeparatorKey(n)) THEN Of(by, SeparatorKey(n))
                          ELSE IF inherit /\ n > 0 THEN from[n - 1] ELSE DefaultSeparator[n]
    BY <1>11, RuleAgrees
  <1> DEFINE A == { n \in 0 .. level : Inherits(by, n) \/ n \in Levels(by, n) =>
                                         from[n] = Of(by, SeparatorKey(Max(Levels(by, n)))) }
  <1>14. ASSUME NEW n \in 0 .. level, Has(by, SeparatorKey(n))
         PROVE  Max(Levels(by, n)) = n
    <2>1. n \in Levels(by, n) /\ Levels(by, n) \subseteq Nat /\ \A y \in Levels(by, n) : n >= y
      BY <1>14 DEF Levels
    <2> QED BY <2>1, MaxIs
  <1>15. SeparatorKey(0) = "separator0" /\ SeparatorKey(1) = "separator1"
    BY NamingAssumption
  <1>16. 0 \in A
    <2>1. 0 \in 0 .. level /\ ~Inherits(by, 0)
      BY DEF Inherits
    <2>2. ASSUME 0 \in Levels(by, 0) PROVE from[0] = Of(by, SeparatorKey(Max(Levels(by, 0))))
      <3>1. Has(by, SeparatorKey(0))
        BY <2>2 DEF Levels
      <3> QED BY <1>13, <1>14, <2>1, <3>1
    <2> HIDE DEF by
    <2> QED BY <2>1, <2>2
  <1>17. ASSUME NEW n \in 1 .. level, n - 1 \in A PROVE n \in A
    <2>1. n \in 0 .. level /\ n - 1 \in 0 .. level /\ n > 0 /\ n \in Nat
      OBVIOUS
    <2>2. ASSUME Inherits(by, n) \/ n \in Levels(by, n)
          PROVE  from[n] = Of(by, SeparatorKey(Max(Levels(by, n))))
      <3>1. CASE Has(by, SeparatorKey(n))
        BY <1>13, <1>14, <2>1, <3>1
      <3>2. CASE ~Has(by, SeparatorKey(n))
        <4>1. Inherits(by, n) /\ inherit
          BY <1>12, <2>2, <3>2 DEF Levels, Inherits
        <4>2. from[n] = from[n - 1]
          BY <1>13, <2>1, <3>2, <4>1
        <4>3. Levels(by, n) = Levels(by, n - 1)
          <5>1. \A y : y \in 0 .. n /\ y # n <=> y \in 0 .. n - 1
            BY <2>1
          <5> QED BY <3>2, <5>1 DEF Levels
        <4>4. Inherits(by, n - 1) \/ n - 1 \in Levels(by, n - 1)
          <5>1. CASE n - 1 > 0
            BY <4>1, <5>1 DEF Inherits
          <5>2. CASE ~ (n - 1 > 0)
            <6>1. n = 1 /\ n - 1 = 0
              BY <2>1, <5>2
            <6>2. Has(by, SeparatorKey(0))
              BY <1>12, <1>15, <3>2, <4>1, <6>1
            <6> QED BY <6>1, <6>2 DEF Levels
          <5> QED BY <5>1, <5>2
        <4>5. from[n - 1] = Of(by, SeparatorKey(Max(Levels(by, n - 1))))
          BY <1>17, <4>4
        <4> QED BY <4>2, <4>3, <4>5
      <3> QED BY <3>1, <3>2
    <2> HIDE DEF by
    <2> QED BY <2>1, <2>2
  <1>18. level \in A
    <2>1. level \in 0 .. level
      OBVIOUS
    <2> HIDE DEF A
    <2> QED BY <1>16, <1>17, <2>1, UpTo
  <1>19. CASE Inherits(by, level) \/ level \in Levels(by, level)
    BY <1>1, <1>18, <1>19 DEF DueSeparator, Inherits, Levels, from
  <1>20. CASE ~ (Inherits(by, level) \/ level \in Levels(by, level))
    <2>1. ~Has(by, SeparatorKey(level)) /\ ~ (inherit /\ level > 0)
      BY <1>12, <1>20 DEF Inherits, Levels
    <2>2. from[level] = DefaultSeparator[level]
      <3>1. level \in 0 .. level
        OBVIOUS
      <3> QED BY <1>13, <2>1, <3>1
    <2> QED BY <1>1, <1>20, <2>2 DEF DueSeparator, Inherits, Levels
  <1> QED BY <1>19, <1>20

\* The rule without anything but the name leaves the name as it is.
LEMMA FormatPlain ==
  ASSUME NEW name \in Seq(Tokens)
  PROVE  Format(<<"%s">>, name) = name
  <1> DEFINE rule == <<"%s">>
             found == { i \in 1 .. Len(rule) : rule[i] \in {"%s"} }
  <1>1. Len(rule) = 1 /\ DOMAIN rule = 1 .. 1 /\ rule[1] = "%s" /\ rule \in Seq({"%s"})
    OBVIOUS
  <1>2. "%s" \in ToSet(rule)
    BY <1>1 DEF ToSet
  <1>3. found = {1}
    <2>1. \A i : i \in 1 .. 1 <=> i = 1
      OBVIOUS
    <2> HIDE DEF rule
    <2> QED BY <1>1, <2>1
  <1>4. FirstOf(rule, {"%s"}, 1) = 1
    <2>1. Min({1}) = 1
      BY MinIs
    <2> HIDE DEF rule
    <2> QED BY <1>3, <2>1 DEF FirstOf
  <1>5. SubSeq(rule, 1, 1 - 1) = <<>> /\ SubSeq(rule, 1 + 1, Len(rule)) = <<>>
    BY <1>1
  <1>6. <<>> \o name \o <<>> = name
    OBVIOUS
  <1> HIDE DEF rule
  <1>7. Format(rule, name) = name
    BY <1>2, <1>4, <1>5, <1>6 DEF Format
  <1> QED BY <1>7 DEF rule

\* A name is shaped by the first rule that the file defines, and its case.
LEMMA BuildAgrees ==
  ASSUME RulesInv, ~MissingSection, ~NoRulesApply,
         NEW kind \in DOMAIN Chain, NEW name \in Seq(Tokens)
  PROVE  BuildName(kind, name) = DueWords(Ruling, kind, name)
  <1> DEFINE by == Ruling
             defined == { i \in DOMAIN Chain[kind] : Defined(Chain[kind][i]) }
             rule == IF defined = {} THEN <<"%s">> ELSE Rule(Chain[kind][Min(defined)], <<>>)
             case == IF Rule("toLower", <<"0">>) = <<"1">> THEN Lower
                     ELSE IF Rule("toUpper", <<"0">>) = <<"1">> THEN Upper ELSE <<>>
             text == Format(rule, ApplyCase(case, name))
             dueDefined == { i \in DOMAIN Chain[kind] : Has(by, Chain[kind][i]) }
             lower == Has(by, "toLower") /\ Of(by, "toLower") = <<"1">>
             upper == Has(by, "toUpper") /\ Of(by, "toUpper") = <<"1">>
             dueCase == IF lower THEN Lower ELSE IF upper THEN Upper ELSE <<>>
             shaped == ApplyCase(dueCase, name)
             dueText == IF dueDefined = {} THEN shaped
                        ELSE Format(Of(by, Chain[kind][Min(dueDefined)]), shaped)
  <1>1. BuildName(kind, name) = [i \in DOMAIN text |-> IF text[i] = " " THEN "0" ELSE text[i]]
    BY DEF BuildName
  <1>2. DueWords(by, kind, name) = [i \in DOMAIN dueText |-> IF dueText[i] = " " THEN "0" ELSE dueText[i]]
    BY DEF DueWords
  <1>3. \A key : Defined(key) <=> Has(by, key)
    BY RuleAgrees
  <1>4. \A key, default : Rule(key, default) = IF Has(by, key) THEN Of(by, key) ELSE default
    BY RuleAgrees
  <1> HIDE DEF by
  <1>5. defined = dueDefined
    BY <1>3
  <1>6. case = dueCase
    <2>1. <<"0">> # <<"1">>
      OBVIOUS
    <2> QED BY <1>4, <2>1
  <1>7. shaped \in Seq(Tokens)
    <2>1. \A w \in DOMAIN dueCase : dueCase[w] \in Tokens
      <3>1. (\A w \in DOMAIN Lower : Lower[w] \in Tokens) /\ \A w \in DOMAIN Upper : Upper[w] \in Tokens
        BY NamingAssumption
      <3>2. dueCase = Lower \/ dueCase = Upper \/ dueCase = <<>>
        OBVIOUS
      <3> HIDE DEF dueCase
      <3> QED BY <3>1, <3>2
    <2> HIDE DEF dueCase
    <2> QED BY <2>1, CaseTyped
  <1>8. text = dueText
    <2>1. CASE dueDefined = {}
      <3>1. text = Format(<<"%s">>, shaped) /\ dueText = shaped
        <4> HIDE DEF case, dueCase, defined, dueDefined
        <4> QED BY <1>5, <1>6, <2>1
      <3> HIDE DEF text, dueText, shaped
      <3> QED BY <1>7, <3>1, FormatPlain
    <2>2. CASE dueDefined # {}
      <3>1. Min(dueDefined) \in dueDefined
        <4>1. dueDefined \subseteq Nat
          BY ChainFacts
        <4> HIDE DEF dueDefined
        <4> QED BY <2>2, <4>1, MinFacts
      <3>2. Has(by, Chain[kind][Min(dueDefined)])
        BY <3>1
      <3>3. rule = Of(by, Chain[kind][Min(dueDefined)])
        <4> HIDE DEF defined, dueDefined
        <4> QED BY <1>4, <1>5, <2>2, <3>2
      <3> HIDE DEF case, dueCase, defined, dueDefined, rule
      <3> QED BY <1>6, <2>2, <3>3
    <2> QED BY <2>1, <2>2
  <1> HIDE DEF text, dueText
  <1> QED BY <1>1, <1>2, <1>8 DEF by

\* The part a component adds is the one that is due.
LEMMA PartAgrees ==
  ASSUME RulesInv, ~MissingSection, NEW c \in Components
  PROVE  Part(c) = DuePart(Ruling, c)
  <1> DEFINE by == Ruling
             plain == by.file = <<>> \/ by.name = <<>>
             level == Level(c)
             kind == IF level = 0 THEN "root" ELSE Kind[c]
             words == IF plain THEN by.words[c] ELSE DueWords(by, kind, by.words[c])
             apart == IF plain THEN DefaultSeparator[level] ELSE DueSeparator(by, level)
  <1>1. by.file = inForce /\ by.name = rulesName /\ by.words = external
    BY DEF Ruling
  <1>2. plain <=> NoRulesApply
    BY <1>1, PlainAgrees
  <1>3. external[c] \in Seq(Tokens)
    BY DEF RulesInv
  <1>4. level \in Nat /\ (level = 0 <=> Parent[c] = NoParent)
    BY LevelTyped
  <1>5. kind \in DOMAIN Chain
    <2>1. "root" \in DOMAIN Chain
      BY DEF Chain
    <2>2. Kind[c] \in DOMAIN Chain
      BY NamingAssumption
    <2> QED BY <2>1, <2>2
  <1>6. BuildName(kind, external[c]) = words
    <2>1. CASE NoRulesApply
      BY <1>1, <1>2, <2>1 DEF BuildName
    <2>2. CASE ~NoRulesApply
      <3> HIDE DEF kind
      <3>1. BuildName(kind, external[c]) = DueWords(by, kind, external[c])
        BY <1>3, <1>5, <2>2, BuildAgrees
      <3> QED BY <1>1, <1>2, <2>2, <3>1
    <2> QED BY <2>1, <2>2
  <1>7. Separator(level) = apart
    <2>1. CASE NoRulesApply
      BY <1>2, <2>1 DEF Separator
    <2>2. CASE ~NoRulesApply
      <3> HIDE DEF level
      <3>1. Separator(level) = DueSeparator(by, level)
        BY <1>4, <2>2, SeparatorAgrees
      <3> QED BY <1>2, <2>2, <3>1
    <2> QED BY <2>1, <2>2
  <1>8. DuePart(by, c) = IF level > 0 /\ words = <<>> THEN <<>> ELSE apart \o words
    BY DEF DuePart
  <1> HIDE DEF words, apart, by, plain
  <1>9. CASE Parent[c] = NoParent
    <2>1. Part(c) = RootPart(c)
      BY <1>9 DEF Part
    <2>2. RootPart(c) = Separator(0) \o BuildName("root", external[c])
      BY DEF RootPart
    <2>3. level = 0 /\ kind = "root" /\ ~ (level > 0)
      BY <1>4, <1>9
    <2> HIDE DEF level, kind
    <2> QED BY <1>6, <1>7, <1>8, <2>1, <2>2, <2>3 DEF by
  <1>10. CASE Parent[c] # NoParent
    <2>1. Part(c) = NodePart(c)
      <3>1. Part(c) \in {NodePart(c), PVPartIn(c), PVPartOut(c)}
        BY <1>10 DEF Part
      <3> QED BY <3>1 DEF PVPartIn, PVPartOut
    <2>2. NodePart(c) = IF BuildName(Kind[c], external[c]) = <<>> THEN <<>>
                        ELSE Separator(Level(c)) \o BuildName(Kind[c], external[c])
      BY DEF NodePart
    <2>3. level > 0 /\ kind = Kind[c]
      BY <1>4, <1>10
    <2> QED BY <1>6, <1>7, <1>8, <2>1, <2>2, <2>3 DEF by
  <1> QED BY <1>9, <1>10

\* Names come out as they are due.
LEMMA NameAgrees ==
  ASSUME RulesInv, ~MissingSection, NEW path \in Seq(Components)
  PROVE  Joined(path) = Due(Ruling, path)
  <1>1. Ruling \in Rulings
    BY RulingTyped
  <1>2. PICK W \in [Components -> Seq(Tokens)] :
          W = DueParts(Ruling) /\ \E g : Joins(path, W, g) /\ Due(Ruling, path) = g[Len(path)]
    BY <1>1, DueIs
  <1>3. PICK g : Joins(path, W, g) /\ Due(Ruling, path) = g[Len(path)]
    BY <1>2
  <1>4. \A c \in Components : Part(c) = W[c]
    BY <1>2, PartAgrees DEF DueParts
  <1>5. Joined(path) = g[Len(path)]
    BY <1>3, <1>4, JoinedIs
  <1> QED BY <1>3, <1>5

\* Each step leaves the rules in force as a whole.
LEMMA RulesStep ==
  ASSUME NoRules \notin Maps, ParserInv, RulesInv, [Next]_vars
  PROVE  RulesInv'
  <1>1. ASSUME UNCHANGED <<rules, rulesName, inForce, external>> PROVE RulesInv'
    BY <1>1 DEF RulesInv
  <1>2. ASSUME NEW lines, LoadNamingRules(lines) PROVE RulesInv'
    BY <1>1, <1>2 DEF LoadNamingRules, nameVars
  <1>3. ASSUME FinishLoad PROVE RulesInv'
    <2>1. /\ Parsed /\ rules' = sections /\ inForce' = loading /\ external' = external
          /\ rulesName' = IF Cardinality(GetSections(sections)) = 1
                            THEN CHOOSE s \in GetSections(sections) : TRUE ELSE <<>>
      BY <1>3 DEF FinishLoad, nameVars
    <2>2. loading \in Files \cup Reloads /\ sections \in Maps /\ SaysUpTo(loading, Len(loading), sections)
      BY <2>1, ParsedFacts
    <2>3. rulesName' \in Seq(Tokens)
      <3>1. DOMAIN sections \subseteq Seq(Tokens)
        <4>1. \A V : \A map \in MapsTo(V) : DOMAIN map \subseteq Seq(Tokens)
          BY DEF MapsTo
        <4> QED BY <2>2, <4>1 DEF Maps
      <3>2. CASE Cardinality(DOMAIN sections) = 1
        <4>1. DOMAIN sections # {}
          BY <3>2, FS_EmptySet
        <4>2. (CHOOSE s \in DOMAIN sections : TRUE) \in DOMAIN sections
          BY <4>1
        <4> QED BY <2>1, <3>1, <3>2, <4>2 DEF GetSections
      <3>3. CASE Cardinality(DOMAIN sections) # 1
        BY <2>1, <3>3 DEF GetSections
      <3> QED BY <3>2, <3>3
    <2>4. sections # NoRules
      BY <2>2
    <2> QED BY <2>1, <2>2, <2>3, <2>4 DEF RulesInv
  <1>4. ASSUME NEW n \in RuleNames, SetNamingRules(n) PROVE RulesInv'
    <2>1. n \in Seq(Tokens)
      BY NamingAssumption
    <2> QED BY <1>4, <2>1 DEF SetNamingRules, RulesInv, nameVars
  <1>5. ASSUME NEW r \in Renames, SetExternalName(r[1], r[2]) PROVE RulesInv'
    <2>1. r[1] \in Components /\ r[2] \in Seq(Tokens)
      BY NamingAssumption
    <2>2. external' \in [Components -> Seq(Tokens)] /\ UNCHANGED <<rules, rulesName, inForce>>
      BY <1>5, <2>1 DEF SetExternalName, RulesInv, ruleVars
    <2> QED BY <2>2 DEF RulesInv
  <1>6. ASSUME UNCHANGED <<ruleVars, nameVars>> PROVE RulesInv'
    BY <1>1, <1>6 DEF ruleVars, nameVars
  <1>7. ASSUME UNCHANGED <<ruleVars, external>> PROVE RulesInv'
    BY <1>1, <1>7 DEF ruleVars
  <1>8. ASSUME UNCHANGED vars PROVE RulesInv'
    BY <1>6, <1>8 DEF vars
  <1> QED BY <1>2, <1>3, <1>4, <1>5, <1>6, <1>7, <1>8
          DEF Next, Idle, FailLoad, Initialize, InitializeThrows

\* A component with a name has the names it is due, and so has all that is above it.
NamesInv ==
  /\ DOMAIN full = Components /\ DOMAIN fromPort = Components /\ DOMAIN ruledBy = Components
  /\ \A c \in Components : full[c] # Nameless =>
       /\ ruledBy[c] \in Rulings
       /\ full[c] = Due(ruledBy[c], Path[c]) /\ fromPort[c] = Due(ruledBy[c], Inside(c))
       /\ \A k \in 1 .. Len(Path[c]) : full[Path[c][k]] # Nameless

\* What is inside of the nearest port is a path.
LEMMA InsideTyped == \A c \in Components : Inside(c) \in Seq(Components)
  <1> SUFFICES ASSUME NEW c \in Components PROVE Inside(c) \in Seq(Components)
    OBVIOUS
  <1>1. CASE Outside(c) = {}
    BY <1>1, PathFacts DEF Inside, Regular
  <1>2. CASE Outside(c) # {}
    BY <1>2, PortPath DEF Splits
  <1> QED BY <1>1, <1>2

\* initialize computes the names from the rules that are in force.
LEMMA InitializeStep ==
  ASSUME RulesInv, NamesInv, NEW c \in Components, Initialize(c)
  PROVE  NamesInv'
  <1>1. /\ ~MissingSection /\ full[c] = Nameless
        /\ full' = [full EXCEPT ![c] = FullExternalName(c)]
        /\ fromPort' = [fromPort EXCEPT ![c] = FromPort(c)]
        /\ ruledBy' = [ruledBy EXCEPT ![c] = Ruling]
    BY DEF Initialize, Ruling
  <1>2. PICK i \in DOMAIN Order : c = Order[i] /\ \A j \in 1 .. i - 1 : full[Order[j]] # Nameless
    BY DEF Initialize
  <1>3. /\ DOMAIN full' = Components /\ DOMAIN fromPort' = Components /\ DOMAIN ruledBy' = Components
        /\ full'[c] = FullExternalName(c) /\ fromPort'[c] = FromPort(c) /\ ruledBy'[c] = Ruling
        /\ \A d \in Components \ {c} :
             full'[d] = full[d] /\ fromPort'[d] = fromPort[d] /\ ruledBy'[d] = ruledBy[d]
    BY <1>1 DEF NamesInv
  <1>4. \A d \in Components : full[d] # Nameless => full'[d] # Nameless
    BY <1>1, <1>3
  <1>5. Path[c] \in Seq(Components)
    BY PathFacts DEF Regular
  <1>6. /\ Ruling \in Rulings
        /\ full'[c] = Due(Ruling, Path[c]) /\ fromPort'[c] = Due(Ruling, Inside(c))
    <2>1. FullExternalName(c) = Due(Ruling, Path[c])
      BY <1>1, <1>5, NameAgrees DEF FullExternalName
    <2>2. FromPort(c) = Joined(Inside(c))
      BY DEF FromPort, Inside, Outside
    <2>3. Joined(Inside(c)) = Due(Ruling, Inside(c))
      BY <1>1, InsideTyped, NameAgrees
    <2> QED BY <1>3, <2>1, <2>2, <2>3, RulingTyped
  <1>7. ASSUME full'[c] # Nameless, NEW k \in 1 .. Len(Path[c]) PROVE full'[Path[c][k]] # Nameless
    <2>1. CASE k = 1
      BY <1>7, <2>1, PathFacts DEF Regular
    <2>2. CASE k # 1
      <3> DEFINE up == Path[Parent[c]]
      <3>1. Parent[c] # NoParent
        <4>1. Len(Path[c]) = 1 <=> Parent[c] = NoParent
          BY PathFacts DEF Regular
        <4>2. Len(Path[c]) # 1
          <5>1. Len(Path[c]) \in Int /\ k \in Int /\ 1 <= k /\ k <= Len(Path[c]) /\ k # 1
            BY <1>5, <1>7, <2>2
          <5> QED BY <5>1
        <4> QED BY <4>1, <4>2
      <3>2. Parent[c] \in Components
        BY <3>1, RankFacts
      <3>3. Path[c] = <<c>> \o up /\ up \in Seq(Components)
        BY <3>1, <3>2, PathIs, PathFacts DEF Regular
      <3>4. k - 1 \in 1 .. Len(up) /\ Path[c][k] = up[k - 1]
        <4> HIDE DEF up
        <4>1. <<c>> \in Seq(Components) /\ Len(<<c>>) = 1
          OBVIOUS
        <4>2. Len(<<c>> \o up) = 1 + Len(up) /\ Len(up) \in Nat
          BY <3>3, <4>1
        <4>3. k \in Nat /\ k > 1 /\ k <= 1 + Len(up)
          BY <2>2, <3>3, <4>2
        <4>4. (<<c>> \o up)[k] = up[k - 1]
          BY <3>3, <4>1, <4>2, <4>3
        <4> QED BY <3>3, <4>2, <4>3, <4>4
      <3>5. full[Parent[c]] # Nameless
        <4>1. \E j \in 1 .. i - 1 : Order[j] = Parent[c]
          BY <1>2, <3>1, NamingAssumption
        <4> QED BY <1>2, <4>1
      <3>6. full[up[k - 1]] # Nameless
        BY <3>2, <3>4, <3>5 DEF NamesInv
      <3>7. up[k - 1] \in Components
        BY <3>3, <3>4
      <3> QED BY <1>4, <3>4, <3>6, <3>7
    <2> QED BY <2>1, <2>2
  <1>8. ASSUME NEW d \in Components, full'[d] # Nameless
        PROVE  /\ ruledBy'[d] \in Rulings
               /\ full'[d] = Due(ruledBy'[d], Path[d]) /\ fromPort'[d] = Due(ruledBy'[d], Inside(d))
               /\ \A k \in 1 .. Len(Path[d]) : full'[Path[d][k]] # Nameless
    <2>1. CASE d = c
      BY <1>3, <1>6, <1>7, <1>8, <2>1
    <2>2. CASE d # c
      <3>1. full'[d] = full[d] /\ fromPort'[d] = fromPort[d] /\ ruledBy'[d] = ruledBy[d] /\ full[d] # Nameless
        BY <1>3, <1>8, <2>2
      <3>2. /\ ruledBy[d] \in Rulings
            /\ full[d] = Due(ruledBy[d], Path[d]) /\ fromPort[d] = Due(ruledBy[d], Inside(d))
            /\ \A k \in 1 .. Len(Path[d]) : full[Path[d][k]] # Nameless
        BY <3>1 DEF NamesInv
      <3>3. Path[d] \in Seq(Components)
        BY PathFacts DEF Regular
      <3>4. \A k \in 1 .. Len(Path[d]) : Path[d][k] \in Components
        BY <3>3
      <3>5. \A k \in 1 .. Len(Path[d]) : full'[Path[d][k]] # Nameless
        BY <1>4, <3>2, <3>4
      <3> QED BY <3>1, <3>2, <3>5
    <2> QED BY <2>1, <2>2
  <1> QED BY <1>3, <1>8 DEF NamesInv

\* Every step of Next keeps the names.
LEMMA NamesStep ==
  ASSUME RulesInv, NamesInv, [Next]_vars
  PROVE  NamesInv'
  <1>1. ASSUME UNCHANGED <<full, fromPort, ruledBy>> PROVE NamesInv'
    BY <1>1 DEF NamesInv
  <1>2. ASSUME UNCHANGED nameVars PROVE NamesInv'
    BY <1>1, <1>2 DEF nameVars
  <1>3. ASSUME NEW c \in Components, Initialize(c) PROVE NamesInv'
    BY <1>3, InitializeStep
  <1>4. ASSUME UNCHANGED vars PROVE NamesInv'
    BY <1>2, <1>4 DEF vars
  <1> QED BY <1>1, <1>2, <1>3, <1>4
          DEF Next, Idle, LoadNamingRules, FinishLoad, FailLoad, SetNamingRules, SetExternalName, InitializeThrows

NamingInv == ParserInv /\ RulesInv /\ NamesInv

\* The three parts are inductive together.
LEMMA NamingInvariant ==
  ASSUME LinesAsMeant, NoRules \notin Maps
  PROVE  Spec => []NamingInv
  <1>1. Init => NamingInv
    <2> SUFFICES ASSUME Init PROVE NamingInv
      OBVIOUS
    <2>1. ParserInv
      BY DEF Init, ParserInit, ParserInv
    <2>2. RulesInv
      <3>1. rules = NoRules /\ inForce = <<>> /\ rulesName = <<>> /\ external = OwnName
        BY DEF Init
      <3>2. OwnName \in [Components -> Seq(Tokens)]
        BY NamingAssumption
      <3>3. <<>> \in Seq(Tokens)
        OBVIOUS
      <3> QED BY <3>1, <3>2, <3>3 DEF RulesInv
    <2>3. NamesInv
      BY DEF Init, NamesInv
    <2> QED BY <2>1, <2>2, <2>3 DEF NamingInv
  <1>2. NamingInv /\ [Next]_vars => NamingInv'
    BY ParserStep, RulesStep, NamesStep DEF NamingInv
  <1> QED BY <1>1, <1>2, PTL DEF Spec

\* Whatever is loaded, chosen and renamed between the initializations, a component
\* has the name that the file in force then, and the section chosen, give it:
\* buildNameFromRule, getSeparator and the loop over the parents come to what the
\* documentation says of the rules.
THEOREM NamesAsRuled ==
  ASSUME LinesAsMeant, NoRules \notin Maps
  PROVE  Spec => []NamesFollowRules
  <1>1. ASSUME NamingInv PROVE NamesFollowRules
    <2> SUFFICES ASSUME NEW c \in Components, full[c] # Nameless
                 PROVE  full[c] = FlattenSeq([i \in 1 .. Len(Path[c]) |->
                                               DuePart(ruledBy[c], Path[c][Len(Path[c]) + 1 - i])])
      BY DEF NamesFollowRules
    <2>1. ruledBy[c] \in Rulings /\ full[c] = Due(ruledBy[c], Path[c])
      BY <1>1 DEF NamingInv, NamesInv
    <2>2. Path[c] \in Seq(Components) /\ Len(Path[c]) >= 1
      <3>1. Path[c] \in Seq(Components) /\ Len(Path[c]) \in 1 .. Rank(c)
        BY PathFacts DEF Regular
      <3> QED BY <3>1
    <2> QED BY <2>1, <2>2, DueFlattens
  <1> QED BY <1>1, NamingInvariant, PTL

\* At any depth the name of the nearest port and that from the port make up the
\* full name, if one set of rules was in force for both; the names inside of NDS
\* do so as long as no component was constructed without a name.
THEOREM PortsSplitNames ==
  ASSUME LinesAsMeant, NoRules \notin Maps, \A c \in Components : OwnName[c] # <<>>
  PROVE  Spec => []PortSplitsName
  <1>1. ASSUME NamingInv PROVE PortSplitsName
    <2> SUFFICES ASSUME NEW c \in Components, Outside(c) # {}
                 PROVE  LET port == Path[c][Min(Outside(c))] IN
                        /\ full[c] # Nameless /\ ruledBy[port] = ruledBy[c] => full[c] = full[port] \o fromPort[c]
                        /\ c # port => FullName(c) = FullName(port) \o <<"-">> \o FullNameFromPort(c)
      BY DEF PortSplitsName, Outside
    <2> DEFINE port == Path[c][Min(Outside(c))]
    <2>1. ASSUME full[c] # Nameless, ruledBy[port] = ruledBy[c]
          PROVE  full[c] = full[port] \o fromPort[c]
      <3>1. Min(Outside(c)) \in 1 .. Len(Path[c])
        <4>1. Path[c] \in Seq(Components)
          BY PathFacts DEF Regular
        <4>2. Outside(c) \subseteq 1 .. Len(Path[c]) /\ Outside(c) \subseteq Nat
          BY <4>1 DEF Outside
        <4> QED BY <4>2, MinFacts
      <3>2. port \in Components
        BY PortPath
      <3>3. /\ ruledBy[c] \in Rulings /\ full[c] = Due(ruledBy[c], Path[c])
            /\ fromPort[c] = Due(ruledBy[c], Inside(c)) /\ full[port] # Nameless
        BY <1>1, <2>1, <3>1 DEF NamingInv, NamesInv
      <3>4. full[port] = Due(ruledBy[c], Path[port])
        BY <1>1, <2>1, <3>2, <3>3 DEF NamingInv, NamesInv
      <3> QED BY <3>3, <3>4, DueAtPort
    <2>2. c # port => FullName(c) = FullName(port) \o <<"-">> \o FullNameFromPort(c)
      BY FullNameSplits
    <2> QED BY <2>1, <2>2
  <1> QED BY <1>1, NamingInvariant, PTL

-----------------------------------------------------------------------------
(* The devices                                                              *)

\* Only devices are constructed and published; a node may be without one.
Named == \A t \in Threads : pc[t] \in {"construct", "publish", "fail"} => pointer[t] # Null

\* A creation and a destruction are never under way at once.
Apart == \A s, t \in Threads : pc[s] \in Creating => pc[t] \notin Destroying

\* preDelete comes when nothing else is going on, and nothing comes after it.
Closing == \A t \in Threads : /\ pc[t] = "close" => closed
                              /\ closed => pc[t] \in {"idle", "close"}

\* A device that is being created is its creator's alone, and one whose pointer
\* is null has been created already.
OwnDevice ==
  /\ \A t \in Threads : pc[t] \in Creating /\ pointer[t] # Null => allocated[pointer[t]] = "building"
  /\ \A s, t \in Threads :
       pc[s] \in Creating /\ pc[t] \in Creating /\ pointer[s] = pointer[t] => s = t \/ pointer[t] = Null
  /\ ~closed => \A d \in Devices : allocated[d] = "building" =>
       \E t \in Threads : pc[t] \in Creating /\ pointer[t] = d

\* A call works on the device it was asked for.
RightPointer == \A t \in Threads : pc[t] # "idle" => pointer[t] = asked[t]

\* The object is there while its nodes are being initialized ...
HasObject ==
  \A t \in Threads :
    pc[t] \in {"init", "hold", "publish"} /\ pointer[t] # Null => pointer[t] \in object

\* ... and nodes that are live are held, or about to be, ...
LiveIsHeld ==
  \A p \in Pointers : node[p] = "live" =>
    p \in held \/ \E t \in Threads : pc[t] = "hold" /\ pointer[t] = p

\* ... but not before a device has any, nor after its destruction has
\* deinitialized them, unless a driver left them behind.
NoneTooEarly ==
  /\ \A d \in Devices : allocated[d] = "absent" /\ node[d] = "live" => d \in orphans
  /\ \A t \in Threads :
       pc[t] \in {"construct", "init", "fail"} /\ pointer[t] # Null /\ node[pointer[t]] = "live"
         => pointer[t] \in orphans

NoneTooLate == \A t \in Threads : pc[t] \in {"deallocate", "release"} => node[pointer[t]] # "live"

IInv ==
  /\ TypeOK /\ Named /\ Apart /\ Closing /\ OwnDevice /\ RightPointer /\ HasObject
  /\ LiveIsHeld /\ NoneTooEarly /\ NoneTooLate /\ NodesDieFirst

\* What holds of the maps while calls are under way, up to preDelete.
ReadyIsWhole ==
  \A d \in Devices : allocated[d] = "ready" => d \in object /\ d \in held
ObjectIsOurs ==
  \A d \in object : allocated[d] = "ready" \/
    \E t \in Threads : pc[t] \in {"init", "hold", "publish"} /\ pointer[t] = d
HeldIsOurs ==
  \A d \in Devices \ orphans : d \in held =>
    \/ allocated[d] = "ready"
    \/ \E t \in Threads : pc[t] \in {"publish", "release"} /\ pointer[t] = d
HeldIsLive ==
  \A d \in Devices : d \in held =>
    node[d] = "live" \/ \E t \in Threads : pc[t] \in {"deallocate", "release"} /\ pointer[t] = d
Along ==
  \A t \in Threads :
    /\ pc[t] = "publish" => pointer[t] \in held
    /\ pc[t] = "hold" => node[pointer[t]] = "live"
    /\ pc[t] = "release" /\ pointer[t] # Null => allocated[pointer[t]] # "ready"

MapsInv == ~closed => ReadyIsWhole /\ ObjectIsOurs /\ HeldIsOurs /\ HeldIsLive /\ Along

-----------------------------------------------------------------------------
USE FactoryAssumption DEF Creating, Destroying, Pointers, Goto, Factory

\* At first nothing is there and nobody is inside of a call.
LEMMA TypedInit == ASSUME DevicesInit PROVE TypeOK /\ Named
<1>1. /\ allocated \in [Devices -> {"absent", "building", "ready"}]
      /\ node \in [Pointers -> {"none", "live", "dead"}]
  BY DEF DevicesInit
<1>2. /\ pc \in [Threads -> {"idle"} \cup Creating \cup Destroying]
      /\ asked \in [Threads -> Pointers] /\ pointer \in [Threads -> Pointers]
  BY DEF DevicesInit
<1>3. \A t \in Threads : pc[t] = "idle" /\ mutex # t /\ initMutex # t
  BY DEF DevicesInit
<1>4. /\ held \subseteq Pointers /\ object \subseteq Devices /\ orphans \subseteq Devices
      /\ mutex \in Threads \cup {NoThread} /\ initMutex \in Threads \cup {NoThread}
      /\ closed \in BOOLEAN
  BY DEF DevicesInit
<1>5. QED
  BY <1>1, <1>2, <1>3, <1>4 DEF TypeOK, Named

\* Maps, mutexes and the places of the threads are well formed.
LEMMA TypedStep == ASSUME TypeOK, Named, [DevicesNext]_deviceVars PROVE TypeOK' /\ Named'
<1> DEFINE Typed == TypeOK /\ Named
<1> USE DEF TypeOK, Named, Start
<1>1. ASSUME NEW t \in Threads, NEW d \in Devices, Reserve(t, d) PROVE Typed'
  BY <1>1 DEF Reserve
<1>2. ASSUME NEW t \in Threads, Construct(t) PROVE Typed'
  BY <1>2 DEF Construct
<1>3. ASSUME NEW t \in Threads, InitializeLoose(t) PROVE Typed'
  BY <1>3 DEF InitializeLoose
<1>4. ASSUME NEW t \in Threads, InitializeNode(t) PROVE Typed'
  <2>1. ASSUME node' = [node EXCEPT ![pointer[t]] = "live"], initMutex' = t,
               pc' = [pc EXCEPT ![t] = "hold"], UNCHANGED object
        PROVE  Typed'
    BY <1>4, <2>1 DEF InitializeNode
  <2>2. ASSUME pointer[t] # Null, object' = object \ {pointer[t]},
               pc' = [pc EXCEPT ![t] = "fail"], UNCHANGED <<node, initMutex>>
        PROVE  Typed'
    BY <1>4, <2>2 DEF InitializeNode
  <2>3. QED
    BY <1>4, <2>1, <2>2 DEF InitializeNode
<1>5. ASSUME NEW t \in Threads, HoldNode(t) PROVE Typed'
  <2>1. /\ initMutex' = NoThread /\ mutex = NoThread /\ initMutex = t
        /\ UNCHANGED <<allocated, node, mutex, asked, pointer, closed>>
    BY <1>5 DEF HoldNode
  <2>2. held' \subseteq Pointers /\ object' \subseteq Devices /\ orphans' \subseteq Devices
    BY <1>5 DEF HoldNode
  <2>3. \E l \in {"idle", "publish", "fail"} :
          pc' = [pc EXCEPT ![t] = l] /\ (l = "idle" \/ pointer[t] # Null)
    BY <1>5 DEF HoldNode
  <2>4. QED
    BY <2>1, <2>2, <2>3
<1>6. ASSUME NEW t \in Threads, Publish(t) PROVE Typed'
  BY <1>6 DEF Publish
<1>7. ASSUME NEW t \in Threads, Fail(t) PROVE Typed'
  BY <1>7 DEF Fail
<1>8. ASSUME NEW t \in Threads, NEW d \in Devices, Find(t, d) PROVE Typed'
  BY <1>8 DEF Find
<1>9. ASSUME NEW t \in Threads, DestroyLoose(t) PROVE Typed'
  BY <1>9 DEF DestroyLoose
<1>10. ASSUME NEW t \in Threads, LockFactory(t) PROVE Typed'
  BY <1>10 DEF LockFactory
<1>11. ASSUME NEW t \in Threads, Deinitialize(t) PROVE Typed'
  BY <1>11 DEF Deinitialize
<1>12. ASSUME NEW t \in Threads, Deallocate(t) PROVE Typed'
  BY <1>12 DEF Deallocate, Entries
<1>13. ASSUME NEW t \in Threads, Release(t) PROVE Typed'
  BY <1>13 DEF Release
<1>14. ASSUME NEW t \in Threads, PreDelete(t) PROVE Typed'
  BY <1>14 DEF PreDelete
<1>15. ASSUME NEW t \in Threads, NEW p \in Pointers, CloseNode(t, p) PROVE Typed'
  BY <1>15 DEF CloseNode
<1>16. ASSUME NEW t \in Threads, CloseDevices(t) PROVE Typed'
  BY <1>16 DEF CloseDevices
<1>17. CASE UNCHANGED deviceVars
  BY <1>17 DEF deviceVars
<1>18. QED
  BY <1>1, <1>2, <1>3, <1>4, <1>5, <1>6, <1>7, <1>8, <1>9, <1>10, <1>11, <1>12,
     <1>13, <1>14, <1>15, <1>16, <1>17 DEF DevicesNext, Step, Shut

\* What the threads are about.
LEMMA ThreadsStep ==
  ASSUME Serialized, TypeOK, Named, Apart, Closing, OwnDevice, RightPointer, [DevicesNext]_deviceVars
  PROVE  Apart' /\ Closing' /\ OwnDevice' /\ RightPointer'
<1> DEFINE Goal == Apart' /\ Closing' /\ OwnDevice' /\ RightPointer'
<1> USE DEF TypeOK, Named, Start, Apart, Closing, OwnDevice, RightPointer
<1>1. ASSUME NEW t \in Threads, NEW d \in Devices, Reserve(t, d) PROVE Goal
  BY <1>1 DEF Reserve
<1>2. ASSUME NEW t \in Threads, Construct(t) PROVE Goal
  BY <1>2 DEF Construct
<1>3. ASSUME NEW t \in Threads, InitializeLoose(t) PROVE Goal
  BY <1>3 DEF InitializeLoose
<1>4. ASSUME NEW t \in Threads, InitializeNode(t) PROVE Goal
  <2>1. pc[t] = "init" /\ UNCHANGED <<allocated, held, mutex, asked, pointer, orphans, closed>>
    BY <1>4 DEF InitializeNode
  <2>2. CASE /\ pc' = [pc EXCEPT ![t] = "hold"] /\ node' = [node EXCEPT ![pointer[t]] = "live"]
             /\ UNCHANGED object
    BY <2>1, <2>2
  <2>3. CASE /\ pc' = [pc EXCEPT ![t] = "fail"] /\ pointer[t] # Null
             /\ object' = object \ {pointer[t]} /\ UNCHANGED node
    BY <2>1, <2>3
  <2>4. QED
    BY <1>4, <2>2, <2>3 DEF InitializeNode
<1>5. ASSUME NEW t \in Threads, HoldNode(t) PROVE Goal
  <2>1. /\ pc[t] = "hold" /\ held' = held \cup {pointer[t]}
        /\ UNCHANGED <<allocated, node, asked, pointer, closed>>
    BY <1>5 DEF HoldNode
  <2>2. CASE /\ pc' = [pc EXCEPT ![t] = "idle"] /\ pointer[t] = Null
             /\ UNCHANGED <<object, orphans>>
    BY <2>1, <2>2
  <2>3. CASE /\ pc' = [pc EXCEPT ![t] = "publish"] /\ pointer[t] # Null
             /\ UNCHANGED <<object, orphans>>
    BY <2>1, <2>3
  <2>4. CASE /\ pc' = [pc EXCEPT ![t] = "fail"] /\ pointer[t] # Null
             /\ object' = object \ {pointer[t]} /\ orphans' = orphans \cup {pointer[t]}
    BY <2>1, <2>4
  <2>5. QED
    BY <1>5, <2>2, <2>3, <2>4 DEF HoldNode
<1>6. ASSUME NEW t \in Threads, Publish(t) PROVE Goal
  BY <1>6 DEF Publish
<1>7. ASSUME NEW t \in Threads, Fail(t) PROVE Goal
  BY <1>7 DEF Fail
<1>8. ASSUME NEW t \in Threads, NEW d \in Devices, Find(t, d) PROVE Goal
  BY <1>8 DEF Find
<1>9. ASSUME NEW t \in Threads, DestroyLoose(t) PROVE Goal
  BY <1>9 DEF DestroyLoose
<1>10. ASSUME NEW t \in Threads, LockFactory(t) PROVE Goal
  BY <1>10 DEF LockFactory
<1>11. ASSUME NEW t \in Threads, Deinitialize(t) PROVE Goal
  BY <1>11 DEF Deinitialize
<1>12. ASSUME NEW t \in Threads, Deallocate(t) PROVE Goal
  BY <1>12 DEF Deallocate, Entries
<1>13. ASSUME NEW t \in Threads, Release(t) PROVE Goal
  BY <1>13 DEF Release
<1>14. ASSUME NEW t \in Threads, PreDelete(t) PROVE Goal
  BY <1>14 DEF PreDelete
<1>15. ASSUME NEW t \in Threads, NEW p \in Pointers, CloseNode(t, p) PROVE Goal
  BY <1>15 DEF CloseNode
<1>16. ASSUME NEW t \in Threads, CloseDevices(t) PROVE Goal
  BY <1>16 DEF CloseDevices
<1>17. CASE UNCHANGED deviceVars
  BY <1>17 DEF deviceVars
<1>18. QED
  BY <1>1, <1>2, <1>3, <1>4, <1>5, <1>6, <1>7, <1>8, <1>9, <1>10, <1>11, <1>12, <1>13, <1>14, <1>15, <1>16, <1>17 DEF DevicesNext, Step, Shut

\* What the objects and nodes of devices go through.
LEMMA NodesStep ==
  ASSUME Serialized, IInv, [DevicesNext]_deviceVars
  PROVE  HasObject' /\ LiveIsHeld' /\ NoneTooEarly' /\ NoneTooLate' /\ NodesDieFirst'
<1> DEFINE Goal == HasObject' /\ LiveIsHeld' /\ NoneTooEarly' /\ NoneTooLate' /\ NodesDieFirst'
<1> USE DEF IInv, TypeOK, Named, Start, Apart, Closing, OwnDevice, RightPointer,
            HasObject, LiveIsHeld, NoneTooEarly, NoneTooLate, NodesDieFirst
<1>1. ASSUME NEW t \in Threads, NEW d \in Devices, Reserve(t, d) PROVE Goal
  BY <1>1 DEF Reserve
<1>2. ASSUME NEW t \in Threads, Construct(t) PROVE Goal
  BY <1>2 DEF Construct
<1>3. ASSUME NEW t \in Threads, InitializeLoose(t) PROVE Goal
  BY <1>3 DEF InitializeLoose
<1>4. ASSUME NEW t \in Threads, InitializeNode(t) PROVE Goal
  <2>1. pc[t] = "init" /\ UNCHANGED <<allocated, held, mutex, asked, pointer, orphans, closed>>
    BY <1>4 DEF InitializeNode
  <2>2. CASE /\ pc' = [pc EXCEPT ![t] = "hold"] /\ node' = [node EXCEPT ![pointer[t]] = "live"]
             /\ UNCHANGED object
    BY <2>1, <2>2
  <2>3. CASE /\ pc' = [pc EXCEPT ![t] = "fail"] /\ pointer[t] # Null
             /\ object' = object \ {pointer[t]} /\ UNCHANGED node
    BY <2>1, <2>3
  <2>4. QED
    BY <1>4, <2>2, <2>3 DEF InitializeNode
<1>5. ASSUME NEW t \in Threads, HoldNode(t) PROVE Goal
  <2>1. /\ pc[t] = "hold" /\ held' = held \cup {pointer[t]}
        /\ UNCHANGED <<allocated, node, asked, pointer, closed>>
    BY <1>5 DEF HoldNode
  <2>2. CASE /\ pc' = [pc EXCEPT ![t] = "idle"] /\ pointer[t] = Null
             /\ UNCHANGED <<object, orphans>>
    BY <2>1, <2>2
  <2>3. CASE /\ pc' = [pc EXCEPT ![t] = "publish"] /\ pointer[t] # Null
             /\ UNCHANGED <<object, orphans>>
    BY <2>1, <2>3
  <2>4. CASE /\ pc' = [pc EXCEPT ![t] = "fail"] /\ pointer[t] # Null
             /\ object' = object \ {pointer[t]} /\ orphans' = orphans \cup {pointer[t]}
    BY <2>1, <2>4
  <2>5. QED
    BY <1>5, <2>2, <2>3, <2>4 DEF HoldNode
<1>6. ASSUME NEW t \in Threads, Publish(t) PROVE Goal
  BY <1>6 DEF Publish
<1>7. ASSUME NEW t \in Threads, Fail(t) PROVE Goal
  BY <1>7 DEF Fail
<1>8. ASSUME NEW t \in Threads, NEW d \in Devices, Find(t, d) PROVE Goal
  BY <1>8 DEF Find
<1>9. ASSUME NEW t \in Threads, DestroyLoose(t) PROVE Goal
  BY <1>9 DEF DestroyLoose
<1>10. ASSUME NEW t \in Threads, LockFactory(t) PROVE Goal
  BY <1>10 DEF LockFactory
<1>11. ASSUME NEW t \in Threads, Deinitialize(t) PROVE Goal
  BY <1>11 DEF Deinitialize
<1>12. ASSUME NEW t \in Threads, Deallocate(t) PROVE Goal
  BY <1>12 DEF Deallocate, Entries
<1>13. ASSUME NEW t \in Threads, Release(t) PROVE Goal
  BY <1>13 DEF Release
<1>14. ASSUME NEW t \in Threads, PreDelete(t) PROVE Goal
  BY <1>14 DEF PreDelete
<1>15. ASSUME NEW t \in Threads, NEW p \in Pointers, CloseNode(t, p) PROVE Goal
  BY <1>15 DEF CloseNode
<1>16. ASSUME NEW t \in Threads, CloseDevices(t) PROVE Goal
  BY <1>16 DEF CloseDevices
<1>17. CASE UNCHANGED deviceVars
  BY <1>17 DEF deviceVars
<1>18. QED
  BY <1>1, <1>2, <1>3, <1>4, <1>5, <1>6, <1>7, <1>8, <1>9, <1>10, <1>11, <1>12,
     <1>13, <1>14, <1>15, <1>16, <1>17 DEF DevicesNext, Step, Shut

\* IInv is inductive as long as the two kinds of calls stay apart.
LEMMA Inductive == ASSUME Serialized PROVE DevicesSpec => []IInv
<1>1. ASSUME DevicesInit PROVE IInv
  <2>1. \A t \in Threads : pc[t] = "idle" /\ closed = FALSE
    BY <1>1 DEF DevicesInit
  <2>2. /\ \A d \in Devices : allocated[d] = "absent"
        /\ \A p \in Pointers : node[p] = "none"
    BY <1>1 DEF DevicesInit
  <2>3. Apart /\ Closing /\ OwnDevice /\ RightPointer /\ HasObject
    BY <2>1, <2>2 DEF Apart, Closing, OwnDevice, RightPointer, HasObject
  <2>4. LiveIsHeld /\ NoneTooEarly /\ NoneTooLate /\ NodesDieFirst
    BY <2>1, <2>2 DEF LiveIsHeld, NoneTooEarly, NoneTooLate, NodesDieFirst
  <2>5. QED
    BY <1>1, TypedInit, <2>3, <2>4 DEF IInv
<1>2. IInv /\ [DevicesNext]_deviceVars => IInv'
  BY TypedStep, ThreadsStep, NodesStep DEF IInv
<1>3. QED
  BY <1>1, <1>2, PTL DEF DevicesSpec

\* What the maps tell while calls are under way.
LEMMA MapsStep ==
  ASSUME Serialized, IInv, MapsInv, [DevicesNext]_deviceVars
  PROVE  MapsInv'
<1> USE DEF IInv, TypeOK, Named, Start, Apart, Closing, OwnDevice, RightPointer, HasObject, LiveIsHeld,
            NoneTooEarly, NoneTooLate,
            MapsInv, ReadyIsWhole, ObjectIsOurs, HeldIsOurs, HeldIsLive, Along
<1>1. ASSUME NEW t \in Threads, NEW d \in Devices, Reserve(t, d) PROVE MapsInv'
  BY <1>1 DEF Reserve
<1>2. ASSUME NEW t \in Threads, Construct(t) PROVE MapsInv'
  BY <1>2 DEF Construct
<1>3. ASSUME NEW t \in Threads, InitializeLoose(t) PROVE MapsInv'
  BY <1>3 DEF InitializeLoose
<1>4. ASSUME NEW t \in Threads, InitializeNode(t) PROVE MapsInv'
  <2>1. pc[t] = "init" /\ UNCHANGED <<allocated, held, mutex, asked, pointer, orphans, closed>>
    BY <1>4 DEF InitializeNode
  <2>2. CASE /\ pc' = [pc EXCEPT ![t] = "hold"] /\ node' = [node EXCEPT ![pointer[t]] = "live"]
             /\ UNCHANGED object
    BY <2>1, <2>2
  <2>3. CASE /\ pc' = [pc EXCEPT ![t] = "fail"] /\ pointer[t] # Null
             /\ object' = object \ {pointer[t]} /\ UNCHANGED node
    BY <2>1, <2>3
  <2>4. QED
    BY <1>4, <2>2, <2>3 DEF InitializeNode
<1>5. ASSUME NEW t \in Threads, HoldNode(t) PROVE MapsInv'
  <2>1. /\ pc[t] = "hold" /\ held' = held \cup {pointer[t]}
        /\ UNCHANGED <<allocated, node, asked, pointer, closed>>
    BY <1>5 DEF HoldNode
  <2>2. CASE /\ pc' = [pc EXCEPT ![t] = "idle"] /\ pointer[t] = Null
             /\ UNCHANGED <<object, orphans>>
    BY <2>1, <2>2
  <2>3. CASE /\ pc' = [pc EXCEPT ![t] = "publish"] /\ pointer[t] # Null
             /\ UNCHANGED <<object, orphans>>
    BY <2>1, <2>3
  <2>4. CASE /\ pc' = [pc EXCEPT ![t] = "fail"] /\ pointer[t] # Null
             /\ object' = object \ {pointer[t]} /\ orphans' = orphans \cup {pointer[t]}
    BY <2>1, <2>4
  <2>5. QED
    BY <1>5, <2>2, <2>3, <2>4 DEF HoldNode
<1>6. ASSUME NEW t \in Threads, Publish(t) PROVE MapsInv'
  BY <1>6 DEF Publish
<1>7. ASSUME NEW t \in Threads, Fail(t) PROVE MapsInv'
  BY <1>7 DEF Fail
<1>8. ASSUME NEW t \in Threads, NEW d \in Devices, Find(t, d) PROVE MapsInv'
  BY <1>8 DEF Find
<1>9. ASSUME NEW t \in Threads, DestroyLoose(t) PROVE MapsInv'
  BY <1>9 DEF DestroyLoose
<1>10. ASSUME NEW t \in Threads, LockFactory(t) PROVE MapsInv'
  BY <1>10 DEF LockFactory
<1>11. ASSUME NEW t \in Threads, Deinitialize(t) PROVE MapsInv'
  BY <1>11 DEF Deinitialize
<1>12. ASSUME NEW t \in Threads, Deallocate(t) PROVE MapsInv'
  BY <1>12 DEF Deallocate, Entries
<1>13. ASSUME NEW t \in Threads, Release(t) PROVE MapsInv'
  BY <1>13 DEF Release
<1>14. ASSUME NEW t \in Threads, PreDelete(t) PROVE MapsInv'
  BY <1>14 DEF PreDelete
<1>15. ASSUME NEW t \in Threads, NEW p \in Pointers, CloseNode(t, p) PROVE MapsInv'
  BY <1>15 DEF CloseNode
<1>16. ASSUME NEW t \in Threads, CloseDevices(t) PROVE MapsInv'
  BY <1>16 DEF CloseDevices
<1>17. CASE UNCHANGED deviceVars
  BY <1>17 DEF deviceVars
<1>18. QED
  BY <1>1, <1>2, <1>3, <1>4, <1>5, <1>6, <1>7, <1>8, <1>9, <1>10, <1>11, <1>12, <1>13, <1>14, <1>15, <1>16, <1>17 DEF DevicesNext, Step, Shut

-----------------------------------------------------------------------------
\* The maps, the mutexes and the places of the threads are well formed, also when
\* devices are created and destroyed at once.
THEOREM TypeCorrect == DevicesSpec => []TypeOK
<1>1. DevicesInit => TypeOK /\ Named
  BY TypedInit
<1>2. TypeOK /\ Named /\ [DevicesNext]_deviceVars => TypeOK' /\ Named'
  BY TypedStep
<1>3. QED
  BY <1>1, <1>2, PTL DEF DevicesSpec

\* destroyDevice and failing drivers: no node is live whose device object is gone.
THEOREM ObjectsOutliveNodes == ASSUME Serialized PROVE DevicesSpec => []NodesDieFirst
<1>1. IInv => NodesDieFirst
  BY DEF IInv
<1>2. QED
  BY <1>1, Inductive, PTL

\* Between the calls m_allocatedDevices, m_heldNodes, the objects and the nodes
\* agree, whichever creations failed and wherever.
THEOREM MapsAlwaysAgree == ASSUME Serialized PROVE DevicesSpec => []MapsAgree
<1>1. DevicesInit => MapsInv
  BY DEF DevicesInit, MapsInv, ReadyIsWhole, ObjectIsOurs, HeldIsOurs, HeldIsLive, Along
<1>2. IInv /\ MapsInv /\ [DevicesNext]_deviceVars => MapsInv'
  BY MapsStep
<1>3. IInv /\ MapsInv => MapsAgree
  <2> SUFFICES ASSUME IInv, MapsInv, ~closed, \A t \in Threads : pc[t] = "idle",
                      NEW d \in Devices \ orphans
               PROVE  /\ allocated[d] # "building"
                      /\ allocated[d] = "ready" <=> d \in object
                      /\ allocated[d] = "ready" <=> d \in held
                      /\ d \in held <=> node[d] = "live"
    BY DEF MapsAgree
  <2>1. allocated[d] # "building"
    BY DEF IInv, OwnDevice
  <2>2. allocated[d] = "ready" <=> d \in object
    BY DEF MapsInv, ReadyIsWhole, ObjectIsOurs
  <2>3. allocated[d] = "ready" <=> d \in held
    BY DEF MapsInv, ReadyIsWhole, HeldIsOurs
  <2>4. d \in held <=> node[d] = "live"
    BY DEF MapsInv, HeldIsLive, IInv, LiveIsHeld
  <2>5. QED
    BY <2>1, <2>2, <2>3, <2>4
<1>4. QED
  BY <1>1, <1>2, <1>3, Inductive, PTL DEF DevicesSpec

\* destroyDevice deinitializes the nodes of the device it was given the name of,
\* and of no other.
THEOREM OnlyWhatWasAsked == ASSUME Serialized PROVE DevicesSpec => DestroysWhatWasAsked
<1> DEFINE Only == \A t \in Threads : Deinitialize(t) =>
                     \A p \in Pointers : node'[p] # node[p] => p = asked[t]
<1>1. IInv /\ [DevicesNext]_deviceVars => [Only]_deviceVars
  <2> SUFFICES ASSUME IInv, NEW t \in Threads, Deinitialize(t),
                      NEW p \in Pointers, node'[p] # node[p]
               PROVE  p = asked[t]
    OBVIOUS
  <2>1. p = pointer[t]
    BY DEF Deinitialize, IInv, TypeOK
  <2>2. pointer[t] = asked[t]
    BY DEF Deinitialize, IInv, RightPointer
  <2>3. QED
    BY <2>1, <2>2
<1>2. QED
  BY <1>1, Inductive, PTL DEF DevicesSpec, DestroysWhatWasAsked
=============================================================================
