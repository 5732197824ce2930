---------------------------- MODULE ProcessProofs ----------------------------
(***************************************************************************)
(* Proofs about Process, for any number of threads, control systems and    *)
(* devices and any files: who may delete what while somebody uses it, and  *)
(* that what the environment declares is known by its name.                *)
(***************************************************************************)
EXTENDS Process, WellFoundedInduction, FiniteSetTheorems,
        SequenceTheorems, TLAPS

-----------------------------------------------------------------------------
(* Maps                                                                     *)

\* Registering under a key keeps the other keys.
LEMMA PutFacts ==
  ASSUME NEW map, NEW key, NEW value
  PROVE  /\ DOMAIN Put(map, key, value) = DOMAIN map \cup {key}
         /\ Put(map, key, value)[key] = value
         /\ \A k \in DOMAIN map \ {key} : Put(map, key, value)[k] = map[k]
  BY DEF Put

\* An empty map has no keys.
LEMMA EmptyMap == DOMAIN <<>> = {} /\ Range(<<>>) = {}
  BY DEF Range

\* Registering adds the value; under a key of its own it removes none.
LEMMA PutRange ==
  ASSUME NEW map, NEW key, NEW value
  PROVE  /\ Range(Put(map, key, value)) \subseteq Range(map) \cup {value}
         /\ key \notin DOMAIN map => Range(map) \subseteq Range(Put(map, key, value))
         /\ value \in Range(Put(map, key, value))
  <1> SUFFICES ASSUME NEW new, new = Put(map, key, value)
               PROVE  /\ Range(new) \subseteq Range(map) \cup {value}
                      /\ key \notin DOMAIN map => Range(map) \subseteq Range(new)
                      /\ value \in Range(new)
    OBVIOUS
  <1>1. /\ DOMAIN new = DOMAIN map \cup {key}
        /\ new[key] = value
        /\ \A k \in DOMAIN map \ {key} : new[k] = map[k]
    BY DEF Put
  <1>2. ASSUME NEW x \in Range(new) PROVE x \in Range(map) \cup {value}
    <2>1. PICK k \in DOMAIN new : new[k] = x
      BY DEF Range
    <2> QED BY <1>1, <2>1 DEF Range
  <1>3. ASSUME key \notin DOMAIN map, NEW x \in Range(map) PROVE x \in Range(new)
    <2>1. PICK k \in DOMAIN map : map[k] = x
      BY DEF Range
    <2>2. k \in DOMAIN new /\ new[k] = x
      BY <1>1, <1>3, <2>1
    <2> QED BY <2>2 DEF Range
  <1>4. value \in Range(new)
    BY <1>1 DEF Range
  <1> QED BY <1>2, <1>3, <1>4

-----------------------------------------------------------------------------
(* What listFiles returns                                                   *)

\* The least-number principle for sets, which needs no operator parameter.
LEMMA Smallest ==
  ASSUME NEW T, T \subseteq Nat, T # {}
  PROVE  \E m \in T : \A k \in T : m <= k
  <1>1. PICK m \in T : \A k \in T : ~ (<<k, m>> \in OpToRel(<, Nat))
    BY WFMin, NatLessThanWellFounded
  <1>2. ASSUME NEW k \in T PROVE m <= k
    <2>1. k \in Nat /\ m \in Nat
      OBVIOUS
    <2>2. ~ (k < m)
      BY <1>1, <2>1 DEF OpToRel
    <2> QED BY <2>1, <2>2
  <1> QED BY <1>2

\* The index before.
LEMMA OneBefore ==
  ASSUME NEW n \in Nat, NEW i \in 0 .. n, i # 0
  PROVE  i \in 1 .. n /\ i - 1 \in 0 .. n /\ ~ (i <= i - 1)
  OBVIOUS

\* The folder by folder concatenation has what the folders have.
LEMMA FlattenFacts ==
  ASSUME NEW S, NEW n \in Nat \ {0}, NEW lists \in [1 .. n -> Seq(S)]
  PROVE  /\ FlattenSeq(lists) \in Seq(S)
         /\ \A k \in 1 .. n : Range(lists[k]) \subseteq Range(FlattenSeq(lists))
  <1> DEFINE Step(g, i) == IF i = 1 THEN lists[1] ELSE g[i - 1] \o lists[i]
             Good(m) == {g \in [1 .. m -> Seq(S)] : \A i \in 1 .. m : g[i] = Step(g, i)}
             Bad == {m \in Nat : m \in 1 .. n /\ Good(m) = {}}
  <1>1. Bad = {}
    <2> SUFFICES ASSUME Bad # {} PROVE FALSE
      OBVIOUS
    <2>1. PICK m \in Bad : \A k \in Bad : m <= k
      <3>1. Bad \subseteq Nat
        OBVIOUS
      <3> HIDE DEF Bad
      <3> QED BY <3>1, Smallest
    <2>2. CASE m = 1
      <3>1. [i \in 1 .. 1 |-> lists[1]] \in Good(1)
        OBVIOUS
      <3> QED BY <2>1, <2>2, <3>1
    <2>3. CASE m # 1
      <3>0. m \in 1 .. n /\ m \in Nat
        BY <2>1
      <3>m. m - 1 \in Nat /\ m - 1 \in 1 .. n /\ ~ (m <= m - 1)
        BY <2>3, <3>0
      <3>1. m - 1 \in 1 .. n /\ m - 1 \notin Bad /\ m \in 1 .. n
        <4> HIDE DEF Bad
        <4> QED BY <2>1, <3>0, <3>m
      <3>g. Good(m - 1) # {}
        <4> HIDE DEF Good
        <4> QED BY <3>m, <3>1
      <3>2. PICK g \in Good(m - 1) : TRUE
        <4> HIDE DEF Good
        <4> QED BY <3>g
      <3> DEFINE h == [i \in 1 .. m |-> IF i = m THEN g[m - 1] \o lists[m] ELSE g[i]]
      <3>3. g \in [1 .. m - 1 -> Seq(S)] /\ \A i \in 1 .. m - 1 : g[i] = Step(g, i)
        BY <3>2
      <3>4. g[m - 1] \in Seq(S) /\ lists[m] \in Seq(S)
        BY <3>1, <3>3, <2>3
      <3>5. g[m - 1] \o lists[m] \in Seq(S)
        BY <3>4, ConcatProperties
      <3>6. h \in [1 .. m -> Seq(S)]
        BY <3>3, <3>5, <3>1
      <3>7. \A i \in 1 .. m : h[i] = Step(h, i)
        <4> TAKE i \in 1 .. m
        <4>1. CASE i = m
          <5>1. i - 1 \in 1 .. m /\ i - 1 # m /\ i # 1 /\ i - 1 = m - 1
            BY <4>1, <3>0, <3>m, <2>3
          <5>2. h[i] = g[m - 1] \o lists[m] /\ h[i - 1] = g[m - 1]
            BY <5>1, <4>1
          <5> QED BY <5>1, <5>2, <4>1
        <4>2. CASE i # m
          <5>0. i \in 1 .. m - 1
            BY <4>2, <3>0
          <5>1. h[i] = g[i] /\ g[i] = Step(g, i) /\ i \in 1 .. m - 1
            BY <4>2, <3>3, <5>0
          <5>2. CASE i = 1
            BY <5>1, <5>2
          <5>3. CASE i # 1
            <6>1. i - 1 \in 1 .. m /\ i - 1 # m
              BY <5>1, <5>3, <3>0
            <6>2. h[i - 1] = g[i - 1]
              BY <6>1
            <6> QED BY <5>1, <5>3, <6>2
          <5> QED BY <5>2, <5>3
        <4> QED BY <4>1, <4>2
      <3>8. h \in Good(m)
        BY <3>6, <3>7
      <3> QED BY <2>1, <3>8
    <2> QED BY <2>2, <2>3
  <1>g. Good(n) # {}
    <2>1. n \notin Bad
      <3> HIDE DEF Bad
      <3> QED BY <1>1
    <2>2. n \in Nat /\ n \in 1 .. n
      OBVIOUS
    <2> HIDE DEF Good
    <2> QED BY <2>1, <2>2
  <1>2. PICK g \in Good(n) : TRUE
    <2> HIDE DEF Good
    <2> QED BY <1>g
  <1>3. DOMAIN lists = 1 .. n /\ Len(lists) = n
    OBVIOUS
  <1> DEFINE flatten == CHOOSE f : f = [i \in 1 .. Len(lists) |->
                IF i = 1 THEN lists[i] ELSE f[i - 1] \o lists[i]]
  <1>4. g = [i \in 1 .. Len(lists) |-> IF i = 1 THEN lists[i] ELSE g[i - 1] \o lists[i]]
    BY <1>2, <1>3
  <1>5. flatten = [i \in 1 .. Len(lists) |-> IF i = 1 THEN lists[i] ELSE flatten[i - 1] \o lists[i]]
    BY <1>4
  <1>6. FlattenSeq(lists) = flatten[n]
    BY <1>3 DEF FlattenSeq
  <1> HIDE DEF flatten
  <1>7. \A i \in 1 .. n : flatten[i] = IF i = 1 THEN lists[i] ELSE flatten[i - 1] \o lists[i]
    BY <1>3, <1>5
  <1> DEFINE Fine(i) == /\ flatten[i] \in Seq(S)
                        /\ \A k \in 1 .. i : Range(lists[k]) \subseteq Range(flatten[i])
             Off == {i \in 1 .. n : ~ Fine(i)}
  <1>8. Off = {}
    <2> SUFFICES ASSUME Off # {} PROVE FALSE
      OBVIOUS
    <2>1. PICK i \in Off : \A k \in Off : i <= k
      <3>1. Off \subseteq Nat
        OBVIOUS
      <3> HIDE DEF Off
      <3> QED BY <3>1, Smallest
    <2>2. i \in 1 .. n /\ i \in Nat /\ ~ Fine(i)
      BY <2>1
    <2>3. lists[i] \in Seq(S)
      BY <2>2
    <2>4. CASE i = 1
      BY <2>2, <2>3, <2>4, <1>7
    <2>5. CASE i # 1
      <3>1. i - 1 \in 1 .. n /\ ~ (i <= i - 1)
        BY <2>2, <2>5
      <3>2. Fine(i - 1)
        <4>1. i - 1 \notin Off
          <5> HIDE DEF Off
          <5> QED BY <2>1, <3>1
        <4> QED BY <4>1, <3>1
      <3>3. flatten[i] = flatten[i - 1] \o lists[i] /\ flatten[i - 1] \in Seq(S)
        BY <1>7, <2>2, <2>5, <3>2
      <3>4. flatten[i] \in Seq(S)
        BY <2>3, <3>3, ConcatProperties
      <3>5. Range(flatten[i]) = Range(flatten[i - 1]) \cup Range(lists[i])
        BY <2>3, <3>3, RangeConcatenation
      <3>6. ASSUME NEW k \in 1 .. i PROVE Range(lists[k]) \subseteq Range(flatten[i])
        <4>1. CASE k = i
          BY <4>1, <3>5
        <4>2. CASE k # i
          <5>1. k \in 1 .. i - 1
            BY <4>2, <2>2
          <5> QED BY <5>1, <3>2, <3>5
        <4> QED BY <4>1, <4>2
      <3> QED BY <2>2, <3>4, <3>6
    <2> QED BY <2>4, <2>5
  <1>9. Fine(n)
    <2>1. n \notin Off
      <3> HIDE DEF Off
      <3> QED BY <1>8
    <2>2. n \in 1 .. n
      OBVIOUS
    <2> HIDE DEF Fine
    <2> QED BY <2>1, <2>2
  <1> QED BY <1>6, <1>9
\* A folder's entries are returned in some order, each once: all of them are.
LEMMA ListingFacts ==
  ASSUME NEW S, IsFiniteSet(S), NEW list \in Listings(S)
  PROVE  list \in Seq(S) /\ Range(list) = S
  <1> DEFINE D == 1 .. Cardinality(S)
  <1>1. Cardinality(S) \in Nat
    BY FS_CardinalityType
  <1>2. list \in [D -> S] /\ \A i, j \in D : i # j => list[i] # list[j]
    BY DEF Listings, SetToSeqs
  <1>3. IsFiniteSet(D) /\ Cardinality(D) = Cardinality(S)
    BY <1>1, FS_Interval
  <1>4. list \in Injection(D, S)
    BY <1>2 DEF Injection, IsInjective
  <1>5. list \in Surjection(D, S)
    BY <1>3, <1>4, FS_Injection
  <1>6. Range(list) = S
    BY <1>5 DEF Surjection, Range
  <1> QED BY <1>1, <1>2, <1>6

\* listFiles returns the matching files of all the folders, and nothing else.
LEMMA FileListFacts ==
  ASSUME NEW n \in Nat \ {0}, NEW folders, DOMAIN folders = 1 .. n, NEW contents, NEW matching,
         \A k \in 1 .. n : IsFiniteSet(contents[folders[k]]),
         NEW list \in FileLists(folders, contents, matching)
  PROVE  /\ list \in Seq(matching)
         /\ \A k \in 1 .. n : contents[folders[k]] \cap matching \subseteq Range(list)
  <1> DEFINE part(k) == contents[folders[k]] \cap matching
             here(k) == Listings(part(k))
  <1>1. PICK lists \in [1 .. n -> UNION { here(k) : k \in 1 .. n }] :
               (\A k \in 1 .. n : lists[k] \in here(k)) /\ list = FlattenSeq(lists)
    BY DEF FileLists
  <1>2. ASSUME NEW k \in 1 .. n PROVE lists[k] \in Seq(matching) /\ Range(lists[k]) = part(k)
    <2>1. IsFiniteSet(part(k))
      BY FS_Subset
    <2>2. lists[k] \in Listings(part(k))
      BY <1>1
    <2>3. lists[k] \in Seq(part(k)) /\ Range(lists[k]) = part(k)
      BY <2>1, <2>2, ListingFacts
    <2>4. part(k) \subseteq matching
      OBVIOUS
    <2> QED BY <2>3, <2>4, SeqMonotonic
  <1>3. lists \in [1 .. n -> Seq(matching)]
    BY <1>1, <1>2
  <1>4. list \in Seq(matching) /\ \A k \in 1 .. n : Range(lists[k]) \subseteq Range(list)
    BY <1>1, <1>3, FlattenFacts
  <1> QED BY <1>2, <1>4

-----------------------------------------------------------------------------
(* The folders                                                              *)

\* separateFoldersList returns a list of names.
LEMMA SeparatedFacts ==
  ASSUME NEW S, NEW text \in Seq(S)
  PROVE  SeparateFolders(text) \in Seq(Seq(S))
  <1> DEFINE n == Len(text)
             first == [quote |-> NoQuote, start |-> 1, folders |-> <<>>]
             State(i) == [quote : QuoteMarks \cup {NoQuote}, start : 1 .. i + 1, folders : Seq(Seq(S))]
             Step(g, i) == IF i = 0 THEN first ELSE TakeToken(text, g[i - 1], i)
  <1>0. n \in Nat /\ DOMAIN text = 1 .. n /\ \A i \in 1 .. n : text[i] \in S
    OBVIOUS
  <1>a. first \in State(0)
    OBVIOUS
  <1>b. ASSUME NEW a \in Int, NEW b \in Int, a >= 1, b <= n PROVE SubSeq(text, a, b) \in Seq(S)
    <2>1. \A i \in a .. b : text[i] \in S
      BY <1>0, <1>b
    <2> QED BY <2>1, SubSeqProperties
  <1>1. ASSUME NEW i \in 1 .. n, NEW s \in State(i - 1) PROVE TakeToken(text, s, i) \in State(i)
    <2>1. /\ s.quote \in QuoteMarks \cup {NoQuote} /\ s.start \in 1 .. i /\ s.folders \in Seq(Seq(S))
          /\ s = [quote |-> s.quote, start |-> s.start, folders |-> s.folders]
      BY <1>0
    <2>2. i \in Nat /\ i <= n /\ i + 1 \in 1 .. i + 1 /\ s.start \in 1 .. i + 1 /\ s.start \in Nat
      BY <1>0, <2>1
    <2>3. SubSeq(text, s.start, i - 1) \in Seq(S)
      BY <1>0, <1>b, <2>1, <2>2
    <2>4. Append(s.folders, SubSeq(text, s.start, i - 1)) \in Seq(Seq(S))
      BY <2>1, <2>3, AppendProperties
    <2>5. [s EXCEPT !.quote = NoQuote] \in State(i)
      BY <2>1, <2>2
    <2>6. \A q \in QuoteMarks : [s EXCEPT !.quote = q] \in State(i)
      BY <2>1, <2>2
    <2>7. [s EXCEPT !.start = i + 1,
                    !.folders = IF i = s.start THEN @
                                ELSE Append(@, SubSeq(text, s.start, i - 1))] \in State(i)
      BY <2>1, <2>2, <2>4
    <2>8. s \in State(i)
      BY <2>1, <2>2
    <2> QED BY <2>5, <2>6, <2>7, <2>8 DEF TakeToken
  <1> DEFINE Good(m) == {g \in [0 .. m -> UNION { State(i) : i \in 0 .. m }] :
                           \A i \in 0 .. m : g[i] = Step(g, i) /\ g[i] \in State(i)}
             Bad == {m \in 0 .. n : Good(m) = {}}
  <1>2. Bad = {}
    <2> SUFFICES ASSUME Bad # {} PROVE FALSE
      OBVIOUS
    <2>1. PICK m \in Bad : \A k \in Bad : m <= k
      <3>1. Bad \subseteq Nat
        BY <1>0
      <3> HIDE DEF Bad
      <3> QED BY <3>1, Smallest
    <2>2. CASE m = 0
      <3>1. [i \in 0 .. 0 |-> first] \in Good(0)
        <4> DEFINE h == [i \in 0 .. 0 |-> first]
        <4>1. 0 .. 0 = {0} /\ h[0] = first
          OBVIOUS
        <4>2. h \in [0 .. 0 -> UNION { State(i) : i \in 0 .. 0 }]
          BY <4>1, <1>a
        <4> QED BY <4>1, <4>2, <1>a
      <3> QED BY <2>1, <2>2, <3>1
    <2>3. CASE m # 0
      <3>0. m \in 1 .. n /\ m \in Nat
        BY <1>0, <2>1, <2>3
      <3>m. m - 1 \in Nat /\ m - 1 \in 0 .. n /\ ~ (m <= m - 1)
        BY <1>0, <3>0
      <3>1. m - 1 \notin Bad
        <4> HIDE DEF Bad
        <4> QED BY <2>1, <3>0, <3>m
      <3>g. Good(m - 1) # {}
        <4> HIDE DEF Good
        <4> QED BY <3>m, <3>1
      <3>2. PICK g \in Good(m - 1) : TRUE
        <4> HIDE DEF Good
        <4> QED BY <3>g
      <3>3. \A i \in 0 .. m - 1 : g[i] = Step(g, i) /\ g[i] \in State(i)
        BY <3>2
      <3> DEFINE h == [i \in 0 .. m |-> IF i = m THEN TakeToken(text, g[m - 1], m) ELSE g[i]]
      <3> HIDE DEF State, first
      <3>4. \A i \in 0 .. m - 1 : h[i] = g[i] /\ i \in 0 .. m
        BY <3>0
      <3>5. h[m] = TakeToken(text, g[m - 1], m) /\ h[m - 1] = g[m - 1] /\ m \in 0 .. m
        BY <3>0, <3>4
      <3>6. g[m - 1] \in State(m - 1)
        BY <3>0, <3>3
      <3>7. h[m] \in State(m)
        BY <1>1, <3>0, <3>5, <3>6
      <3>h. DOMAIN h = 0 .. m
        OBVIOUS
      <3> HIDE DEF h
      <3>8. ASSUME NEW i \in 0 .. m PROVE h[i] = Step(h, i) /\ h[i] \in State(i)
        <4>1. CASE i = m
          BY <4>1, <2>3, <3>5, <3>7
        <4>2. CASE i # m
          <5>1. i \in 0 .. m - 1 /\ h[i] = g[i] /\ g[i] \in State(i) /\ g[i] = Step(g, i)
            <6>1. i \in 0 .. m - 1
              BY <4>2, <3>0
            <6> QED BY <6>1, <3>3, <3>4
          <5>2. CASE i = 0
            BY <5>1, <5>2
          <5>3. CASE i # 0
            <6>1. i - 1 \in 0 .. m - 1
              BY <5>1, <5>3, <3>0
            <6>2. h[i - 1] = g[i - 1]
              BY <6>1, <3>4
            <6> QED BY <5>1, <5>3, <6>2
          <5> QED BY <5>2, <5>3
        <4> QED BY <4>1, <4>2
      <3>9. h \in [0 .. m -> UNION { State(i) : i \in 0 .. m }]
        <4>1. h = [i \in 0 .. m |-> h[i]]
          BY DEF h
        <4>2. \A i \in 0 .. m : h[i] \in UNION { State(k) : k \in 0 .. m }
          BY <3>8
        <4> QED BY <4>1, <4>2
      <3>10. h \in Good(m)
        BY <3>8, <3>9
      <3> QED BY <2>1, <3>10
    <2> QED BY <2>2, <2>3
  <1>3. n \in 0 .. n /\ Good(n) # {}
    <2>1. n \in 0 .. n /\ n \notin Bad
      <3> HIDE DEF Bad
      <3> QED BY <1>0, <1>2
    <2> HIDE DEF Good
    <2> QED BY <2>1
  <1>4. PICK g \in Good(n) : TRUE
    <2> HIDE DEF Good
    <2> QED BY <1>3
  <1> DEFINE after == CHOOSE f : f = [i \in 0 .. Len(text) |->
               IF i = 0 THEN [quote |-> NoQuote, start |-> 1, folders |-> <<>>]
               ELSE TakeToken(text, f[i - 1], i)]
  <1>5. g = [i \in 0 .. Len(text) |-> IF i = 0 THEN [quote |-> NoQuote, start |-> 1, folders |-> <<>>]
                                      ELSE TakeToken(text, g[i - 1], i)]
    <2>1. g = [i \in 0 .. n |-> g[i]] /\ \A i \in 0 .. n : g[i] = Step(g, i)
      BY <1>4
    <2> QED BY <2>1
  <1>6. after = [i \in 0 .. Len(text) |-> IF i = 0 THEN [quote |-> NoQuote, start |-> 1, folders |-> <<>>]
                                          ELSE TakeToken(text, after[i - 1], i)]
    BY <1>5
  <1>7. \A i \in 0 .. n : after[i] = Step(after, i)
    <2> HIDE DEF after
    <2> QED BY <1>0, <1>6
  <1> DEFINE Off == {i \in 0 .. n : after[i] \notin State(i)}
  <1>8. Off = {}
    <2> HIDE DEF after, State, first
    <2> SUFFICES ASSUME Off # {} PROVE FALSE
      OBVIOUS
    <2>1. PICK i \in Off : \A k \in Off : i <= k
      <3>1. Off \subseteq Nat
        BY <1>0
      <3> HIDE DEF Off
      <3> QED BY <3>1, Smallest
    <2>2. i \in 0 .. n /\ after[i] \notin State(i)
      BY <2>1
    <2>3. CASE i = 0
      BY <2>2, <2>3, <1>7, <1>a
    <2>4. CASE i # 0
      <3>1. i \in 1 .. n /\ i - 1 \in 0 .. n /\ ~ (i <= i - 1)
        <4> HIDE DEF n
        <4> QED BY <1>0, <2>2, <2>4, OneBefore
      <3>2. i - 1 \notin Off
        <4> HIDE DEF Off
        <4> QED BY <2>1, <3>1
      <3>3. after[i - 1] \in State(i - 1)
        BY <3>1, <3>2
      <3>4. after[i] = TakeToken(text, after[i - 1], i)
        BY <1>7, <2>2, <2>4
      <3> QED BY <1>1, <2>2, <3>1, <3>3, <3>4
    <2> QED BY <2>3, <2>4
  <1>9. after[n] \in State(n)
    <2>1. n \notin Off /\ n \in 0 .. n
      <3> HIDE DEF Off
      <3> QED BY <1>3, <1>8
    <2> HIDE DEF after, State
    <2> QED BY <2>1
  <1> DEFINE last == after[n]
  <1>10. SeparateFolders(text) = IF last.start = n + 1 THEN last.folders
                                 ELSE Append(last.folders, SubSeq(text, last.start, n))
    BY DEF SeparateFolders
  <1> HIDE DEF after
  <1>11. last.folders \in Seq(Seq(S)) /\ last.start \in 1 .. n + 1
    BY <1>9
  <1>12. SubSeq(text, last.start, n) \in Seq(S)
    BY <1>0, <1>b, <1>11
  <1> QED BY <1>10, <1>11, <1>12, AppendProperties

\* The folders that are listed: "." and what the variables name.
LEMMA PathFacts ==
  ASSUME NEW lists \in Seq(Seq(STRING))
  PROVE  \E n \in Nat \ {0} : DOMAIN Path(lists) = 1 .. n
  <1> DEFINE m == Len(lists)
             split == [i \in DOMAIN lists |-> SeparateFolders(lists[i])]
             Names == Seq(STRING)
  <1>1. m \in Nat /\ DOMAIN lists = 1 .. m /\ split \in [1 .. m -> Seq(Names)]
    <2>1. \A i \in DOMAIN lists : SeparateFolders(lists[i]) \in Seq(Names)
      BY SeparatedFacts
    <2> QED BY <2>1
  <1>2. FlattenSeq(split) \in Seq(Names)
    <2>1. CASE m = 0
      <3>1. Len(split) = 0 /\ split \in Seq(Names)
        BY <1>1, <2>1
      <3> QED BY <3>1 DEF FlattenSeq
    <2>2. CASE m # 0
      BY <1>1, <2>2, FlattenFacts
    <2> QED BY <2>1, <2>2
  <1> DEFINE rest == FlattenSeq(split)
  <1>3. Path(lists) = <<Here>> \o rest
    BY DEF Path
  <1> HIDE DEF rest
  <1>4. rest \in Seq(Names \cup {Here}) /\ <<Here>> \in Seq(Names \cup {Here})
    <2>1. rest \in Seq(Names)
      BY <1>2 DEF rest
    <2> QED BY <2>1, SeqMonotonic
  <1>5. Path(lists) \in Seq(Names \cup {Here}) /\ Len(Path(lists)) = 1 + Len(rest)
    BY <1>3, <1>4, ConcatProperties
  <1>6. Len(rest) \in Nat
    BY <1>4
  <1> QED BY <1>5, <1>6

\* What is found in the folders of a path: all the matching files, and no others.
LEMMA FoundFacts ==
  ASSUME NdsFactoryAssumption, disk \subseteq DOMAIN Folders, NEW path, NEW n \in Nat \ {0},
         DOMAIN path = 1 .. n, CanList(path, Contents), NEW matching,
         NEW list \in FileLists(path, Contents, matching)
  PROVE  /\ list \in Seq(matching)
         /\ \A d \in ToSet(path) : Folders[d] \cap matching \subseteq Range(list)
  <1>1. ASSUME NEW k \in 1 .. n
        PROVE  Contents[path[k]] = Folders[path[k]] /\ IsFiniteSet(Contents[path[k]])
    <2>1. path[k] \in disk
      BY DEF CanList, Contents, ToSet
    <2> QED BY <2>1 DEF NdsFactoryAssumption, Contents
  <1>2. /\ list \in Seq(matching)
        /\ \A k \in 1 .. n : Contents[path[k]] \cap matching \subseteq Range(list)
    BY <1>1, FileListFacts
  <1>3. ASSUME NEW d \in ToSet(path) PROVE Folders[d] \cap matching \subseteq Range(list)
    <2>1. PICK k \in 1 .. n : path[k] = d
      BY DEF ToSet
    <2> QED BY <1>1, <1>2, <2>1
  <1> QED BY <1>2, <1>3

-----------------------------------------------------------------------------
(* The types                                                                *)

Labels == {"idle", "entering", "called", "constructing", "stuck", "opened", "chosen"}

\* A device that is there: by which system, and both functions of one module.
Kept(r) ==
  /\ r = [state |-> r.state, system |-> r.system, alloc |-> r.alloc, dealloc |-> r.alloc]
  /\ r.state \in {"chosen", "made"} /\ r.system \in Systems

ProcessTyped ==
  /\ instance \in {"none", "constructing", "ready", "destroyed", "terminated"}
  /\ disk \subseteq DOMAIN Folders
  /\ opened \in Seq(Files) /\ todo \in Seq(Files)
  /\ Range(systems) \subseteq Systems

ClientTyped ==
  /\ pc \in [Threads -> Labels]
  /\ DOMAIN call = Threads /\ \A t \in Threads : pc[t] # "idle" => call[t] \in Calls
  /\ handle \in [Threads -> Systems \cup {None}]

DeviceTyped ==
  /\ DOMAIN device = Devices
  /\ \A d \in Devices : device[d] = NoDevice \/ Kept(device[d])

\* Before the object is there nobody has anything of it; one thread constructs it.
StageInv ==
  /\ \A t \in Threads : pc[t] \in {"constructing", "stuck"} => instance = "constructing" /\ builder = t
  /\ instance \in {"none", "constructing"} =>
       /\ \A t \in Threads : handle[t] = None /\ pc[t] \in {"idle", "entering", "constructing", "stuck"}
       /\ \A d \in Devices : device[d] = NoDevice

\* A pending call is the one its place says; of a device that is being made there
\* is one maker.
PlaceInv ==
  \A t \in Threads :
    /\ pc[t] = "opened" => call[t].op = "load"
    /\ pc[t] # "idle" /\ call[t].op = "create" => handle[t] # None
    /\ pc[t] = "chosen" =>
         /\ call[t].op = "create" /\ device[call[t].device].state = "chosen"
         /\ \A s \in Threads \ {t} : pc[s] = "chosen" => call[s].device # call[t].device

IInv == ProcessTyped /\ ClientTyped /\ DeviceTyped /\ StageInv /\ PlaceInv

\* The steps of the process, as far as the factory is concerned.
LEMMA FactorySteps ==
  ASSUME [Next]_vars
  PROVE  \/ MakeFolder
         \/ ~Ended /\ \E t \in Threads : NdsStep(t)
         \/ UNCHANGED ndsVars
  BY DEF Next, vars, Client, Log, SetLogLevel

\* The file whose function dlsym finds is one of the process.
LEMMA ExportingFacts ==
  ASSUME ProcessTyped, NEW file \in Files, NEW what
  PROVE  Exporting(file, what) \in Files
  <1> DEFINE with == { i \in DOMAIN opened : About[opened[i]][what] # None }
  <1>1. opened \in Seq(Files) /\ with \subseteq DOMAIN opened /\ DOMAIN opened \subseteq Nat
    BY DEF ProcessTyped
  <1>2. CASE with = {}
    BY <1>2 DEF Exporting
  <1>3. CASE with # {}
    <2> HIDE DEF with
    <2>1. \E n \in with : \A k \in with : n <= k
      BY <1>1, <1>3, Smallest
    <2>2. Min(with) \in with
      BY <2>1 DEF Min
    <2>3. opened[Min(with)] \in Files
      BY <1>1, <2>2
    <2> QED BY <2>3 DEF Exporting, with
  <1> QED BY <1>2, <1>3

\* A step of t moves no other thread.
MovesOnly(t) ==
  /\ pc' \in [Threads -> Labels] /\ DOMAIN call' = Threads /\ DOMAIN handle' = Threads
  /\ pc'[t] # "idle" => call'[t] \in Calls
  /\ \A s \in Threads \ {t} : pc'[s] = pc[s] /\ call'[s] = call[s] /\ handle'[s] = handle[s]

\* ... nor touches its call or what it refers to.
LEMMA OwnMove ==
  ASSUME NEW t \in Threads, ClientTyped, NdsStep(t)
  PROVE  MovesOnly(t)
  <1> USE DEF ClientTyped, Goto, Return, Labels, MovesOnly
  <1>1. ASSUME NEW c \in Calls, Enter(t, c) PROVE MovesOnly(t)
    BY <1>1 DEF Enter
  <1>2. CASE Pass(t)
    BY <1>2 DEF Pass
  <1>3. CASE Begin(t)
    BY <1>3 DEF Begin, Throw
  <1>4. CASE LoadSystem(t)
    BY <1>4 DEF LoadSystem, clientVars
  <1>5. CASE ListDrivers(t)
    BY <1>5 DEF ListDrivers, Throw
  <1>6. CASE LoadScanned(t)
    BY <1>6 DEF LoadScanned
  <1>7. CASE Constructed(t)
    BY <1>7 DEF Constructed
  <1>8. CASE RegisterDriver(t) \/ OpenDriver(t) \/ RegisterLoaded(t) \/ RegisterControlSystem(t)
    BY <1>8 DEF RegisterDriver, OpenDriver, RegisterLoaded, RegisterControlSystem, Doing
  <1>9. CASE GetControlSystem(t)
    BY <1>9 DEF GetControlSystem
  <1>10. CASE Drop(t)
    BY <1>10 DEF Drop
  <1>11. CASE Choose(t)
    BY <1>11 DEF Choose, Doing
  <1>12. CASE Allocate(t) \/ Deallocate(t)
    BY <1>12 DEF Allocate, Deallocate
  <1>13. CASE Exit(t)
    BY <1>13 DEF Exit
  <1> QED BY <1>1, <1>2, <1>3, <1>4, <1>5, <1>6, <1>7, <1>8, <1>9, <1>10, <1>11, <1>12, <1>13
         DEF NdsStep

\* The process keeps its types.
LEMMA ProcessTypedKept ==
  ASSUME NdsFactoryAssumption, NEW t \in Threads, IInv, NdsStep(t)
  PROVE  ProcessTyped'
  <1> USE DEF ProcessTyped
  <1>p. ProcessTyped
    BY DEF IInv
  <1>o. opened \in Seq(Files) /\ todo \in Seq(Files) /\ Range(systems) \subseteq Systems
    BY <1>p
  <1>a. ASSUME NEW file \in Files PROVE AddOpened(file) \in Seq(Files)
    BY <1>o, AppendProperties DEF AddOpened
  <1>b. ASSUME NEW name, NEW s \in Systems PROVE Range(Put(systems, name, s)) \subseteq Systems
    <2>1. Range(Put(systems, name, s)) \subseteq Range(systems) \cup {s}
      BY PutRange
    <2> QED BY <1>o, <2>1
  <1>c. Range(<<>>) \subseteq Systems /\ <<>> \in Seq(Files)
    BY EmptyMap, EmptySeq
  <1>d. todo # <<>> => Head(todo) \in Files /\ Tail(todo) \in Seq(Files)
    BY <1>o, HeadTailProperties
  <1>e. {SystemFiles, DriverFiles} \subseteq SUBSET Files
    BY DEF NdsFactoryAssumption
  <1>1. ASSUME NEW c \in Calls, Enter(t, c) PROVE ProcessTyped'
    BY <1>1, <1>p DEF Enter, processVars
  <1>2. CASE Pass(t) \/ Drop(t) \/ Choose(t) \/ Allocate(t) \/ Deallocate(t)
    BY <1>2, <1>p DEF Pass, Drop, Choose, Allocate, Deallocate, processVars
  <1>3. CASE Begin(t)
    <2>1. CASE CanList(SystemPath, Contents)
      <3>1. PICK n \in Nat \ {0} : DOMAIN SystemPath = 1 .. n
        BY PathFacts DEF NdsFactoryAssumption, SystemPath
      <3>2. todo' \in Seq(SystemFiles)
        BY <1>3, <1>p, <2>1, <3>1, FoundFacts DEF Begin
      <3>3. todo' \in Seq(Files)
        BY <3>2, <1>e, SeqMonotonic
      <3> QED BY <1>3, <1>p, <2>1, <3>3 DEF Begin
    <2>2. CASE ~ CanList(SystemPath, Contents)
      BY <1>3, <1>p, <1>c, <2>2 DEF Begin, Throw
    <2> QED BY <2>1, <2>2
  <1>4. CASE LoadSystem(t)
    BY <1>4, <1>p, <1>a, <1>b, <1>d DEF LoadSystem
  <1>5. CASE ListDrivers(t)
    <2>1. CASE CanList(DriverPath, Contents)
      <3>1. PICK n \in Nat \ {0} : DOMAIN DriverPath = 1 .. n
        BY PathFacts DEF NdsFactoryAssumption, DriverPath
      <3>2. todo' \in Seq(DriverFiles)
        BY <1>5, <1>p, <2>1, <3>1, FoundFacts DEF ListDrivers
      <3>3. todo' \in Seq(Files)
        BY <3>2, <1>e, SeqMonotonic
      <3> QED BY <1>5, <1>p, <2>1, <3>3 DEF ListDrivers
    <2>2. CASE ~ CanList(DriverPath, Contents)
      BY <1>5, <1>p, <1>c, <2>2 DEF ListDrivers, Throw
    <2> QED BY <2>1, <2>2
  <1>6. CASE LoadScanned(t)
    BY <1>6, <1>p, <1>a, <1>d DEF LoadScanned
  <1>7. CASE Constructed(t)
    BY <1>7, <1>p DEF Constructed
  <1>8. CASE RegisterDriver(t) \/ RegisterLoaded(t)
    BY <1>8, <1>p DEF RegisterDriver, RegisterLoaded
  <1>9. CASE OpenDriver(t)
    <2>1. call[t] \in Calls /\ call[t].file \in Files
      BY <1>9 DEF OpenDriver, Doing, IInv, ClientTyped, NdsFactoryAssumption
    <2> QED BY <1>9, <1>p, <1>a, <2>1 DEF OpenDriver
  <1>10. CASE RegisterControlSystem(t)
    BY <1>10, <1>p, <1>b DEF RegisterControlSystem
  <1>11. CASE GetControlSystem(t)
    BY <1>11, <1>p DEF GetControlSystem
  <1>12. CASE Exit(t)
    BY <1>12, <1>p, <1>c DEF Exit
  <1> QED BY <1>1, <1>2, <1>3, <1>4, <1>5, <1>6, <1>7, <1>8, <1>9, <1>10, <1>11, <1>12 DEF NdsStep

\* So do the clients.
LEMMA ClientTypedKept ==
  ASSUME NEW t \in Threads, IInv, NdsStep(t)
  PROVE  ClientTyped'
  <1>1. MovesOnly(t)
    BY OwnMove DEF IInv
  <1>2. handle'[t] \in Systems \cup {None}
    <2> USE DEF IInv, ClientTyped
    <2>1. CASE GetControlSystem(t)
      <3>1. \A n \in DOMAIN systems : systems[n] \in Systems
        BY DEF ProcessTyped, Range
      <3> QED BY <2>1, <3>1 DEF GetControlSystem
    <2>2. CASE Exit(t) \/ Drop(t)
      BY <2>2 DEF Exit, Drop
    <2>3. CASE handle' = handle
      BY <2>3
    <2>4. handle' = handle \/ GetControlSystem(t) \/ Exit(t) \/ Drop(t)
      BY DEF NdsStep, Enter, Pass, Begin, LoadSystem, ListDrivers, LoadScanned, Constructed,
             RegisterDriver, OpenDriver, RegisterLoaded, RegisterControlSystem, Choose, Allocate,
             Deallocate, clientVars
    <2> QED BY <2>1, <2>2, <2>3, <2>4
  <1>3. \A s \in Threads : pc'[s] # "idle" => call'[s] \in Calls
    BY <1>1 DEF MovesOnly, IInv, ClientTyped
  <1>4. handle' \in [Threads -> Systems \cup {None}]
    <2>1. handle' = [s \in Threads |-> handle'[s]]
      BY DEF NdsStep, Enter, Pass, Begin, LoadSystem, ListDrivers, LoadScanned, Constructed,
             RegisterDriver, OpenDriver, RegisterLoaded, RegisterControlSystem, Choose, Allocate,
             Deallocate, clientVars, GetControlSystem, Exit, Drop, IInv, ClientTyped
    <2> QED BY <1>1, <1>2, <2>1 DEF MovesOnly, IInv, ClientTyped
  <1> QED BY <1>1, <1>3, <1>4 DEF MovesOnly, ClientTyped

\* A device that is there.
LEMMA KeptFacts ==
  /\ NoDevice.state = "absent"
  /\ \A r : Kept(r) => r.state # "absent" /\ r # NoDevice /\ r.dealloc = r.alloc
  <1>1. NoDevice.state = "absent"
    BY DEF NoDevice
  <1>2. ASSUME NEW r, Kept(r) PROVE r.state # "absent" /\ r # NoDevice /\ r.dealloc = r.alloc
    <2>1. r.state # "absent"
      BY <1>2 DEF Kept
    <2>2. r.dealloc = r.alloc
      <3>1. r = [state |-> r.state, system |-> r.system, alloc |-> r.alloc, dealloc |-> r.alloc]
        BY <1>2 DEF Kept
      <3> QED BY <3>1
    <2> QED BY <1>1, <2>1, <2>2
  <1> QED BY <1>1, <1>2

\* ... and made.
LEMMA MadeFacts ==
  ASSUME NEW r, Kept(r), NEW q, q = [r EXCEPT !.state = "made"]
  PROVE  Kept(q) /\ q.state = "made" /\ q.system = r.system
  <1>1. r = [state |-> r.state, system |-> r.system, alloc |-> r.alloc, dealloc |-> r.alloc]
    BY DEF Kept
  <1>2. q = [state |-> "made", system |-> r.system, alloc |-> r.alloc, dealloc |-> r.alloc]
    BY <1>1
  <1>3. q.state = "made" /\ q.system = r.system /\ q.alloc = r.alloc
    BY <1>2
  <1> QED BY <1>2, <1>3 DEF Kept

\* Whose devices a step of t can change: those that its call names, and at the
\* exit all of them.
LEMMA DeviceSteps ==
  ASSUME NEW t \in Threads, NdsStep(t)
  PROVE  UNCHANGED device \/ Choose(t) \/ Allocate(t) \/ Deallocate(t) \/ Exit(t)
  BY DEF NdsStep, Enter, Pass, Begin, LoadSystem, ListDrivers, LoadScanned, Constructed,
         RegisterDriver, OpenDriver, RegisterLoaded, RegisterControlSystem, GetControlSystem,
         Drop, clientVars

\* ... createDevice keeps the system and the driver that allocates it,
LEMMA ChooseFacts ==
  ASSUME NdsFactoryAssumption, NEW t \in Threads, IInv, Choose(t), device' # device
  PROVE  LET d == call[t].device IN
         /\ d \in Devices /\ device[d] = NoDevice /\ handle[t] \in Systems
         /\ Kept(device'[d]) /\ device'[d].state = "chosen" /\ device'[d].system = handle[t]
         /\ \A e \in Devices \ {d} : device'[e] = device[e]
         /\ DOMAIN device' = Devices /\ pc'[t] = "chosen" /\ call' = call
  <1>1. call[t] \in Calls /\ call[t].op = "create" /\ pc[t] = "called"
    BY DEF Choose, Doing, IInv, ClientTyped
  <1>2. call[t].device \in Devices /\ handle[t] \in Systems
    BY <1>1 DEF NdsFactoryAssumption, IInv, ClientTyped, PlaceInv
  <1> DEFINE f == drivers[call[t].driver]
  <1>3. /\ device[call[t].device] = NoDevice
        /\ device' = [device EXCEPT ![call[t].device] =
                        [state |-> "chosen", system |-> handle[t], alloc |-> f, dealloc |-> f]]
        /\ pc' = [pc EXCEPT ![t] = "chosen"] /\ call' = call
    BY DEF Choose, Goto
  <1>4. DOMAIN device = Devices /\ DOMAIN pc = Threads
    BY DEF IInv, DeviceTyped, ClientTyped
  <1> HIDE DEF f
  <1> QED BY <1>1, <1>2, <1>3, <1>4 DEF Kept

\* ... and the allocation changes neither.
LEMMA AllocateFacts ==
  ASSUME NdsFactoryAssumption, NEW t \in Threads, IInv, Allocate(t)
  PROVE  LET d == call[t].device IN
         /\ d \in Devices /\ Kept(device[d]) /\ Kept(device'[d])
         /\ device'[d].state = "made" /\ device'[d].system = device[d].system
         /\ \A e \in Devices \ {d} : device'[e] = device[e]
         /\ DOMAIN device' = Devices
  <1>1. call[t] \in Calls /\ call[t].op = "create" /\ device[call[t].device].state = "chosen"
    BY DEF Allocate, IInv, ClientTyped, PlaceInv
  <1>2. call[t].device \in Devices
    BY <1>1 DEF NdsFactoryAssumption
  <1> DEFINE d == call[t].device
             r == device[d]
  <1>3. Kept(r)
    <2>1. r = NoDevice \/ Kept(r)
      BY <1>2 DEF IInv, DeviceTyped
    <2>2. r # NoDevice
      BY <1>1, KeptFacts
    <2> QED BY <2>1, <2>2
  <1>4. DOMAIN device = Devices /\ device' = [device EXCEPT ![d].state = "made"]
    BY DEF Allocate, IInv, DeviceTyped
  <1>5. device'[d] = [r EXCEPT !.state = "made"]
    BY <1>2, <1>4
  <1>7. Kept(device'[d]) /\ device'[d].state = "made" /\ device'[d].system = r.system
    BY <1>3, <1>5, MadeFacts
  <1>8. \A e \in Devices \ {d} : device'[e] = device[e]
    BY <1>4
  <1> HIDE DEF d
  <1> QED BY <1>2, <1>3, <1>4, <1>7, <1>8 DEF d

\* The devices keep their types, and each its own deallocator.
LEMMA DeviceTypedKept ==
  ASSUME NdsFactoryAssumption, NEW t \in Threads, IInv, NdsStep(t)
  PROVE  DeviceTyped'
  <1>0. DeviceTyped
    BY DEF IInv
  <1>1. CASE UNCHANGED device
    BY <1>0, <1>1 DEF DeviceTyped, Kept
  <1>2. CASE Choose(t) /\ device' # device
    <2> DEFINE d == call[t].device
    <2>1. d \in Devices /\ Kept(device'[d]) /\ DOMAIN device' = Devices
      BY <1>2, ChooseFacts
    <2>2. \A e \in Devices \ {d} : device'[e] = device[e]
      BY <1>2, ChooseFacts
    <2> HIDE DEF d
    <2> QED BY <1>0, <2>1, <2>2 DEF DeviceTyped
  <1>3. CASE Allocate(t)
    BY <1>0, <1>3, AllocateFacts DEF DeviceTyped
  <1>4. CASE Deallocate(t)
    <2>1. DOMAIN device' = Devices /\ \A d \in Devices : device'[d] = device[d] \/ device'[d] = NoDevice
      BY <1>0, <1>4 DEF Deallocate, DeviceTyped
    <2> QED BY <1>0, <2>1 DEF DeviceTyped
  <1>5. CASE Exit(t)
    <2>1. DOMAIN device' = Devices /\ \A d \in Devices : device'[d] = device[d] \/ device'[d] = NoDevice
      BY <1>5 DEF Exit
    <2> QED BY <1>0, <2>1 DEF DeviceTyped
  <1> QED BY <1>1, <1>2, <1>3, <1>4, <1>5, DeviceSteps

\* Nobody gets anything of an object that is not there yet.
LEMMA StageKept ==
  ASSUME NdsFactoryAssumption, NEW t \in Threads, IInv, NdsStep(t), ~Ended
  PROVE  StageInv'
  <1>0. ClientTyped /\ StageInv /\ ProcessTyped
    BY DEF IInv
  <1> USE DEF StageInv, Goto, Return
  <1>m. MovesOnly(t)
    BY <1>0, OwnMove
  <1>c. ClientTyped'
    BY ClientTypedKept
  <1>1. ASSUME NEW c \in Calls, Enter(t, c) PROVE StageInv'
    BY <1>0, <1>1 DEF Enter, processVars, ClientTyped
  <1>2. CASE Pass(t)
    BY <1>0, <1>2 DEF Pass, processVars, ClientTyped
  <1>3. CASE Begin(t)
    <2>1. \A s \in Threads : pc[s] \notin {"constructing", "stuck"}
      BY <1>0, <1>3 DEF Begin
    <2>2. pc'[t] \in {"constructing", "idle"} /\ UNCHANGED <<handle, device>>
      BY <1>0, <1>3 DEF Begin, Throw, ClientTyped
    <2>3. pc'[t] = "constructing" => instance' = "constructing" /\ builder' = t
      BY <1>0, <1>3 DEF Begin, Throw, ClientTyped
    <2>4. instance = "none"
      BY <1>3 DEF Begin
    <2> QED BY <1>0, <1>m, <2>1, <2>2, <2>3, <2>4 DEF MovesOnly
  <1>4. CASE LoadSystem(t)
    BY <1>0, <1>4 DEF LoadSystem, clientVars
  <1>5. CASE ListDrivers(t)
    <2>1. instance = "constructing" /\ builder = t /\ UNCHANGED <<handle, device>>
      BY <1>0, <1>5 DEF ListDrivers
    <2>2. \A s \in Threads \ {t} : pc[s] \in {"idle", "entering"}
      BY <1>0, <2>1
    <2>3. CASE CanList(DriverPath, Contents)
      BY <1>0, <1>5, <2>1, <2>3 DEF ListDrivers
    <2>4. CASE ~ CanList(DriverPath, Contents)
      <3>1. pc'[t] = "idle"
        BY <1>0, <1>5, <2>4 DEF ListDrivers, Throw, ClientTyped
      <3> QED BY <1>0, <1>m, <2>1, <2>2, <3>1 DEF MovesOnly
    <2> QED BY <2>3, <2>4
  <1>6. CASE LoadScanned(t)
    <2>1. instance = "constructing" /\ builder = t /\ UNCHANGED <<handle, device, instance, builder>>
      BY <1>0, <1>6 DEF LoadScanned
    <2>2. pc'[t] \in {"constructing", "stuck"}
      BY <1>0, <1>6 DEF LoadScanned, ClientTyped
    <2> QED BY <1>0, <1>m, <2>1, <2>2 DEF MovesOnly
  <1>7. CASE Constructed(t)
    <2>1. instance = "constructing" /\ builder = t /\ instance' = "ready" /\ pc'[t] = "called"
      BY <1>0, <1>7 DEF Constructed, ClientTyped
    <2>2. \A s \in Threads \ {t} : pc[s] \in {"idle", "entering"}
      BY <1>0, <2>1
    <2> QED BY <1>m, <2>1, <2>2 DEF MovesOnly
  <1>8. ASSUME pc[t] \in {"called", "opened", "chosen"} PROVE StageInv'
    <2>1. instance \notin {"none", "constructing"}
      BY <1>0, <1>8
    <2>2. instance' \in {instance, "terminated", "destroyed"}
      BY <1>8 DEF NdsStep, Enter, Pass, Begin, LoadSystem, ListDrivers, LoadScanned, Constructed,
         RegisterDriver, OpenDriver, RegisterLoaded, RegisterControlSystem, GetControlSystem,
         Drop, Choose, Allocate, Deallocate, Exit, processVars
    <2>3. \A s \in Threads : pc[s] \notin {"constructing", "stuck"}
      BY <1>0, <2>1
    <2>4. pc'[t] \notin {"constructing", "stuck"}
      BY <1>0, <1>8 DEF NdsStep, Enter, Pass, Begin, LoadSystem, ListDrivers, LoadScanned, Constructed,
         RegisterDriver, OpenDriver, RegisterLoaded, RegisterControlSystem, GetControlSystem,
         Drop, Choose, Allocate, Deallocate, Exit, processVars, ClientTyped
    <2> QED BY <1>m, <2>1, <2>2, <2>3, <2>4 DEF MovesOnly
  <1>9. CASE Drop(t)
    <2>1. instance \notin {"none", "constructing"} /\ UNCHANGED <<processVars, pc, call, device>>
      BY <1>0, <1>9 DEF Drop
    <2> QED BY <1>0, <2>1 DEF processVars
  <1>10. CASE Exit(t)
    BY <1>0, <1>10 DEF Exit
  <1> QED BY <1>1, <1>2, <1>3, <1>4, <1>5, <1>6, <1>7, <1>8, <1>9, <1>10
         DEF NdsStep, RegisterDriver, OpenDriver, RegisterLoaded, RegisterControlSystem,
             GetControlSystem, Choose, Allocate, Deallocate, Doing

\* A device that is being made is of one thread, until that has made it.
LEMMA PlaceKept ==
  ASSUME NdsFactoryAssumption, NEW t \in Threads, IInv, NdsStep(t)
  PROVE  PlaceInv'
  <1>0. ClientTyped /\ DeviceTyped /\ PlaceInv
    BY DEF IInv
  <1>m. MovesOnly(t)
    BY <1>0, OwnMove
  <1>p. \A s \in Threads : pc[s] = "chosen" =>
          call[s].device \in Devices /\ device[call[s].device].state = "chosen"
    BY <1>0 DEF ClientTyped, PlaceInv, NdsFactoryAssumption
  <1> DEFINE Others == \A s \in Threads \ {t} : pc[s] = "chosen" =>
                         device'[call[s].device].state = "chosen"
             Mine == /\ pc'[t] = "opened" => call'[t].op = "load"
                     /\ pc'[t] # "idle" /\ call'[t].op = "create" => handle'[t] # None
                     /\ pc'[t] = "chosen" =>
                          /\ call'[t].op = "create" /\ device'[call'[t].device].state = "chosen"
                          /\ \A s \in Threads \ {t} : pc[s] = "chosen" =>
                               call[s].device # call'[t].device
  <1>a. ASSUME Others, Mine PROVE PlaceInv'
    <2> SUFFICES ASSUME NEW s \in Threads
                 PROVE  /\ pc'[s] = "opened" => call'[s].op = "load"
                        /\ pc'[s] # "idle" /\ call'[s].op = "create" => handle'[s] # None
                        /\ pc'[s] = "chosen" =>
                             /\ call'[s].op = "create" /\ device'[call'[s].device].state = "chosen"
                             /\ \A u \in Threads \ {s} : pc'[u] = "chosen" =>
                                  call'[u].device # call'[s].device
      BY DEF PlaceInv
    <2>m. \A u \in Threads \ {t} : pc'[u] = pc[u] /\ call'[u] = call[u] /\ handle'[u] = handle[u]
      BY <1>m DEF MovesOnly
    <2>1. CASE s = t
      <3>1. ASSUME pc'[t] = "chosen", NEW u \in Threads \ {t}, pc'[u] = "chosen"
            PROVE  call'[u].device # call'[t].device
        BY <1>a, <2>m, <3>1
      <3>2. pc'[t] = "chosen" => call'[t].op = "create" /\ device'[call'[t].device].state = "chosen"
        BY <1>a
      <3>3. /\ pc'[t] = "opened" => call'[t].op = "load"
            /\ pc'[t] # "idle" /\ call'[t].op = "create" => handle'[t] # None
        BY <1>a
      <3> QED BY <2>1, <3>1, <3>2, <3>3
    <2>2. CASE s # t
      <3>1. pc'[s] = pc[s] /\ call'[s] = call[s] /\ handle'[s] = handle[s]
        BY <2>m, <2>2
      <3>2. /\ pc[s] = "opened" => call[s].op = "load"
            /\ pc[s] # "idle" /\ call[s].op = "create" => handle[s] # None
            /\ pc[s] = "chosen" =>
                 /\ call[s].op = "create"
                 /\ \A u \in Threads \ {s} : pc[u] = "chosen" => call[u].device # call[s].device
        BY <1>0 DEF PlaceInv
      <3>3. pc[s] = "chosen" => device'[call[s].device].state = "chosen"
        BY <1>a, <2>2
      <3>4. ASSUME pc[s] = "chosen", NEW u \in Threads \ {s}, pc'[u] = "chosen"
            PROVE  call'[u].device # call[s].device
        <4>1. CASE u = t
          BY <1>a, <2>2, <3>4, <4>1
        <4>2. CASE u # t
          BY <2>m, <3>2, <3>4, <4>2
        <4> QED BY <4>1, <4>2
      <3> QED BY <3>1, <3>2, <3>3, <3>4
    <2> QED BY <2>1, <2>2
  <1>1. Others
    <2>1. CASE UNCHANGED device
      BY <1>p, <2>1
    <2>2. CASE Choose(t) /\ device' # device
      <3> DEFINE d == call[t].device
      <3>1. device[d].state = "absent" /\ \A e \in Devices \ {d} : device'[e] = device[e]
        BY <2>2, ChooseFacts, KeptFacts
      <3> HIDE DEF d
      <3> QED BY <1>p, <3>1
    <2>3. CASE Allocate(t)
      <3> DEFINE d == call[t].device
      <3>1. \A e \in Devices \ {d} : device'[e] = device[e]
        BY <2>3, AllocateFacts
      <3>2. \A s \in Threads \ {t} : pc[s] = "chosen" => call[s].device # d
        BY <1>0, <2>3 DEF Allocate, PlaceInv
      <3> HIDE DEF d
      <3> QED BY <1>p, <3>1, <3>2
    <2>4. CASE Deallocate(t)
      <3>1. DOMAIN device = Devices
        BY <1>0 DEF DeviceTyped
      <3>2. \A e \in Devices : device[e].state = "chosen" => device'[e] = device[e]
        BY <2>4, <3>1 DEF Deallocate, Made
      <3> QED BY <1>p, <3>2
    <2>5. CASE Exit(t)
      BY <2>5 DEF Exit
    <2> QED BY <2>1, <2>2, <2>3, <2>4, <2>5, DeviceSteps
  <1>2. Mine
    <2> USE DEF Goto, Return
    <2>t. /\ DOMAIN pc = Threads /\ DOMAIN call = Threads /\ DOMAIN handle = Threads
          /\ pc[t] = "opened" => call[t].op = "load"
          /\ pc[t] # "idle" /\ call[t].op = "create" => handle[t] # None
          /\ pc[t] = "chosen" =>
               /\ call[t].op = "create" /\ device[call[t].device].state = "chosen"
               /\ \A s \in Threads \ {t} : pc[s] = "chosen" => call[s].device # call[t].device
      BY <1>0 DEF ClientTyped, PlaceInv
    <2>1. ASSUME NEW c \in Calls, Enter(t, c) PROVE Mine
      BY <2>t, <2>1 DEF Enter
    <2>2. CASE Pass(t)
      BY <2>t, <2>2 DEF Pass
    <2>3. CASE Begin(t)
      BY <2>t, <2>3 DEF Begin, Throw
    <2>4. CASE LoadSystem(t)
      BY <2>t, <2>4 DEF LoadSystem, clientVars
    <2>5. CASE ListDrivers(t)
      BY <2>t, <2>5 DEF ListDrivers, Throw
    <2>6. CASE LoadScanned(t)
      BY <2>t, <2>6 DEF LoadScanned
    <2>7. CASE Constructed(t)
      BY <2>t, <2>7 DEF Constructed
    <2>8. CASE OpenDriver(t)
      BY <2>t, <2>8 DEF OpenDriver, Doing
    <2>9. CASE RegisterDriver(t) \/ RegisterLoaded(t) \/ RegisterControlSystem(t) \/ Allocate(t) \/ Deallocate(t)
      BY <2>t, <2>9 DEF RegisterDriver, RegisterLoaded, RegisterControlSystem, Allocate, Deallocate
    <2>10. CASE GetControlSystem(t)
      BY <2>t, <2>10 DEF GetControlSystem, Doing
    <2>11. CASE Drop(t)
      BY <2>t, <2>11 DEF Drop
    <2>12. CASE Choose(t)
      <3>1. CASE device' # device
        <4> DEFINE d == call[t].device
        <4>1. device[d] = NoDevice /\ device'[d].state = "chosen" /\ call' = call
              /\ pc'[t] = "chosen"
          BY <2>12, <3>1, ChooseFacts
        <4>2. \A s \in Threads \ {t} : pc[s] = "chosen" => call[s].device # d
          BY <1>p, <4>1, KeptFacts
        <4>3. pc[t] = "called" /\ call[t].op = "create" /\ handle' = handle
          BY <2>12 DEF Choose, Doing
        <4> HIDE DEF d
        <4> QED BY <2>t, <4>1, <4>2, <4>3 DEF d
      <3>2. CASE device' = device
        <4>1. pc'[t] = "idle"
          <5>1. CASE call[t].driver \in DOMAIN drivers /\ device[call[t].device] = NoDevice
            <6> DEFINE d == call[t].device
                       r == [state |-> "chosen", system |-> handle[t],
                             alloc |-> drivers[call[t].driver], dealloc |-> drivers[call[t].driver]]
            <6>1. call[t] \in Calls /\ call[t].op = "create"
              BY <1>0, <2>12 DEF Choose, Doing, ClientTyped
            <6>2. d \in DOMAIN device
              BY <1>0, <6>1 DEF NdsFactoryAssumption, DeviceTyped
            <6>3. device' = [device EXCEPT ![d] = r]
              BY <2>12, <5>1 DEF Choose
            <6>4. device'[d] = r
              BY <6>2, <6>3
            <6>5. r # NoDevice
              BY DEF NoDevice
            <6> QED BY <3>2, <5>1, <6>4, <6>5
          <5>2. CASE ~ (call[t].driver \in DOMAIN drivers /\ device[call[t].device] = NoDevice)
            BY <2>t, <2>12, <5>2 DEF Choose
          <5> QED BY <5>1, <5>2
        <4> QED BY <4>1
      <3> QED BY <3>1, <3>2
    <2>13. CASE Exit(t)
      BY <2>t, <2>13 DEF Exit
    <2> QED BY <2>1, <2>2, <2>3, <2>4, <2>5, <2>6, <2>7, <2>8, <2>9, <2>10, <2>11, <2>12, <2>13
           DEF NdsStep
  <1> QED BY <1>a, <1>1, <1>2

\* All of it together, from the start on and by every step.
LEMMA ProcessInit == Init => IInv
  <1> SUFFICES ASSUME Init PROVE IInv
    OBVIOUS
  <1>1. InitNds
    BY DEF Init
  <1>2. ProcessTyped
    BY <1>1, EmptyMap, EmptySeq DEF InitNds, ProcessTyped
  <1>3. ClientTyped /\ StageInv /\ PlaceInv
    BY <1>1 DEF InitNds, ClientTyped, StageInv, PlaceInv, Labels
  <1>4. DeviceTyped
    BY <1>1 DEF InitNds, DeviceTyped
  <1> QED BY <1>2, <1>3, <1>4 DEF IInv

\* ...
LEMMA ProcessKept == IInv /\ [Next]_vars => IInv'
  <1> SUFFICES ASSUME IInv, [Next]_vars PROVE IInv'
    OBVIOUS
  <1>0. NdsFactoryAssumption
    BY NdsFactoryAssumption
  <1>1. CASE MakeFolder
    <2>1. disk' \subseteq DOMAIN Folders
      BY <1>0, <1>1 DEF NdsFactoryAssumption, MakeFolder, IInv, ProcessTyped
    <2>2. UNCHANGED <<instance, builder, stage, todo, opened, drivers, systems, pc, call, handle, device>>
      BY <1>1 DEF MakeFolder, clientVars
    <2>3. ProcessTyped' /\ ClientTyped' /\ DeviceTyped'
      BY <2>1, <2>2 DEF IInv, ProcessTyped, ClientTyped, DeviceTyped, Kept
    <2>4. StageInv' /\ PlaceInv'
      BY <2>2 DEF IInv, StageInv, PlaceInv
    <2> QED BY <2>3, <2>4 DEF IInv
  <1>2. ASSUME ~Ended, NEW t \in Threads, NdsStep(t) PROVE IInv'
    <2>1. ProcessTyped' /\ ClientTyped' /\ DeviceTyped'
      BY <1>0, <1>2, ProcessTypedKept, ClientTypedKept, DeviceTypedKept
    <2>2. StageInv' /\ PlaceInv'
      BY <1>0, <1>2, StageKept, PlaceKept
    <2> QED BY <2>1, <2>2 DEF IInv
  <1>3. CASE UNCHANGED ndsVars
    BY <1>3 DEF ndsVars, processVars, clientVars, IInv, ProcessTyped, ClientTyped, DeviceTyped,
                StageInv, PlaceInv, Kept
  <1> QED BY <1>1, <1>2, <1>3, FactorySteps

\* OwnDeallocator: a device is deallocated by the driver that allocated it,
\* whatever is registered under that driver's name in the meantime.
THEOREM DevicesKeepTheirDriver == Spec => []OwnDeallocator
  <1>1. IInv => OwnDeallocator
    <2> SUFFICES ASSUME IInv, NEW d \in Devices, Made(d) PROVE device[d].dealloc = device[d].alloc
      BY DEF OwnDeallocator
    <2>1. device[d] = NoDevice \/ Kept(device[d])
      BY DEF IInv, DeviceTyped
    <2> QED BY <2>1, KeptFacts DEF Made
  <1> QED BY <1>1, ProcessInit, ProcessKept, PTL DEF Spec

-----------------------------------------------------------------------------
(* Control systems and their devices                                        *)

\* Clients register control systems under names of their own: not those of modules,
\* and each once.  (The code lets them do otherwise; the one that is replaced then
\* takes its devices' components' factory with it: README, "Divergences".)
OwnNames ==
  /\ ~Replaces
  /\ \A c \in Calls : c.op = "register system" =>
       /\ \A f \in Files : c.name # About[f].system
       /\ \A b \in Calls : b.op = "register system" /\ b.name = c.name => b = c

NamesInv ==
  \A t \in Threads : pc[t] # "idle" /\ call[t].op = "register system" =>
    /\ call[t].name \notin DOMAIN systems
    /\ \A s \in Threads \ {t} : pc[s] # "idle" => call[s] # call[t]

\* Once the object is there, what clients and devices refer to stays in its map.
ReferInv ==
  /\ \A t \in Threads : handle[t] # None => handle[t] \in Range(systems)
  /\ \A d \in Devices : device[d] # NoDevice => device[d].system \in Range(systems)

SInv == IInv /\ NamesInv /\ ReferInv

\* How a step changes the map of control systems.
LEMMA SystemSteps ==
  ASSUME NEW t \in Threads, NdsStep(t), IInv
  PROVE  \/ UNCHANGED systems
         \/ Exit(t)
         \/ RegisterControlSystem(t)
         \/ /\ instance \in {"none", "constructing"} /\ UNCHANGED <<handle, device>>
            /\ pc'[t] = "idle" \/ call' = call
            /\ \/ systems' = <<>>
               \/ \E f \in Files, s \in Systems : systems' = Put(systems, About[f].system, s) /\ pc[t] = "constructing"
  <1>0. ClientTyped /\ ProcessTyped
    BY DEF IInv
  <1>1. CASE Begin(t)
    BY <1>0, <1>1 DEF Begin, Throw, Goto, ClientTyped
  <1>2. CASE ListDrivers(t)
    <2>1. instance = "constructing"
      BY <1>2 DEF ListDrivers, IInv, StageInv
    <2> QED BY <1>0, <1>2, <2>1 DEF ListDrivers, Throw, Goto, ClientTyped
  <1>3. CASE LoadSystem(t)
    <2>1. instance = "constructing" /\ pc[t] = "constructing" /\ UNCHANGED <<handle, device, call>>
      BY <1>3 DEF LoadSystem, IInv, StageInv, clientVars
    <2>2. CASE UNCHANGED systems
      BY <2>2
    <2>3. CASE ~ UNCHANGED systems
      <3>1. Head(todo) \in Files
        BY <1>0, <1>3, HeadTailProperties DEF LoadSystem, ProcessTyped
      <3> DEFINE f == Exporting(Head(todo), "system")
      <3>2. f \in Files
        BY <1>0, <3>1, ExportingFacts
      <3>3. \E s \in Systems : systems' = Put(systems, About[f].system, s)
        BY <1>3, <2>3 DEF LoadSystem
      <3> HIDE DEF f
      <3> QED BY <2>1, <3>2, <3>3
    <2> QED BY <2>2, <2>3
  <1> QED BY <1>1, <1>2, <1>3
         DEF NdsStep, Enter, Pass, LoadScanned, Constructed, RegisterDriver, OpenDriver, RegisterLoaded,
             GetControlSystem, Drop, Choose, Allocate, Deallocate, processVars

\* A step that leaves the map alone leaves a pending registration its name.
LEMMA NamesKept ==
  ASSUME OwnNames, NEW t \in Threads, SInv, NdsStep(t)
  PROVE  NamesInv'
  <1>0. ClientTyped /\ NamesInv /\ StageInv
    BY DEF SInv, IInv
  <1>c. ClientTyped'
    BY ClientTypedKept DEF SInv
  <1>m. \A s \in Threads \ {t} : pc'[s] = pc[s] /\ call'[s] = call[s]
    BY <1>0, OwnMove DEF MovesOnly
  <1>n. ASSUME NEW c \in Calls, NEW f \in Files, c.op = "register system" PROVE c.name # About[f].system
    BY <1>n DEF OwnNames
  <1> DEFINE Pending(s) == pc[s] # "idle" /\ call[s].op = "register system"
             New(s) == pc'[s] # "idle" /\ call'[s].op = "register system"
             Apart(s) == \A u \in Threads \ {s} : pc'[u] # "idle" => call'[u] # call'[s]
  <1>1. ASSUME NEW c \in Calls, Enter(t, c) PROVE NamesInv'
    <2>1. /\ pc'[t] # "idle" /\ call'[t] = c /\ systems' = systems
          /\ c.op = "register system" => c.name \notin DOMAIN systems /\ \A s \in Threads : call[s] # c
      BY <1>0, <1>1 DEF Enter, OwnNames, Goto, ClientTyped, processVars
    <2>2. ASSUME NEW s \in Threads, New(s) PROVE call'[s].name \notin DOMAIN systems' /\ Apart(s)
      <3>1. CASE s = t
        BY <1>m, <2>1, <2>2, <3>1
      <3>2. CASE s # t
        <4>1. Pending(s) /\ call'[s] = call[s]
          BY <1>m, <2>2, <3>2
        <4>2. \A u \in Threads \ {s} : pc[u] # "idle" => call[u] # call[s]
          BY <1>0, <4>1 DEF NamesInv
        <4>3. call'[t] # call[s]
          BY <2>1, <4>1
        <4>4. ASSUME NEW u \in Threads \ {s}, pc'[u] # "idle" PROVE call'[u] # call'[s]
          BY <1>m, <4>1, <4>2, <4>3, <4>4
        <4>5. call'[s].name \notin DOMAIN systems'
          BY <1>0, <2>1, <4>1 DEF NamesInv
        <4> QED BY <4>4, <4>5
      <3> QED BY <3>1, <3>2
    <2> QED BY <2>2 DEF NamesInv
  <1>2. ASSUME \A c \in Calls : ~ Enter(t, c) PROVE NamesInv'
    <2>1. pc'[t] = "idle" \/ (call'[t] = call[t] /\ (pc[t] # "idle"  \/ pc'[t] = pc[t]))
      BY <1>0, <1>2 DEF NdsStep, Pass, Begin, LoadSystem, ListDrivers, LoadScanned, Constructed, RegisterDriver,
         OpenDriver, RegisterLoaded, RegisterControlSystem, GetControlSystem, Drop, Choose, Allocate,
         Deallocate, Exit, Throw, Doing, Goto, Return, ClientTyped, clientVars, processVars
    <2>2. ASSUME NEW s \in Threads, New(s) PROVE Pending(s) /\ call'[s] = call[s] /\ Apart(s)
      <3>1. Pending(s) /\ call'[s] = call[s]
        BY <1>m, <2>1, <2>2
      <3>2. \A u \in Threads \ {s} : pc[u] # "idle" => call[u] # call[s]
        BY <1>0, <3>1 DEF NamesInv
      <3>3. ASSUME NEW u \in Threads \ {s}, pc'[u] # "idle" PROVE pc[u] # "idle" /\ call'[u] = call[u]
        BY <1>m, <2>1, <3>3
      <3> QED BY <3>1, <3>2, <3>3
    <2>3. ASSUME NEW s \in Threads, New(s) PROVE call'[s].name \notin DOMAIN systems'
      <3>1. Pending(s) /\ call'[s] = call[s] /\ call[s].name \notin DOMAIN systems
        BY <1>0, <2>2, <2>3 DEF NamesInv
      <3>c. call[s] \in Calls
        BY <1>0, <3>1 DEF ClientTyped
      <3>2. CASE UNCHANGED systems
        BY <3>1, <3>2
      <3>3. CASE Exit(t) \/ systems' = <<>>
        BY <3>3, EmptyMap DEF Exit
      <3>4. CASE RegisterControlSystem(t)
        <4>1. /\ pc[t] = "called" /\ call[t].op = "register system" /\ pc'[t] = "idle"
              /\ \E v \in Systems : systems' = Put(systems, call[t].name, v)
          BY <1>0, <3>4 DEF RegisterControlSystem, Doing, Return, Goto, ClientTyped
        <4>2. s # t /\ call[s] # call[t] /\ call[t] \in Calls
          BY <1>0, <2>3, <3>1, <4>1 DEF NamesInv, ClientTyped
        <4>3. call[s].name # call[t].name
          BY <3>1, <3>c, <4>1, <4>2 DEF OwnNames
        <4>4. DOMAIN systems' = DOMAIN systems \cup {call[t].name}
          BY <4>1 DEF Put
        <4> QED BY <3>1, <4>3, <4>4
      <3>5. CASE \E f \in Files, v \in Systems : systems' = Put(systems, About[f].system, v)
        <4>1. PICK f \in Files, v \in Systems : systems' = Put(systems, About[f].system, v)
          BY <3>5
        <4>2. DOMAIN systems' = DOMAIN systems \cup {About[f].system}
          BY <4>1 DEF Put
        <4>3. call[s].name # About[f].system
          BY <1>n, <3>1, <3>c
        <4> QED BY <3>1, <4>2, <4>3
      <3> QED BY <3>2, <3>3, <3>4, <3>5, SystemSteps DEF SInv
    <2> QED BY <2>2, <2>3 DEF NamesInv
  <1> QED BY <1>1, <1>2

\* Nothing that is referred to leaves the map.
LEMMA ReferKept ==
  ASSUME NdsFactoryAssumption, OwnNames, NEW t \in Threads, SInv, NdsStep(t)
  PROVE  ReferInv'
  <1>0. ClientTyped /\ DeviceTyped /\ StageInv /\ NamesInv /\ ReferInv /\ IInv
    BY DEF SInv, IInv
  <1>1. CASE Exit(t)
    <2>1. handle' = [s \in Threads |-> None]
      BY <1>1 DEF Exit
    <2>2. \A d \in Devices : device'[d] = NoDevice
      <3>1. \A d \in Devices : device'[d] = IF device[d].system \in Range(systems) THEN NoDevice ELSE device[d]
        BY <1>1 DEF Exit
      <3> QED BY <1>0, <3>1 DEF ReferInv
    <2> QED BY <2>1, <2>2 DEF ReferInv
  <1>2. CASE instance \in {"none", "constructing"} /\ UNCHANGED <<handle, device>>
    BY <1>0, <1>2 DEF StageInv, ReferInv
  <1>3. CASE RegisterControlSystem(t)
    <2>1. /\ call[t].name \notin DOMAIN systems /\ UNCHANGED <<handle, device>>
          /\ \E v \in Systems : systems' = Put(systems, call[t].name, v)
      BY <1>0, <1>3 DEF RegisterControlSystem, Doing, NamesInv
    <2>2. Range(systems) \subseteq Range(systems')
      BY <2>1, PutRange
    <2> QED BY <1>0, <2>1, <2>2 DEF ReferInv
  <1>4. CASE UNCHANGED systems /\ ~ Exit(t)
    <2>1. \A s \in Threads : handle'[s] # None => handle'[s] \in Range(systems)
      <3>m. \A s \in Threads \ {t} : handle'[s] = handle[s]
        BY <1>0, OwnMove DEF MovesOnly
      <3>1. handle'[t] \in {handle[t], None} \cup Range(systems)
        BY <1>0, <1>4 DEF NdsStep, Enter, Pass, Begin, LoadSystem, ListDrivers, LoadScanned, Constructed,
           RegisterDriver, OpenDriver, RegisterLoaded, RegisterControlSystem, GetControlSystem, Drop,
           Choose, Allocate, Deallocate, ClientTyped, clientVars, Range
      <3> QED BY <1>0, <3>m, <3>1 DEF ReferInv
    <2>2. \A d \in Devices : device'[d] # NoDevice => device'[d].system \in Range(systems)
      <3>1. CASE UNCHANGED device
        BY <1>0, <3>1 DEF ReferInv
      <3>2. CASE Choose(t) /\ device' # device
        <4> DEFINE d == call[t].device
        <4>1. /\ handle[t] \in Systems /\ device'[d].system = handle[t]
              /\ \A e \in Devices \ {d} : device'[e] = device[e]
          BY <1>0, <3>2, ChooseFacts
        <4>2. handle[t] \in Range(systems)
          BY <1>0, <4>1 DEF ReferInv, NdsFactoryAssumption
        <4> HIDE DEF d
        <4> QED BY <1>0, <4>1, <4>2 DEF ReferInv
      <3>3. CASE Allocate(t)
        <4> DEFINE d == call[t].device
        <4>1. /\ d \in Devices /\ Kept(device[d]) /\ device'[d].system = device[d].system
              /\ \A e \in Devices \ {d} : device'[e] = device[e]
          BY <1>0, <3>3, AllocateFacts
        <4>2. device[d].system \in Range(systems)
          BY <1>0, <4>1, KeptFacts DEF ReferInv
        <4> HIDE DEF d
        <4> QED BY <1>0, <4>1, <4>2 DEF ReferInv
      <3>4. CASE Deallocate(t)
        <4>1. \A d \in Devices : device'[d] = device[d] \/ device'[d] = NoDevice
          BY <1>0, <3>4 DEF Deallocate, DeviceTyped
        <4> QED BY <1>0, <4>1 DEF ReferInv
      <3> QED BY <1>4, <3>1, <3>2, <3>3, <3>4, DeviceSteps
    <2> QED BY <1>4, <2>1, <2>2 DEF ReferInv
  <1> QED BY <1>0, <1>1, <1>2, <1>3, <1>4, SystemSteps

\* SystemsOutliveDevices: as long as clients register control systems under names
\* of their own, no device is left of a control system that was deleted.
THEOREM SystemsLiveOn == OwnNames => (Spec => []SystemsOutliveDevices)
  <1> SUFFICES ASSUME OwnNames PROVE Spec => []SystemsOutliveDevices
    OBVIOUS
  <1>0. NdsFactoryAssumption
    BY NdsFactoryAssumption
  <1>1. Init => SInv
    <2> SUFFICES ASSUME Init PROVE SInv
      OBVIOUS
    <2>1. NamesInv /\ ReferInv
      BY DEF Init, InitNds, NamesInv, ReferInv
    <2> QED BY <2>1, ProcessInit DEF SInv
  <1>2. SInv /\ [Next]_vars => SInv'
    <2> SUFFICES ASSUME SInv, [Next]_vars PROVE SInv'
      OBVIOUS
    <2>i. IInv'
      BY ProcessKept DEF SInv
    <2>1. CASE MakeFolder
      BY <2>i, <2>1 DEF MakeFolder, clientVars, SInv, NamesInv, ReferInv
    <2>2. ASSUME NEW t \in Threads, NdsStep(t) PROVE SInv'
      BY <1>0, <2>i, <2>2, NamesKept, ReferKept DEF SInv
    <2>3. CASE UNCHANGED ndsVars
      BY <2>i, <2>3 DEF ndsVars, processVars, clientVars, SInv, NamesInv, ReferInv
    <2> QED BY <2>1, <2>2, <2>3, FactorySteps
  <1>3. SInv => SystemsOutliveDevices
    <2> SUFFICES ASSUME SInv, NEW d \in Devices, Made(d) PROVE device[d].system \in Alive
      BY DEF SystemsOutliveDevices
    <2>1. device[d] # NoDevice
      BY KeptFacts DEF Made
    <2>2. device[d].system \in Range(systems) /\ Range(systems) \subseteq Systems
      BY <2>1 DEF SInv, ReferInv, IInv, ProcessTyped
    <2> QED BY <1>0, <2>2 DEF Alive, NdsFactoryAssumption
  <1> QED BY <1>1, <1>2, <1>3, PTL DEF Spec

-----------------------------------------------------------------------------
(* Log streams                                                              *)

\* A key holds the stream of its getter, level and thread, or none; what a thread
\* writes to is the stream it asked for, its own, and not deleted.
SlotTyped ==
  slot = [g \in Systems |-> [l \in Levels |-> [t \in Threads |-> slot[g][l][t]]]]

SlotInv ==
  \A g \in Systems, l \in Levels, t \in Threads : slot[g][l][t] \in {NoStream, Stream(g, l, t)}

WriteInv ==
  /\ DOMAIN writing = Threads
  /\ \A t \in Threads : writing[t] # Quiet =>
       /\ writing[t].got = writing[t].wanted /\ writing[t].got \in streams
       /\ writing[t].got # NoStream /\ writing[t].got.thread = t

LInv == IInv /\ SlotTyped /\ SlotInv /\ WriteInv

\* A stream is one of a thread.
LEMMA StreamFacts ==
  ASSUME NEW g \in Systems, NEW l \in Levels, NEW t \in Threads
  PROVE  Stream(g, l, t) # NoStream /\ Stream(g, l, t).thread = t
  BY ProcessAssumption DEF Stream, ProcessAssumption

\* A thread that is not writing may delete streams of its own.
LEMMA DeletesOwn ==
  ASSUME NEW t \in Threads, SlotInv, WriteInv, writing[t] = Quiet, UNCHANGED writing,
         NEW gone, gone \subseteq Systems,
         streams' = streams \ { slot[g][l][t] : g \in gone, l \in Levels }
  PROVE  WriteInv'
  <1> SUFFICES ASSUME NEW s \in Threads, writing[s] # Quiet PROVE writing[s].got \in streams'
    BY DEF WriteInv, Quiet
  <1>1. s # t /\ writing[s].got \in streams /\ writing[s].got # NoStream /\ writing[s].got.thread = s
    BY DEF WriteInv
  <1>2. ASSUME NEW g \in gone, NEW l \in Levels PROVE slot[g][l][t] # writing[s].got
    <2>1. slot[g][l][t] = NoStream \/ slot[g][l][t].thread = t
      BY StreamFacts DEF SlotInv
    <2> QED BY <1>1, <2>1
  <1> QED BY <1>1, <1>2

\* The streams stay in order.
LEMMA StreamsKept == LInv /\ [Next]_vars => LInv'
  <1> SUFFICES ASSUME LInv, [Next]_vars PROVE LInv'
    OBVIOUS
  <1>i. IInv'
    BY ProcessKept DEF LInv
  <1>0. SlotTyped /\ SlotInv /\ WriteInv
    BY DEF LInv
  <1>1. CASE UNCHANGED <<slot, streams, writing>>
    BY <1>0, <1>i, <1>1 DEF LInv, SlotTyped, SlotInv, WriteInv, Quiet
  <1>2. ASSUME NEW t \in Threads, Client(t) PROVE LInv'
    <2> DEFINE gone == Alive \ Alive'
    <2>1. gone \subseteq Systems
      BY DEF Alive, LInv, IInv, ProcessTyped, ClientTyped, Range
    <2>2. DestroyGetters(t, gone) /\ writing[t] = Quiet
      BY <1>2 DEF Client
    <2> HIDE DEF gone
    <2>3. WriteInv'
      <3>1. /\ streams' = streams \ { slot[g][l][t] : g \in gone, l \in Levels }
            /\ UNCHANGED writing
        BY <2>2 DEF DestroyGetters
      <3> QED BY <1>0, <2>1, <2>2, <3>1, DeletesOwn
    <2>4. slot' = [g \in Systems |-> IF g \in gone THEN [l \in Levels |-> [s \in Threads |-> NoStream]]
                                     ELSE slot[g]]
      BY <2>2 DEF DestroyGetters
    <2>5. \A g \in Systems : slot'[g] = IF g \in gone THEN [l \in Levels |-> [s \in Threads |-> NoStream]]
                                        ELSE slot[g]
      BY <2>4
    <2>6. \A g \in Systems : slot[g] = [l \in Levels |-> [s \in Threads |-> slot[g][l][s]]]
      BY <1>0 DEF SlotTyped
    <2>7. ASSUME NEW g \in Systems
          PROVE  slot'[g] = [l \in Levels |-> [s \in Threads |-> slot'[g][l][s]]]
      <3>1. CASE g \in gone
        <4> DEFINE none == [l \in Levels |-> [s \in Threads |-> NoStream]]
        <4>1. slot'[g] = none
          BY <2>5, <3>1
        <4>2. none = [l \in Levels |-> [s \in Threads |-> none[l][s]]]
          OBVIOUS
        <4> HIDE DEF none
        <4> QED BY <4>1, <4>2
      <3>2. CASE g \notin gone
        <4>1. slot'[g] = slot[g]
          BY <2>5, <3>2
        <4> QED BY <2>6, <4>1
      <3> QED BY <3>1, <3>2
    <2>8. SlotTyped'
      <3>1. DOMAIN slot' = Systems /\ slot' = [g \in Systems |-> slot'[g]]
        BY <2>4
      <3> QED BY <2>7, <3>1 DEF SlotTyped
    <2>9. SlotInv'
      BY <1>0, <2>5 DEF SlotInv, Stream
    <2> QED BY <1>i, <2>3, <2>8, <2>9 DEF LInv
  <1>3. ASSUME NEW t \in Threads, NEW d \in Devices, NEW l \in Levels, Log(t, d, l) PROVE LInv'
    <2> DEFINE g == device[d].system
               have == slot[g][l][t]
               got == IF have = NoStream THEN Stream(g, l, t) ELSE have
    <2>1. g \in Systems
      <3>1. device[d] = NoDevice \/ Kept(device[d])
        BY DEF LInv, IInv, DeviceTyped
      <3> QED BY <1>3, <3>1, KeptFacts DEF Log, Made, Kept
    <2>2. /\ slot' = [slot EXCEPT ![g][l][t] = got] /\ streams' = streams \cup {got}
          /\ writing' = [writing EXCEPT ![t] = [wanted |-> Stream(g, l, t), got |-> got]]
      BY <1>3 DEF Log, GetLogger, GetLogStream
    <2> HIDE DEF g
    <2>3. have \in {NoStream, Stream(g, l, t)}
      BY <1>0, <2>1 DEF SlotInv
    <2>4. got = Stream(g, l, t)
      BY <2>3
    <2> HIDE DEF got
    <2>5. WriteInv'
      BY <1>0, <2>1, <2>2, <2>4, StreamFacts DEF WriteInv, Quiet
    <2>6. \A h \in Systems, k \in Levels, s \in Threads :
            slot'[h][k][s] = IF h = g /\ k = l /\ s = t THEN got ELSE slot[h][k][s]
      BY <1>0, <2>1, <2>2 DEF SlotTyped
    <2>7. SlotTyped'
      <3>1. slot' = [h \in Systems |-> slot'[h]] /\ DOMAIN slot = Systems
        BY <1>0, <2>2 DEF SlotTyped
      <3>2. \A h \in Systems, k \in Levels : slot[h] = [m \in Levels |-> slot[h][m]]
                                           /\ slot[h][k] = [s \in Threads |-> slot[h][k][s]]
        BY <1>0 DEF SlotTyped
      <3>3. \A h \in Systems : slot'[h] = IF h = g THEN [slot[g] EXCEPT ![l][t] = got] ELSE slot[h]
        BY <2>2, <3>1
      <3>4. \A h \in Systems : slot'[h] = [k \in Levels |-> slot'[h][k]]
        BY <2>1, <3>2, <3>3
      <3>5. ASSUME NEW h \in Systems, NEW k \in Levels
            PROVE  slot'[h][k] = IF h = g /\ k = l THEN [slot[g][l] EXCEPT ![t] = got] ELSE slot[h][k]
        <4>1. CASE h = g
          <5>1. DOMAIN slot[g] = Levels /\ slot'[h] = [slot[g] EXCEPT ![l][t] = got]
            BY <2>1, <3>2, <3>3, <4>1
          <5> QED BY <4>1, <5>1
        <4>2. CASE h # g
          BY <3>3, <4>2
        <4> QED BY <4>1, <4>2
      <3>6. ASSUME NEW h \in Systems, NEW k \in Levels
            PROVE  slot'[h][k] = [s \in Threads |-> slot'[h][k][s]]
        <4>1. CASE h = g /\ k = l
          <5> DEFINE old == slot[g][l]
          <5>1. old = [s \in Threads |-> old[s]]
            BY <2>1, <3>2
          <5>2. slot'[h][k] = [old EXCEPT ![t] = got]
            BY <3>5, <4>1
          <5> HIDE DEF old
          <5> QED BY <5>1, <5>2
        <4>2. CASE ~ (h = g /\ k = l)
          <5>1. slot'[h][k] = slot[h][k]
            BY <3>5, <4>2
          <5> QED BY <3>2, <5>1
        <4> QED BY <4>1, <4>2
      <3> QED BY <3>1, <3>4, <3>6 DEF SlotTyped
    <2>8. SlotInv'
      BY <1>0, <2>4, <2>6 DEF SlotInv, Stream
    <2> QED BY <1>i, <2>5, <2>7, <2>8 DEF LInv
  <1>4. ASSUME NEW t \in Threads, Written(t) PROVE LInv'
    BY <1>0, <1>i, <1>4 DEF Written, LInv, SlotTyped, SlotInv, WriteInv, Quiet
  <1>5. ASSUME NEW t \in Threads, ThreadEnds(t) PROVE LInv'
    <2>1. WriteInv'
      <3>1. /\ streams' = streams \ { slot[g][l][t] : g \in Systems, l \in Levels }
            /\ UNCHANGED writing /\ writing[t] = Quiet
        BY <1>5 DEF ThreadEnds
      <3> QED BY <1>0, <3>1, DeletesOwn
    <2>2. slot' = [g \in Systems |-> [l \in Levels |-> [slot[g][l] EXCEPT ![t] = NoStream]]]
      BY <1>5 DEF ThreadEnds
    <2>3. \A g \in Systems, l \in Levels : slot[g][l] = [s \in Threads |-> slot[g][l][s]]
      BY <1>0 DEF SlotTyped
    <2>4. \A g \in Systems, l \in Levels, s \in Threads :
            slot'[g][l][s] = IF s = t THEN NoStream ELSE slot[g][l][s]
      BY <2>2, <2>3
    <2>5. \A g \in Systems, l \in Levels : slot'[g][l] = [s \in Threads |-> slot'[g][l][s]]
      BY <2>2, <2>3
    <2>6. SlotTyped'
      <3>1. slot' = [g \in Systems |-> [l \in Levels |-> slot'[g][l]]]
        BY <2>2
      <3> QED BY <2>5, <3>1 DEF SlotTyped
    <2>7. SlotInv'
      BY <1>0, <2>4 DEF SlotInv, Stream
    <2> QED BY <1>i, <2>1, <2>6, <2>7 DEF LInv
  <1> QED BY <1>1, <1>2, <1>3, <1>4, <1>5 DEF Next, vars, SetLogLevel

\* StreamIsOwn: what a thread writes to is its own stream of the getter and level
\* it asked for, and nobody deletes it while the thread writes.
THEOREM StreamsAreOwn == Spec => []StreamIsOwn
  <1>1. Init => LInv
    <2> SUFFICES ASSUME Init PROVE LInv
      OBVIOUS
    <2>1. SlotTyped /\ SlotInv /\ WriteInv
      BY DEF Init, LogInit, SlotTyped, SlotInv, WriteInv
    <2> QED BY <2>1, ProcessInit DEF LInv
  <1>2. LInv => StreamIsOwn
    BY DEF LInv, WriteInv, StreamIsOwn, Quiet
  <1> QED BY <1>1, <1>2, StreamsKept, PTL DEF Spec

-----------------------------------------------------------------------------
(* What the environment declares                                            *)

\* The declared folders that hold modules are among those the variables name.
DeclaredAreRead ==
  \A d \in Declared :
    /\ Folders[d] \cap SystemFiles # {} => d \in ToSet(SystemPath)
    /\ Folders[d] \cap DriverFiles # {} => d \in ToSet(DriverPath)

DeclaredFiles == UNION { Folders[d] : d \in Declared }
SystemsDue == { f \in DeclaredFiles \cap SystemFiles : About[f].opens /\ About[f].system # None }
DriversDue == { f \in DeclaredFiles \cap DriverFiles : About[f].opens /\ About[f].driver # None }

SystemsKnown == \A f \in SystemsDue : About[f].system \in DOMAIN systems
DriversKnown == \A f \in DriversDue : About[f].driver \in DOMAIN drivers

\* What is not known yet is still to be loaded.
KnownInv ==
  /\ instance = "constructing" /\ stage = "systems" =>
       \A f \in SystemsDue : f \in Range(todo) \/ About[f].system \in DOMAIN systems
  /\ instance = "constructing" /\ stage = "drivers" =>
       SystemsKnown /\ \A f \in DriversDue : f \in Range(todo) \/ About[f].driver \in DOMAIN drivers
  /\ instance = "ready" => SystemsKnown /\ DriversKnown

\* A list's first element and the rest.
LEMMA HeadAndRest ==
  ASSUME NEW S, NEW list \in Seq(S), list # <<>>
  PROVE  Range(list) = {Head(list)} \cup Range(Tail(list))
  <1>1. /\ Tail(list) \in Seq(S) /\ Len(Tail(list)) = Len(list) - 1
        /\ \A i \in 1 .. Len(Tail(list)) : Tail(list)[i] = list[i + 1]
    BY HeadTailProperties
  <1>2. Range(list) = { list[i] : i \in 1 .. Len(list) }
        /\ Range(Tail(list)) = { Tail(list)[i] : i \in 1 .. Len(Tail(list)) }
    BY <1>1, RangeEquality
  <1>3. Len(list) \in Nat \ {0} /\ Head(list) = list[1]
    BY EmptySeq
  <1>4. ASSUME NEW i \in 1 .. Len(list) PROVE list[i] \in {Head(list)} \cup Range(Tail(list))
    <2>1. CASE i = 1
      BY <1>3, <2>1
    <2>2. CASE i # 1
      <3>1. i - 1 \in 1 .. Len(Tail(list)) /\ Tail(list)[i - 1] = list[i]
        BY <1>1, <1>3, <2>2
      <3> QED BY <1>2, <3>1
    <2> QED BY <2>1, <2>2
  <1>5. ASSUME NEW i \in 1 .. Len(Tail(list)) PROVE Tail(list)[i] \in Range(list)
    <2>1. i + 1 \in 1 .. Len(list) /\ Tail(list)[i] = list[i + 1]
      BY <1>1, <1>3
    <2> QED BY <1>2, <2>1
  <1>6. Head(list) \in Range(list)
    BY <1>2, <1>3
  <1> QED BY <1>2, <1>4, <1>5, <1>6

\* What is due is found: in a folder of the path, among the files of the kind.
LEMMA DueIsFound ==
  ASSUME NdsFactoryAssumption, DeclaredAreRead, IInv
  PROVE  /\ CanList(SystemPath, Contents) =>
              \A list \in FileLists(SystemPath, Contents, SystemFiles) : SystemsDue \subseteq Range(list)
         /\ CanList(DriverPath, Contents) =>
              \A list \in FileLists(DriverPath, Contents, DriverFiles) : DriversDue \subseteq Range(list)
  <1>d. disk \subseteq DOMAIN Folders
    BY DEF IInv, ProcessTyped
  <1>1. ASSUME CanList(SystemPath, Contents), NEW list \in FileLists(SystemPath, Contents, SystemFiles),
               NEW f \in SystemsDue
        PROVE  f \in Range(list)
    <2>1. PICK n \in Nat \ {0} : DOMAIN SystemPath = 1 .. n
      BY PathFacts DEF NdsFactoryAssumption, SystemPath
    <2>2. \A d \in ToSet(SystemPath) : Folders[d] \cap SystemFiles \subseteq Range(list)
      BY <1>d, <1>1, <2>1, FoundFacts
    <2>3. PICK d \in Declared : f \in Folders[d] \cap SystemFiles
      BY DEF SystemsDue, DeclaredFiles
    <2>4. d \in ToSet(SystemPath)
      BY <2>3 DEF DeclaredAreRead
    <2> QED BY <2>2, <2>3, <2>4
  <1>2. ASSUME CanList(DriverPath, Contents), NEW list \in FileLists(DriverPath, Contents, DriverFiles),
               NEW f \in DriversDue
        PROVE  f \in Range(list)
    <2>1. PICK n \in Nat \ {0} : DOMAIN DriverPath = 1 .. n
      BY PathFacts DEF NdsFactoryAssumption, DriverPath
    <2>2. \A d \in ToSet(DriverPath) : Folders[d] \cap DriverFiles \subseteq Range(list)
      BY <1>d, <1>2, <2>1, FoundFacts
    <2>3. PICK d \in Declared : f \in Folders[d] \cap DriverFiles
      BY DEF DriversDue, DeclaredFiles
    <2>4. d \in ToSet(DriverPath)
      BY <2>3 DEF DeclaredAreRead
    <2> QED BY <2>2, <2>3, <2>4
  <1> QED BY <1>1, <1>2

\* Loading forgets nothing that is due, and nothing that is known.
LEMMA KnownKept ==
  ASSUME NdsFactoryAssumption, DeclaredAreRead, NEW t \in Threads, IInv, KnownInv, NdsStep(t), ~Ended
  PROVE  KnownInv'
  <1>0. ProcessTyped /\ StageInv
    BY DEF IInv
  <1>e. Range(<<>>) = {}
    BY EmptyMap
  <1>h. todo # <<>> => Range(todo) = {Head(todo)} \cup Range(Tail(todo))
    BY <1>0, HeadAndRest DEF ProcessTyped
  <1>x. ASSUME NEW f, About[f].opens, NEW what PROVE Exporting(f, what) = f
    BY <1>x DEF Exporting
  <1>k. SystemsDue' = SystemsDue /\ DriversDue' = DriversDue
    BY DEF SystemsDue, DriversDue, DeclaredFiles
  <1>1. CASE Begin(t)
    <2>1. CASE CanList(SystemPath, Contents)
      <3>1. todo' \in FileLists(SystemPath, Contents, SystemFiles) /\ instance' = "constructing" /\ stage' = "systems"
        BY <1>1, <2>1 DEF Begin
      <3>2. SystemsDue \subseteq Range(todo')
        BY <2>1, <3>1, DueIsFound
      <3> QED BY <1>k, <3>1, <3>2 DEF KnownInv
    <2>2. CASE ~ CanList(SystemPath, Contents)
      BY <1>1, <2>2 DEF Begin, Throw, KnownInv
    <2> QED BY <2>1, <2>2
  <1>2. CASE LoadSystem(t)
    <2> DEFINE file == Head(todo)
    <2>1. /\ instance' = instance /\ stage' = stage /\ stage = "systems" /\ todo # <<>> /\ todo' = Tail(todo)
          /\ drivers' = drivers /\ instance = "constructing"
      BY <1>0, <1>2 DEF LoadSystem, StageInv
    <2>2. DOMAIN systems \subseteq DOMAIN systems'
      BY <1>2 DEF LoadSystem, Put
    <2>3. file \in SystemsDue => About[file].system \in DOMAIN systems'
      <3> SUFFICES ASSUME file \in SystemsDue PROVE About[file].system \in DOMAIN systems'
        OBVIOUS
      <3>1. About[file].opens /\ About[file].system # None
        BY DEF SystemsDue
      <3>2. Exporting(file, "system") = file /\ Exports(file, "system")
        BY <1>x, <3>1 DEF Exports
      <3>3. \E s \in Systems : systems' = Put(systems, About[file].system, s)
        BY <1>2, <3>2 DEF LoadSystem
      <3> QED BY <3>3 DEF Put
    <2>4. \A f \in SystemsDue : f \in Range(todo) \/ About[f].system \in DOMAIN systems
      BY <2>1 DEF KnownInv
    <2>5. \A f \in SystemsDue : f \in Range(todo') \/ About[f].system \in DOMAIN systems'
      BY <1>h, <2>1, <2>2, <2>3, <2>4
    <2> QED BY <1>k, <2>1, <2>5 DEF KnownInv
  <1>3. CASE ListDrivers(t)
    <2>1. SystemsKnown /\ instance = "constructing"
      <3>1. instance = "constructing" /\ stage = "systems" /\ Range(todo) = {}
        BY <1>0, <1>3, <1>e DEF ListDrivers, StageInv
      <3> QED BY <3>1 DEF KnownInv, SystemsKnown
    <2>2. CASE CanList(DriverPath, Contents)
      <3>1. /\ todo' \in FileLists(DriverPath, Contents, DriverFiles) /\ instance' = instance /\ stage' = "drivers"
            /\ systems' = systems
        BY <1>3, <2>2 DEF ListDrivers
      <3>2. DriversDue \subseteq Range(todo')
        BY <2>2, <3>1, DueIsFound
      <3> QED BY <1>k, <2>1, <3>1, <3>2 DEF KnownInv, SystemsKnown
    <2>3. CASE ~ CanList(DriverPath, Contents)
      BY <1>3, <2>3 DEF ListDrivers, Throw, KnownInv
    <2> QED BY <2>2, <2>3
  <1>4. CASE LoadScanned(t)
    <2> DEFINE file == Head(todo)
    <2>1. /\ instance' = instance /\ stage' = stage /\ stage = "drivers" /\ todo # <<>>
          /\ systems' = systems /\ instance = "constructing"
      BY <1>0, <1>4 DEF LoadScanned, StageInv
    <2>2. CASE Registers(file)
      BY <1>k, <1>4, <2>1, <2>2 DEF LoadScanned, KnownInv, SystemsKnown
    <2>3. CASE ~ Registers(file)
      <3>1. /\ todo' = Tail(todo)
            /\ drivers' = IF Exports(file, "driver")
                            THEN Put(drivers, About[Exporting(file, "driver")].driver, Exporting(file, "driver"))
                            ELSE drivers
        BY <1>4, <2>3 DEF LoadScanned
      <3>2. DOMAIN drivers \subseteq DOMAIN drivers'
        BY <3>1 DEF Put
      <3>3. file \in DriversDue => About[file].driver \in DOMAIN drivers'
        <4> SUFFICES ASSUME file \in DriversDue PROVE About[file].driver \in DOMAIN drivers'
          OBVIOUS
        <4>1. About[file].opens /\ About[file].driver # None
          BY DEF DriversDue
        <4>2. Exporting(file, "driver") = file /\ Exports(file, "driver")
          BY <1>x, <4>1 DEF Exports
        <4>3. drivers' = Put(drivers, About[file].driver, file)
          BY <3>1, <4>2
        <4> QED BY <4>3 DEF Put
      <3>4. SystemsKnown /\ \A f \in DriversDue : f \in Range(todo) \/ About[f].driver \in DOMAIN drivers
        BY <2>1 DEF KnownInv
      <3>5. \A f \in DriversDue : f \in Range(todo') \/ About[f].driver \in DOMAIN drivers'
        BY <1>h, <2>1, <3>1, <3>2, <3>3, <3>4
      <3> QED BY <1>k, <2>1, <3>4, <3>5 DEF KnownInv, SystemsKnown
    <2> QED BY <2>2, <2>3
  <1>5. CASE Constructed(t)
    <2>1. instance = "constructing" /\ stage = "drivers" /\ Range(todo) = {} /\ instance' = "ready"
          /\ UNCHANGED <<drivers, systems>>
      BY <1>0, <1>5, <1>e DEF Constructed, StageInv
    <2> QED BY <1>k, <2>1 DEF KnownInv, SystemsKnown, DriversKnown
  <1>6. CASE Exit(t)
    BY <1>6 DEF Exit, KnownInv
  <1>7. ASSUME ~ (Begin(t) \/ LoadSystem(t) \/ ListDrivers(t) \/ LoadScanned(t) \/ Constructed(t) \/ Exit(t))
        PROVE  KnownInv'
    <2>1. DOMAIN systems \subseteq DOMAIN systems' /\ DOMAIN drivers \subseteq DOMAIN drivers'
      BY <1>7 DEF NdsStep, Enter, Pass, RegisterDriver, OpenDriver, RegisterLoaded, RegisterControlSystem,
                  GetControlSystem, Drop, Choose, Allocate, Deallocate, processVars, Put
    <2>2. instance' \in {instance, "terminated"} /\ UNCHANGED <<stage, todo>>
      BY <1>7 DEF NdsStep, Enter, Pass, RegisterDriver, OpenDriver, RegisterLoaded, RegisterControlSystem,
                  GetControlSystem, Drop, Choose, Allocate, Deallocate, processVars
    <2>3. (SystemsKnown => SystemsKnown') /\ (DriversKnown => DriversKnown')
      BY <1>k, <2>1 DEF SystemsKnown, DriversKnown
    <2> QED BY <1>k, <2>1, <2>2, <2>3 DEF KnownInv
  <1> QED BY <1>1, <1>2, <1>3, <1>4, <1>5, <1>6, <1>7

\* DeclaredIsKnown: once getInstance has returned, every module in a declared
\* folder is known by its name, also when earlier constructions failed.
THEOREM DeclaredAreKnown == DeclaredAreRead => (Spec => []DeclaredIsKnown)
  <1> SUFFICES ASSUME DeclaredAreRead PROVE Spec => []DeclaredIsKnown
    OBVIOUS
  <1>0. NdsFactoryAssumption
    BY NdsFactoryAssumption
  <1>1. Init => IInv /\ KnownInv
    BY ProcessInit DEF Init, InitNds, KnownInv
  <1>2. IInv /\ KnownInv /\ [Next]_vars => (IInv /\ KnownInv)'
    <2> SUFFICES ASSUME IInv, KnownInv, [Next]_vars PROVE KnownInv'
      BY ProcessKept
    <2>k. SystemsDue' = SystemsDue /\ DriversDue' = DriversDue
      BY DEF SystemsDue, DriversDue, DeclaredFiles
    <2>1. CASE MakeFolder
      BY <2>k, <2>1 DEF MakeFolder, KnownInv, SystemsKnown, DriversKnown
    <2>2. ASSUME NEW t \in Threads, NdsStep(t), ~Ended PROVE KnownInv'
      BY <1>0, <2>2, KnownKept
    <2>3. CASE UNCHANGED ndsVars
      BY <2>k, <2>3 DEF ndsVars, processVars, KnownInv, SystemsKnown, DriversKnown
    <2> QED BY <2>1, <2>2, <2>3, FactorySteps
  <1>3. KnownInv => DeclaredIsKnown
    BY DEF KnownInv, DeclaredIsKnown, SystemsKnown, DriversKnown, SystemsDue, DriversDue, DeclaredFiles
  <1> QED BY <1>1, <1>2, <1>3, PTL DEF Spec
=============================================================================
