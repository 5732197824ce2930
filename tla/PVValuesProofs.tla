--------------------------- MODULE PVValuesProofs ---------------------------
(***************************************************************************)
(* Proofs about PVValues with the drivers of ExampleDrivers, for any PVs,  *)
(* threads, types and numbers of stores: what a read returns is current,   *)
(* as long as no PV is that of a state machine, whose timestamp is not     *)
(* set before the machine is initialized.                                  *)
(***************************************************************************)
EXTENDS ExampleDrivers, TLAPS

\* No PV shows the state of a machine.
NoMachines == \A p \in PVs : Kind[p] # "machine"

Number == Nat \cup {Unset}
Calls  == [pv : PVs \cup {Nobody}, op : {"none", "load", "store"},
           at : {"idle", "load", "load stamp", "store", "store stamp", "delegate", "return"},
           seen : Number, when : Number, since : Nat]

Typed ==
  /\ value \in [PVs -> Nat] /\ stamp \in [PVs -> Nat]
  /\ stores \in [PVs -> Nat] /\ done \in [PVs -> Nat]
  /\ mutex \in [PVs -> Threads \cup {Nobody}]
  /\ attributes \in [PVs -> [scan : ScanTypes, atInit : BOOLEAN]]
  /\ call \in [Threads -> Calls]

\* What a thread in a call knows of its PV.  In the critical section of a load it has
\* seen the last store; when it returns, what it gives is as ReadsAreCurrent says.
Inside == {"load stamp", "store stamp"}
CallOk(k) ==
  /\ k.at # "idle" => k.pv \in PVs /\ k.since <= done[k.pv]
  /\ k.at \in {"load", "store"} \cup Inside => k.pv \in Stored
  /\ k.at = "delegate" => k.pv \notin Stored /\ (k.op = "load" => Filled(k.pv) # Unset)
  /\ k.at = "load stamp" => k.seen = stores[k.pv] /\ k.since <= k.seen
  /\ k.at = "return" =>
       /\ k.seen # Unset
       /\ k.pv \in Stored => k.when = k.seen /\ k.seen \in k.since .. stores[k.pv]

\* A PV that is read at the start has something to show.
Ready(p) == attributes[p].atInit => p \in Stored \/ Filled(p) # Unset

\* The mutex of a PV belongs to the thread that has accessed one of the two fields and
\* not yet the other.
Held(c, p) == mutex[p] = c <=> call[c].at \in Inside /\ call[c].pv = p

\* The fields agree unless the thread that has the mutex stores.
Storing(p) == mutex[p] # Nobody /\ call[mutex[p]].at = "store stamp"
FieldsOk(p) ==
  /\ value[p] = stores[p] /\ done[p] <= stores[p]
  /\ Storing(p) \/ (stamp[p] = stores[p] /\ done[p] = stores[p])

IInv ==
  /\ Typed
  /\ \A p \in PVs : Ready(p) /\ FieldsOk(p)
  /\ \A c \in Threads, p \in PVs : Held(c, p)
  /\ \A c \in Threads : CallOk(call[c])

-----------------------------------------------------------------------------
\* The kinds that are stored and the kinds that come from the device.
LEMMA KindFacts ==
  /\ Stored \subseteq PVs /\ InputsOf \subseteq PVs
  /\ 0 \in Number /\ 0 # Unset /\ Nat \subseteq Number /\ Unset \in Number
  /\ \A p \in InputsOf : Filled(p) = 0
  /\ \A p \in PVs : ProcessAtInit(p) => p \in Stored \/ Filled(p) # Unset
<1>1. Unset \notin Nat  BY PVsAssumption
<1>2. /\ Stored \subseteq PVs /\ InputsOf \subseteq PVs
      /\ 0 \in Number /\ 0 # Unset /\ Nat \subseteq Number /\ Unset \in Number
  BY <1>1 DEF Stored, InputsOf, Number
<1>3. \A p \in InputsOf : Filled(p) = 0  BY DEF Filled
<1>4. \A p \in PVs : ProcessAtInit(p) => p \in Stored \/ Filled(p) # Unset
  BY <1>2 DEF Stored, Filled, ProcessAtInit, OutputAtInit, ActionAtInit
<1> QED  BY <1>2, <1>3, <1>4

\* Setting attributes disturbs Ready only.
LEMMA AttributesKeep ==
  ASSUME IInv, NEW p \in PVs, NEW s \in ScanTypes, NEW b \in BOOLEAN, SetAttributes(p, s, b)
  PROVE  IInv'
<1>1. Typed' /\ \A q \in PVs : Ready(q)'
  BY DEF IInv, Typed, Ready, SetAttributes, Filled
<1>2. \A q \in PVs : FieldsOk(q)'
  BY DEF IInv, FieldsOk, Storing, SetAttributes
<1>3. \A c \in Threads, q \in PVs : Held(c, q)'
  BY DEF IInv, Held, SetAttributes
<1>4. \A c \in Threads : CallOk(call[c])'
  BY DEF IInv, CallOk, Filled, SetAttributes
<1> QED  BY <1>1, <1>2, <1>3, <1>4 DEF IInv

\* The steps that change neither a call nor a PV.
LEMMA OthersKeep ==
  ASSUME IInv, UNCHANGED <<value, stamp, mutex, attributes, call, stores, done>>
  PROVE  IInv'
<1>1. Typed' /\ \A q \in PVs : Ready(q)'  BY DEF IInv, Typed, Ready, Filled
<1>2. \A q \in PVs : FieldsOk(q)'  BY DEF IInv, FieldsOk, Storing
<1>3. \A c \in Threads, q \in PVs : Held(c, q)'  BY DEF IInv, Held
<1>4. \A c \in Threads : CallOk(call[c])'  BY DEF IInv, CallOk, Filled
<1> QED  BY <1>1, <1>2, <1>3, <1>4 DEF IInv

-----------------------------------------------------------------------------
(* The steps of a thread.  It goes from call[c] to k, and has the mutex     *)
(* of the PV of k afterwards if k is inside the critical section.           *)

Hands(c, k) ==
  /\ call'  = [call EXCEPT ![c] = k]
  /\ mutex' \in [PVs -> Threads \cup {Nobody}]
  /\ \A p \in PVs :
       mutex'[p] = IF k.at \in Inside /\ k.pv = p THEN c
                   ELSE IF mutex[p] = c THEN Nobody ELSE mutex[p]
  /\ k.at \in Inside => mutex[k.pv] \in {Nobody, c}

\* Then everyone has the mutexes that belong to them.
LEMMA HeldKept ==
  ASSUME IInv, NEW c \in Threads, NEW k \in Calls, Hands(c, k)
  PROVE  \A d \in Threads, q \in PVs : Held(d, q)'
<1> TAKE d \in Threads, q \in PVs
<1>1. Held(d, q)  BY DEF IInv
<1>2. Nobody # c /\ Nobody # d  BY PVsAssumption
<1>3. CASE d = c
  <2>1. call'[d] = k  BY <1>3 DEF IInv, Typed, Hands
  <2>2. mutex'[q] = c <=> k.at \in Inside /\ k.pv = q  BY <1>2 DEF Hands
  <2> QED  BY <1>3, <2>1, <2>2 DEF Held
<1>4. CASE d # c
  <2>1. call'[d] = call[d]  BY <1>4 DEF IInv, Typed, Hands
  <2>2. mutex'[q] = d <=> mutex[q] = d  BY <1>2, <1>4 DEF Hands
  <2> QED  BY <1>1, <2>1, <2>2 DEF Held
<1> QED  BY <1>3, <1>4

\* A step that stores nothing is right if it is so for the call itself.
LEMMA NoStoreKeeps ==
  ASSUME IInv, NEW c \in Threads, NEW k \in Calls, Hands(c, k), CallOk(k),
         call[c].at # "store stamp",
         UNCHANGED <<value, stamp, attributes, stores, done>>
  PROVE  IInv'
<1>1. call' = [call EXCEPT ![c] = k] /\ mutex' \in [PVs -> Threads \cup {Nobody}]
  BY DEF Hands
<1>2. Typed'  BY <1>1 DEF IInv, Typed
<1>3. \A q \in PVs : Ready(q)'  BY DEF IInv, Ready, Filled
<1>4. ASSUME NEW q \in PVs
      PROVE  FieldsOk(q)'
  <2>1. FieldsOk(q)  BY DEF IInv
  <2>2. Storing(q) => Storing(q)'
    <3> SUFFICES ASSUME Storing(q) PROVE Storing(q)'  OBVIOUS
    <3> DEFINE e == mutex[q]
    <3>1. e \in Threads /\ e # Nobody /\ call[e].at = "store stamp" /\ e # c
      BY DEF IInv, Typed, Storing
    <3>2. mutex'[q] = e  BY <3>1 DEF Hands
    <3>3. call'[e] = call[e]  BY <1>1, <3>1 DEF IInv, Typed
    <3> QED  BY <3>1, <3>2, <3>3 DEF Storing
  <2> QED  BY <2>1, <2>2 DEF FieldsOk
<1>5. \A d \in Threads, q \in PVs : Held(d, q)'  BY HeldKept
<1>6. ASSUME NEW d \in Threads
      PROVE  CallOk(call[d])'
  <2>1. CallOk(call'[d])
    <3>1. CASE d = c  BY <1>1, <3>1 DEF IInv, Typed
    <3>2. CASE d # c  BY <1>1, <3>2 DEF IInv, Typed
    <3> QED  BY <3>1, <3>2
  <2> QED  BY <2>1 DEF CallOk, Filled
<1> QED  BY <1>2, <1>3, <1>4, <1>5, <1>6 DEF IInv

\* Outside the critical section the mutexes stay as they are.
LEMMA OutsideHands ==
  ASSUME IInv, NEW c \in Threads, NEW k \in Calls,
         call[c].at \notin Inside, k.at \notin Inside,
         call' = [call EXCEPT ![c] = k], mutex' = mutex
  PROVE  Hands(c, k)
<1>1. \A p \in PVs : mutex[p] # c  BY DEF IInv, Held
<1> QED  BY <1>1 DEF IInv, Typed, Hands

\* A call begins: of a function that has something to give, if it is a read.
LEMMA BeginKeeps ==
  ASSUME IInv, NEW c \in Threads, NEW p \in PVs, NEW op \in {"load", "store"}, NEW served,
         op = "load" => p \in Stored \/ Filled(p) # Unset,
         Begin(c, p, op, served)
  PROVE  IInv'
<1>1. CASE ~served  BY <1>1, OthersKeep DEF Begin
<1>2. CASE served
  <2> DEFINE k == Frame(p, op)
  <2>1. /\ call[c] = Idle /\ call' = [call EXCEPT ![c] = k]
        /\ UNCHANGED <<value, stamp, mutex, attributes, stores, done>>
    BY <1>2 DEF Begin, Free
  <2>2. call[c].at = "idle"  BY <2>1 DEF Idle
  <2>3. done[p] \in Nat  BY DEF IInv, Typed
  <2>4. /\ k \in Calls /\ k.pv = p /\ k.op = op /\ k.since = done[p]
        /\ k.at = IF p \in Stored THEN op ELSE "delegate"
    BY <2>3 DEF Frame, Calls, Number
  <2> HIDE DEF k
  <2>5. CallOk(k)
    <3>1. k.since <= done[k.pv]  BY <2>3, <2>4
    <3>2. CASE p \in Stored
      <4>1. k.at \in {"load", "store"}  BY <2>4, <3>2
      <4> QED  BY <2>4, <3>1, <3>2, <4>1 DEF CallOk, Inside
    <3>3. CASE p \notin Stored
      <4>1. k.at = "delegate"  BY <2>4, <3>3
      <4> QED  BY <2>4, <3>1, <3>3, <4>1 DEF CallOk, Inside
    <3> QED  BY <3>2, <3>3
  <2>6. call[c].at \notin Inside /\ k.at \notin Inside  BY <2>2, <2>4 DEF Inside
  <2>7. Hands(c, k)  BY <2>1, <2>4, <2>6, OutsideHands
  <2> QED  BY <2>1, <2>2, <2>4, <2>5, <2>7, NoStoreKeeps
<1> QED  BY <1>1, <1>2

\* A call ends outside m_pvMutex.
LEMMA LeaveKeeps ==
  ASSUME IInv, NEW c \in Threads, call[c].at \notin Inside,
         call' = [call EXCEPT ![c] = Idle],
         UNCHANGED <<value, stamp, mutex, attributes, stores, done>>
  PROVE  IInv'
<1>1. Idle \in Calls /\ Idle.at = "idle"  BY DEF Idle, Calls, Number
<1>2. CallOk(Idle)  BY <1>1 DEF CallOk, Inside
<1>3. Idle.at \notin Inside  BY <1>1 DEF Inside
<1>4. Hands(c, Idle)  BY <1>1, <1>3, OutsideHands
<1>5. call[c].at # "store stamp"  BY DEF Inside
<1> QED  BY <1>1, <1>2, <1>4, <1>5, NoStoreKeeps

\* A function of the device gives a number.
LEMMA FillInKeeps ==
  ASSUME IInv, NEW c \in Threads, NEW v \in Nat, NEW ts \in Number, FillIn(c, v, ts)
  PROVE  IInv'
<1> DEFINE k == [call[c] EXCEPT !.at = "return", !.seen = v, !.when = ts]
<1>1. /\ call[c] \in Calls /\ CallOk(call[c]) /\ call[c].at = "delegate"
      /\ call' = [call EXCEPT ![c] = k]
      /\ UNCHANGED <<value, stamp, mutex, attributes, stores, done>>
  BY DEF IInv, Typed, FillIn, At
<1>2. /\ k \in Calls /\ k.at = "return" /\ k.seen = v
      /\ k.pv = call[c].pv /\ k.since = call[c].since
  BY <1>1 DEF Calls, Number
<1> HIDE DEF k
<1>3. v # Unset  BY PVsAssumption
<1>4. CallOk(k)  BY <1>1, <1>2, <1>3 DEF CallOk, Inside
<1>5. call[c].at \notin Inside /\ k.at \notin Inside  BY <1>1, <1>2 DEF Inside
<1>6. Hands(c, k)  BY <1>1, <1>2, <1>5, OutsideHands
<1> QED  BY <1>1, <1>2, <1>4, <1>6, NoStoreKeeps

-----------------------------------------------------------------------------
(* The two critical sections.                                               *)

\* A thread that takes a free mutex has it, and no other.
LEMMA TakeHands ==
  ASSUME IInv, NEW c \in Threads, NEW k \in Calls, NEW p \in PVs,
         k.pv = p, k.at \in Inside, call[c].at \notin Inside, mutex[p] = Nobody,
         call' = [call EXCEPT ![c] = k], mutex' = [mutex EXCEPT ![p] = c]
  PROVE  Hands(c, k)
<1>1. \A q \in PVs : mutex[q] # c  BY DEF IInv, Held
<1> QED  BY <1>1 DEF IInv, Typed, Hands

\* A thread that leaves the critical section had the mutex, and has none afterwards.
LEMMA GiveHands ==
  ASSUME IInv, NEW c \in Threads, NEW k \in Calls, NEW p \in PVs,
         call[c].pv = p, k.at \notin Inside, call[c].at \in Inside,
         call' = [call EXCEPT ![c] = k], mutex' = [mutex EXCEPT ![p] = Nobody]
  PROVE  mutex[p] = c /\ Hands(c, k)
<1>1. \A q \in PVs : mutex[q] = c <=> q = p  BY DEF IInv, Held
<1> QED  BY <1>1 DEF IInv, Typed, Hands

\* A load copies the value: it takes the mutex, so nobody is between the fields.
LEMMA LoadValueKeeps ==
  ASSUME IInv, NEW c \in Threads, LoadValue(c)
  PROVE  IInv'
<1> DEFINE p == call[c].pv
           k == [call[c] EXCEPT !.at = "load stamp", !.seen = value[p]]
<1>1. /\ call[c] \in Calls /\ CallOk(call[c]) /\ call[c].at = "load" /\ mutex[p] = Nobody
      /\ mutex' = [mutex EXCEPT ![p] = c] /\ call' = [call EXCEPT ![c] = k]
      /\ UNCHANGED <<value, stamp, attributes, stores, done>>
  BY DEF IInv, Typed, LoadValue, At, PV
<1>2. p \in PVs /\ p \in Stored /\ call[c].since <= done[p]
  BY <1>1 DEF CallOk
<1>3. /\ value[p] \in Nat /\ done[p] \in Nat /\ stores[p] \in Nat /\ call[c].since \in Nat
      /\ value[p] = stores[p] /\ done[p] <= stores[p]
  BY <1>1, <1>2 DEF IInv, Typed, Calls, FieldsOk
<1>4. /\ k \in Calls /\ k.at = "load stamp" /\ k.seen = stores[p]
      /\ k.pv = p /\ k.since = call[c].since
  BY <1>1, <1>3 DEF Calls, Number
<1> HIDE DEF p, k
<1>5. CallOk(k)
  <2>1. call[c].since <= stores[p]  BY <1>2, <1>3
  <2>2. k.since <= done[p]  BY <1>2, <1>4
  <2>3. k.since <= stores[p]  BY <1>4, <2>1
  <2> QED  BY <1>2, <1>4, <2>2, <2>3 DEF CallOk, Inside
<1>6. k.at \in Inside /\ call[c].at \notin Inside  BY <1>1, <1>4 DEF Inside
<1>7. Hands(c, k)  BY <1>1, <1>2, <1>4, <1>6, TakeHands
<1> QED  BY <1>1, <1>4, <1>5, <1>7, NoStoreKeeps

\* It copies the timestamp: the fields agree, as it is this thread that has the mutex.
LEMMA LoadStampKeeps ==
  ASSUME IInv, NEW c \in Threads, LoadStamp(c)
  PROVE  IInv'
<1> DEFINE p == call[c].pv
           k == [call[c] EXCEPT !.at = "return", !.when = stamp[p]]
<1>1. /\ call[c] \in Calls /\ CallOk(call[c]) /\ call[c].at = "load stamp"
      /\ mutex' = [mutex EXCEPT ![p] = Nobody] /\ call' = [call EXCEPT ![c] = k]
      /\ UNCHANGED <<value, stamp, attributes, stores, done>>
  BY DEF IInv, Typed, LoadStamp, At, PV
<1>2. call[c].at \in Inside  BY <1>1 DEF Inside
<1>3. /\ p \in PVs /\ call[c].since <= done[p]
      /\ call[c].seen = stores[p] /\ call[c].since <= call[c].seen
  BY <1>1 DEF CallOk
<1>4. stamp[p] \in Nat /\ stores[p] \in Nat /\ call[c].since \in Nat
  BY <1>1, <1>3 DEF IInv, Typed, Calls
<1>5. k \in Calls /\ k.at = "return" /\ k.seen = call[c].seen /\ k.when = stamp[p]
      /\ k.pv = p /\ k.since = call[c].since
  BY <1>1, <1>4 DEF Calls, Number
<1> HIDE DEF p, k
<1>6. k.at \notin Inside  BY <1>5 DEF Inside
<1>7. call[c].pv = p  BY DEF p
<1>8. mutex[p] = c /\ Hands(c, k)  BY <1>1, <1>2, <1>3, <1>5, <1>6, <1>7, GiveHands
<1>9. stamp[p] = stores[p]  BY <1>1, <1>3, <1>8 DEF IInv, FieldsOk, Storing
<1>10. stores[p] # Unset  BY <1>4, PVsAssumption
<1>11. CallOk(k)  BY <1>3, <1>4, <1>5, <1>9, <1>10 DEF CallOk, Inside
<1> QED  BY <1>1, <1>5, <1>8, <1>11, NoStoreKeeps

\* A store puts the value: from here to StoreStamp the fields differ.
LEMMA StoreValueKeeps ==
  ASSUME IInv, NEW c \in Threads, StoreValue(c)
  PROVE  IInv'
<1> DEFINE p == call[c].pv
           k == [call[c] EXCEPT !.at = "store stamp"]
<1>1. /\ call[c] \in Calls /\ CallOk(call[c]) /\ call[c].at = "store" /\ mutex[p] = Nobody
      /\ mutex' = [mutex EXCEPT ![p] = c] /\ call' = [call EXCEPT ![c] = k]
      /\ stores' = [stores EXCEPT ![p] = stores[p] + 1]
      /\ value' = [value EXCEPT ![p] = stores'[p]]
      /\ UNCHANGED <<stamp, attributes, done>>
  BY DEF IInv, Typed, StoreValue, At, PV
<1>2. p \in PVs /\ p \in Stored /\ call[c].since <= done[p]
  BY <1>1 DEF CallOk, Inside
<1>3. stores[p] \in Nat /\ done[p] \in Nat /\ done[p] <= stores[p]
  BY <1>2 DEF IInv, Typed, FieldsOk
<1>4. k \in Calls /\ k.at = "store stamp" /\ k.pv = p /\ k.since = call[c].since
  BY <1>1 DEF Calls
<1>5. call[c].pv = p  OBVIOUS
<1> HIDE DEF p, k
<1>6. /\ stores'[p] = stores[p] + 1 /\ \A q \in PVs \ {p} : stores'[q] = stores[q]
      /\ value'[p] = stores[p] + 1 /\ \A q \in PVs \ {p} : value'[q] = value[q]
  BY <1>1, <1>2 DEF IInv, Typed
<1>7. k.at \in Inside /\ call[c].at \notin Inside  BY <1>1, <1>4 DEF Inside
<1>8. Hands(c, k)  BY <1>1, <1>2, <1>4, <1>7, TakeHands
<1>9. Typed'
  <2>1. stores' \in [PVs -> Nat] /\ value' \in [PVs -> Nat]
    BY <1>1, <1>2, <1>3, <1>6 DEF IInv, Typed
  <2>2. call' \in [Threads -> Calls] /\ mutex' \in [PVs -> Threads \cup {Nobody}]
    BY <1>1, <1>4 DEF IInv, Typed
  <2> QED  BY <1>1, <2>1, <2>2 DEF IInv, Typed
<1>10. \A q \in PVs : Ready(q)'  BY <1>1 DEF IInv, Ready, Filled
<1>11. \A d \in Threads, q \in PVs : Held(d, q)'  BY <1>4, <1>8, HeldKept
<1>12. call'[c] = k /\ \A d \in Threads \ {c} : call'[d] = call[d]
  BY <1>1 DEF IInv, Typed
<1>13. Nobody # c  BY PVsAssumption
<1>14. mutex'[p] = c /\ \A q \in PVs \ {p} : mutex'[q] = mutex[q]
  BY <1>1, <1>2 DEF IInv, Typed
<1>15. ASSUME NEW q \in PVs
       PROVE  FieldsOk(q)'
  <2>1. CASE q = p
    <3>1. mutex'[q] = c /\ call'[c].at = "store stamp"  BY <1>4, <1>12, <1>14, <2>1
    <3>2. Storing(q)'  BY <1>13, <3>1 DEF Storing
    <3>3. value'[q] = stores'[q] /\ done'[q] <= stores'[q]  BY <1>1, <1>3, <1>6, <2>1
    <3> QED  BY <3>2, <3>3 DEF FieldsOk
  <2>2. CASE q # p
    <3>1. FieldsOk(q)  BY DEF IInv
    <3>2. mutex[q] # c  BY <1>7 DEF IInv, Held
    <3>3. Storing(q) => Storing(q)'
      BY <1>12, <1>14, <2>2, <3>2 DEF IInv, Typed, Storing
    <3> QED  BY <1>1, <1>6, <2>2, <3>1, <3>3 DEF FieldsOk
  <2> QED  BY <2>1, <2>2
<1>16. ASSUME NEW d \in Threads
       PROVE  CallOk(call[d])'
  <2>1. CASE d = c
    BY <1>1, <1>2, <1>4, <1>12, <2>1 DEF CallOk, Inside
  <2>2. CASE d # c
    <3>1. CallOk(call[d]) /\ call[d] \in Calls /\ call'[d] = call[d]
      BY <1>12, <2>2 DEF IInv, Typed
    <3>2. call[d].at = "load stamp" => call[d].pv # p
      <4>1. Held(d, p) /\ mutex[p] # d  BY <1>1, <1>2, PVsAssumption DEF IInv
      <4> QED  BY <4>1 DEF Held, Inside
    <3>3. call[d].at # "idle" => call[d].pv \in PVs  BY <3>1 DEF CallOk
    <3>4. call[d].at # "idle" =>
            /\ stores[call[d].pv] \in Nat /\ stores'[call[d].pv] \in Nat
            /\ stores[call[d].pv] <= stores'[call[d].pv]
      BY <1>3, <1>6, <3>3 DEF IInv, Typed
    <3>5. call[d].at = "load stamp" => stores'[call[d].pv] = stores[call[d].pv]
      BY <1>6, <3>2, <3>3
    <3>6. call[d].at = "return" /\ call[d].pv \in Stored =>
            call[d].seen \in call[d].since .. stores'[call[d].pv]
      <4> SUFFICES ASSUME call[d].at = "return", call[d].pv \in Stored
                   PROVE  call[d].seen \in call[d].since .. stores'[call[d].pv]
        OBVIOUS
      <4>1. call[d].seen \in call[d].since .. stores[call[d].pv]  BY <3>1 DEF CallOk
      <4>2. call[d].since \in Nat  BY <3>1 DEF Calls
      <4> QED  BY <3>4, <4>1, <4>2
    <3> QED  BY <1>1, <3>1, <3>5, <3>6 DEF CallOk, Filled
  <2> QED  BY <2>1, <2>2
<1> QED  BY <1>9, <1>10, <1>11, <1>15, <1>16 DEF IInv

\* It puts the timestamp: the fields agree again, and one more store is done.
LEMMA StoreStampKeeps ==
  ASSUME IInv, NEW c \in Threads, StoreStamp(c)
  PROVE  IInv'
<1> DEFINE p == call[c].pv
<1>1. /\ CallOk(call[c]) /\ call[c].at = "store stamp"
      /\ mutex' = [mutex EXCEPT ![p] = Nobody] /\ call' = [call EXCEPT ![c] = Idle]
      /\ stamp' = [stamp EXCEPT ![p] = stores[p]] /\ done' = [done EXCEPT ![p] = stores[p]]
      /\ UNCHANGED <<value, attributes, stores>>
  BY DEF IInv, StoreStamp, At, PV
<1>2. p \in PVs  BY <1>1 DEF CallOk
<1>3. stores[p] \in Nat /\ done[p] \in Nat /\ done[p] <= stores[p]
  BY <1>2 DEF IInv, Typed, FieldsOk
<1>4. Idle \in Calls /\ Idle.at = "idle"  BY DEF Idle, Calls, Number
<1>5. call[c].pv = p  OBVIOUS
<1> HIDE DEF p
<1>6. /\ stamp'[p] = stores[p] /\ \A q \in PVs \ {p} : stamp'[q] = stamp[q]
      /\ done'[p] = stores[p] /\ \A q \in PVs \ {p} : done'[q] = done[q]
  BY <1>1, <1>2 DEF IInv, Typed
<1>7. Idle.at \notin Inside /\ call[c].at \in Inside  BY <1>1, <1>4 DEF Inside
<1>8. mutex[p] = c /\ Hands(c, Idle)  BY <1>1, <1>2, <1>4, <1>5, <1>7, GiveHands
<1>9. Typed'
  <2>1. stamp' \in [PVs -> Nat] /\ done' \in [PVs -> Nat]
    BY <1>1, <1>2, <1>3 DEF IInv, Typed
  <2>2. call' \in [Threads -> Calls] /\ mutex' \in [PVs -> Threads \cup {Nobody}]
    BY <1>1, <1>4 DEF IInv, Typed
  <2> QED  BY <1>1, <2>1, <2>2 DEF IInv, Typed
<1>10. \A q \in PVs : Ready(q)'  BY <1>1 DEF IInv, Ready, Filled
<1>11. \A d \in Threads, q \in PVs : Held(d, q)'  BY <1>4, <1>8, HeldKept
<1>12. call'[c] = Idle /\ \A d \in Threads \ {c} : call'[d] = call[d]
  BY <1>1 DEF IInv, Typed
<1>13. \A q \in PVs \ {p} : mutex'[q] = mutex[q]
  BY <1>1 DEF IInv, Typed
<1>14. ASSUME NEW q \in PVs
       PROVE  FieldsOk(q)'
  <2>1. CASE q = p
    <3>1. value'[q] = stores'[q]  BY <1>1, <1>2, <2>1 DEF IInv, FieldsOk
    <3>2. done'[q] = stores'[q] /\ stamp'[q] = stores'[q] /\ stores'[q] \in Nat
      BY <1>1, <1>3, <1>6, <2>1
    <3>3. done'[q] <= stores'[q]  BY <3>2
    <3> QED  BY <3>1, <3>2, <3>3 DEF FieldsOk
  <2>2. CASE q # p
    <3>1. FieldsOk(q)  BY DEF IInv
    <3>2. mutex[q] # c  BY <1>5, <2>2 DEF IInv, Held
    <3>3. Storing(q) => Storing(q)'
      BY <1>12, <1>13, <2>2, <3>2 DEF IInv, Typed, Storing
    <3> QED  BY <1>1, <1>6, <2>2, <3>1, <3>3 DEF FieldsOk
  <2> QED  BY <2>1, <2>2
<1>15. ASSUME NEW d \in Threads
       PROVE  CallOk(call[d])'
  <2>1. CASE d = c
    BY <1>4, <1>12, <2>1 DEF CallOk, Inside
  <2>2. CASE d # c
    <3>1. CallOk(call[d]) /\ call[d] \in Calls /\ call'[d] = call[d]
      BY <1>12, <2>2 DEF IInv, Typed
    <3>2. call[d].at # "idle" => call[d].since <= done'[call[d].pv]
      <4> SUFFICES ASSUME call[d].at # "idle"
                   PROVE  call[d].since <= done'[call[d].pv]
        OBVIOUS
      <4> DEFINE q == call[d].pv
      <4>1. q \in PVs /\ call[d].since <= done[q]  BY <3>1 DEF CallOk
      <4>2. call[d].since \in Nat /\ done[q] \in Nat  BY <3>1, <4>1 DEF IInv, Typed, Calls
      <4> HIDE DEF q
      <4>3. done'[q] \in Nat /\ done[q] <= done'[q]  BY <1>3, <1>6, <4>1, <4>2
      <4>4. call[d].since <= done'[q]  BY <4>1, <4>2, <4>3
      <4> QED  BY <4>4 DEF q
    <3> QED  BY <1>1, <3>1, <3>2 DEF CallOk, Filled
  <2> QED  BY <2>1, <2>2
<1> QED  BY <1>9, <1>10, <1>11, <1>14, <1>15 DEF IInv

-----------------------------------------------------------------------------
\* Without machines every timestamp is that of the constructor.
LEMMA InitHolds ==
  ASSUME NoMachines, Init
  PROVE  IInv
<1> USE DEF Init
<1>1. Typed
  BY KindFacts DEF Typed, NoMachines, FirstStamp, ProcessAtInit, OutputAtInit, ActionAtInit,
                   ScanTypes, Idle, Calls
<1>2. \A p \in PVs : Ready(p)  BY KindFacts DEF Ready
<1>3. \A p \in PVs : FieldsOk(p)  BY DEF FieldsOk, Storing, NoMachines, FirstStamp
<1>4. \A c \in Threads : call[c].at = "idle"  BY DEF Idle
<1>5. Nobody \notin Threads  BY PVsAssumption
<1>6. \A c \in Threads, p \in PVs : Held(c, p)  BY <1>4, <1>5 DEF Held, Inside
<1>7. \A c \in Threads : CallOk(call[c])  BY <1>4 DEF CallOk, Inside
<1> QED  BY <1>1, <1>2, <1>3, <1>6, <1>7 DEF IInv

\* One step for each way to take one.
LEMMA NextKeeps ==
  ASSUME IInv, [DriversNext]_vars
  PROVE  IInv'
<1>1. ASSUME NEW p \in PVs, NEW s \in Scans[p], NEW b \in BOOLEAN, SetAttributes(p, s, b)
      PROVE  IInv'
  <2>1. s \in ScanTypes  BY PVsAssumption
  <2> QED  BY <1>1, <2>1, AttributesKeep
<1>2. CASE Started  BY <1>2, OthersKeep DEF Started
<1>3. ASSUME NEW c \in Systems, NEW p \in PVs, NEW t \in DataTypes, CallRead(c, p, t)
      PROVE  IInv'
  <2>1. c \in Threads /\ Begin(c, p, "load", Serves(p, t))
    BY <1>3 DEF Threads, CallRead
  <2>2. p \in Stored \/ Filled(p) # Unset
    BY <1>3, PVsAssumption, KindFacts DEF CallRead, MayRead, IInv, Ready
  <2> QED  BY <2>1, <2>2, BeginKeeps
<1>4. ASSUME NEW c \in Systems, NEW p \in PVs, NEW t \in DataTypes, CallWrite(c, p, t)
      PROVE  IInv'
  <2>1. c \in Threads /\ Begin(c, p, "store", Takes(p, t))
    BY <1>4 DEF Threads, CallWrite
  <2> QED  BY <2>1, BeginKeeps
<1>5. ASSUME NEW c \in Devices, NEW p \in PVs, CallSetValue(c, p)
      PROVE  IInv'
  <2>1. c \in Threads /\ Begin(c, p, "store", TRUE)
    BY <1>5 DEF Threads, CallSetValue
  <2> QED  BY <2>1, BeginKeeps
<1>6. ASSUME NEW c \in Devices, NEW p \in PVs, CallGetValue(c, p)
      PROVE  IInv'
  <2>1. c \in Threads /\ Begin(c, p, "load", TRUE) /\ p \in Stored
    BY <1>6 DEF Threads, CallGetValue, Stored
  <2> QED  BY <2>1, BeginKeeps
<1>7. ASSUME NEW c \in Threads, StoreValue(c) \/ StoreStamp(c) \/ LoadValue(c) \/ LoadStamp(c)
      PROVE  IInv'
  BY <1>7, StoreValueKeeps, StoreStampKeeps, LoadValueKeeps, LoadStampKeeps
<1>8. ASSUME NEW c \in Threads, Return(c) \/ DelegateWrites(c) \/ SetValueBack(c)
      PROVE  IInv'
  <2>1. /\ call[c].at \notin Inside /\ call' = [call EXCEPT ![c] = Idle]
        /\ UNCHANGED <<value, stamp, mutex, attributes, stores, done>>
    BY <1>8 DEF Return, DelegateWrites, SetValueBack, At, Inside
  <2> QED  BY <2>1, LeaveKeeps
<1>9. ASSUME NEW c \in Threads, FillIn(c, 0, Unset)
      PROVE  IInv'
  BY <1>9, FillInKeeps DEF Number
<1>10. ASSUME NEW c \in Threads, DelegateReads(c)
       PROVE  IInv'
  <2>1. Filled(PV(c)) # Unset
    BY <1>10 DEF DelegateReads, FillIn, At, PV, IInv, CallOk
  <2>2. Filled(PV(c)) = 0  BY <2>1 DEF Filled
  <2> QED  BY <1>10, <2>2, KindFacts, FillInKeeps DEF DelegateReads
<1>11. CASE Thermometer
  BY <1>11, DriversAssumption, AttributesKeep DEF Thermometer, Own, ScanTypes
<1>12. CASE Library
  BY <1>1, <1>2, <1>3, <1>4, <1>5, <1>6, <1>7, <1>8, <1>12, OthersKeep DEF Library, Terminated, vars
<1>13. ASSUME NEW c \in Threads,
              \/ GetTemperature(c) \/ GetTempRandom(c) \/ InitSquare(c) \/ SquareIt(c)
              \/ PV(c) \notin Own /\ (DelegateReads(c) \/ DelegateWrites(c))
       PROVE  IInv'
  BY <1>8, <1>9, <1>10, <1>13 DEF GetTemperature, GetTempRandom, InitSquare, SquareIt
<1>14. CASE UNCHANGED vars  BY <1>14, OthersKeep DEF vars
<1> QED  BY <1>11, <1>12, <1>13, <1>14 DEF DriversNext

\* What a read returns was written, and a value that is kept comes with the timestamp of
\* its own store, not an older one than the last that was finished when the read began:
\* of any number of PVs and threads, for a device without state machines, whose timestamp
\* is not set before initialize.
THEOREM ReadsStayCurrent ==
  ASSUME NoMachines
  PROVE  DriversSpec => []ReadsAreCurrent
<1>1. Init => IInv  BY InitHolds
<1>2. IInv /\ [DriversNext]_vars => IInv'  BY NextKeeps
<1>3. IInv => ReadsAreCurrent  BY DEF IInv, CallOk, PV, ReadsAreCurrent
<1> QED  BY <1>1, <1>2, <1>3, PTL DEF DriversSpec
=============================================================================
