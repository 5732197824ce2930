-------------------------- MODULE PVRegistryProofs --------------------------
(***************************************************************************)
(* Proofs about PVRegistry, for any PVs, names, links and threads.  The    *)
(* register never confuses two PVs of one name, no pointer to a PV that is *)
(* gone can be reached from a registered PV or a push, and the operations  *)
(* implement those of PVDirectory, each of which is one step.              *)
(***************************************************************************)
EXTENDS PVRegistry, SequenceTheorems, TLAPS

Frames == [pv : Inputs, at : {"lock", "fan"}, todo : SUBSET PVs]

Typed ==
  /\ life \in [PVs -> {"built", "registered", "rejected", "gone"}]
  /\ registry \in [Names -> PVs \cup {NoPV}]
  /\ links \in [Inputs -> SUBSET PVs]
  /\ listLock \in [Inputs -> Threads \cup {NoThread}]
  /\ op \in [by : Threads \cup {NoThread}, kind : {"none", "link", "unlink", "deregister"},
             pv : PVs \cup {NoPV}, todo : SUBSET Inputs]
  /\ stack \in [Threads -> Seq(Frames)]

\* p is the PV that is being deregistered.
Leaving(p) == op.kind = "deregister" /\ op.pv = p

\* What is in the register lives, and what lives is there or about to go.
NamesInv ==
  /\ \A n \in Names : registry[n] # NoPV =>
       Name[registry[n]] = n /\ life[registry[n]] = "registered"
  /\ \A p \in PVs : life[p] = "registered" <=> Registered(p) \/ Leaving(p)
  /\ \A p \in PVs : Leaving(p) => ~Registered(p)
  /\ op.kind = "none" => op = NoOp
  /\ op.kind # "none" => op.pv \in PVs
  /\ op.todo \subseteq RegisteredInputs
  /\ op.kind = "link" => Registered(op.pv)

\* A registered input feeds registered PVs only; an operation that ends the links
\* to a PV has not been through the inputs that still feed it.
LinksInv ==
  /\ \A i \in Inputs : life[i] = "built" => links[i] = {}
  /\ \A i \in RegisteredInputs : \A p \in links[i] : Registered(p) \/ Leaving(p)
  /\ \A p \in Inputs : Leaving(p) => \A q \in links[p] : life[q] = "registered"
  /\ Ending => \A i \in RegisteredInputs : op.pv \in links[i] => i \in op.todo

\* The frames of a push are about PVs that live; each but the last is going
\* through its list, which it has locked and which has led it to the next one.
\* The PV the device itself pushes on is not deregistered meanwhile.
FrameInv(t, k) ==
  LET f == stack[t][k] IN
  /\ life[f.pv] = "registered"
  /\ f.at = "fan" => listLock[f.pv] = t /\ f.todo \subseteq links[f.pv]
  /\ f.at = "lock" => f.todo = {}
  /\ k < Len(stack[t]) => f.at = "fan" /\ stack[t][k + 1].pv \in links[f.pv]
  /\ k = 1 => ~Leaving(f.pv)

Distinct(t, j, k) ==
  stack[t][j].at = "fan" /\ stack[t][k].at = "fan" /\ stack[t][j].pv = stack[t][k].pv => j = k

FramesInv ==
  \A t \in Threads :
    /\ \A k \in 1..Len(stack[t]) : FrameInv(t, k)
    /\ \A j, k \in 1..Len(stack[t]) : Distinct(t, j, k)

IInv == Typed /\ NamesInv /\ LinksInv /\ FramesInv

-----------------------------------------------------------------------------
\* A stack that is not empty has one frame or more than one.
LEMMA OneOrMore == ASSUME NEW n \in Nat, n >= 1 PROVE n = 1 \/ n > 1
  OBVIOUS

USE RegistryAssumption DEF PVs, Registered, RegisteredInputs, NoOp, Operation, Free,
                           Within, Top, Frame

\* What Front and Last do to a stack.
LEMMA StackFacts ==
  ASSUME NEW s \in Seq(Frames), s # <<>>
  PROVE  /\ Last(s) \in Frames /\ Last(s) = s[Len(s)] /\ Len(s) \in Nat /\ Len(s) >= 1
         /\ Front(s) \in Seq(Frames) /\ Len(Front(s)) = Len(s) - 1
         /\ \A k \in 1..(Len(s) - 1) : Front(s)[k] = s[k]
<1>1. Len(s) \in Nat /\ Len(s) >= 1
  OBVIOUS
<1>2. s[Len(s)] \in Frames
  BY <1>1
<1>3. \A k \in 1..(Len(s) - 1) : s[k] \in Frames
  OBVIOUS
<1>4. /\ Front(s) \in Seq(Frames)
      /\ Len(Front(s)) = IF 1 <= Len(s) - 1 THEN Len(s) - 1 - 1 + 1 ELSE 0
      /\ \A k \in 1..(Len(s) - 1 - 1 + 1) : Front(s)[k] = s[1 + k - 1]
  BY <1>1, <1>3, SubSeqProperties DEF Front
<1>5. Len(Front(s)) = Len(s) - 1
  <2>1. CASE Len(s) = 1
    BY <1>4, <2>1
  <2>2. CASE Len(s) > 1
    <3>1. 1 <= Len(s) - 1 /\ Len(s) - 1 - 1 + 1 = Len(s) - 1
      BY <1>1, <2>2
    <3>2. QED
      BY <1>4, <3>1
  <2>3. Len(s) = 1 \/ Len(s) > 1
    BY <1>1, OneOrMore
  <2>4. QED
    BY <2>1, <2>2, <2>3
<1>6. \A k \in 1..(Len(s) - 1) : Front(s)[k] = s[k]
  <2>1. SUFFICES ASSUME NEW k \in 1..(Len(s) - 1) PROVE Front(s)[k] = s[k]
    OBVIOUS
  <2>2. 1 + k - 1 = k /\ k \in 1..(Len(s) - 1 - 1 + 1)
    BY <1>1
  <2>3. QED
    BY <1>4, <2>2
<1>7. QED
  BY <1>1, <1>2, <1>4, <1>5, <1>6 DEF Last

\* The elements of a stack, by place.
LEMMA SetFacts ==
  ASSUME NEW s \in Seq(Frames), NEW f
  PROVE  f \in ToSet(s) <=> \E k \in 1..Len(s) : f = s[k]
  BY DEF ToSet

\* Appending to a stack.
LEMMA PushFacts ==
  ASSUME NEW s \in Seq(Frames), NEW f \in Frames
  PROVE  /\ Append(s, f) \in Seq(Frames) /\ Len(Append(s, f)) = Len(s) + 1
         /\ \A k \in 1..Len(s) : Append(s, f)[k] = s[k]
         /\ Append(s, f)[Len(s) + 1] = f
  OBVIOUS

-----------------------------------------------------------------------------
\* Every variable keeps its type.
LEMMA TypedStep == ASSUME Typed, NamesInv, [Next]_vars PROVE Typed'
<1> USE StackFacts, PushFacts DEF Typed, Frames
<1>1. ASSUME NEW t \in Threads, NEW p \in PVs, Register(t, p) PROVE Typed'
  <2>1. Name[p] \in Names /\ op = NoOp /\ life[p] = "built"
    BY <1>1 DEF Register
  <2>2. UNCHANGED <<links, listLock, op, stack>>
    BY <1>1 DEF Register
  <2>3. CASE /\ registry[Name[p]] = NoPV
             /\ life' = [life EXCEPT ![p] = "registered"]
             /\ registry' = [registry EXCEPT ![Name[p]] = p]
    BY <2>1, <2>2, <2>3
  <2>4. CASE life' = [life EXCEPT ![p] = "rejected"] /\ UNCHANGED registry
    BY <2>1, <2>2, <2>4
  <2>5. QED
    BY <1>1, <2>3, <2>4 DEF Register
<1>2. ASSUME NEW t \in Threads, NEW p \in PVs, Deregister(t, p) PROVE Typed'
  BY <1>2 DEF Deregister
<1>3. ASSUME NEW t \in Threads, NEW p \in PVs, Unlink(t, p) PROVE Typed'
  BY <1>3 DEF Unlink
<1>4. ASSUME NEW t \in Threads, NEW r \in Requests, Link(t, Name[r[1]], r[2]) PROVE Typed'
  BY <1>4 DEF Link
<1>5. ASSUME NEW i \in Inputs, Visit(i) PROVE Typed'
  <2>1. op' = [op EXCEPT !.todo = @ \ {i}] /\ op.todo \ {i} \in SUBSET Inputs
    BY <1>5 DEF Visit
  <2>2. links' = [links EXCEPT ![i] = IF op.kind = "link" THEN @ \cup {op.pv} ELSE @ \ {op.pv}]
    BY <1>5 DEF Visit
  <2>3. op.kind = "link" => op.pv \in PVs
    BY DEF NamesInv
  <2>4. links' \in [Inputs -> SUBSET PVs]
    BY <2>2, <2>3
  <2>5. op' \in [by : Threads \cup {NoThread}, kind : {"none", "link", "unlink", "deregister"},
                pv : PVs \cup {NoPV}, todo : SUBSET Inputs]
    BY <2>1
  <2>6. QED
    BY <1>5, <2>4, <2>5 DEF Visit
<1>6. ASSUME FinishOperation PROVE Typed'
  BY <1>6 DEF FinishOperation
<1>7. ASSUME NEW t \in Threads, NEW i \in Inputs, Push(t, i) PROVE Typed'
  <2>1. Frame(i) \in Frames
    OBVIOUS
  <2>2. <<Frame(i)>> \in Seq(Frames)
    BY <2>1
  <2>3. QED
    BY <1>7, <2>2 DEF Push
<1>8. ASSUME NEW t \in Threads, LockList(t) PROVE Typed'
  <2> DEFINE f == [Top(t) EXCEPT !.at = "fan", !.todo = links[Top(t).pv]]
  <2>1. stack[t] \in Seq(Frames) /\ stack[t] # <<>> /\ Top(t) \in Frames
    BY <1>8 DEF LockList
  <2>2. f \in Frames
    BY <2>1
  <2>3. Append(Front(stack[t]), f) \in Seq(Frames)
    BY <2>1, <2>2
  <2>4. QED
    BY <1>8, <2>1, <2>3 DEF LockList
<1>9. ASSUME NEW t \in Threads, NEW p \in PVs, Deliver(t, p) PROVE Typed'
  <2> DEFINE f == [Top(t) EXCEPT !.todo = @ \ {p}]
             rest == Append(Front(stack[t]), f)
  <2>1. stack[t] \in Seq(Frames) /\ stack[t] # <<>> /\ Top(t) \in Frames
    BY <1>9 DEF Deliver
  <2>2. f \in Frames
    BY <2>1
  <2>3. rest \in Seq(Frames)
    BY <2>1, <2>2
  <2>4. p \in Inputs => Frame(p) \in Frames /\ Append(rest, Frame(p)) \in Seq(Frames)
    BY <2>3
  <2>5. QED
    BY <1>9, <2>3, <2>4 DEF Deliver
<1>10. ASSUME NEW t \in Threads, Return(t) PROVE Typed'
  BY <1>10 DEF Return
<1>11. CASE UNCHANGED vars
  BY <1>11 DEF vars
<1>12. QED
  BY <1>1, <1>2, <1>3, <1>4, <1>5, <1>6, <1>7, <1>8, <1>9, <1>10, <1>11
  DEF Next, Work, Finished

\* The names.
LEMMA NamesStep == ASSUME Typed, NamesInv, [Next]_vars PROVE NamesInv'
<1> USE DEF Typed, NamesInv, Leaving
<1>1. ASSUME NEW t \in Threads, NEW p \in PVs, Register(t, p) PROVE NamesInv'
  <2>1. Name[p] \in Names /\ op = NoOp /\ life[p] = "built"
    BY <1>1 DEF Register
  <2>2. UNCHANGED <<links, listLock, op, stack>>
    BY <1>1 DEF Register
  <2>3. CASE /\ registry[Name[p]] = NoPV
             /\ life' = [life EXCEPT ![p] = "registered"]
             /\ registry' = [registry EXCEPT ![Name[p]] = p]
    BY <2>1, <2>2, <2>3
  <2>4. CASE life' = [life EXCEPT ![p] = "rejected"] /\ UNCHANGED registry
    BY <2>1, <2>2, <2>4
  <2>5. QED
    BY <1>1, <2>3, <2>4 DEF Register
<1>2. ASSUME NEW t \in Threads, NEW p \in PVs, Deregister(t, p) PROVE NamesInv'
  BY <1>2 DEF Deregister
<1>3. ASSUME NEW t \in Threads, NEW p \in PVs, Unlink(t, p) PROVE NamesInv'
  BY <1>3 DEF Unlink
<1>4. ASSUME NEW t \in Threads, NEW r \in Requests, Link(t, Name[r[1]], r[2]) PROVE NamesInv'
  BY <1>4 DEF Link
<1>5. ASSUME NEW i \in Inputs, Visit(i) PROVE NamesInv'
  BY <1>5 DEF Visit
<1>6. ASSUME FinishOperation PROVE NamesInv'
  BY <1>6 DEF FinishOperation
<1>7. ASSUME UNCHANGED <<life, registry, op>> PROVE NamesInv'
  BY <1>7
<1>8. QED
  BY <1>1, <1>2, <1>3, <1>4, <1>5, <1>6, <1>7
  DEF Next, Work, Finished, vars, Push, LockList, Deliver, Return

\* The links.
LEMMA LinksStep == ASSUME Typed, NamesInv, LinksInv, [Next]_vars PROVE LinksInv'
<1> USE DEF Typed, NamesInv, LinksInv, Leaving, Ending
<1>1. ASSUME NEW t \in Threads, NEW p \in PVs, Register(t, p) PROVE LinksInv'
  <2>1. Name[p] \in Names /\ op = NoOp /\ life[p] = "built"
    BY <1>1 DEF Register
  <2>2. UNCHANGED <<links, listLock, op, stack>>
    BY <1>1 DEF Register
  <2>3. CASE /\ registry[Name[p]] = NoPV
             /\ life' = [life EXCEPT ![p] = "registered"]
             /\ registry' = [registry EXCEPT ![Name[p]] = p]
    BY <2>1, <2>2, <2>3
  <2>4. CASE life' = [life EXCEPT ![p] = "rejected"] /\ UNCHANGED registry
    BY <2>1, <2>2, <2>4
  <2>5. QED
    BY <1>1, <2>3, <2>4 DEF Register
<1>2. ASSUME NEW t \in Threads, NEW p \in PVs, Deregister(t, p) PROVE LinksInv'
  BY <1>2 DEF Deregister
<1>3. ASSUME NEW t \in Threads, NEW p \in PVs, Unlink(t, p) PROVE LinksInv'
  BY <1>3 DEF Unlink
<1>4. ASSUME NEW t \in Threads, NEW r \in Requests, Link(t, Name[r[1]], r[2]) PROVE LinksInv'
  BY <1>4 DEF Link
<1>5. ASSUME NEW i \in Inputs, Visit(i) PROVE LinksInv'
  BY <1>5 DEF Visit
<1>6. ASSUME FinishOperation PROVE LinksInv'
  BY <1>6 DEF FinishOperation
<1>7. ASSUME UNCHANGED <<life, registry, links, op>> PROVE LinksInv'
  BY <1>7
<1>8. QED
  BY <1>1, <1>2, <1>3, <1>4, <1>5, <1>6, <1>7
  DEF Next, Work, Finished, vars, Push, LockList, Deliver, Return

\* The frames.
LEMMA FramesStep == ASSUME IInv, [Next]_vars PROVE FramesInv'
<1> USE DEF IInv
<1>0. /\ \A t \in Threads : stack[t] \in Seq(Frames) /\ Len(stack[t]) \in Nat
      /\ NoThread \notin Threads
      /\ \A t \in Threads : \A k \in 1..Len(stack[t]) :
           stack[t][k] \in Frames /\ stack[t][k].pv \in Inputs /\ stack[t][k].pv \in PVs
  <2>1. \A t \in Threads : stack[t] \in Seq(Frames)
    BY DEF Typed
  <2>2. \A t \in Threads : \A k \in 1..Len(stack[t]) : stack[t][k] \in Frames
    BY <2>1
  <2>3. \A f \in Frames : f.pv \in Inputs
    BY DEF Frames
  <2>4. QED
    BY <2>1, <2>2, <2>3
<1> USE DEF FramesInv, FrameInv, Distinct, Leaving
<1>1. ASSUME NEW t \in Threads, NEW p \in PVs, Register(t, p) PROVE FramesInv'
  <2>1. UNCHANGED <<links, listLock, op, stack>>
    BY <1>1 DEF Register
  <2>2. ASSUME NEW q \in PVs, life[q] = "registered" PROVE life'[q] = "registered"
    BY <1>1, <2>2 DEF Register, Typed
  <2>3. ASSUME NEW u \in Threads, NEW k \in 1..Len(stack[u]) PROVE FrameInv(u, k)'
    <3>1. FrameInv(u, k) /\ stack[u][k].pv \in PVs
      BY <1>0
    <3>2. life'[stack[u][k].pv] = "registered"
      BY <2>2, <3>1
    <3>3. QED
      BY <2>1, <3>1, <3>2
  <2>4. QED
    BY <2>1, <2>3
<1>2. ASSUME NEW t \in Threads, NEW p \in PVs, Deregister(t, p) PROVE FramesInv'
  <2>1. op.kind = "none" /\ op'.kind = "deregister" /\ op'.pv = p
    BY <1>2 DEF Deregister
  <2>2. UNCHANGED <<life, links, listLock, stack>>
    BY <1>2 DEF Deregister
  <2>3. ASSUME NEW u \in Threads, 1 \in 1..Len(stack[u]) PROVE stack[u][1].pv # p
    BY <1>0, <1>2, <2>3 DEF Deregister, Pushing
  <2>4. ASSUME NEW u \in Threads, NEW k \in 1..Len(stack[u]) PROVE FrameInv(u, k)'
    <3>1. FrameInv(u, k)
      OBVIOUS
    <3>2. k = 1 => stack[u][k].pv # p
      BY <2>3
    <3>3. QED
      BY <2>1, <2>2, <3>1, <3>2
  <2>5. QED
    BY <2>2, <2>4
<1>3. ASSUME NEW t \in Threads, NEW p \in PVs, Unlink(t, p) PROVE FramesInv'
  <2>1. op'.kind = "unlink" /\ UNCHANGED <<life, links, listLock, stack>>
    BY <1>3 DEF Unlink
  <2>2. ASSUME NEW u \in Threads, NEW k \in 1..Len(stack[u]) PROVE FrameInv(u, k)'
    <3>1. FrameInv(u, k)
      OBVIOUS
    <3>2. QED
      BY <2>1, <3>1
  <2>3. QED
    BY <2>1, <2>2
<1>4. ASSUME NEW t \in Threads, NEW r \in Requests, Link(t, Name[r[1]], r[2]) PROVE FramesInv'
  <2>1. op'.kind = "link" /\ UNCHANGED <<life, links, listLock, stack>>
    BY <1>4 DEF Link
  <2>2. ASSUME NEW u \in Threads, NEW k \in 1..Len(stack[u]) PROVE FrameInv(u, k)'
    <3>1. FrameInv(u, k)
      OBVIOUS
    <3>2. QED
      BY <2>1, <3>1
  <2>3. QED
    BY <2>1, <2>2
<1>5. ASSUME NEW i \in Inputs, Visit(i) PROVE FramesInv'
  <2>1. \A u \in Threads : \A k \in 1..Len(stack[u]) :
          stack[u][k].at = "fan" => stack[u][k].pv # i /\ stack[u][k].pv \in Inputs
    BY <1>0, <1>5 DEF Visit
  <2>2. \A q \in Inputs : q # i => links'[q] = links[q]
    BY <1>5 DEF Visit, Typed
  <2>3. op'.kind = op.kind /\ op'.pv = op.pv /\ UNCHANGED <<life, listLock, stack>>
    BY <1>5 DEF Visit, Typed
  <2>4. QED
    BY <1>0, <2>1, <2>2, <2>3
<1>6. ASSUME FinishOperation PROVE FramesInv'
  <2>1. ASSUME op.kind = "deregister", NEW t \in Threads, NEW k \in 1..Len(stack[t]),
               stack[t][k].pv = op.pv
        PROVE  FALSE
    <3>1. ASSUME NEW j \in 1..Len(stack[t]), stack[t][j].pv = op.pv
          PROVE  j - 1 \in 1..Len(stack[t]) /\ stack[t][j - 1].pv = op.pv /\ stack[t][j - 1].at = "fan"
      <4>1. j # 1 /\ j - 1 \in 1..Len(stack[t]) /\ j - 1 < Len(stack[t]) /\ (j - 1) + 1 = j
        BY <1>0, <2>1, <3>1
      <4>2. FrameInv(t, j - 1)
        BY <4>1
      <4>3. /\ stack[t][j - 1].at = "fan" /\ op.pv \in links[stack[t][j - 1].pv]
            /\ life[stack[t][j - 1].pv] = "registered"
        BY <3>1, <4>1, <4>2
      <4>4. stack[t][j - 1].pv \in Inputs /\ stack[t][j - 1].pv \in PVs
        BY <1>0, <4>1
      <4>5. ~Registered(stack[t][j - 1].pv)
        BY <1>6, <2>1, <4>3, <4>4 DEF FinishOperation, LinksInv, Ending
      <4>6. QED
        BY <4>1, <4>3, <4>4, <4>5 DEF NamesInv
    <3>2. k - 1 \in 1..Len(stack[t]) /\ stack[t][k - 1].pv = op.pv /\ stack[t][k - 1].at = "fan"
      BY <2>1, <3>1
    <3>3. /\ k - 1 - 1 \in 1..Len(stack[t]) /\ stack[t][k - 1 - 1].pv = op.pv
          /\ stack[t][k - 1 - 1].at = "fan"
      BY <3>1, <3>2
    <3>4. Distinct(t, k - 1, k - 1 - 1)
      BY <3>2, <3>3
    <3>5. k - 1 # k - 1 - 1
      BY <1>0
    <3>6. QED
      BY <3>2, <3>3, <3>4, <3>5
  <2>2. QED
    BY <1>0, <1>6, <2>1 DEF FinishOperation, Typed
<1>7. ASSUME NEW t \in Threads, NEW i \in Inputs, Push(t, i) PROVE FramesInv'
  <2>0. stack' = [stack EXCEPT ![t] = <<Frame(i)>>] /\ stack \in [Threads -> Seq(Frames)]
    BY <1>7 DEF Push, Typed
  <2> HIDE DEF Frame
  <2>1. stack'[t] = <<Frame(i)>> /\ \A u \in Threads : u # t => stack'[u] = stack[u]
    BY <2>0
  <2>2. Len(stack'[t]) = 1 /\ stack'[t][1] = Frame(i)
    BY <2>1
  <2>3. UNCHANGED <<life, registry, links, listLock, op>> /\ life[i] = "registered" /\ ~Leaving(i)
    BY <1>7 DEF Push
  <2>4. Frame(i).pv = i /\ Frame(i).at = "lock" /\ Frame(i).todo = {}
    BY DEF Frame
  <2>5. ASSUME NEW u \in Threads, NEW k \in 1..Len(stack'[u]) PROVE FrameInv(u, k)'
    <3>1. CASE u = t
      <4>1. k = 1 /\ stack'[u][k] = Frame(i) /\ ~(k < Len(stack'[u]))
        <5>1. Len(stack'[u]) = 1 /\ stack'[u][1] = Frame(i)
          BY <2>2, <3>1
        <5>2. k = 1
          BY <2>5, <5>1
        <5>3. QED
          BY <5>1, <5>2
      <4>2. life'[i] = "registered" /\ ~Leaving(i)'
        BY <2>3
      <4>3. QED
        BY <2>4, <4>1, <4>2
    <3>2. CASE u # t
      BY <2>1, <2>3, <2>5, <3>2
    <3>3. QED
      BY <3>1, <3>2
  <2>6. ASSUME NEW u \in Threads, NEW j \in 1..Len(stack'[u]), NEW k \in 1..Len(stack'[u])
        PROVE  Distinct(u, j, k)'
    BY <2>1, <2>2, <2>6
  <2> HIDE DEF FrameInv, Distinct
  <2>7. QED
    BY <2>5, <2>6
<1>8. ASSUME NEW t \in Threads, LockList(t) PROVE FramesInv'
  <2> DEFINE s == stack[t]
             n == Len(s)
             f == [Top(t) EXCEPT !.at = "fan", !.todo = links[Top(t).pv]]
  <2>1. /\ s # <<>> /\ s[n].at = "lock" /\ Top(t) = s[n] /\ s[n] \in Frames /\ n \in 1..n
        /\ listLock[s[n].pv] = NoThread
    BY <1>0, <1>8, StackFacts DEF LockList
  <2>2. /\ f \in Frames /\ f.at = "fan" /\ f.pv = s[n].pv /\ f.todo = links[f.pv]
    <3>1. Top(t) \in Frames
      BY <2>1
    <3> HIDE DEF Top
    <3>2. f \in Frames
      <4>1. Top(t).pv \in Inputs /\ links \in [Inputs -> SUBSET PVs]
        BY <3>1 DEF Typed, Frames
      <4>2. links[Top(t).pv] \in SUBSET PVs
        BY <4>1
      <4>3. QED
        BY <3>1, <4>2 DEF Frames
    <3>3. f.at = "fan" /\ f.pv = Top(t).pv /\ f.todo = links[Top(t).pv]
      BY <3>1 DEF Frames
    <3>4. QED
      BY <2>1, <3>2, <3>3
  <2>3. /\ Len(stack'[t]) = n /\ stack'[t][n] = f
        /\ \A k \in 1..n : k # n => stack'[t][k] = s[k]
    <3>1. stack'[t] = Append(Front(s), f)
      BY <1>8 DEF LockList, Typed
    <3>2. Front(s) \in Seq(Frames) /\ Len(Front(s)) = n - 1 /\ \A k \in 1..(n - 1) : Front(s)[k] = s[k]
      BY <1>0, <2>1, StackFacts
    <3>3. /\ Len(stack'[t]) = n - 1 + 1 /\ stack'[t][n - 1 + 1] = f
          /\ \A k \in 1..(n - 1) : stack'[t][k] = Front(s)[k]
      BY <2>2, <3>1, <3>2, PushFacts
    <3>4. n - 1 + 1 = n /\ \A k \in 1..n : k # n => k \in 1..(n - 1)
      BY <1>0
    <3>5. QED
      BY <3>2, <3>3, <3>4
  <2>4. \A u \in Threads : u # t => stack'[u] = stack[u]
    BY <1>8 DEF LockList, Typed
  <2>5. /\ listLock'[f.pv] = t /\ \A q \in Inputs : q # f.pv => listLock'[q] = listLock[q]
        /\ UNCHANGED <<life, registry, links, op>>
    BY <1>8, <2>1, <2>2 DEF LockList, Typed, Frames
  <2>6. \A u \in Threads : \A k \in 1..Len(stack[u]) :
          stack[u][k].at = "fan" => stack[u][k].pv # f.pv
    BY <1>0, <2>1, <2>2
  <2> HIDE DEF f
  <2>7. ASSUME NEW u \in Threads, u # t PROVE \A k \in 1..Len(stack'[u]) : FrameInv(u, k)'
    <3>1. SUFFICES ASSUME NEW k \in 1..Len(stack[u]) PROVE FrameInv(u, k)'
      BY <2>4, <2>7
    <3>2. FrameInv(u, k) /\ stack'[u] = stack[u] /\ stack[u][k].pv \in Inputs
      BY <1>0, <2>4, <2>7
    <3>3. stack[u][k].at = "fan" => stack[u][k].pv # f.pv
      BY <2>6
    <3>4. QED
      BY <2>5, <3>2, <3>3
  <2>8. ASSUME NEW k \in 1..n, k # n PROVE FrameInv(t, k)'
    <3>1. FrameInv(t, k) /\ k + 1 \in 1..n /\ k < n
      BY <1>0, <2>8
    <3>2. stack'[t][k + 1].pv = s[k + 1].pv
      BY <2>2, <2>3, <3>1
    <3>3. QED
      BY <1>0, <2>2, <2>3, <2>5, <2>6, <2>8, <3>1, <3>2
  <2>9. FrameInv(t, n)'
    <3>1. FrameInv(t, n) /\ n \in Nat
      BY <1>0, <2>1
    <3>2. QED
      BY <2>2, <2>3, <2>5, <3>1
  <2>10. ASSUME NEW j \in 1..n, NEW k \in 1..n PROVE Distinct(t, j, k)'
    <3>1. CASE j = n \/ k = n
      BY <2>2, <2>3, <2>6, <3>1
    <3>2. CASE j # n /\ k # n
      <4>1. Distinct(t, j, k) /\ stack'[t][j] = s[j] /\ stack'[t][k] = s[k]
        BY <2>3, <3>2
      <4>2. QED
        BY <4>1
    <3>3. QED
      BY <3>1, <3>2
  <2>12. \A u \in Threads : \A j, k \in 1..Len(stack'[u]) : Distinct(u, j, k)'
    BY <2>3, <2>4, <2>10
  <2> HIDE DEF FrameInv, Distinct
  <2>11. \A k \in 1..Len(stack'[t]) : FrameInv(t, k)'
    BY <2>3, <2>8, <2>9
  <2>13. QED
    BY <2>7, <2>11, <2>12
<1>9. ASSUME NEW t \in Threads, NEW p \in PVs, Deliver(t, p) PROVE FramesInv'
  <2> DEFINE s == stack[t]
             n == Len(s)
             f == [Top(t) EXCEPT !.todo = @ \ {p}]
             rest == Append(Front(s), f)
  <2>1. /\ s \in Seq(Frames) /\ s # <<>> /\ s[n].at = "fan" /\ Top(t) = s[n] /\ s[n] \in Frames
        /\ n \in 1..n /\ p \in s[n].todo
    BY <1>0, <1>9, StackFacts DEF Deliver
  <2>2. f \in Frames /\ f.at = "fan" /\ f.pv = s[n].pv /\ f.todo \subseteq s[n].todo
    <3>1. Top(t) \in Frames
      BY <2>1
    <3> HIDE DEF Top
    <3>2. f \in Frames
      BY <3>1 DEF Frames
    <3>3. f.at = Top(t).at /\ f.pv = Top(t).pv /\ f.todo = Top(t).todo \ {p}
      BY <3>1 DEF Frames
    <3>4. QED
      BY <2>1, <3>2, <3>3
  <2> HIDE DEF f
  <2>3. /\ rest \in Seq(Frames) /\ Len(rest) = n /\ rest[n] = f
        /\ \A k \in 1..n : k # n => rest[k] = s[k]
    <3>1. Front(s) \in Seq(Frames) /\ Len(Front(s)) = n - 1 /\ \A k \in 1..(n - 1) : Front(s)[k] = s[k]
      BY <2>1, StackFacts
    <3>2. /\ Len(rest) = n - 1 + 1 /\ rest[n - 1 + 1] = f
          /\ \A k \in 1..(n - 1) : rest[k] = Front(s)[k]
      BY <2>2, <3>1, PushFacts
    <3>3. n - 1 + 1 = n /\ \A k \in 1..n : k # n => k \in 1..(n - 1)
      BY <2>1
    <3>4. rest \in Seq(Frames)
      BY <2>2, <3>1, PushFacts
    <3>5. QED
      BY <3>1, <3>2, <3>3, <3>4
  <2> HIDE DEF rest
  <2>4. /\ stack'[t] = IF p \in Inputs THEN Append(rest, Frame(p)) ELSE rest
        /\ \A u \in Threads : u # t => stack'[u] = stack[u]
        /\ UNCHANGED <<life, registry, links, listLock, op>>
    BY <1>9 DEF Deliver, Typed, rest, f
  <2>5. FrameInv(t, n) /\ p \in links[s[n].pv] /\ life[p] = "registered"
    <3>1. FrameInv(t, n) /\ s[n].pv \in Inputs
      BY <1>0, <2>1
    <3>2. p \in links[s[n].pv] /\ life[s[n].pv] = "registered"
      BY <2>1, <3>1
    <3>3. CASE Registered(s[n].pv)
      <4>1. Registered(p) \/ Leaving(p)
        BY <3>1, <3>2, <3>3 DEF LinksInv
      <4>2. QED
        BY <3>1, <3>2, <4>1 DEF NamesInv
    <3>4. CASE Leaving(s[n].pv)
      BY <3>1, <3>2, <3>4 DEF LinksInv
    <3>5. QED
      BY <3>1, <3>2, <3>3, <3>4 DEF NamesInv
  <2>6. ASSUME NEW k \in 1..n PROVE
          /\ rest[k].pv = s[k].pv /\ rest[k].at = s[k].at /\ rest[k].todo \subseteq s[k].todo
    BY <2>1, <2>2, <2>3
  <2>7. ASSUME NEW u \in Threads, u # t
        PROVE  \A k \in 1..Len(stack'[u]) : FrameInv(u, k)'
    BY <2>4, <2>7
  <2>8. CASE p \notin Inputs
    <3>1. stack'[t] = rest
      BY <2>4, <2>8
    <3>2. ASSUME NEW k \in 1..n PROVE FrameInv(t, k)'
      <4>1. FrameInv(t, k) /\ (k < n => k + 1 \in 1..n)
        BY <2>1
      <4>2. /\ rest[k].pv = s[k].pv /\ rest[k].at = s[k].at /\ rest[k].todo \subseteq s[k].todo
            /\ k < n => rest[k + 1].pv = s[k + 1].pv
        BY <2>6, <4>1
      <4>3. stack'[t] = rest /\ Len(rest) = n /\ UNCHANGED <<life, links, listLock, op>>
        BY <2>3, <2>4, <3>1
      <4> HIDE DEF IInv, FramesInv, Distinct
      <4>4. QED
        BY <4>1, <4>2, <4>3
    <3>3. ASSUME NEW u \in Threads, NEW j \in 1..Len(stack'[u]), NEW k \in 1..Len(stack'[u])
          PROVE  Distinct(u, j, k)'
      <4>1. CASE u # t
        <5>1. stack'[u] = stack[u]
          BY <2>4, <4>1
        <5>2. Distinct(u, j, k)
          BY <3>3, <5>1
        <5>3. QED
          BY <5>1, <5>2
      <4>2. CASE u = t
        <5>1. j \in 1..n /\ k \in 1..n
          BY <2>3, <3>1, <3>3, <4>2
        <5>2. QED
          BY <2>6, <3>1, <4>2, <5>1
      <4>3. QED
        BY <4>1, <4>2
    <3> HIDE DEF FrameInv, Distinct
    <3>4. QED
      BY <2>3, <2>7, <3>1, <3>2, <3>3
  <2>9. CASE p \in Inputs
    <3>1. stack'[t] = Append(rest, Frame(p))
      BY <2>4, <2>9
    <3>2. Frame(p) \in Frames /\ Frame(p).pv = p /\ Frame(p).at = "lock" /\ Frame(p).todo = {}
      BY <2>9 DEF Frames
    <3>3. /\ Len(stack'[t]) = n + 1 /\ stack'[t][n + 1] = Frame(p)
          /\ \A k \in 1..n : stack'[t][k] = rest[k]
      BY <2>3, <3>1, <3>2, PushFacts
    <3> HIDE DEF Frame
    <3>4. ASSUME NEW k \in 1..n, k # n PROVE FrameInv(t, k)'
      <4>1. FrameInv(t, k) /\ k < n /\ k + 1 \in 1..n
        BY <2>1, <3>4
      <4>2. QED
        BY <2>3, <2>4, <2>6, <3>3, <4>1
    <3>5. ASSUME NEW k \in 1..n, k = n PROVE FrameInv(t, k)'
      <4>1. FrameInv(t, k) /\ k + 1 = n + 1
        BY <3>5
      <4>2. stack'[t][k] = f /\ stack'[t][k + 1] = Frame(p) /\ f.todo \subseteq links[f.pv]
        BY <2>1, <2>2, <2>3, <2>5, <3>3, <3>5, <4>1
      <4>3. /\ life[f.pv] = "registered" /\ listLock[f.pv] = t /\ p \in links[f.pv]
            /\ k = 1 => ~Leaving(f.pv)
        BY <2>1, <2>2, <2>5, <3>5, <4>1
      <4>4. k < Len(stack'[t]) => p \in links'[stack'[t][k].pv]
        BY <2>4, <4>2, <4>3
      <4>5. stack'[t][k].at = "fan" /\ stack'[t][k + 1].pv = p
        BY <2>2, <3>2, <4>2
      <4>6. listLock'[stack'[t][k].pv] = t /\ stack'[t][k].todo \subseteq links'[stack'[t][k].pv]
        BY <2>4, <4>2, <4>3
      <4>7. life'[stack'[t][k].pv] = "registered" /\ (k = 1 => ~Leaving(stack[t][k].pv)')
        BY <2>4, <4>2, <4>3
      <4>8. QED
        BY <4>4, <4>5, <4>6, <4>7
    <3>6. PICK m \in Nat : m = n + 1
      BY <2>1
    <3>7. /\ m # 1 /\ m \notin 1..n /\ Len(stack'[t]) = m /\ stack'[t][m] = Frame(p)
          /\ 1..m = 1..n \cup {m} /\ ~(m < m)
      BY <2>1, <3>3, <3>6
    <3>8. FrameInv(t, m)'
      BY <2>4, <2>5, <3>2, <3>7
    <3>9. ASSUME NEW u \in Threads, NEW j \in 1..Len(stack'[u]), NEW k \in 1..Len(stack'[u])
          PROVE  Distinct(u, j, k)'
      <4>1. CASE u # t
        BY <2>4, <3>9, <4>1
      <4>2. CASE u = t /\ (j = m \/ k = m)
        BY <3>2, <3>7, <4>2
      <4>3. CASE u = t /\ j \in 1..n /\ k \in 1..n
        <5>1. Distinct(t, j, k)
          BY <4>3
        <5>2. /\ stack'[t][j].pv = s[j].pv /\ stack'[t][j].at = s[j].at
              /\ stack'[t][k].pv = s[k].pv /\ stack'[t][k].at = s[k].at
          <6>1. stack'[t][j] = rest[j] /\ stack'[t][k] = rest[k]
            BY <3>3, <4>3
          <6>2. QED
            BY <2>6, <4>3, <6>1
        <5>3. QED
          BY <4>3, <5>1, <5>2
      <4>4. QED
        BY <3>7, <3>9, <4>1, <4>2, <4>3
    <3> HIDE DEF FrameInv, Distinct
    <3>10. \A k \in 1..Len(stack'[t]) : FrameInv(t, k)'
      BY <3>4, <3>5, <3>7, <3>8
    <3>11. QED
      BY <2>7, <3>9, <3>10
  <2>10. QED
    BY <2>8, <2>9
<1>10. ASSUME NEW t \in Threads, Return(t) PROVE FramesInv'
  <2> DEFINE s == stack[t]
             n == Len(s)
  <2>1. s \in Seq(Frames) /\ s # <<>> /\ s[n].at = "fan" /\ Top(t) = s[n] /\ n \in 1..n
    BY <1>0, <1>10, StackFacts DEF Return
  <2>2. stack'[t] = Front(s) /\ \A u \in Threads : u # t => stack'[u] = stack[u]
    BY <1>10 DEF Return, Typed
  <2>3. Len(stack'[t]) = n - 1 /\ \A k \in 1..(n - 1) : stack'[t][k] = s[k]
    BY <2>1, <2>2, StackFacts
  <2>4. /\ \A q \in Inputs : q # s[n].pv => listLock'[q] = listLock[q]
        /\ UNCHANGED <<life, registry, links, op>>
    BY <1>10, <2>1 DEF Return, Typed
  <2>5. listLock[s[n].pv] = t
    BY <1>0, <2>1
  <2>6. ASSUME NEW u \in Threads, u # t PROVE \A k \in 1..Len(stack'[u]) : FrameInv(u, k)'
    <3>1. SUFFICES ASSUME NEW k \in 1..Len(stack[u]) PROVE FrameInv(u, k)'
      BY <2>2, <2>6
    <3>2. FrameInv(u, k) /\ stack'[u] = stack[u] /\ stack[u][k].pv \in Inputs
      BY <1>0, <2>2, <2>6
    <3>3. stack[u][k].at = "fan" => stack[u][k].pv # s[n].pv
      BY <2>5, <2>6, <3>2
    <3>4. QED
      BY <2>4, <3>2, <3>3
  <2>7. ASSUME NEW k \in 1..(n - 1) PROVE FrameInv(t, k)'
    <3>1. /\ FrameInv(t, k) /\ k \in 1..n /\ k < n /\ k # n /\ s[k].pv \in Inputs
          /\ (k < n - 1 => k + 1 \in 1..(n - 1))
      BY <1>0, <2>1
    <3>2. s[k].at = "fan" /\ s[k].pv # s[n].pv
      <4>1. Distinct(t, k, n)
        BY <2>1, <3>1
      <4>2. QED
        BY <2>1, <3>1, <4>1
    <3>3. stack'[t][k] = s[k] /\ (k < n - 1 => stack'[t][k + 1] = s[k + 1])
      BY <2>3, <3>1
    <3>4. listLock'[s[k].pv] = listLock[s[k].pv]
      BY <2>4, <3>1, <3>2
    <3>5. QED
      BY <2>3, <2>4, <3>1, <3>3, <3>4
  <2>8. ASSUME NEW u \in Threads, NEW j \in 1..Len(stack'[u]), NEW k \in 1..Len(stack'[u])
        PROVE  Distinct(u, j, k)'
    <3>1. CASE u # t
      BY <2>2, <2>8, <3>1
    <3>2. CASE u = t
      <4>1. j \in 1..(n - 1) /\ k \in 1..(n - 1) /\ j \in 1..n /\ k \in 1..n
        BY <2>1, <2>3, <2>8, <3>2
      <4>2. Distinct(t, j, k) /\ stack'[t][j] = s[j] /\ stack'[t][k] = s[k]
        BY <2>3, <4>1
      <4>3. QED
        BY <3>2, <4>2
    <3>3. QED
      BY <3>1, <3>2
  <2> HIDE DEF FrameInv, Distinct
  <2>9. QED
    BY <2>3, <2>6, <2>7, <2>8
<1>11. CASE UNCHANGED vars
  BY <1>11 DEF vars
<1>12. QED
  BY <1>1, <1>2, <1>3, <1>4, <1>5, <1>6, <1>7, <1>8, <1>9, <1>10, <1>11
  DEF Next, Work, Finished

\* IInv is inductive.
LEMMA Inductive == Spec => []IInv
<1>1. Init => IInv
  <2> SUFFICES ASSUME Init PROVE IInv
    OBVIOUS
  <2>1. Typed /\ NamesInv /\ LinksInv
    BY DEF Init, Typed, NamesInv, LinksInv, Leaving, Ending
  <2>2. FramesInv
    BY DEF Init, FramesInv
  <2>3. QED
    BY <2>1, <2>2 DEF IInv
<1>2. IInv /\ [Next]_vars => IInv'
  BY TypedStep, NamesStep, LinksStep, FramesStep DEF IInv
<1>3. QED
  BY <1>1, <1>2, PTL DEF Spec

-----------------------------------------------------------------------------
\* Every variable keeps its type, for any PVs, names and threads.
THEOREM TypeCorrect == Spec => []TypeOK
<1>1. ASSUME IInv PROVE TypeOK
  <2>1. ASSUME NEW t \in Threads, NEW f \in ToSet(stack[t]) PROVE f \in Frames
    <3>1. stack[t] \in Seq(Frames)
      BY <1>1 DEF IInv, Typed
    <3>2. QED
      BY <2>1, <3>1, SetFacts
  <2>2. QED
    BY <1>1, <2>1 DEF IInv, Typed, TypeOK, Frames
<1>2. QED
  BY <1>1, Inductive, PTL

\* registerInputPV and its like never lose a PV to another one of the same name:
\* between the operations the register knows exactly the PVs it has accepted
\* and not yet deregistered, each under its own name.
THEOREM NamesAlwaysAgree == Spec => []NamesAgree
<1>1. IInv => NamesAgree
  BY DEF IInv, Typed, NamesInv, NamesAgree, Leaving
<1>2. QED
  BY <1>1, Inductive, PTL

\* deregisterInputPV and deregisterOutputPV remove every pointer to the PV before
\* they return: neither a registered input's list nor a push under way leads to
\* a PV that is gone, although pushes take none of the register's mutex.
THEOREM NothingGoneIsReached == Spec => []NothingGoneIsReachable
<1>1. ASSUME IInv PROVE NothingGoneIsReachable
  <2>1. \A i \in RegisteredInputs : \A p \in links[i] : life[p] # "gone"
    BY <1>1 DEF IInv, Typed, NamesInv, LinksInv
  <2>2. ASSUME NEW t \in Threads, NEW f \in ToSet(stack[t]), NEW p \in f.todo \cup {f.pv}
        PROVE  life[p] # "gone"
    <3>1. PICK k \in 1..Len(stack[t]) : f = stack[t][k]
      BY <1>1, SetFacts DEF IInv, Typed
    <3>2. FrameInv(t, k)
      BY <1>1, <3>1 DEF IInv, FramesInv
    <3>3. f \in Frames
      BY <1>1, <3>1 DEF IInv, Typed
    <3>4. f.pv \in Inputs /\ f.at \in {"lock", "fan"}
      BY <3>3 DEF Frames
    <3>5. CASE p = f.pv
      BY <3>1, <3>2, <3>5 DEF FrameInv
    <3>6. CASE p # f.pv
      <4>1. p \in links[f.pv] /\ life[f.pv] = "registered"
        BY <2>2, <3>1, <3>2, <3>4, <3>6 DEF FrameInv
      <4>2. QED
        BY <1>1, <3>4, <4>1 DEF IInv, Typed, NamesInv, LinksInv, Leaving
    <3>7. QED
      BY <3>5, <3>6
  <2>3. QED
    BY <2>1, <2>2 DEF NothingGoneIsReachable
<1>2. QED
  BY <1>1, Inductive, PTL

\* push goes through the list as it was when it took the list's lock, to the end.
THEOREM FanOutStaysStable == Spec => []FanOutIsStable
<1>1. ASSUME IInv PROVE FanOutIsStable
  BY <1>1, SetFacts DEF IInv, Typed, FramesInv, FrameInv, FanOutIsStable
<1>2. QED
  BY <1>1, Inductive, PTL

-----------------------------------------------------------------------------
(* The refinement.                                                          *)

\* What feeds stands for in PVRegistry.
Feeds == { l \in RegisteredInputs \X PVs :
             l[2] \in links[l[1]] /\ ~(Ending /\ l[2] = op.pv) }

\* Feeds, pair by pair.
LEMMA FeedsFacts ==
  /\ \A i, p : <<i, p>> \in Feeds <=>
       i \in RegisteredInputs /\ p \in PVs /\ p \in links[i] /\ ~(Ending /\ p = op.pv)
  /\ \A l \in Feeds : l = <<l[1], l[2]>>
  BY DEF Feeds

\* Each step of an operation is a step of PVDirectory's or changes nothing there.
LEMMA DirectoryStep ==
  ASSUME IInv, IInv', [Next]_vars PROVE [Directory!Next]_<<registry, Feeds>>
<1> USE DEF IInv, Typed, NamesInv, LinksInv, Leaving, Ending
<1>1. ASSUME NEW t \in Threads, NEW p \in PVs, Register(t, p)
      PROVE  Directory!Register(p) \/ UNCHANGED <<registry, Feeds>>
  <2>1. op = NoOp /\ UNCHANGED <<links, op>> /\ life[p] = "built"
    BY <1>1 DEF Register
  <2>2. CASE registry[Name[p]] = NoPV /\ registry' = [registry EXCEPT ![Name[p]] = p]
    <3>1. Feeds' = Feeds
      BY <2>1, <2>2 DEF Feeds
    <3>2. QED
      BY <2>2, <3>1 DEF Directory!Register, Feeds
  <2>3. CASE UNCHANGED registry
    BY <2>1, <2>3 DEF Feeds
  <2>4. QED
    BY <1>1, <2>2, <2>3 DEF Register
<1>2. ASSUME NEW t \in Threads, NEW p \in PVs, Deregister(t, p)
      PROVE  Directory!Deregister(p)
  BY <1>2 DEF Deregister, Directory!Deregister, Directory!Registered, Feeds
<1>3. ASSUME NEW t \in Threads, NEW p \in PVs, Unlink(t, p)
      PROVE  Directory!Starve(p)
  BY <1>3 DEF Unlink, Directory!Starve, Feeds
<1>4. ASSUME NEW t \in Threads, NEW r \in Requests, Link(t, Name[r[1]], r[2])
      PROVE  UNCHANGED <<registry, Feeds>>
  BY <1>4 DEF Link, Feeds
<1>5. ASSUME NEW i \in Inputs, Visit(i)
      PROVE  UNCHANGED <<registry, Feeds>> \/ \E p \in PVs : Directory!Feed(i, p)
  <2>1. CASE op.kind = "link"
    <3>1. PICK p \in PVs : p = op.pv
      BY <2>1
    <3>2. Directory!Feed(i, p)
      BY <1>5, <2>1, <3>1 DEF Visit, Directory!Feed, Directory!Registered, Feeds
    <3>3. QED
      BY <3>1, <3>2
  <2>2. CASE op.kind # "link"
    BY <1>5, <2>2 DEF Visit, Feeds
  <2>3. QED
    BY <2>1, <2>2
<1>6. ASSUME FinishOperation PROVE UNCHANGED <<registry, Feeds>>
  BY <1>6 DEF FinishOperation, Feeds
<1>7. ASSUME UNCHANGED <<registry, links, op>> PROVE UNCHANGED <<registry, Feeds>>
  BY <1>7 DEF Feeds
<1> DEFINE Goal == Directory!Next \/ UNCHANGED <<registry, Feeds>>
<1>8. ASSUME NEW t \in Threads, NEW p \in PVs, Register(t, p) \/ Deregister(t, p) \/ Unlink(t, p)
      PROVE  Goal
  BY <1>1, <1>2, <1>3, <1>8 DEF Directory!Next
<1>9. ASSUME NEW i \in Inputs, Visit(i) PROVE Goal
  BY <1>5, <1>9 DEF Directory!Next
<1>10. ASSUME NEW t \in Threads, Work(t) PROVE Goal
  BY <1>6, <1>7, <1>9, <1>10 DEF Work, LockList, Deliver, Return
<1>11. ASSUME NEW t \in Threads, NEW i \in Inputs, Push(t, i) PROVE Goal
  BY <1>7, <1>11 DEF Push
<1>12. CASE UNCHANGED vars
  BY <1>7, <1>12 DEF vars
<1> HIDE DEF Goal
<1>13. Goal
  BY <1>4, <1>8, <1>10, <1>11, <1>12 DEF Next, Finished, Goal
<1>14. QED
  BY <1>13 DEF Goal

\* The locked, step by step operations of NdsFactoryImpl on its registers and on
\* the lists of the input PVs take effect one at a time, as PVDirectory says,
\* with any number of threads that push along the lists meanwhile.
THEOREM DirectoryImplemented == Spec => ImplementsDirectory
<1>1. Init => Directory!Init
  BY DEF Init, Directory!Init, Ending
<1>2. IInv /\ IInv' /\ [Next]_vars => [Directory!Next]_(Directory!directoryVars)
  BY DirectoryStep DEF Directory!directoryVars, Feeds
<1>3. QED
  BY <1>1, <1>2, Inductive, PTL DEF Spec, ImplementsDirectory, Directory!Spec
=============================================================================
