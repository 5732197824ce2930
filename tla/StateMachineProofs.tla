------------------------ MODULE StateMachineProofs ------------------------
(***************************************************************************)
(* Proofs about StateMachine, for any number of machines, clients and      *)
(* calls, and on top of them about AcquisitionChannel, for any number of   *)
(* channels and values pushed.  Those about StateMachine cite nothing of   *)
(* the modules that extend it.                                             *)
(***************************************************************************)
EXTENDS AcquisitionChannel, TLAPS

(* StateMachine                                                             *)

\* What a thread's local variables hold at each label, and which labels a
\* client and a transition thread can reach.
FrameOK ==
  \A t \in Threads :
    /\ pc[t] \notin {"idle", "exit", "ended"} => on[t] \in Machines
    /\ Pending(t) \/ pc[t] = "publish" => tr[t] \in Transitions
    /\ out[t] # "other"
    /\ t \in Callers => pc[t] \notin {"exit", "ended"}
    /\ t \in Machines =>
         /\ pc[t] \in {"idle", "call", "delegate", "settle", "publish", "exit", "ended"}
         /\ pc[t] \in {"call", "delegate", "settle", "publish"} => on[t] = t

\* The labels inside m_stateMutex are those of its owner.
MutexInv == \A t \in Threads : pc[t] \in InStateMutex <=> stateMutex = t

-----------------------------------------------------------------------------
\* The table leaves rest states, passes through intermediate ones and ends in
\* rest states.
LEMMA RowFacts ==
  \A row \in Transitions :
    /\ row.from \in RestState /\ row.to \in RestState
    /\ row.via \in IntermediateState
  BY DEF Transitions, Row, RestState, IntermediateState

\* Rest states and intermediate states are different, and both are states.
LEMMA StateFacts ==
  /\ RestState \cap IntermediateState = {}
  /\ RestState \subseteq State \ {"unknown"}
  /\ IntermediateState \subseteq State \ {"unknown"}
  /\ "off" \in RestState /\ "fault" \in RestState
  /\ "unknown" \in State
  BY DEF RestState, IntermediateState, State

\* executeTransition leaves the machine in a rest state.
LEMMA LandingFacts ==
  \A row \in Transitions, o \in Outcome :
    o # "other" => Landing(row, o) \in RestState
  BY RowFacts, StateFacts DEF Landing, Outcome

\* Clients and transition threads are different threads, and NoThread is none.
LEMMA ThreadFacts ==
  /\ Callers \cap Machines = {}
  /\ Callers \subseteq Threads /\ Machines \subseteq Threads
  /\ NoThread \notin Threads
  BY ConstantsAssumption DEF Threads

-----------------------------------------------------------------------------
(* Type correctness.  TypeOK needs FrameOK: the landing state is in State   *)
(* only if the thread that sets it holds a row of the table.                *)

Typed == TypeOK /\ FrameOK

\* The initial state is well typed.
LEMMA TypedInit == Init => Typed
<1> SUFFICES ASSUME Init PROVE TypeOK /\ FrameOK
  BY DEF Typed
<1> USE DEF Init
<1>1. TypeOK
  <2>1. state \in [Machines -> State \ {"unknown"}] /\ shown \in [Machines -> State]
    BY StateFacts
  <2>2. calls \in [Callers -> 0..MaxCalls]
    BY ConstantsAssumption
  <2>3. QED BY <2>1, <2>2, StateFacts DEF TypeOK, PC, Life, Outcome
<1>2. FrameOK
  BY DEF FrameOK, Pending
<1>3. QED BY <1>1, <1>2

\* Every step keeps the types and what the frames hold at each label.
LEMMA TypedStep == Typed /\ [Next]_vars => Typed'
<1> SUFFICES ASSUME Typed, [Next]_vars PROVE Typed'
  OBVIOUS
<1> USE StateFacts, ThreadFacts, ConstantsAssumption
<1> USE DEF Typed, TypeOK, FrameOK, Pending, machineVars, frameVars, Goto
<1>1. ASSUME NEW m \in Machines, Initialize(m) PROVE Typed'
  BY <1>1 DEF Initialize, Life
<1>2. ASSUME NEW t \in Callers, NEW m \in Machines, NEW s \in Requests, CallSetState(t, m, s)
      PROVE Typed'
  BY <1>2 DEF CallSetState, PC
<1>3. ASSUME NEW t \in Threads, EnterSetState(t) PROVE Typed'
  BY <1>3 DEF EnterSetState, PC
<1>4. ASSUME NEW t \in Threads, Refuse(t) PROVE Typed'
  BY <1>4 DEF Refuse, Return, DropFrame, Back, PC, Outcome
<1>5. ASSUME NEW t \in Threads, Accept(t) PROVE Typed'
  BY <1>5, RowFacts DEF Accept, PC
<1>6. ASSUME NEW t \in Threads, NEW p \in PushOutcomes, Announce(t, p) PROVE Typed'
  BY <1>6 DEF Announce, Return, DropFrame, Back, PC, Outcome
<1>7. ASSUME NEW t \in Threads, LockTransitionThread(t) PROVE Typed'
  BY <1>7 DEF LockTransitionThread, PC, Threads
<1>8. ASSUME NEW t \in Threads, LaunchTransitionThread(t) PROVE Typed'
  BY <1>8 DEF LaunchTransitionThread, PC, Threads
<1>9. ASSUME NEW t \in Threads, InvokeDelegate(t) PROVE Typed'
  BY <1>9 DEF InvokeDelegate, PC
<1>10. ASSUME NEW t \in Threads, NEW o \in DelegateOutcomes, DelegateEnds(t, o) PROVE Typed'
  <2>1. CASE o = "other"
    BY <1>10, <2>1 DEF DelegateEnds, Leave, Return, DropFrame, Back, PC, Outcome
  <2>2. CASE o # "other"
    BY <1>10, <2>2 DEF DelegateEnds, PC, Outcome
  <2>3. QED BY <2>1, <2>2
<1>11. ASSUME NEW t \in Threads, Settle(t) PROVE Typed'
  <2>1. /\ pc[t] = "settle" /\ on[t] \in Machines
        /\ Landing(tr[t], out[t]) \in State \ {"unknown"}
    BY <1>11, LandingFacts DEF Settle
  <2>2. QED BY <1>11, <2>1 DEF Settle, PC
<1>12. ASSUME NEW t \in Threads, NEW p \in PushOutcomes, Publish(t, p) PROVE Typed'
  <2>1. CASE p \in {"rollback", "error"} /\ out[t] = "ok"
    BY <1>12, <2>1 DEF Publish, PC, Outcome
  <2>2. CASE ~(p \in {"rollback", "error"} /\ out[t] = "ok")
    <3>1. Return(t) /\ aborted' \in BOOLEAN
      BY <1>12, <2>2 DEF Publish, Leave
    <3>2. QED BY <1>12, <3>1 DEF Publish, Return, DropFrame, Back, PC, Outcome
  <2>3. QED BY <2>1, <2>2
<1>13. ASSUME NEW m \in Machines, ThreadEnds(m) PROVE Typed'
  BY <1>13 DEF ThreadEnds, PC
<1>14. ASSUME NEW t \in Callers, NEW m \in Machines, CallDeinitialize(t, m) PROVE Typed'
  BY <1>14 DEF CallDeinitialize, PC, Life
<1>15. ASSUME NEW t \in Threads, LockForDeinitialize(t) PROVE Typed'
  BY <1>15 DEF LockForDeinitialize, PC, Threads
<1>16. ASSUME NEW t \in Threads, FinishDeinitialize(t) PROVE Typed'
  BY <1>16 DEF FinishDeinitialize, DropFrame, PC, Life, Outcome, Threads
<1>17. CASE UNCHANGED vars
  BY <1>17 DEF vars
<1>18. QED
  BY <1>1, <1>2, <1>3, <1>4, <1>5, <1>6, <1>7, <1>8, <1>9, <1>10, <1>11, <1>12,
     <1>13, <1>14, <1>15, <1>16, <1>17
  DEF Next, Call, Advance, DelegateReturns, Finished

\* Every variable keeps its type, whatever delegates and subscribers do: in
\* particular executeTransition never writes anything but a state a machine
\* can be in.
THEOREM TypeCorrect == Spec => []TypeOK
<1>1. Spec => []Typed
  BY TypedInit, TypedStep, PTL DEF Spec
<1>2. QED
  BY <1>1, PTL DEF Typed

-----------------------------------------------------------------------------
(* The mutex: it is what makes setState's check and its assignment one      *)
(* step for every other thread.                                             *)

\* Every step keeps the labels of the mutex with its owner.
LEMMA MutexStep == Typed /\ MutexInv /\ [Next]_vars => MutexInv'
<1> SUFFICES ASSUME Typed, MutexInv, [Next]_vars PROVE MutexInv'
  OBVIOUS
<1> USE ThreadFacts
<1> USE DEF Typed, TypeOK, FrameOK, MutexInv, InStateMutex, Goto, MutexFree
<1>1. ASSUME NEW t \in Threads,
             \/ EnterSetState(t) \/ Refuse(t) \/ Accept(t) \/ Settle(t)
             \/ \E p \in PushOutcomes : Announce(t, p)
      PROVE MutexInv'
  BY <1>1 DEF EnterSetState, Refuse, Accept, Settle, Announce, Return, Back
<1>2. ASSUME NEW t \in Threads, NEW p \in PushOutcomes, Publish(t, p) PROVE MutexInv'
  <2>1. /\ pc[t] = "publish" /\ stateMutex' = NoThread
        /\ Goto(t, "settle") \/ Return(t)
    BY <1>2 DEF Publish, Leave
  <2>2. QED BY <2>1 DEF Return, Back
<1>3. ASSUME NEW t \in Threads, NEW o \in DelegateOutcomes, DelegateEnds(t, o)
      PROVE MutexInv'
  <2>1. /\ pc[t] = "delegate" /\ stateMutex' = stateMutex
        /\ Goto(t, "settle") \/ Return(t)
    BY <1>3 DEF DelegateEnds, Leave
  <2>2. QED BY <2>1 DEF Return, Back
<1>4. ASSUME NEW t \in Threads,
             \/ LockTransitionThread(t) \/ LaunchTransitionThread(t) \/ InvokeDelegate(t)
             \/ LockForDeinitialize(t) \/ FinishDeinitialize(t)
      PROVE MutexInv'
  BY <1>4 DEF LockTransitionThread, LaunchTransitionThread, InvokeDelegate,
              LockForDeinitialize, FinishDeinitialize, Joined
<1>5. ASSUME NEW m \in Machines, Initialize(m) \/ ThreadEnds(m) PROVE MutexInv'
  BY <1>5 DEF Initialize, ThreadEnds
<1>6. ASSUME NEW t \in Callers, Call(t) PROVE MutexInv'
  BY <1>6 DEF Call, CallSetState, CallDeinitialize
<1>7. CASE UNCHANGED vars
  BY <1>7 DEF vars
<1>8. QED
  BY <1>1, <1>2, <1>3, <1>4, <1>5, <1>6, <1>7 DEF Next, Advance, DelegateReturns, Finished

-----------------------------------------------------------------------------
(* The getState PV and the state: assigned and pushed under one acquisition *)
(* of the mutex, whatever the push or the delegate throws.                  *)

LifeInv ==
  /\ \A t \in Threads : on[t] \in Machines => life[on[t]] # "constructed"
  /\ \A m \in Machines : life[m] = "constructed" => shown[m] = "unknown"

\* The PV lags behind the state only while a thread is about to push.
LagInv ==
  \A m \in Machines :
    \/ life[m] = "constructed"
    \/ shown[m] = state[m]
    \/ \E t \in Threads : pc[t] \in {"announce", "publish"} /\ on[t] = m

ViewInv == LifeInv /\ LagInv

\* One thread at a time is between two labels of the mutex.
LEMMA MutexExclusive ==
  ASSUME MutexInv, NEW t \in Threads, pc[t] \in InStateMutex,
         NEW u \in Threads, pc[u] \in InStateMutex
  PROVE  t = u
  BY DEF MutexInv

\* Every step keeps the getState PV current, or its thread about to push.
LEMMA ViewStep == Typed /\ MutexInv /\ ViewInv /\ [Next]_vars => ViewInv'
<1> SUFFICES ASSUME Typed, MutexInv, ViewInv, [Next]_vars PROVE ViewInv'
  OBVIOUS
<1> USE ThreadFacts, ConstantsAssumption
<1> USE DEF Typed, TypeOK, FrameOK, ViewInv, LifeInv, LagInv, Goto, machineVars, frameVars
\* A step that touches neither a state nor a pushed value nor a thread about to
\* push.
<1>0. ASSUME state' = state, shown' = shown,
             \A m \in Machines : life'[m] = "constructed" <=> life[m] = "constructed",
             \A u \in Threads :
               /\ pc[u] \in {"announce", "publish"} => pc'[u] = pc[u] /\ on'[u] = on[u]
               /\ on'[u] \in Machines => life[on'[u]] # "constructed"
      PROVE ViewInv'
  BY <1>0
<1>1. ASSUME NEW m \in Machines, Initialize(m) PROVE ViewInv'
  BY <1>1 DEF Initialize
<1>2. ASSUME NEW t \in Callers, Call(t) PROVE ViewInv'
  BY <1>0, <1>2 DEF Call, CallSetState, CallDeinitialize
<1>3. ASSUME NEW t \in Threads, EnterSetState(t) \/ Refuse(t) PROVE ViewInv'
  BY <1>0, <1>3 DEF EnterSetState, Refuse, Return, DropFrame, Back
<1>4. ASSUME NEW t \in Threads, Accept(t) \/ Settle(t) PROVE ViewInv'
  <2> DEFINE m == on[t]
  <2>1. /\ pc'[t] \in {"announce", "publish"} /\ m \in Machines /\ on' = on
        /\ \A u \in Threads \ {t} : pc'[u] = pc[u]
        /\ \A n \in Machines \ {m} : state'[n] = state[n]
        /\ shown' = shown /\ life' = life
    BY <1>4 DEF Accept, Settle
  <2>2. pc[t] \notin {"announce", "publish"}
    BY <1>4 DEF Accept, Settle
  <2>3. QED BY <2>1, <2>2
<1>5. ASSUME NEW t \in Threads, NEW p \in PushOutcomes, Announce(t, p) \/ Publish(t, p)
      PROVE ViewInv'
  <2> DEFINE m == on[t]
  <2>1. /\ pc[t] \in {"announce", "publish"} /\ m \in Machines
        /\ \A u \in Threads \ {t} : on'[u] = on[u]
        /\ on'[t] \in {on[t], NoMachine}
        /\ shown' = [shown EXCEPT ![m] = state[m]] /\ state' = state /\ life' = life
    BY <1>5 DEF Announce, Publish, Leave, Return, DropFrame
  <2>2. \A u \in Threads : pc[u] \in {"announce", "publish"} => u = t
    BY <2>1, MutexExclusive DEF InStateMutex
  <2>3. LifeInv'
    BY <2>1
  <2>4. LagInv'
    BY <2>1, <2>2
  <2>5. QED BY <2>3, <2>4
<1>6. ASSUME NEW t \in Threads, LockTransitionThread(t) \/ InvokeDelegate(t) PROVE ViewInv'
  BY <1>0, <1>6 DEF LockTransitionThread, InvokeDelegate
<1>7. ASSUME NEW t \in Threads, LaunchTransitionThread(t) PROVE ViewInv'
  <2> DEFINE m == on[t]
  <2>1. /\ pc[t] = "join" /\ m \in Machines /\ pc[m] \notin {"announce", "publish"}
        /\ pc' = [pc EXCEPT ![t] = "idle", ![m] = "call"]
        /\ on' = [on EXCEPT ![t] = NoMachine, ![m] = m]
        /\ state' = state /\ shown' = shown /\ life' = life
    BY <1>7 DEF LaunchTransitionThread, Joined, Threads
  <2>2. ASSUME NEW u \in Threads
        PROVE  /\ pc[u] \in {"announce", "publish"} => pc'[u] = pc[u] /\ on'[u] = on[u]
               /\ on'[u] \in Machines => life[on'[u]] # "constructed"
    <3>1. life[m] # "constructed"
      BY <2>1
    <3>2. QED BY <2>1, <3>1
  <2>3. QED
    BY <1>0, <2>1, <2>2
<1>8. ASSUME NEW t \in Threads, NEW o \in DelegateOutcomes, DelegateEnds(t, o) PROVE ViewInv'
  <2>1. /\ pc[t] = "delegate" /\ \A u \in Threads \ {t} : pc'[u] = pc[u] /\ on'[u] = on[u]
        /\ on'[t] \in {on[t], NoMachine}
        /\ state' = state /\ shown' = shown /\ life' = life
    BY <1>8 DEF DelegateEnds, Leave, Return, DropFrame
  <2>2. QED BY <1>0, <2>1
<1>9. ASSUME NEW m \in Machines, ThreadEnds(m) PROVE ViewInv'
  BY <1>0, <1>9 DEF ThreadEnds
<1>10. ASSUME NEW t \in Threads, LockForDeinitialize(t) \/ FinishDeinitialize(t) PROVE ViewInv'
  BY <1>0, <1>10 DEF LockForDeinitialize, FinishDeinitialize, DropFrame, Joined
<1>11. CASE UNCHANGED vars
  BY <1>0, <1>11 DEF vars
<1>12. QED
  BY <1>1, <1>2, <1>3, <1>4, <1>5, <1>6, <1>7, <1>8, <1>9, <1>10, <1>11
  DEF Next, Advance, DelegateReturns, Finished

\* The control system's copy of the state is current whenever no thread is
\* inside the mutex, even if delegates and subscribers throw what they like.
THEOREM PVIsCurrent == Spec => []ShownIsCurrent
<1> DEFINE Inv == Typed /\ MutexInv /\ ViewInv
<1>1. Init => Inv
  <2> SUFFICES ASSUME Init PROVE Inv
    OBVIOUS
  <2>1. MutexInv
    BY ThreadFacts DEF Init, MutexInv, InStateMutex
  <2>2. ViewInv
    BY ConstantsAssumption DEF Init, ViewInv, LifeInv, LagInv
  <2>3. QED BY <2>1, <2>2, TypedInit
<1>2. Inv /\ [Next]_vars => Inv'
  BY TypedStep, MutexStep, ViewStep
<1>3. Inv => ShownIsCurrent
  <2> SUFFICES ASSUME Inv, stateMutex = NoThread,
                      NEW m \in Machines, life[m] # "constructed"
               PROVE  shown[m] = state[m]
    BY DEF ShownIsCurrent
  <2>1. \A t \in Threads : pc[t] \notin {"announce", "publish"}
    BY ThreadFacts DEF MutexInv, InStateMutex
  <2>2. QED BY <2>1 DEF ViewInv, LagInv
<1>4. QED BY <1>1, <1>2, <1>3, PTL DEF Spec

-----------------------------------------------------------------------------
(* The inductive invariant.  Its core is ViaInv: the intermediate state of  *)
(* a pending transition is there for every other thread to see, and no row  *)
(* of the table leaves an intermediate state.                               *)

\* Subscribers of getState throw nothing, and what a delegate throws is a
\* std::runtime_error.  Without either hypothesis the invariant is false: the
\* runs subscriber and anyexception show how.
WellBehaved ==
  /\ PushOutcomes \subseteq {"ok"}
  /\ DelegateOutcomes \subseteq {"ok", "rollback", "error"}

ViaInv == \A t \in Threads : Pending(t) => state[on[t]] = tr[t].via

\* What setState has read is still so when it decides.
ReadInv == \A t \in Threads : pc[t] = "decide" => was[t] = state[on[t]]

PushInv ==
  \A t \in Threads :
    /\ pc[t] = "announce" => shown[on[t]] = tr[t].from
    /\ pc[t] = "publish" => /\ shown[on[t]] = tr[t].via
                            /\ state[on[t]] = Landing(tr[t], out[t])

TransitionInv ==
  ViaInv /\ AtMostOneTransition /\ NotStranded

IInv == Typed /\ MutexInv /\ ViewInv /\ ReadInv /\ TransitionInv /\ PushInv

\* The inductive invariant holds initially.
LEMMA InvInit == Init => IInv
<1> SUFFICES ASSUME Init PROVE IInv
  OBVIOUS
<1>1. Typed
  BY TypedInit
<1>2. MutexInv
  BY ThreadFacts DEF Init, MutexInv, InStateMutex
<1>3. TransitionInv
  BY StateFacts DEF Init, TransitionInv, ViaInv, AtMostOneTransition, NotStranded, Pending
<1>4. ViewInv /\ ReadInv /\ PushInv
  BY ConstantsAssumption DEF Init, ViewInv, LifeInv, LagInv, ReadInv, PushInv
<1>5. QED BY <1>1, <1>2, <1>3, <1>4 DEF IInv

\* What setState has read stays true: the others are kept out by the mutex.
LEMMA ReadStep == Typed /\ MutexInv /\ ReadInv /\ [Next]_vars => ReadInv'
<1> SUFFICES ASSUME Typed, MutexInv, ReadInv, [Next]_vars PROVE ReadInv'
  OBVIOUS
<1> USE ThreadFacts
<1> USE DEF Typed, TypeOK, FrameOK, ReadInv, Goto, machineVars, frameVars
\* A step that changes no state and brings no thread to the decision.
<1>0. ASSUME state' = state,
             \A u \in Threads :
               pc'[u] = "decide" => pc[u] = "decide" /\ on'[u] = on[u] /\ was'[u] = was[u]
      PROVE ReadInv'
  BY <1>0
\* A step that changes a state is one inside the mutex.
<1>1. ASSUME NEW m \in Machines, Initialize(m) PROVE ReadInv'
  <2>1. \A u \in Threads : pc[u] # "decide"
    BY <1>1 DEF Initialize, MutexInv, InStateMutex
  <2>2. QED BY <1>1, <2>1 DEF Initialize
<1>2. ASSUME NEW t \in Threads, EnterSetState(t) PROVE ReadInv'
  BY <1>2 DEF EnterSetState
<1>3. ASSUME NEW t \in Threads, Accept(t) \/ Settle(t) PROVE ReadInv'
  <2>1. /\ pc'[t] # "decide" /\ \A u \in Threads \ {t} : pc'[u] = pc[u]
        /\ \/ pc[t] = "decide"
           \/ stateMutex \in {NoThread, t} /\ pc[t] = "settle"
    BY <1>3 DEF Accept, Settle, MutexFree
  <2>2. \A u \in Threads \ {t} : pc[u] # "decide"
    BY <2>1 DEF MutexInv, InStateMutex
  <2>3. QED BY <2>1, <2>2
<1>4. ASSUME NEW t \in Threads, Refuse(t) PROVE ReadInv'
  BY <1>0, <1>4 DEF Refuse, Return, DropFrame, Back
<1>5. ASSUME NEW t \in Threads, NEW p \in PushOutcomes, Announce(t, p) \/ Publish(t, p)
      PROVE ReadInv'
  BY <1>0, <1>5 DEF Announce, Publish, Leave, Return, DropFrame, Back
<1>6. ASSUME NEW t \in Threads, NEW o \in DelegateOutcomes, DelegateEnds(t, o) PROVE ReadInv'
  BY <1>0, <1>6 DEF DelegateEnds, Leave, Return, DropFrame, Back
<1>7. ASSUME NEW t \in Threads, LaunchTransitionThread(t) PROVE ReadInv'
  BY <1>0, <1>7 DEF LaunchTransitionThread, Threads
<1>8. ASSUME NEW t \in Threads,
             \/ LockTransitionThread(t) \/ InvokeDelegate(t)
             \/ LockForDeinitialize(t) \/ FinishDeinitialize(t)
      PROVE ReadInv'
  BY <1>0, <1>8 DEF LockTransitionThread, InvokeDelegate, LockForDeinitialize,
                    FinishDeinitialize, DropFrame
<1>9. ASSUME NEW m \in Machines, ThreadEnds(m) PROVE ReadInv'
  BY <1>0, <1>9 DEF ThreadEnds
<1>10. ASSUME NEW t \in Callers, Call(t) PROVE ReadInv'
  BY <1>0, <1>10 DEF Call, CallSetState, CallDeinitialize
<1>11. CASE UNCHANGED vars
  BY <1>0, <1>11 DEF vars
<1>12. QED
  BY <1>1, <1>2, <1>3, <1>4, <1>5, <1>6, <1>7, <1>8, <1>9, <1>10, <1>11
  DEF Next, Advance, DelegateReturns, Finished

\* Every step keeps one transition at a time, in its intermediate state, and nobody
\* stranded.
LEMMA TransitionStep == WellBehaved /\ IInv /\ [Next]_vars => TransitionInv'
<1> SUFFICES ASSUME WellBehaved, IInv, [Next]_vars PROVE TransitionInv'
  OBVIOUS
<1> USE ThreadFacts
<1> USE DEF IInv, Typed, TypeOK, FrameOK, TransitionInv, ViaInv, AtMostOneTransition,
            NotStranded, Pending, Goto, machineVars, frameVars
\* A step that leaves the states and every thread's transition alone.
<1>0. ASSUME state' = state,
             \A u \in Threads : /\ Pending(u)' <=> Pending(u)
                                /\ Pending(u) => on'[u] = on[u] /\ tr'[u] = tr[u]
      PROVE TransitionInv'
  BY <1>0
<1>1. ASSUME NEW m \in Machines, Initialize(m) PROVE TransitionInv'
  <2>1. \A t \in Threads : Pending(t) => on[t] # m
    BY <1>1 DEF Initialize, ViewInv, LifeInv
  <2>2. QED BY <1>1, <2>1, StateFacts DEF Initialize
<1>2. ASSUME NEW t \in Callers, Call(t) PROVE TransitionInv'
  BY <1>0, <1>2 DEF Call, CallSetState, CallDeinitialize
<1>3. ASSUME NEW t \in Threads, EnterSetState(t) \/ Refuse(t) PROVE TransitionInv'
  BY <1>0, <1>3 DEF EnterSetState, Refuse, Return, DropFrame, Back
<1>4. ASSUME NEW t \in Threads, Accept(t) PROVE TransitionInv'
  <2> DEFINE m == on[t]
  <2>1. PICK row \in Transitions :
          /\ row.from = state[m]
          /\ state' = [state EXCEPT ![m] = row.via]
          /\ tr' = [tr EXCEPT ![t] = row]
    BY <1>4 DEF Accept, ReadInv
  <2>2. /\ pc[t] = "decide" /\ m \in Machines /\ on' = on
        /\ pc' = [pc EXCEPT ![t] = "announce"]
    BY <1>4 DEF Accept
  <2>3. \A u \in Threads : Pending(u) => on[u] # m
    BY <2>1, RowFacts, StateFacts
  <2>4. ViaInv'
    BY <2>1, <2>2, <2>3
  <2>5. AtMostOneTransition'
    BY <2>1, <2>2, <2>3
  <2>6. NotStranded'
    BY <2>1, <2>2, <2>3
  <2>7. QED BY <2>4, <2>5, <2>6
<1>5. ASSUME NEW t \in Threads, NEW p \in PushOutcomes, Announce(t, p) PROVE TransitionInv'
  BY <1>0, <1>5 DEF Announce, WellBehaved
<1>6. ASSUME NEW t \in Threads, LockTransitionThread(t) \/ InvokeDelegate(t) PROVE TransitionInv'
  BY <1>0, <1>6 DEF LockTransitionThread, InvokeDelegate
<1>7. ASSUME NEW t \in Threads, LaunchTransitionThread(t) PROVE TransitionInv'
  <2> DEFINE m == on[t]
  <2>1. /\ pc[t] = "join" /\ m \in Machines /\ t \in Callers /\ t # m
        /\ ~Pending(m) /\ state' = state
        /\ pc' = [pc EXCEPT ![t] = "idle", ![m] = "call"]
        /\ on' = [on EXCEPT ![t] = NoMachine, ![m] = m]
        /\ tr' = [tr EXCEPT ![t] = NoTransition, ![m] = tr[t]]
    BY <1>7 DEF LaunchTransitionThread, Joined, Threads
  <2>2. \A u \in Threads : Pending(u) /\ u # t => on[u] # m
    BY <2>1
  <2>3. ViaInv'
    BY <2>1
  <2>4. AtMostOneTransition'
    BY <2>1, <2>2
  <2>5. NotStranded'
    BY <2>1
  <2>6. QED BY <2>3, <2>4, <2>5
<1>8. ASSUME NEW t \in Threads, NEW o \in DelegateOutcomes, DelegateEnds(t, o)
      PROVE TransitionInv'
  BY <1>0, <1>8 DEF DelegateEnds, WellBehaved
<1>9. ASSUME NEW t \in Threads, Settle(t) PROVE TransitionInv'
  <2> DEFINE m == on[t]
  <2>1. /\ pc[t] = "settle" /\ m \in Machines /\ on' = on /\ tr' = tr
        /\ pc' = [pc EXCEPT ![t] = "publish"]
        /\ state' = [state EXCEPT ![m] = Landing(tr[t], out[t])]
    BY <1>9 DEF Settle
  <2>2. Landing(tr[t], out[t]) \notin IntermediateState
    BY <2>1, LandingFacts, StateFacts
  <2>3. \A u \in Threads : Pending(u) /\ u # t => on[u] # m
    BY <2>1
  <2>4. ViaInv' /\ AtMostOneTransition'
    BY <2>1, <2>3
  <2>5. NotStranded'
    BY <2>1, <2>2
  <2>6. QED BY <2>4, <2>5
<1>10. ASSUME NEW t \in Threads, NEW p \in PushOutcomes, Publish(t, p) PROVE TransitionInv'
  <2>1. pc[t] = "publish" /\ Return(t) /\ state' = state
    BY <1>10 DEF Publish, Leave, WellBehaved
  <2>2. QED BY <1>0, <2>1 DEF Return, DropFrame, Back
<1>11. ASSUME NEW m \in Machines, ThreadEnds(m) PROVE TransitionInv'
  BY <1>0, <1>11 DEF ThreadEnds
<1>12. ASSUME NEW t \in Threads, LockForDeinitialize(t) \/ FinishDeinitialize(t)
       PROVE TransitionInv'
  BY <1>0, <1>12 DEF LockForDeinitialize, FinishDeinitialize, DropFrame, Joined
<1>13. CASE UNCHANGED vars
  BY <1>0, <1>13 DEF vars
<1>14. QED
  BY <1>1, <1>2, <1>3, <1>4, <1>5, <1>6, <1>7, <1>8, <1>9, <1>10, <1>11, <1>12, <1>13
  DEF Next, Advance, DelegateReturns, Finished

\* Every step keeps what is known at the two pushes.
LEMMA PushStep == WellBehaved /\ IInv /\ [Next]_vars => PushInv'
<1> SUFFICES ASSUME WellBehaved, IInv, [Next]_vars PROVE PushInv'
  OBVIOUS
<1> USE ThreadFacts, ConstantsAssumption
<1> USE DEF IInv, Typed, TypeOK, FrameOK, ViewInv, LifeInv, LagInv, PushInv,
            Goto, machineVars, frameVars
\* A step that touches neither a state nor a pushed value and brings no thread
\* to a push.
<1>0. ASSUME state' = state, shown' = shown,
             \A u \in Threads :
               pc'[u] \in {"announce", "publish"} =>
                 /\ pc'[u] = pc[u] /\ on'[u] = on[u]
                 /\ tr'[u] = tr[u] /\ out'[u] = out[u]
      PROVE PushInv'
  BY <1>0
<1>1. ASSUME NEW m \in Machines, Initialize(m) PROVE PushInv'
  <2>1. \A t \in Threads : on[t] # m
    BY <1>1 DEF Initialize
  <2>2. QED BY <1>1, <2>1 DEF Initialize
<1>2. ASSUME NEW t \in Callers, Call(t) PROVE PushInv'
  BY <1>0, <1>2 DEF Call, CallSetState, CallDeinitialize
<1>3. ASSUME NEW t \in Threads, EnterSetState(t) \/ Refuse(t) PROVE PushInv'
  BY <1>0, <1>3 DEF EnterSetState, Refuse, Return, DropFrame, Back
<1>4. ASSUME NEW t \in Threads, Accept(t) PROVE PushInv'
  <2> DEFINE m == on[t]
  <2>1. PICK row \in Transitions :
          /\ row.from = state[m]
          /\ state' = [state EXCEPT ![m] = row.via]
          /\ tr' = [tr EXCEPT ![t] = row]
    BY <1>4 DEF Accept, ReadInv
  <2>2. /\ pc[t] = "decide" /\ m \in Machines
        /\ pc' = [pc EXCEPT ![t] = "announce"]
        /\ on' = on /\ out' = out /\ shown' = shown /\ life' = life
    BY <1>4 DEF Accept
  <2>3. \A u \in Threads : pc[u] \notin {"announce", "publish"}
    BY <2>2, MutexExclusive DEF InStateMutex
  <2>4. shown[m] = row.from
    BY <2>1, <2>2, <2>3
  <2>5. QED BY <2>1, <2>2, <2>3, <2>4
<1>5. ASSUME NEW t \in Threads, NEW p \in PushOutcomes,
             Announce(t, p) \/ Publish(t, p)
      PROVE PushInv'
  <2> DEFINE m == on[t]
  <2>1. /\ pc[t] \in {"announce", "publish"} /\ m \in Machines
        /\ pc'[t] \notin {"announce", "publish"}
        /\ \A u \in Threads \ {t} : /\ pc'[u] = pc[u] /\ on'[u] = on[u]
                                    /\ tr'[u] = tr[u] /\ out'[u] = out[u]
        /\ on'[t] \in {on[t], NoMachine}
        /\ shown' = [shown EXCEPT ![m] = state[m]] /\ state' = state /\ life' = life
    BY <1>5 DEF Announce, Publish, Leave, Return, DropFrame, Back, WellBehaved
  <2>2. \A u \in Threads : pc[u] \in {"announce", "publish"} => u = t
    BY <2>1, MutexExclusive DEF InStateMutex
  <2>3. QED BY <2>1, <2>2
<1>6. ASSUME NEW t \in Threads, LockTransitionThread(t) \/ InvokeDelegate(t) PROVE PushInv'
  BY <1>0, <1>6 DEF LockTransitionThread, InvokeDelegate
<1>7. ASSUME NEW t \in Threads, LaunchTransitionThread(t) PROVE PushInv'
  <2> DEFINE m == on[t]
  <2>1. /\ pc[t] = "join" /\ m \in Machines /\ t \in Callers /\ t # m
        /\ pc[m] \notin {"announce", "publish"}
        /\ pc' = [pc EXCEPT ![t] = "idle", ![m] = "call"]
        /\ on' = [on EXCEPT ![t] = NoMachine, ![m] = m]
        /\ tr' = [tr EXCEPT ![t] = NoTransition, ![m] = tr[t]]
        /\ state' = state /\ shown' = shown /\ life' = life /\ out' = out
    BY <1>7 DEF LaunchTransitionThread, Joined, Threads
  <2>2. ASSUME NEW u \in Threads, pc'[u] \in {"announce", "publish"}
        PROVE  /\ pc'[u] = pc[u] /\ on'[u] = on[u]
               /\ tr'[u] = tr[u] /\ out'[u] = out[u]
    <3>1. u # t /\ u # m
      BY <2>1, <2>2
    <3>2. QED BY <2>1, <3>1
  <2>3. QED BY <1>0, <2>1, <2>2
<1>8. ASSUME NEW t \in Threads, NEW o \in DelegateOutcomes, DelegateEnds(t, o) PROVE PushInv'
  BY <1>0, <1>8 DEF DelegateEnds, WellBehaved
<1>9. ASSUME NEW t \in Threads, Settle(t) PROVE PushInv'
  <2> DEFINE m == on[t]
  <2>1. /\ pc[t] = "settle" /\ m \in Machines /\ stateMutex = NoThread
        /\ pc' = [pc EXCEPT ![t] = "publish"]
        /\ state' = [state EXCEPT ![m] = Landing(tr[t], out[t])]
        /\ on' = on /\ tr' = tr /\ out' = out /\ shown' = shown /\ life' = life
    BY <1>9 DEF Settle, MutexFree, MutexInv, InStateMutex
  <2>2. \A u \in Threads : pc[u] \notin {"announce", "publish"}
    BY <2>1 DEF MutexInv, InStateMutex
  <2>3. shown[m] = tr[t].via
    BY <2>1, <2>2 DEF TransitionInv, ViaInv, Pending
  <2>4. PushInv'
    <3>1. ASSUME NEW u \in Threads, pc'[u] \in {"announce", "publish"} PROVE u = t
      BY <3>1, <2>1, <2>2
    <3>2. state'[m] = Landing(tr[t], out[t])
      BY <2>1
    <3>3. QED BY <3>1, <3>2, <2>1, <2>3
  <2>5. QED BY <2>4
<1>10. ASSUME NEW m \in Machines, ThreadEnds(m) PROVE PushInv'
  BY <1>0, <1>10 DEF ThreadEnds
<1>11. ASSUME NEW t \in Threads, LockForDeinitialize(t) \/ FinishDeinitialize(t) PROVE PushInv'
  BY <1>0, <1>11 DEF LockForDeinitialize, FinishDeinitialize, DropFrame, Joined
<1>12. CASE UNCHANGED vars
  BY <1>0, <1>12 DEF vars
<1>13. QED
  BY <1>1, <1>2, <1>3, <1>4, <1>5, <1>6, <1>7, <1>8, <1>9, <1>10, <1>11, <1>12
  DEF Next, Advance, DelegateReturns, Finished

\* The invariant is inductive for well-behaved delegates and subscribers.
LEMMA InvStep == WellBehaved /\ IInv /\ [Next]_vars => IInv'
  BY TypedStep, MutexStep, ViewStep, ReadStep, TransitionStep, PushStep DEF IInv

\* Hence it holds throughout.
LEMMA Invariance == ASSUME WellBehaved PROVE Spec => []IInv
<1>1. IInv /\ [Next]_vars => IInv'
  BY InvStep
<1>2. QED BY InvInit, <1>1, PTL DEF Spec

-----------------------------------------------------------------------------
(* What it gives.                                                           *)

\* setState's check and assignment under one lock leave room for one
\* transition per machine, on however many threads it is requested.
THEOREM OneTransitionAtATime ==
  ASSUME WellBehaved PROVE Spec => []AtMostOneTransition
<1>1. IInv => AtMostOneTransition
  BY DEF IInv, TransitionInv
<1>2. QED BY <1>1, Invariance, PTL

\* The guarantee of the constructor's documentation: while a delegate is about
\* to be called or runs, the machine is in that delegate's intermediate state.
THEOREM DelegatesGuaranteed ==
  ASSUME WellBehaved PROVE Spec => []DelegateGuarantee
<1>1. IInv => DelegateGuarantee
  BY DEF IInv, TransitionInv, ViaInv, DelegateGuarantee, Pending
<1>2. QED BY <1>1, Invariance, PTL

\* Whatever state a machine is found in, a thread is at work on every
\* intermediate one.
THEOREM NobodyStranded ==
  ASSUME WellBehaved PROVE Spec => []NotStranded
<1>1. IInv => NotStranded
  BY DEF IInv, TransitionInv
<1>2. QED BY <1>1, Invariance, PTL

\* Every value pushed to getState is reached from the one pushed before it by
\* an edge of the state diagram.
THEOREM PVFollowsDiagram ==
  ASSUME WellBehaved PROVE Spec => ShownFollowsDiagram
<1>1. IInv /\ [Next]_vars =>
        [\A m \in Machines : shown'[m] # shown[m] => Edge(shown[m], shown'[m])]_shown
  <2> SUFFICES ASSUME IInv, [Next]_vars, NEW m \in Machines, shown'[m] # shown[m]
               PROVE  Edge(shown[m], shown'[m])
    OBVIOUS
  <2> USE DEF IInv, Typed, TypeOK, FrameOK, machineVars
  <2>1. ASSUME NEW n \in Machines, Initialize(n) PROVE Edge(shown[m], shown'[m])
    BY <2>1 DEF Initialize, ViewInv, LifeInv, Edge
  <2>2. ASSUME NEW t \in Threads, NEW p \in PushOutcomes, Announce(t, p)
        PROVE  Edge(shown[m], shown'[m])
    <3>1. pc[t] = "announce" /\ on[t] = m /\ shown'[m] = state[m]
      BY <2>2 DEF Announce
    <3>2. shown[m] = tr[t].from /\ state[m] = tr[t].via /\ tr[t] \in Transitions
      BY <3>1 DEF PushInv, TransitionInv, ViaInv, Pending
    <3>3. QED BY <3>1, <3>2 DEF Edge
  <2>3. ASSUME NEW t \in Threads, NEW p \in PushOutcomes, Publish(t, p)
        PROVE  Edge(shown[m], shown'[m])
    <3>1. pc[t] = "publish" /\ on[t] = m /\ shown'[m] = state[m]
      BY <2>3 DEF Publish
    <3>2. /\ shown[m] = tr[t].via /\ tr[t] \in Transitions
          /\ state[m] = Landing(tr[t], out[t])
      BY <3>1 DEF PushInv
    <3>3. Landing(tr[t], out[t]) \in {tr[t].to, tr[t].from, "fault"}
      BY <3>2 DEF Landing, Outcome
    <3>4. QED BY <3>1, <3>2, <3>3 DEF Edge
  <2>4. ASSUME shown' = shown PROVE Edge(shown[m], shown'[m])
    BY <2>4
  <2>5. QED
    BY <2>1, <2>2, <2>3, <2>4
    DEF Next, Call, CallSetState, CallDeinitialize, Advance, EnterSetState, Refuse, Accept,
        LockTransitionThread, LaunchTransitionThread, InvokeDelegate, Settle,
        LockForDeinitialize, FinishDeinitialize, ThreadEnds, DelegateReturns, DelegateEnds,
        Finished, vars
<1>2. QED BY <1>1, Invariance, PTL DEF Spec, ShownFollowsDiagram

-----------------------------------------------------------------------------
(* StateMachine implements TransitionProtocol, for any number of machines,  *)
(* clients and calls, if delegates and subscribers are well behaved.        *)

\* The refinement mapping: what transit and phase of the protocol stand for.
Transit == [m \in Machines |->
              IF InTransit(m) = {} THEN NoTransition
              ELSE tr[CHOOSE t \in InTransit(m) : TRUE]]
Phase   == [m \in Machines |->
              IF InTransit(m) = {} THEN "rest"
              ELSE PhaseOf(CHOOSE t \in InTransit(m) : TRUE)]

\* The phases, label by label.
PhasesAre ==
  \A t \in Threads :
    /\ pc[t] \in {"launch", "join", "call"} => PhaseOf(t) = "announced"
    /\ pc[t] = "delegate" => PhaseOf(t) = "running"
    /\ pc[t] \in {"settle", "publish"} => PhaseOf(t) = "returned"

\* They follow from the definition alone.
LEMMA PhaseFacts == PhasesAre
  BY DEF PhasesAre, PhaseOf

\* Only one thread is between the two announcements of a machine: in publish the
\* transition is over, but the mutex keeps others from having begun one.
LEMMA OneInTransit ==
  IInv => \A t, u \in Threads : Announced(t) /\ Announced(u) /\ on[t] = on[u] => t = u
<1> SUFFICES ASSUME IInv, NEW t \in Threads, NEW u \in Threads,
                    Announced(t), Announced(u), on[t] = on[u]
             PROVE  t = u
  OBVIOUS
<1>1. ASSUME NEW v \in Threads, NEW w \in Threads, on[v] = on[w],
             pc[v] = "publish", Pending(w)
      PROVE  FALSE
  <2>1. state[on[v]] \in RestState
    BY <1>1, LandingFacts DEF IInv, PushInv, Typed, TypeOK, FrameOK
  <2>2. state[on[w]] \in IntermediateState
    BY <1>1, RowFacts DEF IInv, TransitionInv, ViaInv, Typed, FrameOK
  <2>3. QED
    BY <1>1, <2>1, <2>2, StateFacts
<1>2. CASE Pending(t) /\ Pending(u)
  BY <1>2 DEF IInv, TransitionInv, AtMostOneTransition
<1>3. CASE pc[t] = "publish" /\ pc[u] = "publish"
  BY <1>3, ThreadFacts DEF IInv, MutexInv, InStateMutex
<1>4. QED
  BY <1>1, <1>2, <1>3 DEF Announced, Pending

\* What the mapping gives for a machine with and without a thread in transit.
MapsTo ==
  \A m \in Machines :
    /\ \A t \in Threads : Announced(t) /\ on[t] = m =>
         Transit[m] = tr[t] /\ Phase[m] = PhaseOf(t)
    /\ (\A t \in Threads : Announced(t) => on[t] # m) =>
         Transit[m] = NoTransition /\ Phase[m] = "rest"

\* The mapping is well defined where the invariant holds.
LEMMA TransitFacts == IInv => MapsTo
<1> SUFFICES ASSUME IInv, NEW m \in Machines
             PROVE  /\ \A t \in Threads : Announced(t) /\ on[t] = m =>
                         Transit[m] = tr[t] /\ Phase[m] = PhaseOf(t)
                    /\ (\A t \in Threads : Announced(t) => on[t] # m) =>
                         Transit[m] = NoTransition /\ Phase[m] = "rest"
  BY DEF MapsTo
<1>1. ASSUME NEW t \in Threads, Announced(t), on[t] = m
      PROVE  Transit[m] = tr[t] /\ Phase[m] = PhaseOf(t)
  <2>1. InTransit(m) = {t}
    BY <1>1, OneInTransit DEF InTransit
  <2>2. (CHOOSE u \in InTransit(m) : TRUE) = t /\ InTransit(m) # {}
    BY <2>1
  <2>3. QED
    BY <2>2 DEF Transit, Phase
<1>2. ASSUME \A t \in Threads : Announced(t) => on[t] # m
      PROVE  Transit[m] = NoTransition /\ Phase[m] = "rest"
  BY <1>2 DEF Transit, Phase, InTransit
<1>3. QED
  BY <1>1, <1>2

\* What a step has to leave alone for the protocol to see nothing of it at m.
Quiet(m) ==
  \A t \in Threads :
    /\ Announced(t) /\ on[t] = m =>
         Announced(t)' /\ on'[t] = m /\ tr'[t] = tr[t] /\ PhaseOf(t)' = PhaseOf(t)
    /\ Announced(t)' /\ on'[t] = m => Announced(t) /\ on[t] = m

\* Such a step is a stutter at m.
LEMMA QuietStep ==
  ASSUME MapsTo, MapsTo', NEW m \in Machines, Quiet(m)
  PROVE  Transit'[m] = Transit[m] /\ Phase'[m] = Phase[m]
<1>1. CASE \E t \in Threads : Announced(t) /\ on[t] = m
  BY <1>1 DEF MapsTo, Quiet
<1>2. CASE \A t \in Threads : Announced(t) => on[t] # m
  BY <1>2 DEF MapsTo, Quiet
<1>3. QED
  BY <1>1, <1>2

\* The mapping gives functions on the machines.
LEMMA MapFunctions ==
  /\ (\A m \in Machines : Transit'[m] = Transit[m]) => Transit' = Transit
  /\ (\A m \in Machines : Phase'[m] = Phase[m]) => Phase' = Phase
  BY DEF Transit, Phase

\* Steps that no thread takes while its machine's transition is announced.
LEMMA Unseen ==
  ASSUME IInv, IInv', MapsTo, MapsTo', shown' = shown,
         \A m \in Machines : Quiet(m)
  PROVE  UNCHANGED <<shown, Transit, Phase>>
  BY QuietStep, MapFunctions

\* Where the protocol does see a step, it is about one machine.
LEMMA OneMachine ==
  ASSUME MapsTo, MapsTo', NEW m \in Machines, NEW row, NEW ph,
         \A n \in Machines \ {m} : Quiet(n),
         Transit'[m] = row, Phase'[m] = ph
  PROVE  Transit' = [Transit EXCEPT ![m] = row] /\ Phase' = [Phase EXCEPT ![m] = ph]
<1>1. \A n \in Machines \ {m} : Transit'[n] = Transit[n] /\ Phase'[n] = Phase[n]
  BY QuietStep
<1>2. /\ Transit = [n \in Machines |-> Transit[n]] /\ Transit' = [n \in Machines |-> Transit'[n]]
      /\ Phase = [n \in Machines |-> Phase[n]] /\ Phase' = [n \in Machines |-> Phase'[n]]
  BY DEF Transit, Phase
<1>3. QED
  BY <1>1, <1>2

\* Every step of the threads is one of the protocol or unseen by it.
LEMMA ProtocolStep ==
  ASSUME WellBehaved, IInv, IInv', MapsTo, MapsTo', PhasesAre, PhasesAre', [Next]_vars
  PROVE  Protocol!Next \/ UNCHANGED <<shown, Transit, Phase>>
<1> DEFINE Goal == Protocol!Next \/ UNCHANGED <<shown, Transit, Phase>>
<1>0. Typed /\ Typed'
  BY DEF IInv
<1> USE ThreadFacts
<1> USE DEF PhasesAre, Typed, TypeOK, FrameOK, Goto, machineVars, frameVars, Quiet, Announced
<1>1. ASSUME NEW m \in Machines, Initialize(m) PROVE Goal
  <2>1. Transit' = Transit /\ Phase' = Phase
    BY <1>1 DEF Initialize, Transit, Phase, InTransit, PhaseOf
  <2>2. shown[m] = "unknown" /\ shown' = [shown EXCEPT ![m] = "off"]
    BY <1>1 DEF Initialize, IInv, ViewInv, LifeInv
  <2>3. Protocol!Appear(m)
    BY <2>1, <2>2 DEF Protocol!Appear, Transit, Phase
  <2>4. QED
    BY <2>3 DEF Protocol!Next
<1>2. ASSUME NEW t \in Threads, NEW p \in PushOutcomes, NEW m \in Machines, on[t] = m, Announce(t, p)
      PROVE  Goal
  <2>1. p = "ok" /\ pc[t] = "announce" /\ tr[t] \in Transitions
    BY <1>0, <1>2 DEF WellBehaved, Announce, Pending
  <2>2. shown' = [shown EXCEPT ![m] = tr[t].via] /\ shown[m] = tr[t].from
    BY <1>2, <2>1 DEF Announce, IInv, PushInv, TransitionInv, ViaInv, Pending
  <2>3. ASSUME NEW u \in Threads, Announced(u) PROVE on[u] # m
    <3>1. CASE pc[u] = "publish"
      BY <2>1, <3>1, MutexExclusive DEF IInv, InStateMutex
    <3>2. CASE pc[u] # "publish"
      BY <1>2, <2>1, <2>3, <3>2 DEF IInv, TransitionInv, AtMostOneTransition, Pending
    <3>3. QED
      BY <3>1, <3>2
  <2>4. Transit[m] = NoTransition /\ Phase[m] = "rest"
    BY <2>3 DEF MapsTo
  <2>5. /\ pc' = [pc EXCEPT ![t] = IF m \in Async THEN "launch" ELSE "call"]
        /\ UNCHANGED <<on, tr>>
    BY <1>2, <2>1 DEF Announce
  <2>6. Transit'[m] = tr[t] /\ Phase'[m] = "announced"
    BY <1>0, <1>2, <2>5 DEF MapsTo
  <2>7. \A n \in Machines \ {m} : Quiet(n)
    BY <1>0, <1>2, <2>1, <2>5 DEF PhaseOf
  <2>8. Transit' = [Transit EXCEPT ![m] = tr[t]] /\ Phase' = [Phase EXCEPT ![m] = "announced"]
    BY <2>6, <2>7, OneMachine
  <2>9. PICK row \in Transitions : row = tr[t]
    BY <2>1
  <2>10. Protocol!Begin(m, row)
    BY <2>2, <2>4, <2>8, <2>9 DEF Protocol!Begin, Transit, Phase
  <2>11. row \in Protocol!Transitions
    BY DEF Transitions, Protocol!Transitions, Row, Protocol!Row
  <2>12. QED
    BY <2>10, <2>11 DEF Protocol!Next
<1>3. ASSUME NEW t \in Threads, NEW m \in Machines, on[t] = m, InvokeDelegate(t) PROVE Goal
  <2>1. /\ pc[t] = "call" /\ pc' = [pc EXCEPT ![t] = "delegate"]
        /\ UNCHANGED <<shown, on, tr>>
    BY <1>3 DEF InvokeDelegate
  <2>2. /\ Transit[m] = tr[t] /\ Phase[m] = "announced"
        /\ Transit'[m] = tr[t] /\ Phase'[m] = "running"
    BY <1>0, <1>3, <2>1 DEF MapsTo
  <2>3. \A n \in Machines \ {m} : Quiet(n)
    BY <1>0, <1>3, <2>1 DEF PhaseOf
  <2>4. Transit' = [Transit EXCEPT ![m] = tr[t]] /\ Phase' = [Phase EXCEPT ![m] = "running"]
    BY <2>2, <2>3, OneMachine
  <2>5. Protocol!Enter(m)
    BY <2>1, <2>2, <2>4, ZenonT(20) DEF Protocol!Enter, Transit, Phase
  <2>6. QED
    BY <2>5 DEF Protocol!Next
<1>4. ASSUME NEW t \in Threads, NEW o \in DelegateOutcomes, NEW m \in Machines, on[t] = m,
             DelegateEnds(t, o)
      PROVE  Goal
  <2>1. /\ pc[t] = "delegate" /\ pc' = [pc EXCEPT ![t] = "settle"]
        /\ UNCHANGED <<shown, on, tr>>
    BY <1>4 DEF WellBehaved, DelegateEnds
  <2>2. /\ Transit[m] = tr[t] /\ Phase[m] = "running"
        /\ Transit'[m] = tr[t] /\ Phase'[m] = "returned"
    BY <1>0, <1>4, <2>1 DEF MapsTo
  <2>3. \A n \in Machines \ {m} : Quiet(n)
    BY <1>0, <1>4, <2>1 DEF PhaseOf
  <2>4. Transit' = [Transit EXCEPT ![m] = tr[t]] /\ Phase' = [Phase EXCEPT ![m] = "returned"]
    BY <2>2, <2>3, OneMachine
  <2>5. Protocol!Exit(m)
    BY <2>1, <2>2, <2>4, ZenonT(20) DEF Protocol!Exit, Transit, Phase
  <2>6. QED
    BY <2>5 DEF Protocol!Next
<1>5. ASSUME NEW t \in Threads, NEW p \in PushOutcomes, NEW m \in Machines, on[t] = m, Publish(t, p)
      PROVE  Goal
  <2>1. /\ p = "ok" /\ pc[t] = "publish" /\ Return(t) /\ shown' = [shown EXCEPT ![m] = state[m]]
        /\ tr[t] \in Transitions
    BY <1>0, <1>5 DEF WellBehaved, Publish, Leave
  <2>2. state[m] \in {tr[t].to, tr[t].from, "fault"}
    BY <1>0, <1>5, <2>1 DEF IInv, PushInv, Landing, Outcome
  <2>3. Transit[m] = tr[t] /\ Phase[m] = "returned"
    BY <1>5, <2>1 DEF MapsTo
  <2>4. \A u \in Threads : u # t => pc'[u] = pc[u] /\ on'[u] = on[u] /\ tr'[u] = tr[u]
    BY <1>0, <2>1 DEF Return, DropFrame
  <2>5. pc'[t] \in {"idle", "exit"}
    BY <1>0, <2>1 DEF Return, Back
  <2>6. \A u \in Threads : Announced(u)' => on'[u] # m
    BY <1>5, <2>1, <2>4, <2>5, OneInTransit
  <2>7. Transit'[m] = NoTransition /\ Phase'[m] = "rest"
    BY <2>6 DEF MapsTo
  <2>8. \A n \in Machines \ {m} : Quiet(n)
    BY <1>5, <2>4, <2>5 DEF PhaseOf
  <2>9. Transit' = [Transit EXCEPT ![m] = NoTransition] /\ Phase' = [Phase EXCEPT ![m] = "rest"]
    BY <2>7, <2>8, OneMachine
  <2>10. Protocol!End(m)
    BY <2>1, <2>2, <2>3, <2>9 DEF Protocol!End, Transit, Phase
  <2>11. QED
    BY <2>10 DEF Protocol!Next
<1>6. ASSUME shown' = shown, \A m \in Machines : Quiet(m) PROVE Goal
  BY <1>6, Unseen
<1>7. ASSUME NEW t \in Threads, NEW m \in Machines, on[t] = m, LaunchTransitionThread(t) PROVE Goal
  <2>1. /\ pc[t] = "join" /\ pc[m] \in {"idle", "ended"} /\ t # m
        /\ pc' = [pc EXCEPT ![t] = "idle", ![m] = "call"]
        /\ on' = [on EXCEPT ![t] = NoMachine, ![m] = m]
        /\ tr' = [tr EXCEPT ![t] = NoTransition, ![m] = tr[t]]
        /\ shown' = shown
    BY <1>0, <1>7 DEF LaunchTransitionThread, Joined
  <2>2. Transit[m] = tr[t] /\ Phase[m] = "announced"
    BY <1>7, <2>1 DEF MapsTo
  <2>3. Transit'[m] = tr[t] /\ Phase'[m] = "announced"
    BY <1>0, <1>7, <2>1 DEF MapsTo
  <2>4. \A n \in Machines \ {m} : Quiet(n)
    BY <1>0, <1>7, <2>1 DEF PhaseOf
  <2>5. \A n \in Machines : Transit'[n] = Transit[n] /\ Phase'[n] = Phase[n]
    BY <2>2, <2>3, <2>4, QuietStep
  <2>6. QED
    BY <2>1, <2>5, MapFunctions
<1>8. ASSUME NEW t \in Callers, NEW m \in Machines, NEW s \in Requests, CallSetState(t, m, s) PROVE Goal
  <2>1. shown' = shown /\ \A n \in Machines : Quiet(n)
    BY <1>0, <1>8 DEF CallSetState, PhaseOf
  <2>2. QED
    BY <1>6, <2>1
<1>9. ASSUME NEW t \in Threads, EnterSetState(t) PROVE Goal
  <2>1. shown' = shown /\ \A n \in Machines : Quiet(n)
    BY <1>0, <1>9 DEF EnterSetState, PhaseOf
  <2>2. QED
    BY <1>6, <2>1
<1>10. ASSUME NEW t \in Threads, Refuse(t) PROVE Goal
  <2>1. shown' = shown /\ \A n \in Machines : Quiet(n)
    BY <1>0, <1>10 DEF Refuse, Return, DropFrame, Back, PhaseOf
  <2>2. QED
    BY <1>6, <2>1
<1>11. ASSUME NEW t \in Threads, Accept(t) PROVE Goal
  <2>1. shown' = shown /\ \A n \in Machines : Quiet(n)
    BY <1>0, <1>11 DEF Accept, PhaseOf
  <2>2. QED
    BY <1>6, <2>1
<1>12. ASSUME NEW t \in Threads, LockTransitionThread(t) PROVE Goal
  <2>1. shown' = shown /\ \A n \in Machines : Quiet(n)
    BY <1>0, <1>12 DEF LockTransitionThread, PhaseOf
  <2>2. QED
    BY <1>6, <2>1
<1>13. ASSUME NEW t \in Threads, Settle(t) PROVE Goal
  <2>1. shown' = shown /\ \A n \in Machines : Quiet(n)
    BY <1>0, <1>13 DEF Settle, PhaseOf
  <2>2. QED
    BY <1>6, <2>1
<1>14. ASSUME NEW m \in Machines, ThreadEnds(m) PROVE Goal
  <2>1. shown' = shown /\ \A n \in Machines : Quiet(n)
    BY <1>0, <1>14 DEF ThreadEnds, PhaseOf
  <2>2. QED
    BY <1>6, <2>1
<1>15. ASSUME NEW t \in Callers, NEW m \in Machines, CallDeinitialize(t, m) PROVE Goal
  <2>1. shown' = shown /\ \A n \in Machines : Quiet(n)
    BY <1>0, <1>15 DEF CallDeinitialize, PhaseOf
  <2>2. QED
    BY <1>6, <2>1
<1>16. ASSUME NEW t \in Threads, LockForDeinitialize(t) PROVE Goal
  <2>1. shown' = shown /\ \A n \in Machines : Quiet(n)
    BY <1>0, <1>16 DEF LockForDeinitialize, PhaseOf
  <2>2. QED
    BY <1>6, <2>1
<1>17. ASSUME NEW t \in Threads, FinishDeinitialize(t) PROVE Goal
  <2>1. shown' = shown /\ \A n \in Machines : Quiet(n)
    BY <1>0, <1>17 DEF FinishDeinitialize, DropFrame, Joined, PhaseOf
  <2>2. QED
    BY <1>6, <2>1
<1>18. ASSUME UNCHANGED vars PROVE Goal
  <2>1. shown' = shown /\ \A n \in Machines : Quiet(n)
    BY <1>18 DEF vars, PhaseOf
  <2>2. QED
    BY <1>6, <2>1
<1> HIDE DEF Goal
<1>19. ASSUME NEW t \in Threads, Advance(t) PROVE Goal
  <2>1. pc[t] \notin {"idle", "exit", "ended"} => on[t] \in Machines
    BY <1>0
  <2>2. ASSUME NEW p \in PushOutcomes, Announce(t, p) \/ Publish(t, p) PROVE Goal
    BY <1>2, <1>5, <2>1, <2>2 DEF Announce, Publish
  <2>3. ASSUME InvokeDelegate(t) \/ LaunchTransitionThread(t) PROVE Goal
    BY <1>3, <1>7, <2>1, <2>3 DEF InvokeDelegate, LaunchTransitionThread
  <2>4. ASSUME t \in Machines, ThreadEnds(t) PROVE Goal
    BY <1>14, <2>4
  <2>5. QED
    BY <1>9, <1>10, <1>11, <1>12, <1>13, <1>16, <1>17, <1>19, <2>2, <2>3, <2>4 DEF Advance
<1>20. ASSUME NEW t \in Threads, DelegateReturns(t) PROVE Goal
  <2>1. PICK o \in DelegateOutcomes : DelegateEnds(t, o)
    BY <1>20 DEF DelegateReturns
  <2>2. on[t] \in Machines
    BY <1>0, <2>1 DEF DelegateEnds
  <2>3. QED
    BY <1>4, <2>1, <2>2
<1>21. Goal
  <2>1. ASSUME NEW t \in Callers, Call(t) PROVE Goal
    BY <1>8, <1>15, <2>1 DEF Call
  <2>2. CASE \E m \in Machines : Initialize(m)
    BY <1>1, <2>2
  <2>3. CASE \E t \in Threads : Advance(t) \/ DelegateReturns(t)
    BY <1>19, <1>20, <2>3
  <2>4. CASE \E t \in Callers : Call(t)
    BY <2>1, <2>4
  <2>5. CASE UNCHANGED vars
    BY <1>18, <2>5
  <2>6. QED
    BY <2>2, <2>3, <2>4, <2>5 DEF Next, Finished
<1>22. QED
  BY <1>21 DEF Goal

\* Seen through the getState PV and the calls of delegates, the threads, locks
\* and exception handlers of StateMachineImpl do what TransitionProtocol says:
\* each announced transition calls its delegate once and ends in one of its
\* outcomes, on which the next one starts.
THEOREM ProtocolImplemented ==
  ASSUME WellBehaved PROVE Spec => ImplementsProtocol
<1>1. Init => Protocol!Init
  BY DEF Init, Protocol!Init, InTransit, Announced
<1>2. IInv /\ IInv' /\ MapsTo /\ MapsTo' /\ PhasesAre /\ PhasesAre' /\ [Next]_vars
        => [Protocol!Next]_(Protocol!protocolVars)
  BY ProtocolStep DEF Protocol!protocolVars, Transit, Phase
<1>3. QED
  BY <1>1, <1>2, Invariance, TransitFacts, PhaseFacts, PTL
  DEF Spec, ImplementsProtocol, Protocol!Spec

-----------------------------------------------------------------------------
(* AcquisitionChannel                                                       *)

\* A delegate stands at its entry unless it is in the middle of start or stop.
AtInv ==
  /\ at \in [Threads -> {"entry", "decimation", "driver", "launch", "join"}]
  /\ \A t \in Threads :
       /\ at[t] \in {"decimation", "driver", "launch"} => Runs(t, "start")
       /\ at[t] = "join" => Runs(t, "stop")

DriverTyped ==
  /\ stopFlag \in [Machines -> {"unset", "clear", "raised"}]
  /\ joinable \in [Machines -> BOOLEAN]
  /\ worker \in [Machines -> WorkerPC]

\* What the driver leaves to the state machine: the thread object is occupied
\* in the states that a successful start leads to and stop leads out of.
WorkerInv ==
  \A m \in Machines :
    /\ joinable[m] <=> worker[m] # "none"
    /\ joinable[m] => life[m] # "constructed" /\ state[m] \in {"starting", "running", "stopping"}
    /\ state[m] = "running" => joinable[m]
    /\ joinable[m] /\ state[m] # "stopping" => Alive(m) /\ stopFlag[m] = "clear"

\* ... and how far start and stop have got with it.
TransitInv ==
  \A t \in Threads :
    Pending(t) =>
      /\ tr[t].delegate = "start" =>
           (joinable[on[t]] <=> pc[t] = "settle" /\ out[t] = "ok")
      /\ tr[t].delegate = "stop" =>
           /\ joinable[on[t]] <=> pc[t] # "settle"
           /\ pc[t] = "settle" => out[t] = "ok"
      /\ at[t] = "launch" => stopFlag[on[t]] = "clear"

DriverInv == AtInv /\ DriverTyped /\ WorkerInv /\ TransitInv

AInv == IInv /\ ~aborted /\ DriverInv

-----------------------------------------------------------------------------
\* The delegates whose intermediate state tells them apart.
LEMMA RowDelegates ==
  \A row \in Transitions :
    /\ row.delegate = "start" <=> row.via = "starting"
    /\ row.delegate = "stop" <=> row.via = "stopping"
    /\ row.delegate = "start" => row.from = "on" /\ row.to = "running"
    /\ row.delegate = "stop" => row.from = "running" /\ row.to = "on"
    /\ row.delegate \notin {"start", "stop"} => row.from # "running" /\ row.to # "running"
    /\ row.via # "running" /\ row.from \notin {"starting", "stopping"}
  BY DEF Transitions, Row

\* What the state machine knows of a thread with a pending transition: that it is
\* the only one of its machine.
LEMMA PendingFacts ==
  ASSUME IInv, NEW t \in Threads, Pending(t)
  PROVE  /\ on[t] \in Machines /\ tr[t] \in Transitions
         /\ state[on[t]] = tr[t].via
         /\ life[on[t]] # "constructed"
         /\ \A u \in Threads : Pending(u) /\ on[u] = on[t] => u = t
<1>1. /\ pc[t] \notin {"idle", "exit", "ended"} => on[t] \in Machines
      /\ Pending(t) \/ pc[t] = "publish" => tr[t] \in Transitions
  BY DEF IInv, Typed, FrameOK
<1>2. state[on[t]] = tr[t].via /\ \A u \in Threads : Pending(u) /\ on[u] = on[t] => u = t
  BY DEF IInv, TransitionInv, ViaInv, AtMostOneTransition
<1>3. on[t] \in Machines => life[on[t]] # "constructed"
  BY DEF IInv, ViewInv, LifeInv
<1>4. QED BY <1>1, <1>2, <1>3 DEF Pending

\* The delegate of a thread that is inside it.
LEMMA RunsFacts ==
  ASSUME IInv, NEW t \in Threads, NEW d, Runs(t, d)
  PROVE  Pending(t) /\ pc[t] = "delegate" /\ tr[t].delegate = d /\ on[t] \in Machines
  BY PendingFacts DEF Runs, Pending

-----------------------------------------------------------------------------
(* The steps of the device are steps of its state machines.                 *)

\* What clients, machines and delegates do to the machines, StateMachine allows.
LEMMA StepOfMachines == ~aborted /\ [ChannelNext]_allVars => [Next]_vars
<1> SUFFICES ASSUME ~aborted, [ChannelNext]_allVars PROVE [Next]_vars
  OBVIOUS
<1>1. ASSUME NEW m \in Machines, Initialize(m) PROVE Next
  BY <1>1 DEF Next
<1>2. ASSUME Clients PROVE Next
  BY <1>2, ChannelAssumption DEF Clients, Next, Call
<1>3. ASSUME NEW t \in Threads, AdvanceMachine(t) PROVE Next
  BY <1>3 DEF AdvanceMachine, Next
<1>4. ASSUME NEW t \in Threads, NEW o \in {"ok", "rollback", "error"}, DelegateDone(t, o)
      PROVE Next
  BY <1>4, ChannelAssumption DEF DelegateDone, Next, DelegateReturns
<1>5. ASSUME NEW t \in Threads, Drive(t) PROVE Next \/ UNCHANGED vars
  <2>1. CASE SwitchOn(t) \/ SwitchOff(t) \/ Recover(t)
    BY <2>1, <1>4 DEF SwitchOn, SwitchOff, Recover
  <2>2. CASE TakeStartTime(t) \/ SetDecimation(t)
    BY <2>2 DEF TakeStartTime, SetDecimation
  <2>3. CASE Start(t)
    BY <2>3, <1>4 DEF Start, ClearFlag, StartWorker, StartWorkerFails
  <2>4. CASE Stop(t)
    BY <2>4, <1>4 DEF Stop, RaiseFlag, JoinWorker
  <2>5. QED BY <1>5, <2>1, <2>2, <2>3, <2>4 DEF Drive
<1>6. ASSUME NEW m \in Machines, Acquire(m) PROVE UNCHANGED vars
  BY <1>6 DEF Acquire, TestFlag, Push
<1>7. ASSUME NEW w \in Writes, WriteParameter(w[1], w[2], w[3]) PROVE UNCHANGED vars
  BY <1>7 DEF WriteParameter
<1>8. ASSUME DeleteDevice \/ Rest \/ UNCHANGED allVars PROVE UNCHANGED vars
  BY <1>8 DEF DeleteDevice, Rest, allVars
<1>9. QED
  BY <1>1, <1>2, <1>3, <1>5, <1>6, <1>7, <1>8 DEF ChannelNext, Surroundings

-----------------------------------------------------------------------------
(* Steps of the machines and their clients, outside the delegates.          *)

\* They keep what is known of the delegates and of the thread objects: only an
\* accepted request and a settled transition change a state.
LEMMA MachinesKeep ==
  ASSUME WellBehaved, AInv, UNCHANGED <<nodeVars, driverVars>>,
         \/ \E m \in Machines : Initialize(m)
         \/ Clients
         \/ \E t \in Threads : Advance(t)
  PROVE  DriverInv' /\ aborted' = FALSE
<1> USE ThreadFacts
<1> USE DEF AInv, DriverInv, AtInv, DriverTyped, WorkerInv, TransitInv, Alive, Runs, Pending,
            nodeVars, driverVars, Goto, machineVars, frameVars
<1>t. /\ IInv /\ Typed /\ TypeOK /\ FrameOK
      /\ stopFlag' = stopFlag /\ joinable' = joinable /\ worker' = worker /\ at' = at
  BY DEF IInv, Typed
<1>k. DriverTyped'
  BY <1>t
\* A step that changes no state, no delegate and no pending transition.
<1>0. ASSUME state' = state,
             \A m \in Machines : life'[m] = "constructed" => life[m] = "constructed",
             \A u \in Threads :
               /\ pc[u] = "delegate" => pc'[u] = "delegate" /\ tr'[u] = tr[u]
               /\ Pending(u)' =>
                    /\ Pending(u) /\ on'[u] = on[u] /\ tr'[u] = tr[u] /\ out'[u] = out[u]
                    /\ pc'[u] = "settle" <=> pc[u] = "settle"
      PROVE DriverInv'
  <2>1. AtInv'
    BY <1>0, <1>t
  <2>2. WorkerInv'
    BY <1>0, <1>t
  <2>3. TransitInv'
    BY <1>0, <1>t
  <2>4. QED BY <2>1, <2>2, <2>3, <1>k
<1>1. ASSUME NEW m \in Machines, Initialize(m) PROVE DriverInv' /\ aborted' = FALSE
  <2>1. /\ life[m] = "constructed" /\ pc' = pc /\ on' = on /\ tr' = tr /\ out' = out
        /\ state' = [state EXCEPT ![m] = "off"]
        /\ life' = [life EXCEPT ![m] = "ready"] /\ aborted' = aborted
    BY <1>1 DEF Initialize
  <2>2. AtInv' /\ TransitInv'
    BY <2>1, <1>t
  <2>3. WorkerInv'
    BY <2>1, <1>t DEF TypeOK
  <2>4. QED BY <2>1, <2>2, <2>3, <1>k
<1>2. ASSUME Clients PROVE DriverInv' /\ aborted' = FALSE
  BY <1>0, <1>2, <1>t, ChannelAssumption
  DEF Clients, CallSetState, CallDeinitialize, TypeOK
<1>3. ASSUME NEW t \in Threads, EnterSetState(t) \/ Refuse(t) PROVE DriverInv' /\ aborted' = FALSE
  BY <1>0, <1>3, <1>t DEF EnterSetState, Refuse, Return, DropFrame, Back, TypeOK
<1>4. ASSUME NEW t \in Threads, Accept(t) PROVE DriverInv' /\ aborted' = FALSE
  <2> DEFINE m == on[t]
  <2>0. pc[t] = "decide" /\ was[t] = state[m]
    BY <1>4 DEF Accept, IInv, ReadInv
  <2>1. PICK row \in Transitions :
          /\ row.from = state[m]
          /\ state' = [state EXCEPT ![m] = row.via]
          /\ tr' = [tr EXCEPT ![t] = row]
    <3>1. \E row \in Transitions :
            /\ row.from = was[t] /\ row.to = goal[t]
            /\ state' = [state EXCEPT ![m] = row.via]
            /\ tr' = [tr EXCEPT ![t] = row]
      BY <1>4 DEF Accept
    <3> HIDE DEF AInv, Pending
    <3>2. QED BY <2>0, <3>1
  <2>2. /\ pc[t] = "decide" /\ m \in Machines
        /\ pc' = [pc EXCEPT ![t] = "announce"]
        /\ on' = on /\ out' = out /\ life' = life /\ aborted' = aborted
    BY <1>4, <1>t DEF Accept, FrameOK
  <2>3. \A u \in Threads : Pending(u) => on[u] # m
    BY <2>1, PendingFacts, RowFacts, StateFacts, <1>t
  <2>4. AtInv'
    BY <2>1, <2>2, <1>t DEF TypeOK
  <2>5. joinable[m] <=> row.delegate = "stop"
    BY <2>1, <2>2, RowDelegates, RowFacts, StateFacts
  <2>6. WorkerInv'
    BY <2>1, <2>2, <2>5, RowDelegates, <1>t DEF TypeOK
  <2>7. TransitInv'
    <3>1. at[t] = "entry"
      BY <2>2
    <3>2. ASSUME NEW u \in Threads \ {t}, Pending(u)'
          PROVE  Pending(u) /\ on'[u] = on[u] /\ tr'[u] = tr[u] /\ out'[u] = out[u] /\ pc'[u] = pc[u]
      BY <2>1, <2>2, <3>2, <1>t DEF TypeOK
    <3>3. pc'[t] = "announce" /\ on'[t] = m /\ tr'[t] = row
      BY <2>1, <2>2, <1>t DEF TypeOK
    <3>4. QED BY <3>1, <3>2, <3>3, <2>5, RowDelegates, <1>t
  <2>8. QED BY <2>2, <2>4, <2>6, <2>7, <1>k
<1>5. ASSUME NEW t \in Threads, NEW p \in PushOutcomes, Announce(t, p)
      PROVE DriverInv' /\ aborted' = FALSE
  BY <1>0, <1>5, <1>t DEF Announce, WellBehaved, TypeOK
<1>6. ASSUME NEW t \in Threads, LockTransitionThread(t) \/ InvokeDelegate(t)
      PROVE DriverInv' /\ aborted' = FALSE
  <2>1. CASE LockTransitionThread(t)
    BY <1>0, <2>1, <1>t DEF LockTransitionThread, TypeOK
  <2>2. CASE InvokeDelegate(t)
    BY <1>0, <2>2, <1>t DEF InvokeDelegate, TypeOK
  <2>3. QED BY <1>6, <2>1, <2>2
<1>7. ASSUME NEW t \in Threads, LaunchTransitionThread(t) PROVE DriverInv' /\ aborted' = FALSE
  <2> DEFINE m == on[t]
  <2>1. /\ pc[t] = "join" /\ m \in Machines /\ t \in Callers /\ t # m
        /\ pc[m] \in {"idle", "ended"}
        /\ pc' = [pc EXCEPT ![t] = "idle", ![m] = "call"]
        /\ on' = [on EXCEPT ![t] = NoMachine, ![m] = m]
        /\ tr' = [tr EXCEPT ![t] = NoTransition, ![m] = tr[t]]
        /\ state' = state /\ life' = life /\ out' = out /\ aborted' = aborted
    BY <1>7, <1>t DEF LaunchTransitionThread, Joined, FrameOK, Threads
  <2>2. /\ pc'[t] = "idle" /\ pc'[m] = "call" /\ on'[m] = m /\ tr'[m] = tr[t]
        /\ \A u \in Threads \ {t, m} : pc'[u] = pc[u] /\ on'[u] = on[u] /\ tr'[u] = tr[u]
    BY <2>1, <1>t DEF TypeOK
  <2>3. AtInv' /\ at[m] = "entry"
    <3>1. \A u \in Threads : at[u] # "entry" => pc[u] = "delegate" /\ tr[u].delegate \in {"start", "stop"}
      BY <1>t
    <3>2. at[t] = "entry" /\ at[m] = "entry"
      BY <3>1, <2>1
    <3>3. \A u \in Threads : at[u] # "entry" => pc'[u] = pc[u] /\ tr'[u] = tr[u]
      BY <3>2, <2>2
    <3>4. QED BY <3>2, <3>3, <1>t
  <2>4. WorkerInv'
    BY <2>1, <1>t
  <2>5. TransitInv'
    <3>1. \A u \in Threads \ {t, m} : Pending(u)' => Pending(u)
      BY <2>2
    <3>2. Pending(t) /\ on[t] = m /\ ~Pending(t)'
      BY <2>1, <2>2
    <3>3. tr'[m].delegate \in {"start", "stop"} => (joinable[m] <=> tr'[m].delegate = "stop")
      BY <3>2, <2>1, <2>2
    <3> SUFFICES ASSUME NEW u \in Threads, Pending(u)'
                 PROVE  /\ tr'[u].delegate = "start" =>
                             (joinable[on'[u]] <=> pc'[u] = "settle" /\ out'[u] = "ok")
                        /\ tr'[u].delegate = "stop" =>
                             /\ joinable[on'[u]] <=> pc'[u] # "settle"
                             /\ pc'[u] = "settle" => out'[u] = "ok"
                        /\ at[u] = "launch" => stopFlag[on'[u]] = "clear"
      BY <1>t
    <3>4. CASE u = m
      BY <3>4, <3>3, <2>2, <2>3
    <3>5. CASE u # m
      <4>1. u \in Threads \ {t, m}
        BY <3>2, <3>5
      <4>2. /\ Pending(u) /\ pc'[u] = pc[u] /\ on'[u] = on[u] /\ tr'[u] = tr[u]
            /\ out'[u] = out[u]
        BY <3>1, <4>1, <2>1, <2>2
      <4>3. QED BY <4>2
    <3>6. QED BY <3>4, <3>5
  <2> HIDE DEF AtInv, DriverTyped, WorkerInv, TransitInv
  <2>6. QED BY <2>1, <2>3, <2>4, <2>5, <1>k
<1>8. ASSUME NEW t \in Threads, Settle(t) PROVE DriverInv' /\ aborted' = FALSE
  <2> DEFINE m == on[t]  lands == Landing(tr[t], out[t])
  <2>1. /\ pc[t] = "settle" /\ Pending(t) /\ on' = on /\ tr' = tr /\ out' = out
        /\ pc' = [pc EXCEPT ![t] = "publish"] /\ life' = life /\ aborted' = aborted
        /\ state' = [state EXCEPT ![m] = lands]
    BY <1>8 DEF Settle
  <2>2. /\ m \in Machines /\ tr[t] \in Transitions /\ state[m] = tr[t].via
        /\ \A u \in Threads : Pending(u) /\ on[u] = m => u = t
        /\ out[t] \in Outcome \ {"other"}
    BY <2>1, PendingFacts, <1>t DEF FrameOK, TypeOK
  <2>3. /\ lands \in RestState
        /\ lands = "running" <=> tr[t].delegate = "start" /\ out[t] = "ok"
    <3>1. tr[t].delegate = "stop" => out[t] = "ok"
      BY <2>1
    <3>2. QED BY <2>2, <3>1, LandingFacts, RowDelegates DEF Landing, Outcome
  <2>4. joinable[m] <=> lands = "running"
    BY <2>1, <2>2, <2>3, RowDelegates, RowFacts, StateFacts
  <2>5. AtInv'
    BY <2>1, <1>t DEF TypeOK
  <2>6. TransitInv'
    BY <2>1, <1>t DEF TypeOK
  <2>7. WorkerInv'
    <3>1. joinable[m] => tr[t].via = "starting"
      BY <2>2, <2>3, <2>4, RowDelegates
    <3>2. state'[m] = lands /\ \A n \in Machines \ {m} : state'[n] = state[n]
      BY <2>1, <2>2, <1>t DEF TypeOK
    <3> HIDE DEF lands
    <3>3. QED BY <3>1, <3>2, <2>1, <2>2, <2>4, <1>t
  <2>8. QED BY <2>1, <2>5, <2>6, <2>7, <1>k
<1>9. ASSUME NEW t \in Threads, NEW p \in PushOutcomes, Publish(t, p)
      PROVE DriverInv' /\ aborted' = FALSE
  <2>1. /\ pc[t] = "publish" /\ Return(t) /\ state' = state /\ life' = life
        /\ aborted' = (t \in Machines /\ out[t] = "other")
    BY <1>9 DEF Publish, Leave, WellBehaved
  <2>2. DriverInv'
    BY <1>0, <2>1, <1>t DEF Return, DropFrame, Back, TypeOK
  <2>3. QED BY <2>1, <2>2, <1>t DEF FrameOK
<1>10. ASSUME NEW m \in Machines, ThreadEnds(m) PROVE DriverInv' /\ aborted' = FALSE
  BY <1>0, <1>10, <1>t DEF ThreadEnds, TypeOK
<1>11. ASSUME NEW t \in Threads, LockForDeinitialize(t) PROVE DriverInv' /\ aborted' = FALSE
  BY <1>0, <1>11, <1>t DEF LockForDeinitialize, TypeOK
<1>12. ASSUME NEW t \in Threads, FinishDeinitialize(t) PROVE DriverInv' /\ aborted' = FALSE
  BY <1>0, <1>12, <1>t DEF FinishDeinitialize, DropFrame, Joined, TypeOK
<1>13. QED
  BY <1>1, <1>2, <1>3, <1>4, <1>5, <1>6, <1>7, <1>8, <1>9, <1>10, <1>11, <1>12 DEF Advance

-----------------------------------------------------------------------------
(* The delegates and the acquisition threads.                               *)

\* How a delegate ends that does not throw anything unknown.
LEMMA DoneFacts ==
  ASSUME AInv, NEW t \in Threads, NEW o \in {"ok", "rollback", "error"}, DelegateDone(t, o)
  PROVE  /\ pc' = [pc EXCEPT ![t] = "settle"] /\ out' = [out EXCEPT ![t] = o]
         /\ on' = on /\ tr' = tr /\ state' = state /\ life' = life /\ aborted' = FALSE
         /\ at' = [at EXCEPT ![t] = "entry"]
         /\ UNCHANGED <<parameter, factor, count, startTime, starts>>
  BY DEF AInv, DelegateDone, DelegateEnds, Goto, machineVars

\* A step of a delegate keeps what is known of it, and of the thread object of its
\* machine: no other delegate of the machine runs.
LEMMA DelegatesKeep ==
  ASSUME AInv, NEW t \in Threads, Drive(t)
  PROVE  DriverInv' /\ aborted' = FALSE
<1> USE ThreadFacts
<1> DEFINE m == on[t]
<1>d. ASSUME NEW o \in {"ok", "rollback", "error"}, DelegateDone(t, o)
      PROVE  /\ pc' = [pc EXCEPT ![t] = "settle"] /\ out' = [out EXCEPT ![t] = o]
             /\ on' = on /\ tr' = tr /\ state' = state /\ life' = life /\ aborted' = FALSE
             /\ at' = [at EXCEPT ![t] = "entry"]
  BY <1>d, DoneFacts
<1>p. \A u \in Threads : Pending(u) => on[u] \in Machines
  BY PendingFacts DEF AInv
<1> USE DEF AInv, DriverInv, AtInv, DriverTyped, WorkerInv, TransitInv, Alive, Runs, Pending,
            driverVars, In
<1>t. /\ IInv /\ pc \in [Threads -> PC] /\ out \in [Threads -> Outcome]
      /\ on \in [Threads -> Machines \cup {NoMachine}]
  BY DEF IInv, Typed, TypeOK
\* The delegate's thread is the only one with a transition of the machine.
<1>o. ASSUME pc[t] = "delegate"
      PROVE  /\ m \in Machines /\ tr[t] \in Transitions
             /\ state[m] = tr[t].via /\ life[m] # "constructed"
             /\ \A u \in Threads : Pending(u) /\ on[u] = m => u = t
  BY <1>o, <1>t, PendingFacts
\* A delegate returns that leaves the thread object alone.
<1>r. ASSUME NEW o \in {"ok", "rollback", "error"}, DelegateDone(t, o), UNCHANGED driverVars,
             pc[t] = "delegate", tr[t].delegate # "stop",
             tr[t].delegate = "start" => o # "ok"
      PROVE  DriverInv' /\ aborted' = FALSE
  <2>1. /\ pc' = [pc EXCEPT ![t] = "settle"] /\ out' = [out EXCEPT ![t] = o]
        /\ on' = on /\ tr' = tr /\ state' = state /\ life' = life /\ aborted' = FALSE
        /\ at' = [at EXCEPT ![t] = "entry"]
    BY <1>r, <1>d
  <2>2. AtInv'
    BY <2>1, <1>r, <1>t
  <2>3. DriverTyped' /\ WorkerInv'
    BY <2>1, <1>r, <1>t
  <2>4. TransitInv'
    BY <2>1, <1>r, <1>t
  <2> HIDE DEF AtInv, DriverTyped, WorkerInv, TransitInv
  <2>5. QED BY <2>1, <2>2, <2>3, <2>4
<1>1. CASE SwitchOn(t) \/ SwitchOff(t) \/ Recover(t)
  BY <1>1, <1>r DEF SwitchOn, SwitchOff, Recover
<1>2. CASE StartWorkerFails(t)
  BY <1>2, <1>r DEF StartWorkerFails
<1>3. CASE (TakeStartTime(t) \/ SetDecimation(t)) /\ UNCHANGED driverVars
  <2>1. /\ Runs(t, "start") /\ UNCHANGED vars
        /\ at' \in {[at EXCEPT ![t] = "decimation"], [at EXCEPT ![t] = "driver"]}
    BY <1>3 DEF TakeStartTime, SetDecimation
  <2>2. AtInv'
    BY <2>1, <1>t DEF vars
  <2>3. DriverTyped' /\ WorkerInv'
    BY <2>1, <1>3, <1>t DEF vars
  <2>4. TransitInv'
    BY <2>1, <1>3, <1>t DEF vars
  <2>5. aborted' = FALSE
    BY <2>1 DEF vars
  <2> HIDE DEF AtInv, DriverTyped, WorkerInv, TransitInv
  <2>6. QED BY <2>2, <2>3, <2>4, <2>5
<1>4. CASE ClearFlag(t) \/ RaiseFlag(t)
  <2>1. /\ pc[t] = "delegate" /\ UNCHANGED vars /\ joinable' = joinable /\ worker' = worker
        /\ \/ /\ tr[t].delegate = "start" /\ at' = [at EXCEPT ![t] = "launch"]
              /\ stopFlag' = [stopFlag EXCEPT ![m] = "clear"]
           \/ /\ tr[t].delegate = "stop" /\ at' = [at EXCEPT ![t] = "join"]
              /\ stopFlag' = [stopFlag EXCEPT ![m] = "raised"]
    BY <1>4 DEF ClearFlag, RaiseFlag
  <2>2. /\ m \in Machines /\ state[m] = tr[t].via /\ tr[t] \in Transitions
        /\ \A u \in Threads \ {t} : Pending(u) => on[u] # m
    BY <2>1, <1>o
  <2>3. AtInv'
    BY <2>1, <1>t DEF vars
  <2>4. DriverTyped'
    BY <2>1, <2>2
  <2>5. WorkerInv'
    BY <2>1, <2>2, RowDelegates DEF vars
  <2>6. TransitInv'
    <3>1. stopFlag'[m] = "clear" \/ at'[t] = "join"
      BY <2>1, <2>2
    <3>2. \A u \in Threads \ {t} : Pending(u) => at'[u] = at[u] /\ stopFlag'[on[u]] = stopFlag[on[u]]
      BY <2>1, <2>2, <1>t, <1>p
    <3>3. QED BY <2>1, <2>2, <3>1, <3>2 DEF vars
  <2>7. aborted' = FALSE
    BY <2>1 DEF vars
  <2> HIDE DEF AtInv, DriverTyped, WorkerInv, TransitInv
  <2>8. QED BY <2>3, <2>4, <2>5, <2>6, <2>7
<1>5. CASE StartWorker(t) \/ JoinWorker(t)
  <2>1. /\ pc[t] = "delegate"
        /\ pc' = [pc EXCEPT ![t] = "settle"] /\ out' = [out EXCEPT ![t] = "ok"]
        /\ on' = on /\ tr' = tr /\ state' = state /\ life' = life /\ aborted' = FALSE
        /\ at' = [at EXCEPT ![t] = "entry"] /\ stopFlag' = stopFlag
    BY <1>5, <1>d DEF StartWorker, JoinWorker
  <2>2. /\ m \in Machines /\ state[m] = tr[t].via /\ tr[t] \in Transitions
        /\ life[m] # "constructed"
        /\ \A u \in Threads \ {t} : Pending(u) => on[u] # m
    BY <2>1, <1>o
  <2>3. \/ /\ tr[t].delegate = "start" /\ at[t] = "launch"
           /\ joinable' = [joinable EXCEPT ![m] = TRUE] /\ worker' = [worker EXCEPT ![m] = "test"]
        \/ /\ tr[t].delegate = "stop"
           /\ joinable' = [joinable EXCEPT ![m] = FALSE] /\ worker' = [worker EXCEPT ![m] = "none"]
    BY <1>5 DEF StartWorker, JoinWorker, RunInThread, Join
  <2>4. AtInv'
    BY <2>1, <1>t
  <2>5. DriverTyped'
    <3>1. PICK j \in BOOLEAN, w \in WorkerPC :
            joinable' = [joinable EXCEPT ![m] = j] /\ worker' = [worker EXCEPT ![m] = w]
      BY <2>3 DEF WorkerPC
    <3>2. joinable' \in [Machines -> BOOLEAN]
      BY <3>1
    <3>3. worker' \in [Machines -> WorkerPC]
      BY <3>1
    <3>4. QED BY <2>1, <3>2, <3>3
  <2>6. WorkerInv'
    <3>1. \A n \in Machines \ {m} : joinable'[n] = joinable[n] /\ worker'[n] = worker[n]
      BY <2>2, <2>3
    <3>2. CASE tr[t].delegate = "start"
      <4>1. /\ joinable'[m] /\ worker'[m] = "test" /\ stopFlag[m] = "clear"
            /\ state[m] = "starting"
        BY <2>1, <2>2, <2>3, <3>2, RowDelegates
      <4>2. QED BY <2>1, <2>2, <3>1, <4>1
    <3>3. CASE tr[t].delegate = "stop"
      <4>1. ~joinable'[m] /\ worker'[m] = "none" /\ state[m] = "stopping"
        BY <2>2, <2>3, <3>3, RowDelegates
      <4>2. QED BY <2>1, <2>2, <3>1, <4>1
    <3>4. QED BY <2>3, <3>2, <3>3
  <2>7. TransitInv'
    <3>1. pc'[t] = "settle" /\ out'[t] = "ok" /\ at'[t] = "entry"
      BY <2>1, <1>t
    <3>2. joinable'[m] <=> tr[t].delegate = "start"
      BY <2>2, <2>3
    <3>3. \A u \in Threads \ {t} : Pending(u) =>
            pc'[u] = pc[u] /\ out'[u] = out[u] /\ at'[u] = at[u] /\ joinable'[on[u]] = joinable[on[u]]
      BY <2>1, <2>2, <2>3, <1>t, <1>p
    <3>4. \A u \in Threads \ {t} : Pending(u)' => Pending(u)
      BY <2>1, <1>t
    <3>5. QED BY <3>1, <3>2, <3>3, <3>4, <2>1, <2>2, <2>3
  <2> HIDE DEF AtInv, DriverTyped, WorkerInv, TransitInv
  <2>8. QED BY <2>1, <2>4, <2>5, <2>6, <2>7
<1>6. QED
  BY <1>1, <1>2, <1>3, <1>4, <1>5 DEF Drive, Start, Stop

\* Acquisition threads leave their loop only when the flag is raised, or was never
\* assigned.
LEMMA WorkersKeep ==
  ASSUME AInv, NEW m \in Machines, Acquire(m)
  PROVE  DriverInv' /\ aborted' = FALSE
<1> USE DEF AInv, DriverInv
<1>1. /\ UNCHANGED vars /\ at' = at /\ stopFlag' = stopFlag /\ joinable' = joinable
      /\ Alive(m)
      /\ \/ worker' = [worker EXCEPT ![m] = "ended"] /\ stopFlag[m] # "clear"
         \/ worker' = [worker EXCEPT ![m] = "push"]
         \/ worker' = [worker EXCEPT ![m] = "test"]
  BY DEF Acquire, TestFlag, Push, PushData, nodeVars, Reads, Alive
<1>2. AtInv' /\ TransitInv' /\ aborted' = FALSE
  BY <1>1 DEF AtInv, TransitInv, Runs, Pending, vars
<1>3. DriverTyped'
  BY <1>1 DEF DriverTyped, WorkerPC
<1>4. WorkerInv'
  BY <1>1 DEF WorkerInv, Alive, DriverTyped, vars
<1>5. QED BY <1>2, <1>3, <1>4

\* The invariant is inductive.
LEMMA AcquisitionStep == WellBehaved /\ AInv /\ [ChannelNext]_allVars => AInv'
<1> SUFFICES ASSUME WellBehaved, AInv, [ChannelNext]_allVars PROVE AInv'
  OBVIOUS
<1>1. IInv'
  BY StepOfMachines, InvStep DEF AInv
<1>2. ASSUME UNCHANGED <<vars, driverVars>>, at' = at PROVE DriverInv' /\ aborted' = FALSE
  BY <1>2 DEF AInv, DriverInv, AtInv, DriverTyped, WorkerInv, TransitInv, Alive, Runs, Pending,
              vars, driverVars
<1>3. ASSUME Surroundings PROVE DriverInv' /\ aborted' = FALSE
  <2>1. CASE /\ (\E m \in Machines : Initialize(m)) \/ Clients
             /\ UNCHANGED <<nodeVars, driverVars, device>>
    BY <2>1, MachinesKeep
  <2>2. CASE \E t \in Threads : AdvanceMachine(t)
    BY <2>2, MachinesKeep DEF AdvanceMachine
  <2>3. CASE \E w \in Writes : WriteParameter(w[1], w[2], w[3]) /\ UNCHANGED <<driverVars, device>>
    BY <2>3, <1>2 DEF WriteParameter
  <2>4. CASE DeleteDevice
    BY <2>4, <1>2 DEF DeleteDevice, nodeVars
  <2>5. QED BY <1>3, <2>1, <2>2, <2>3, <2>4 DEF Surroundings
<1>4. ASSUME Rest \/ UNCHANGED allVars PROVE DriverInv' /\ aborted' = FALSE
  BY <1>4, <1>2 DEF Rest, allVars, nodeVars
<1>5. DriverInv' /\ aborted' = FALSE
  BY <1>3, <1>4, DelegatesKeep, WorkersKeep DEF ChannelNext
<1>6. QED BY <1>1, <1>5 DEF AInv

\* ... and holds initially.
LEMMA AcquisitionInit == ChannelInit => AInv
<1> SUFFICES ASSUME ChannelInit PROVE AInv
  OBVIOUS
<1>1. IInv /\ ~aborted
  BY InvInit DEF ChannelInit, Init
<1>2. AtInv /\ DriverTyped
  BY DEF ChannelInit, NodeInit, AtInv, DriverTyped, WorkerPC
<1>3. WorkerInv /\ TransitInv
  BY DEF ChannelInit, Init, WorkerInv, TransitInv, Pending, Alive
<1>4. QED BY <1>1, <1>2, <1>3 DEF AInv, DriverInv

\* Hence it holds throughout.
LEMMA AcquisitionInvariance == ASSUME WellBehaved PROVE ChannelSpec => []AInv
<1>1. AInv /\ [ChannelNext]_allVars => AInv'
  BY AcquisitionStep
<1>2. QED BY AcquisitionInit, <1>1, PTL DEF ChannelSpec

-----------------------------------------------------------------------------
(* What it gives.                                                           *)

\* The state machine guarantees what the comment of the start delegate relies on:
\* whenever start runs, the thread object has been joined.
THEOREM StartsAreFresh ==
  ASSUME WellBehaved PROVE ChannelSpec => []StartFindsNoWorker
<1>1. AInv => StartFindsNoWorker
  <2> SUFFICES ASSUME AInv, NEW t \in Threads, Runs(t, "start")
               PROVE  ~joinable[on[t]] /\ ~Alive(on[t])
    BY DEF StartFindsNoWorker
  <2>1. /\ Pending(t) /\ pc[t] = "delegate" /\ tr[t].delegate = "start" /\ on[t] \in Machines
    BY RunsFacts DEF AInv
  <2>2. ~joinable[on[t]]
    BY <2>1 DEF AInv, DriverInv, TransitInv
  <2>3. QED BY <2>1, <2>2 DEF AInv, DriverInv, WorkerInv, Alive
<1>2. QED BY <1>1, AcquisitionInvariance, PTL

\* A channel whose state machine says that it is running acquires, and one that
\* is at rest in another state does not.
THEOREM StateTellsAcquisition ==
  ASSUME WellBehaved PROVE ChannelSpec => []AcquiresWhileRunning
<1>1. AInv => AcquiresWhileRunning
  BY DEF AInv, DriverInv, WorkerInv, AcquiresWhileRunning, Alive
<1>2. QED BY <1>1, AcquisitionInvariance, PTL

-----------------------------------------------------------------------------
(* The values of a run.                                                     *)

\* A counter or factor of 0 stands for the full width.
Full(n) == IF n = 0 THEN Width ELSE n

\* n values of which p were passed, with c left until the next one.
Counted(n, p, c, f) == 1 <= c /\ c <= f /\ n = p * f + (f - c)

CountTyped ==
  /\ parameter \in [Machines -> [Parameters -> Int]]
  /\ factor \in [Machines -> 0..Width-1] /\ count \in [Machines -> 0..Width-1]
  /\ startTime \in [Machines -> Nat] /\ starts \in [Machines -> Nat] /\ run \in [Machines -> Nat]
  /\ pushed \in [Machines -> 0..MaxPushes] /\ passed \in [Machines -> 0..MaxPushes]

\* The start time is that of the last start; in a run the counter and what was
\* pushed and passed agree, and between setDecimation and the launch the counter
\* is full.
CountInv ==
  /\ \A m \in Machines :
       /\ startTime[m] = starts[m]
       /\ passed[m] <= pushed[m]
       /\ worker[m] = "push" => pushed[m] < MaxPushes
       /\ Alive(m) => /\ run[m] = starts[m]
                      /\ Counted(pushed[m], passed[m], Full(count[m]), Full(factor[m]))
  /\ \A t \in Threads :
       at[t] \in {"driver", "launch"} => count[on[t]] = factor[on[t]]

CInv == AInv /\ CountTyped /\ CountInv

\* What Full gives is positive, and at most the width.
LEMMA FullFacts == \A n \in 0..Width-1 : Full(n) \in 1..Width
  BY AcquisitionAssumption DEF Full

\* The number of values passed is the quotient.
LEMMA CountedQuotient ==
  ASSUME NEW n \in Nat, NEW p \in Nat, NEW c \in Nat, NEW f \in Nat, Counted(n, p, c, f)
  PROVE  p = n \div f
<1>1. PICK r \in Nat : r < f /\ n = p * f + r
  BY DEF Counted
<1>2. QED BY <1>1, f > 0

\* A step that pushes nothing and starts nothing keeps the count.
LEMMA CountKept ==
  ASSUME CInv, UNCHANGED <<factor, count, startTime, starts, run, pushed, passed>>,
         parameter' \in [Machines -> [Parameters -> Int]],
         \A m \in Machines : worker'[m] \in {worker[m], "none", "ended"},
         \A t \in Threads : at'[t] \in {"driver", "launch"} =>
           at[t] \in {"driver", "launch"} /\ on'[t] = on[t]
  PROVE  CountTyped' /\ CountInv'
<1>1. CountTyped'
  BY DEF CInv, CountTyped
<1>2. CountInv'
  BY DEF CInv, CountInv, Alive, Counted, Full
<1>3. QED BY <1>1, <1>2

\* A value pushed: the last of a decimation period is passed and fills the counter
\* again, any other takes one from it.
LEMMA PushCounts ==
  ASSUME NEW n \in Nat, NEW p \in Nat, NEW c \in 0..Width-1, NEW f \in 0..Width-1,
         Counted(n, p, Full(c), Full(f)),
         NEW d, d = (c + Width - 1) % Width
  PROVE  IF d = 0 THEN Counted(n + 1, p + 1, Full(f), Full(f))
                  ELSE Counted(n + 1, p, Full(d), Full(f)) /\ d \in 0..Width-1
<1> DEFINE C == Full(c)  F == Full(f)
<1>1. C \in 1..Width /\ F \in 1..Width /\ n = p * F + (F - C) /\ C <= F
  BY FullFacts DEF Counted
<1>2. d = C - 1
  <2>1. CASE c = 0
    BY <2>1, AcquisitionAssumption DEF Full
  <2>2. CASE c # 0
    BY <2>2, AcquisitionAssumption DEF Full
  <2>3. QED BY <2>1, <2>2
<1>3. CASE d = 0
  <2>1. (p + 1) * F = p * F + F
    BY <1>1
  <2>2. QED BY <1>1, <1>2, <1>3, <2>1 DEF Counted
<1>4. CASE d # 0
  <2>1. Full(d) = C - 1 /\ d \in 0..Width-1
    BY <1>1, <1>2, <1>4, AcquisitionAssumption DEF Full
  <2>2. Counted(n + 1, p, C - 1, F)
    BY <1>1, <1>2, <1>4, <2>1, AcquisitionAssumption DEF Counted
  <2>3. QED BY <1>4, <2>1, <2>2
<1>5. QED BY <1>3, <1>4

\* The invariant of the count is inductive, on top of that of the driver.
LEMMA CountStep == WellBehaved /\ CInv /\ [ChannelNext]_allVars => CInv'
<1> SUFFICES ASSUME WellBehaved, CInv, [ChannelNext]_allVars PROVE CInv'
  OBVIOUS
<1> USE ThreadFacts
<1>t. /\ IInv /\ AInv /\ pc \in [Threads -> PC] /\ on \in [Threads -> Machines \cup {NoMachine}]
      /\ at \in [Threads -> {"entry", "decimation", "driver", "launch", "join"}]
      /\ worker \in [Machines -> WorkerPC] /\ joinable \in [Machines -> BOOLEAN]
  BY DEF CInv, AInv, IInv, Typed, TypeOK, DriverInv, AtInv, DriverTyped
<1>b. AInv
  BY DEF CInv
<1>a. AInv'
  BY <1>t, AcquisitionStep
<1>d. \A t \in Threads : at[t] \in {"driver", "launch"} => pc[t] = "delegate"
  BY <1>t DEF AInv, DriverInv, AtInv, Runs
\* While start runs, nobody acquires and nobody else is in a delegate.
<1>s. ASSUME NEW t \in Threads, Runs(t, "start")
      PROVE  /\ on[t] \in Machines /\ ~Alive(on[t])
             /\ \A u \in Threads \ {t} : pc[u] = "delegate" => on[u] # on[t] /\ on[u] \in Machines
  <2>1. Pending(t) /\ pc[t] = "delegate" /\ tr[t].delegate = "start" /\ on[t] \in Machines
    BY <1>s, <1>t, RunsFacts
  <2>2. ~joinable[on[t]]
    BY <2>1, <1>t DEF AInv, DriverInv, TransitInv
  <2>3. \A u \in Threads : pc[u] = "delegate" => Pending(u)
    BY DEF Pending
  <2>4. QED BY <2>1, <2>2, <2>3, <1>t, PendingFacts DEF AInv, DriverInv, WorkerInv, Alive
\* A step of the machines.
<1>1. ASSUME UNCHANGED <<nodeVars, driverVars>>,
             \A t \in Threads : pc[t] = "delegate" => on'[t] = on[t]
      PROVE  CountTyped' /\ CountInv'
  BY <1>1, <1>d, CountKept DEF nodeVars, driverVars, CInv, CountTyped
<1>2. ASSUME (\E m \in Machines : Initialize(m)) \/ Clients, UNCHANGED <<nodeVars, driverVars>>
      PROVE  CountTyped' /\ CountInv'
  <2>1. \A t \in Threads : pc[t] = "delegate" => on'[t] = on[t]
    BY <1>2, <1>t, ChannelAssumption DEF Initialize, Clients, CallSetState, CallDeinitialize, frameVars
  <2>2. QED BY <1>1, <1>2, <2>1
<1>3. ASSUME NEW t \in Threads, Advance(t), UNCHANGED <<nodeVars, driverVars>>
      PROVE  CountTyped' /\ CountInv'
  <2>1. ASSUME NEW u \in Threads, pc[u] = "delegate" PROVE on'[u] = on[u]
    <3>1. CASE LaunchTransitionThread(t)
      <4>1. /\ pc[t] = "join" /\ pc[on[t]] \in {"idle", "ended"}
            /\ on' = [on EXCEPT ![t] = NoMachine, ![on[t]] = on[t]]
        BY <3>1 DEF LaunchTransitionThread, Joined
      <4>2. QED BY <4>1, <2>1, <1>t
    <3>2. CASE ~LaunchTransitionThread(t)
      <4>1. on' = on \/ (pc[t] # "delegate" /\ on' = [on EXCEPT ![t] = NoMachine])
        BY <1>3, <3>2
        DEF Advance, EnterSetState, Refuse, Accept, Announce, LockTransitionThread, InvokeDelegate,
            Settle, Publish, ThreadEnds, LockForDeinitialize, FinishDeinitialize, Leave, Return,
            DropFrame, frameVars
      <4>2. QED BY <4>1, <2>1, <1>t
    <3>3. QED BY <3>1, <3>2
  <2>2. QED BY <1>1, <1>3, <2>1
<1>4. ASSUME NEW w \in Writes, WriteParameter(w[1], w[2], w[3]), UNCHANGED driverVars
      PROVE  CountTyped' /\ CountInv'
  <2>1. w[1] \in Machines /\ w[2] \in Parameters /\ w[3] \in Int
    BY AcquisitionAssumption
  <2>2. parameter' \in [Machines -> [Parameters -> Int]]
    BY <1>4, <2>1 DEF WriteParameter, CInv, CountTyped
  <2>3. QED BY <1>4, <2>2, <1>d, CountKept DEF WriteParameter, vars, driverVars
<1>5. ASSUME DeleteDevice \/ Rest \/ UNCHANGED allVars PROVE CountTyped' /\ CountInv'
  <2>1. UNCHANGED <<vars, nodeVars, driverVars>>
    BY <1>5 DEF DeleteDevice, Rest, allVars
  <2>2. QED BY <1>1, <2>1 DEF vars
\* A step of a delegate that does not launch.
<1>6. ASSUME NEW t \in Threads, TakeStartTime(t), UNCHANGED driverVars
      PROVE  CountTyped' /\ CountInv'
  <2> DEFINE m == on[t]
  <2>1. /\ m \in Machines /\ ~Alive(m) /\ Runs(t, "start") /\ UNCHANGED <<parameter, factor, count>>
        /\ starts' = [starts EXCEPT ![m] = @ + 1]
        /\ startTime' = [startTime EXCEPT ![m] = starts'[m]]
        /\ at' = [at EXCEPT ![t] = "decimation"] /\ on' = on
        /\ UNCHANGED <<stopFlag, joinable, worker, run, pushed, passed>>
    BY <1>6, <1>s DEF TakeStartTime, In, vars, driverVars
  <2> HIDE DEF m
  <2>2. CountTyped'
    BY <2>1 DEF CInv, CountTyped
  <2>3. CountInv'
    <3>1. ASSUME NEW n \in Machines PROVE startTime'[n] = starts'[n] /\ (n # m => starts'[n] = starts[n])
      BY <2>1 DEF CInv, CountInv, CountTyped
    <3>2. \A u \in Threads : at'[u] \in {"driver", "launch"} => at'[u] = at[u]
      BY <2>1, <1>t
    <3>3. QED BY <2>1, <3>1, <3>2 DEF CInv, CountInv, Alive, Full, Counted
  <2>4. QED BY <2>2, <2>3
<1>7. ASSUME NEW t \in Threads, SetDecimation(t), UNCHANGED driverVars
      PROVE  CountTyped' /\ CountInv'
  <2> DEFINE m == on[t]  d == ToUnsigned(Parameter(m, "Decimation"))
  <2>1. /\ m \in Machines /\ ~Alive(m) /\ UNCHANGED <<parameter, startTime, starts>>
        /\ \A u \in Threads \ {t} : pc[u] = "delegate" => on[u] # m /\ on[u] \in Machines
        /\ factor' = [factor EXCEPT ![m] = d] /\ count' = [count EXCEPT ![m] = d]
        /\ at' = [at EXCEPT ![t] = "driver"] /\ on' = on
        /\ UNCHANGED <<stopFlag, joinable, worker, run, pushed, passed>>
    BY <1>7, <1>s DEF SetDecimation, In, vars, driverVars
  <2>2. d \in 0..Width-1
    <3>1. Parameter(m, "Decimation") \in Int
      BY <2>1 DEF CInv, CountTyped, Parameter, Parameters
    <3>2. QED BY <3>1, AcquisitionAssumption DEF ToUnsigned
  <2> HIDE DEF m, d
  <2>3. CountTyped'
    BY <2>1, <2>2 DEF CInv, CountTyped
  <2>4. CountInv'
    <3>1. \A n \in Machines \ {m} : factor'[n] = factor[n] /\ count'[n] = count[n]
      BY <2>1
    <3>2. \A u \in Threads : at'[u] \in {"driver", "launch"} => count'[on'[u]] = factor'[on'[u]]
      <4>1. count'[m] = factor'[m]
        BY <2>1, <2>2 DEF CInv, CountTyped
      <4>2. \A u \in Threads \ {t} : at'[u] = at[u]
        BY <2>1, <1>t
      <4>3. \A u \in Threads \ {t} : at[u] \in {"driver", "launch"} =>
              on[u] \in Machines \ {m} /\ count[on[u]] = factor[on[u]]
        BY <2>1, <1>d DEF CInv, CountInv
      <4>4. on'[t] = m
        BY <2>1 DEF m
      <4>5. QED BY <2>1, <3>1, <4>1, <4>2, <4>3, <4>4
    <3>3. QED BY <2>1, <3>1, <3>2 DEF CInv, CountInv, Alive, Full, Counted
  <2>5. QED BY <2>3, <2>4
<1>8. ASSUME NEW t \in Threads, StartWorker(t) PROVE CountTyped' /\ CountInv'
  <2> DEFINE m == on[t]
  <2>1. /\ m \in Machines /\ Runs(t, "start") /\ at[t] = "launch"
        /\ UNCHANGED <<parameter, factor, count, startTime, starts>>
        /\ worker' = [worker EXCEPT ![m] = "test"] /\ run' = [run EXCEPT ![m] = starts[m]]
        /\ pushed' = [pushed EXCEPT ![m] = 0] /\ passed' = [passed EXCEPT ![m] = 0]
    BY <1>8, <1>s DEF StartWorker, RunInThread, In, DelegateDone
  <2>2. at' = [at EXCEPT ![t] = "entry"] /\ on' = on
    BY <1>8, <1>b, DoneFacts DEF StartWorker
  <2>3. count[m] = factor[m] /\ factor[m] \in 0..Width-1
    BY <2>1 DEF CInv, CountInv, CountTyped
  <2> HIDE DEF m
  <2>4. CountTyped'
    BY <2>1, ChannelAssumption DEF CInv, CountTyped
  <2>5. CountInv'
    <3>1. /\ run'[m] = starts'[m] /\ pushed'[m] = 0 /\ passed'[m] = 0 /\ worker'[m] = "test"
          /\ \A n \in Machines \ {m} : /\ run'[n] = run[n] /\ worker'[n] = worker[n]
                                       /\ pushed'[n] = pushed[n] /\ passed'[n] = passed[n]
      BY <2>1, <1>t DEF CInv, CountTyped
    <3>2. Counted(0, 0, Full(count[m]), Full(factor[m]))
      BY <2>3, FullFacts, AcquisitionAssumption DEF Counted
    <3>3. \A u \in Threads : at'[u] \in {"driver", "launch"} => at'[u] = at[u]
      BY <2>2, <1>t
    <3>4. ASSUME NEW n \in Machines
          PROVE  /\ startTime'[n] = starts'[n] /\ passed'[n] <= pushed'[n]
                 /\ worker'[n] = "push" => pushed'[n] < MaxPushes
                 /\ Alive(n)' => /\ run'[n] = starts'[n]
                                 /\ Counted(pushed'[n], passed'[n], Full(count'[n]), Full(factor'[n]))
      BY <2>1, <3>1, <3>2 DEF CInv, CountInv, Alive
    <3>5. QED BY <2>1, <2>2, <3>3, <3>4 DEF CInv, CountInv, Full, Counted
  <2>6. QED BY <2>4, <2>5

\* Any other step of a delegate.
<1>9. ASSUME NEW t \in Threads, Drive(t), ~StartWorker(t), ~TakeStartTime(t), ~SetDecimation(t)
      PROVE  CountTyped' /\ CountInv'
  <2>1. /\ UNCHANGED <<parameter, factor, count, startTime, starts, run, pushed, passed>> /\ on' = on
        /\ \A m \in Machines : worker'[m] \in {worker[m], "none"}
        /\ \/ at' = [at EXCEPT ![t] = "entry"] \/ at' = [at EXCEPT ![t] = "join"]
           \/ at[t] = "driver" /\ at' = [at EXCEPT ![t] = "launch"]
    <3>1. CASE SwitchOn(t) \/ SwitchOff(t) \/ Recover(t) \/ StartWorkerFails(t) \/ JoinWorker(t)
      <4>1. PICK o \in {"ok", "rollback", "error"} : DelegateDone(t, o)
        BY <3>1 DEF SwitchOn, SwitchOff, Recover, StartWorkerFails, JoinWorker
      <4>2. /\ UNCHANGED <<parameter, factor, count, startTime, starts>> /\ on' = on
            /\ at' = [at EXCEPT ![t] = "entry"]
        BY <4>1, <1>b, DoneFacts
      <4>3. /\ UNCHANGED <<run, pushed, passed>>
            /\ worker' = worker \/ worker' = [worker EXCEPT ![on[t]] = "none"]
        BY <3>1 DEF SwitchOn, SwitchOff, Recover, StartWorkerFails, JoinWorker, Join, driverVars
      <4>4. QED BY <4>2, <4>3, <1>t
    <3>2. CASE ClearFlag(t) \/ RaiseFlag(t)
      BY <3>2 DEF ClearFlag, RaiseFlag, In, vars
    <3>3. QED BY <1>9, <3>1, <3>2 DEF Drive, Start, Stop
  <2>2. \A u \in Threads : at'[u] \in {"driver", "launch"} => at[u] \in {"driver", "launch"} /\ on'[u] = on[u]
    BY <2>1, <1>t
  <2>3. QED BY <2>1, <2>2, CountKept DEF CInv, CountTyped
\* An acquisition thread.
<1>10. ASSUME NEW m \in Machines, TestFlag(m) PROVE CountTyped' /\ CountInv'
  <2>1. /\ UNCHANGED <<vars, nodeVars, run, pushed, passed>> /\ Alive(m)
        /\ \/ worker' = [worker EXCEPT ![m] = "ended"]
           \/ worker' = [worker EXCEPT ![m] = "push"] /\ pushed[m] < MaxPushes
    BY <1>10 DEF TestFlag, Alive
  <2>2. CountTyped'
    BY <2>1 DEF CInv, CountTyped, nodeVars
  <2>3. CountInv'
    BY <2>1, <1>t DEF CInv, CountInv, Alive, nodeVars, vars, Full, Counted
  <2>4. QED BY <2>2, <2>3
<1>11. ASSUME NEW m \in Machines, Push(m) PROVE CountTyped' /\ CountInv'
  <2> DEFINE d == Decremented(m)  p == IF d = 0 THEN passed[m] + 1 ELSE passed[m]
             c == IF d = 0 THEN factor[m] ELSE d
  <2>1. /\ UNCHANGED vars /\ UNCHANGED <<parameter, factor, startTime, starts, at, run>>
        /\ worker[m] = "push" /\ Alive(m)
        /\ worker' = [worker EXCEPT ![m] = "test"]
        /\ count' = [count EXCEPT ![m] = c]
        /\ pushed' = [pushed EXCEPT ![m] = @ + 1] /\ passed' = [passed EXCEPT ![m] = p]
    BY <1>11 DEF Push, PushData, Passes, Alive
  <2>2. /\ pushed[m] \in 0..MaxPushes /\ passed[m] \in 0..MaxPushes /\ passed[m] <= pushed[m]
        /\ pushed[m] < MaxPushes /\ factor[m] \in 0..Width-1 /\ count[m] \in 0..Width-1
        /\ Counted(pushed[m], passed[m], Full(count[m]), Full(factor[m]))
    BY <2>1 DEF CInv, CountTyped, CountInv
  <2>3. /\ c \in 0..Width-1 /\ Counted(pushed[m] + 1, p, Full(c), Full(factor[m]))
        /\ pushed[m] + 1 \in 0..MaxPushes /\ p \in 0..MaxPushes /\ p <= pushed[m] + 1
    <3>1. pushed[m] \in Nat /\ passed[m] \in Nat
      BY <2>2, ChannelAssumption
    <3>2. d = (count[m] + Width - 1) % Width
      BY DEF Decremented
    <3> HIDE DEF d
    <3>3. c \in 0..Width-1 /\ Counted(pushed[m] + 1, p, Full(c), Full(factor[m]))
      BY <2>2, <3>1, <3>2, PushCounts
    <3>4. QED BY <2>2, <3>1, <3>3, ChannelAssumption
  <2> HIDE DEF d, c, p
  <2>4. CountTyped'
    BY <2>1, <2>3 DEF CInv, CountTyped
  <2>5. CountInv'
    <3>1. /\ count'[m] = c /\ pushed'[m] = pushed[m] + 1 /\ passed'[m] = p /\ worker'[m] = "test"
          /\ \A n \in Machines \ {m} : /\ count'[n] = count[n] /\ worker'[n] = worker[n]
                                       /\ pushed'[n] = pushed[n] /\ passed'[n] = passed[n]
      BY <2>1, <1>t DEF CInv, CountTyped
    <3>2. ASSUME NEW n \in Machines
          PROVE  /\ startTime'[n] = starts'[n] /\ passed'[n] <= pushed'[n]
                 /\ worker'[n] = "push" => pushed'[n] < MaxPushes
                 /\ Alive(n)' => /\ run'[n] = starts'[n]
                                 /\ Counted(pushed'[n], passed'[n], Full(count'[n]), Full(factor'[n]))
      BY <2>1, <2>3, <3>1 DEF CInv, CountInv, Alive
    <3>3. \A u \in Threads : at'[u] \in {"driver", "launch"} => count'[on'[u]] = factor'[on'[u]]
      <4>1. ASSUME NEW u \in Threads, at[u] \in {"driver", "launch"} PROVE on[u] \in Machines \ {m}
        <5>1. Runs(u, "start")
          BY <4>1, <1>t DEF AInv, DriverInv, AtInv
        <5>2. QED BY <5>1, <1>s, <2>1
      <4>2. QED BY <2>1, <3>1, <4>1 DEF CInv, CountInv, vars
    <3>4. QED BY <3>2, <3>3 DEF CountInv, Full, Counted
  <2>6. QED BY <2>4, <2>5
<1>12. CountTyped' /\ CountInv'
  <2>1. ASSUME NEW t \in Threads, Drive(t) PROVE CountTyped' /\ CountInv'
    <3>1. TakeStartTime(t) \/ SetDecimation(t) => UNCHANGED driverVars
      BY <2>1 DEF Drive, TakeStartTime, SetDecimation, SwitchOn, SwitchOff, Recover, Start, Stop,
                  ClearFlag, StartWorker, StartWorkerFails, RaiseFlag, JoinWorker, In, Runs
    <3>2. QED BY <2>1, <3>1, <1>6, <1>7, <1>8, <1>9
  <2>2. ASSUME Surroundings PROVE CountTyped' /\ CountInv'
    BY <2>2, <1>2, <1>3, <1>4, <1>5 DEF Surroundings, AdvanceMachine
  <2>3. QED BY <2>1, <2>2, <1>5, <1>10, <1>11 DEF ChannelNext, Acquire
<1>13. QED BY <1>a, <1>12 DEF CInv

\* It holds initially: every factor is 1.
LEMMA CountInit == ChannelInit => CInv
<1> SUFFICES ASSUME ChannelInit PROVE CInv
  OBVIOUS
<1>1. CountTyped
  BY ChannelAssumption, AcquisitionAssumption
  DEF ChannelInit, NodeInit, CountTyped, DefaultParameters
<1>2. CountInv
  BY ChannelAssumption DEF ChannelInit, NodeInit, CountInv, Alive
<1>3. QED BY <1>1, <1>2, AcquisitionInit DEF CInv

\* Hence it holds throughout.
LEMMA CountInvariance == ASSUME WellBehaved PROVE ChannelSpec => []CInv
<1>1. CInv /\ [ChannelNext]_allVars => CInv'
  BY CountStep
<1>2. QED BY CountInit, <1>1, PTL DEF ChannelSpec

\* A run has its own start time, and of its values every factor-th is passed,
\* counted from its start: no run inherits the counter of the one before, for any
\* width of the counter and any decimation that the control system writes.
THEOREM RunsAreCounted ==
  ASSUME WellBehaved PROVE ChannelSpec => []RunIsItsOwn
<1>1. CInv => RunIsItsOwn
  <2> SUFFICES ASSUME CInv, NEW m \in Machines, Alive(m)
               PROVE  /\ startTime[m] = run[m]
                      /\ passed[m] = pushed[m] \div Full(factor[m])
    BY DEF RunIsItsOwn, Full
  <2>1. /\ startTime[m] = run[m] /\ pushed[m] \in Nat /\ passed[m] \in Nat
        /\ factor[m] \in 0..Width-1 /\ count[m] \in 0..Width-1
        /\ Counted(pushed[m], passed[m], Full(count[m]), Full(factor[m]))
    BY ChannelAssumption DEF CInv, CountTyped, CountInv
  <2>2. Full(count[m]) \in Nat /\ Full(factor[m]) \in Nat
    BY <2>1, FullFacts, AcquisitionAssumption
  <2>3. QED BY <2>1, <2>2, CountedQuotient
<1>2. QED BY <1>1, CountInvariance, PTL

-----------------------------------------------------------------------------
(* The end of the device.                                                   *)

Closing == \E m \in Machines : life[m] \in {"closing", "gone"}

\* Once the first node is deinitialized nobody asks for anything any more, and
\* nothing starts; a node that is gone has no acquisition thread.
QuietInv ==
  /\ Closing =>
       /\ \A t \in Callers \ {Destroyer} : pc[t] = "idle" /\ calls[t] = MaxCalls
       /\ \A m \in Machines : state[m] \notin {"starting", "running"}
  /\ pc[Destroyer] \in {"idle", "deinit", "deinitJoin"}
  /\ \A t \in Threads :
       pc[t] \in {"deinit", "deinitJoin"} => t = Destroyer /\ life[on[t]] = "closing"
  /\ \A m \in Machines : life[m] = "gone" => ~joinable[m]
  /\ device # "terminated"

QInv == AInv /\ QuietInv

\* A transition ends in running only from starting.
LEMMA NothingStarts ==
  ASSUME AInv, NEW t \in Threads, Settle(t), state[on[t]] # "starting"
  PROVE  /\ on[t] \in Machines
         /\ state' = [state EXCEPT ![on[t]] = Landing(tr[t], out[t])]
         /\ Landing(tr[t], out[t]) \notin {"starting", "running"}
<1>1. /\ pc[t] = "settle" /\ Pending(t) /\ state' = [state EXCEPT ![on[t]] = Landing(tr[t], out[t])]
  BY DEF Settle, Pending
<1>2. /\ on[t] \in Machines /\ tr[t] \in Transitions /\ state[on[t]] = tr[t].via
      /\ out[t] \in Outcome \ {"other"}
  BY <1>1, PendingFacts DEF AInv, IInv, Typed, FrameOK, TypeOK
<1>3. tr[t].delegate = "stop" => out[t] = "ok"
  BY <1>1 DEF AInv, DriverInv, TransitInv
<1>4. tr[t].delegate # "start"
  BY <1>2, RowDelegates
<1>5. Landing(tr[t], out[t]) \in {tr[t].to, tr[t].from, "fault"}
  BY <1>2 DEF Landing, Outcome
<1>6. Landing(tr[t], out[t]) # "starting"
  BY <1>2, LandingFacts DEF RestState
<1>7. Landing(tr[t], out[t]) # "running"
  BY <1>2, <1>3, <1>4, <1>5, RowDelegates DEF Landing
<1>8. QED BY <1>1, <1>2, <1>6, <1>7

\* Orderly destruction stays orderly.
LEMMA QuietKept ==
  ASSUME WellBehaved, Orderly PROVE QInv /\ [ChannelNext]_allVars => QInv'
<1> SUFFICES ASSUME QInv, [ChannelNext]_allVars PROVE QInv'
  OBVIOUS
<1> USE ThreadFacts, ChannelAssumption
<1>t. /\ AInv /\ IInv /\ Typed /\ TypeOK /\ FrameOK
  BY DEF QInv, AInv, IInv, Typed
<1>a. AInv'
  BY <1>t, AcquisitionStep
\* A step that leaves the machines' lives and the states alone, and brings no thread
\* into a call.
<1>0. ASSUME life' = life, device' # "terminated",
             \A m \in Machines : state'[m] \in {"starting", "running"} => state'[m] = state[m],
             \A m \in Machines : joinable'[m] => joinable[m],
             \A t \in Threads : \/ pc'[t] = pc[t] /\ on'[t] = on[t]
                                \/ pc'[t] \notin {"deinit", "deinitJoin"} /\ pc[t] # "idle",
             pc'[Destroyer] = pc[Destroyer],
             \A t \in Callers \ {Destroyer} : pc[t] = "idle" => calls'[t] = calls[t]
      PROVE QuietInv'
  BY <1>0 DEF QInv, QuietInv, Closing
<1>1. ASSUME UNCHANGED vars, joinable' = joinable, device' # "terminated" PROVE QuietInv'
  BY <1>1, <1>0 DEF vars
<1>2. ASSUME NEW m \in Machines, Initialize(m), UNCHANGED <<driverVars, device>> PROVE QuietInv'
  <2>1. /\ life[m] = "constructed" /\ life' = [life EXCEPT ![m] = "ready"]
        /\ state' = [state EXCEPT ![m] = "off"] /\ pc' = pc /\ on' = on /\ calls' = calls
        /\ joinable' = joinable /\ device' = device
    BY <1>2 DEF Initialize, frameVars, driverVars
  <2>2. \A n \in Machines : life'[n] \in {"closing", "gone"} => life'[n] = life[n]
    BY <2>1, <1>t DEF TypeOK
  <2>3. Closing' => Closing
    BY <2>2 DEF Closing
  <2>4. \A n \in Machines : life[n] = "closing" => life'[n] = "closing"
    BY <2>1, <1>t DEF TypeOK
  <2>5. \A t \in Threads : pc[t] \in {"deinit", "deinitJoin"} => on[t] \in Machines
    BY <1>t DEF FrameOK
  <2>6. \A n \in Machines : state'[n] = "off" \/ state'[n] = state[n]
    BY <2>1, <1>t DEF TypeOK
  <2>7. QED BY <2>1, <2>2, <2>3, <2>4, <2>5, <2>6 DEF QInv, QuietInv
<1>3. ASSUME NEW t \in Callers \ {Destroyer}, NEW m \in Machines, NEW r \in Requests,
             CallSetState(t, m, r), UNCHANGED <<driverVars, device>>
      PROVE  QuietInv'
  <2>1. /\ pc[t] = "idle" /\ calls[t] < MaxCalls /\ pc' = [pc EXCEPT ![t] = "enter"]
        /\ on' = [on EXCEPT ![t] = m] /\ life' = life /\ state' = state
        /\ joinable' = joinable /\ device' = device
    BY <1>3 DEF CallSetState, Goto, machineVars, driverVars
  <2>2. ~Closing /\ ~Closing'
    BY <2>1, <1>t DEF QInv, QuietInv, TypeOK, Closing
  <2>3. QED BY <2>1, <2>2, <1>t DEF QInv, QuietInv, TypeOK
<1>4. ASSUME NEW m \in Machines, MayDestroy, CallDeinitialize(Destroyer, m),
             UNCHANGED <<driverVars, device>>
      PROVE  QuietInv'
  <2>1. /\ \A t \in Callers \ {Destroyer} : pc[t] = "idle" /\ calls[t] = MaxCalls
        /\ \A n \in Machines : state[n] \notin {"starting", "running"}
    BY <1>4 DEF MayDestroy
  <2>2. /\ pc' = [pc EXCEPT ![Destroyer] = "deinit"] /\ on' = [on EXCEPT ![Destroyer] = m]
        /\ life' = [life EXCEPT ![m] = "closing"] /\ state' = state
        /\ calls' = [calls EXCEPT ![Destroyer] = @ + 1] /\ joinable' = joinable /\ device' = device
        /\ pc[Destroyer] = "idle"
    BY <1>4 DEF CallDeinitialize, Goto, driverVars
  <2>3. /\ \A t \in Callers \ {Destroyer} : pc'[t] = pc[t] /\ calls'[t] = calls[t]
        /\ \A t \in Threads \ {Destroyer} : pc'[t] = pc[t]
        /\ pc'[Destroyer] = "deinit" /\ on'[Destroyer] = m /\ life'[m] = "closing"
        /\ \A n \in Machines : life'[n] = "gone" => life[n] = "gone"
    BY <2>2, <1>t DEF TypeOK
  <2>4. QED BY <2>1, <2>2, <2>3 DEF QInv, QuietInv
<1>5. ASSUME NEW t \in Threads, UNCHANGED <<nodeVars, driverVars, device>>,
             EnterSetState(t) \/ Refuse(t) \/ LockTransitionThread(t) \/ InvokeDelegate(t)
               \/ ThreadEnds(t) \/ LockForDeinitialize(t) \/ (\E p \in PushOutcomes : Announce(t, p))
      PROVE  QuietInv'
  <2>1. /\ UNCHANGED <<life, state, joinable, device, calls>>
        /\ t # Destroyer \/ LockForDeinitialize(t)
        /\ pc[t] # "idle" /\ \A u \in Threads \ {t} : pc'[u] = pc[u] /\ on'[u] = on[u]
    BY <1>5, <1>t DEF EnterSetState, Refuse, LockTransitionThread, InvokeDelegate, ThreadEnds,
      LockForDeinitialize, Announce, Return, DropFrame, Goto, machineVars, frameVars, driverVars,
      QInv, QuietInv, TypeOK
  <2>2. CASE LockForDeinitialize(t)
    <3>1. /\ pc[t] = "deinit" /\ pc'[t] = "deinitJoin" /\ on'[t] = on[t]
          /\ UNCHANGED <<life, state, joinable, device, calls>>
      BY <2>2, <1>5, <1>t DEF LockForDeinitialize, Goto, machineVars, frameVars, driverVars, TypeOK
    <3>2. QED BY <3>1, <2>1 DEF QInv, QuietInv, Closing
  <2>3. CASE ~LockForDeinitialize(t)
    <3>1. pc'[t] \notin {"deinit", "deinitJoin"} /\ t # Destroyer
      BY <2>1, <2>3, <1>5, <1>t DEF EnterSetState, Refuse, LockTransitionThread, InvokeDelegate,
        ThreadEnds, Announce, Return, Back, Goto, TypeOK
    <3>2. QED BY <1>0, <2>1, <2>3, <3>1 DEF QInv, QuietInv
  <2>4. QED BY <2>2, <2>3
<1>6. ASSUME NEW t \in Threads, UNCHANGED <<nodeVars, driverVars, device>>, Accept(t)
      PROVE  QuietInv'
  <2>1. /\ pc[t] = "decide" /\ pc' = [pc EXCEPT ![t] = "announce"] /\ life' = life /\ on' = on
        /\ joinable' = joinable /\ device' = device
    BY <1>6 DEF Accept, Goto, driverVars
  <2>2. t \in Callers \ {Destroyer}
    BY <2>1, <1>t DEF FrameOK, Threads, QInv, QuietInv
  <2>3. ~Closing /\ ~Closing'
    BY <2>1, <2>2 DEF QInv, QuietInv, Closing
  <2>4. QED BY <2>1, <2>2, <2>3, <1>t DEF QInv, QuietInv, TypeOK
<1>7. ASSUME NEW t \in Threads, UNCHANGED <<nodeVars, driverVars, device>>, LaunchTransitionThread(t)
      PROVE  QuietInv'
  <2>1. /\ pc[t] = "join" /\ pc' = [pc EXCEPT ![t] = "idle", ![on[t]] = "call"]
        /\ on' = [on EXCEPT ![t] = NoMachine, ![on[t]] = on[t]]
        /\ life' = life /\ state' = state /\ joinable' = joinable /\ device' = device
    BY <1>7 DEF LaunchTransitionThread, machineVars, driverVars
  <2>2. on[t] \in Machines /\ t \in Callers \ {Destroyer}
    BY <2>1, <1>t DEF FrameOK, Threads, QInv, QuietInv
  <2>3. ~Closing /\ ~Closing'
    BY <2>1, <2>2 DEF QInv, QuietInv, Closing
  <2>4. pc'[t] = "idle" /\ pc'[on[t]] = "call"
        /\ \A u \in Threads \ {t, on[t]} : pc'[u] = pc[u] /\ on'[u] = on[u]
    BY <2>1, <2>2, <1>t DEF TypeOK
  <2>5. pc'[Destroyer] = pc[Destroyer]
    BY <2>2, <2>4
  <2>6. \A u \in Threads : pc'[u] \in {"deinit", "deinitJoin"} => pc'[u] = pc[u] /\ on'[u] = on[u]
    BY <2>2, <2>4
  <2>7. QED BY <2>1, <2>3, <2>5, <2>6 DEF QInv, QuietInv
<1>8. ASSUME NEW t \in Threads, UNCHANGED <<nodeVars, driverVars, device>>, Settle(t)
      PROVE  QuietInv'
  <2>1. /\ pc[t] = "settle" /\ pc' = [pc EXCEPT ![t] = "publish"] /\ life' = life /\ on' = on
        /\ calls' = calls /\ joinable' = joinable /\ device' = device
        /\ t # Destroyer
    BY <1>8 DEF Settle, Goto, frameVars, driverVars, QInv, QuietInv
  <2>2. \A n \in Machines : life'[n] = "gone" => ~joinable'[n]
    BY <2>1 DEF QInv, QuietInv
  <2>3. Closing' => \A n \in Machines : state'[n] \notin {"starting", "running"}
    <3> SUFFICES ASSUME Closing' PROVE \A n \in Machines : state'[n] \notin {"starting", "running"}
      OBVIOUS
    <3>1. \A n \in Machines : state[n] \notin {"starting", "running"}
      BY <2>1 DEF Closing, QInv, QuietInv
    <3>2. on[t] \in Machines
      BY <2>1, <1>t DEF FrameOK
    <3>3. QED BY <3>1, <3>2, <1>8, <1>t, NothingStarts DEF TypeOK
  <2>4. Closing' => \A u \in Callers \ {Destroyer} : pc'[u] = "idle" /\ calls'[u] = MaxCalls
    <3>1. Closing' => Closing
      BY <2>1 DEF Closing
    <3>2. \A u \in Threads : pc[u] = "idle" => pc'[u] = "idle"
      BY <2>1, <1>t DEF TypeOK
    <3>3. QED BY <2>1, <3>1, <3>2 DEF QInv, QuietInv
  <2>5. /\ pc'[Destroyer] = pc[Destroyer]
        /\ \A u \in Threads : pc'[u] \in {"deinit", "deinitJoin"} => pc'[u] = pc[u]
    BY <2>1, <1>t DEF TypeOK
  <2>6. QED BY <2>1, <2>2, <2>3, <2>4, <2>5 DEF QInv, QuietInv
<1>9. ASSUME NEW t \in Threads, NEW p \in PushOutcomes, UNCHANGED <<nodeVars, driverVars, device>>,
             Publish(t, p)
      PROVE  QuietInv'
  <2>1. /\ pc[t] = "publish" /\ Return(t) /\ UNCHANGED <<life, state, calls>>
    BY <1>9 DEF Publish, Leave, WellBehaved
  <2>2. /\ t # Destroyer /\ pc'[t] \notin {"deinit", "deinitJoin"}
        /\ \A u \in Threads \ {t} : pc'[u] = pc[u] /\ on'[u] = on[u]
    BY <2>1, <1>t DEF Return, Back, Goto, DropFrame, TypeOK, QInv, QuietInv
  <2>3. joinable' = joinable /\ device' = device
    BY <1>9 DEF driverVars
  <2>4. QED BY <1>0, <2>1, <2>2, <2>3 DEF QInv, QuietInv
\* Deinitialize waits for the transition thread: the transition has ended, and in a
\* state in which no thread acquires.
<1>10. ASSUME NEW t \in Threads, UNCHANGED <<nodeVars, driverVars, device>>, FinishDeinitialize(t)
       PROVE  QuietInv'
  <2> DEFINE m == on[t]
  <2>1. /\ pc[t] = "deinitJoin" /\ pc[m] \in {"idle", "ended"}
        /\ pc' = [pc EXCEPT ![t] = "idle", ![m] = "idle"] /\ on' = [on EXCEPT ![t] = NoMachine]
        /\ life' = [life EXCEPT ![m] = "gone"] /\ UNCHANGED <<state, calls, joinable, device>>
    BY <1>10 DEF FinishDeinitialize, Joined, DropFrame, driverVars
  <2>2. /\ t = Destroyer /\ m \in Machines /\ life[m] = "closing" /\ m # Destroyer
    BY <2>1, <1>t DEF QInv, QuietInv, FrameOK
  <2>3. \A u \in Callers \ {Destroyer} : pc[u] = "idle" /\ calls[u] = MaxCalls
    BY <2>2 DEF QInv, QuietInv, Closing
  <2>4. ~joinable[m]
    <3>1. ASSUME NEW u \in Threads, Pending(u) PROVE on[u] # m
      <4>1. u \in Machines
        BY <2>1, <2>2, <2>3, <3>1 DEF Pending, Threads
      <4>2. on[u] = u
        BY <3>1, <4>1, <1>t DEF FrameOK, Pending
      <4>3. QED BY <2>1, <3>1, <4>2 DEF Pending
    <3>2. state[m] \notin IntermediateState
      BY <3>1, <2>2, <1>t DEF IInv, TransitionInv, NotStranded
    <3>3. state[m] # "running"
      BY <2>2 DEF QInv, QuietInv, Closing
    <3>4. QED BY <2>2, <3>2, <3>3, <1>t DEF AInv, DriverInv, WorkerInv, IntermediateState
  <2>5. /\ life'[m] = "gone" /\ \A n \in Machines \ {m} : life'[n] = life[n]
        /\ pc'[Destroyer] = "idle" /\ pc'[m] = "idle"
        /\ \A u \in Threads \ {t, m} : pc'[u] = pc[u] /\ on'[u] = on[u]
    BY <2>1, <2>2, <1>t DEF TypeOK
  <2>6. \A u \in Threads : pc'[u] \notin {"deinit", "deinitJoin"}
    BY <2>2, <2>5 DEF QInv, QuietInv
  <2>7. \A u \in Callers \ {Destroyer} : pc'[u] = "idle" /\ calls'[u] = MaxCalls
    BY <2>1, <2>2, <2>3, <2>5
  <2>8. \A n \in Machines : state'[n] \notin {"starting", "running"}
    BY <2>1, <2>2 DEF QInv, QuietInv, Closing
  <2> HIDE DEF m
  <2>9. \A n \in Machines : life'[n] = "gone" => ~joinable'[n]
    BY <2>1, <2>4, <2>5 DEF QInv, QuietInv
  <2>10. device' # "terminated"
    BY <2>1 DEF QInv, QuietInv
  <2>11. QED BY <2>5, <2>6, <2>7, <2>8, <2>9, <2>10 DEF QuietInv
<1>11. ASSUME DeleteDevice \/ Rest \/ UNCHANGED allVars PROVE QuietInv'
  <2>1. UNCHANGED vars /\ joinable' = joinable
    BY <1>11 DEF DeleteDevice, Rest, allVars, driverVars
  <2>2. device' # "terminated"
    BY <1>11 DEF DeleteDevice, Rest, allVars, QInv, QuietInv
  <2>3. QED BY <1>1, <2>1, <2>2
\* A delegate returns.
<1>12. ASSUME NEW t \in Threads, NEW o \in {"ok", "rollback", "error"}, DelegateDone(t, o),
              device' # "terminated",
              \A m \in Machines : life[m] = "gone" => ~joinable'[m]
       PROVE  QuietInv'
  <2>1. /\ pc[t] = "delegate" /\ pc' = [pc EXCEPT ![t] = "settle"] /\ on' = on
        /\ state' = state /\ life' = life /\ calls' = calls
    BY <1>12, <1>t, DoneFacts DEF DelegateDone, DelegateEnds
  <2>2. t # Destroyer
    BY <2>1 DEF QInv, QuietInv
  <2>3. /\ pc'[Destroyer] = pc[Destroyer] /\ pc'[t] = "settle"
        /\ \A u \in Threads \ {t} : pc'[u] = pc[u]
    BY <2>1, <2>2, <1>t DEF TypeOK
  <2>4. \A u \in Callers \ {Destroyer} : pc[u] = "idle" => pc'[u] = "idle"
    BY <2>1, <2>3
  <2>5. \A u \in Threads : pc'[u] \in {"deinit", "deinitJoin"} => pc'[u] = pc[u]
    BY <2>3
  <2>6. QED BY <1>12, <2>1, <2>3, <2>4, <2>5 DEF QInv, QuietInv, Closing
<1>13. ASSUME NEW t \in Threads, Drive(t) PROVE QuietInv'
  <2>1. CASE /\ \/ SwitchOn(t) \/ SwitchOff(t) \/ Recover(t) \/ StartWorkerFails(t)
             /\ UNCHANGED device
    BY <2>1, <1>12 DEF SwitchOn, SwitchOff, Recover, StartWorkerFails, driverVars, QInv, QuietInv
  <2>2. CASE /\ \/ (TakeStartTime(t) \/ SetDecimation(t)) /\ UNCHANGED driverVars
                \/ ClearFlag(t) \/ RaiseFlag(t)
             /\ UNCHANGED device
    BY <2>2, <1>1 DEF TakeStartTime, SetDecimation, ClearFlag, RaiseFlag, driverVars, QInv, QuietInv
  <2>3. CASE StartWorker(t)
    <3>1. /\ Runs(t, "start") /\ DelegateDone(t, "ok") /\ joinable' = [joinable EXCEPT ![on[t]] = TRUE]
          /\ device' = IF joinable[on[t]] THEN "terminated" ELSE device
      BY <2>3 DEF StartWorker, RunInThread, In
    <3>2. /\ on[t] \in Machines /\ Pending(t) /\ pc[t] = "delegate" /\ tr[t].delegate = "start"
      BY <3>1, <1>t, RunsFacts
    <3>3. ~joinable[on[t]]
      BY <3>2, <1>t DEF AInv, DriverInv, TransitInv
    <3>4. state[on[t]] = "starting"
      BY <3>2, <1>t, PendingFacts, RowDelegates
    <3>5. life[on[t]] # "gone"
      BY <3>2, <3>4 DEF QInv, QuietInv, Closing
    <3>6. device' # "terminated"
      BY <3>1, <3>3 DEF QInv, QuietInv
    <3>7. \A m \in Machines : life[m] = "gone" => ~joinable'[m]
      BY <3>1, <3>5 DEF QInv, QuietInv
    <3>8. QED BY <3>1, <3>6, <3>7, <1>12
  <2>4. CASE JoinWorker(t) /\ UNCHANGED device
    <3>1. /\ DelegateDone(t, "ok") /\ joinable' = [joinable EXCEPT ![on[t]] = FALSE]
      BY <2>4 DEF JoinWorker, Join
    <3>2. \A m \in Machines : life[m] = "gone" => ~joinable'[m]
      BY <3>1, <1>t DEF QInv, QuietInv, AInv, DriverInv, DriverTyped
    <3>3. QED BY <2>4, <3>1, <3>2, <1>12 DEF QInv, QuietInv
  <2>5. QED BY <1>13, <2>1, <2>2, <2>3, <2>4 DEF Drive, Start, Stop
<1>14. ASSUME NEW m \in Machines, Acquire(m) PROVE QuietInv'
  BY <1>14, <1>1 DEF Acquire, TestFlag, Push, QInv, QuietInv
<1>15. ASSUME Surroundings PROVE QuietInv'
  <2>1. CASE /\ (\E m \in Machines : Initialize(m)) \/ Clients
             /\ UNCHANGED <<nodeVars, driverVars, device>>
    BY <2>1, <1>2, <1>3, <1>4 DEF Clients
  <2>2. CASE \E t \in Threads : AdvanceMachine(t)
    BY <2>2, <1>5, <1>6, <1>7, <1>8, <1>9, <1>10 DEF AdvanceMachine, Advance
  <2>3. CASE \E w \in Writes : WriteParameter(w[1], w[2], w[3]) /\ UNCHANGED <<driverVars, device>>
    BY <2>3, <1>1 DEF WriteParameter, driverVars, QInv, QuietInv
  <2>4. CASE DeleteDevice
    BY <2>4, <1>11
  <2>5. QED BY <1>15, <2>1, <2>2, <2>3, <2>4 DEF Surroundings
<1>16. QuietInv'
  BY <1>11, <1>13, <1>14, <1>15 DEF ChannelNext
<1>17. QED BY <1>a, <1>16 DEF QInv

\* A device that is destroyed when its clients are done and nothing runs or is about
\* to run never ends the process: not by the destructor of a thread object, not by
\* an assignment to one, not by an exception that leaves a transition thread.
THEOREM OrderlyDeviceSurvives ==
  ASSUME WellBehaved, Orderly PROVE ChannelSpec => []NoTerminate
<1>1. ChannelInit => QInv
  <2> SUFFICES ASSUME ChannelInit PROVE QuietInv
    BY AcquisitionInit DEF QInv
  <2>1. /\ \A m \in Machines : life[m] = "constructed" /\ device = "alive"
        /\ \A t \in Threads : pc[t] = "idle"
    BY DEF ChannelInit, Init
  <2>2. Destroyer \in Threads
    BY ChannelAssumption DEF Threads
  <2>3. device # "terminated"
    BY DEF ChannelInit
  <2>4. QED BY <2>1, <2>2, <2>3 DEF QuietInv, Closing
<1>2. QInv /\ [ChannelNext]_allVars => QInv'
  BY QuietKept
<1>3. QInv => NoTerminate
  BY DEF QInv, QuietInv, AInv, NoTerminate
<1>4. QED BY <1>1, <1>2, <1>3, PTL DEF ChannelSpec

\* The counters and values keep their width, and the driver's variables their types.
THEOREM ChannelTypeCorrect ==
  ASSUME WellBehaved PROVE ChannelSpec => []ChannelTypeOK
<1> DEFINE DeviceTyped == device \in {"alive", "deleted", "terminated"}
<1>1. ChannelInit => DeviceTyped
  BY DEF ChannelInit
<1>2. DeviceTyped /\ [ChannelNext]_allVars => DeviceTyped'
  <2>1. ASSUME NEW t \in Threads, Drive(t) PROVE device' \in {device, "terminated"}
    BY <2>1 DEF Drive, Start, Stop, StartWorker
  <2>2. ASSUME NEW m \in Machines, Acquire(m) PROVE device' = device
    BY <2>2 DEF Acquire
  <2>3. ASSUME Surroundings PROVE device' \in {device, "terminated", "deleted"}
    BY <2>3 DEF Surroundings, AdvanceMachine, DeleteDevice
  <2>4. ASSUME Rest \/ UNCHANGED allVars PROVE device' = device
    BY <2>4 DEF Rest, allVars
  <2>5. QED BY <2>1, <2>2, <2>3, <2>4 DEF ChannelNext
<1>3. CInv /\ DeviceTyped => ChannelTypeOK
  BY DEF CInv, AInv, AtInv, IInv, Typed, DriverInv, DriverTyped, CountTyped, ChannelTypeOK
<1>4. QED BY <1>1, <1>2, <1>3, CountInvariance, PTL DEF ChannelSpec
=============================================================================
