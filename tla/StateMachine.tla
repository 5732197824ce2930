---------------------------- MODULE StateMachine ----------------------------
(***************************************************************************)
(* StateMachineImpl (src/stateMachineImpl.cpp): any number of state        *)
(* machines driven by client threads.                                      *)
(*                                                                         *)
(* A client thread calls setState or deinitialize.  A synchronous machine  *)
(* runs its delegate on the caller's thread; an asynchronous one hands it  *)
(* to m_transitionThread.  That thread is named here by the machine it     *)
(* belongs to: a machine never has two, because the old one is joined      *)
(* before the new one is started.  pc[m] is "idle" while m_transitionThread*)
(* is not joinable and "ended" once it has returned but was not joined.    *)
(*                                                                         *)
(* stateMutex is the single recursive mutex all machines share,            *)
(* threadLock[m] is m_lockTransitionThread.  Between two acquisitions of   *)
(* stateMutex a thread may be interrupted at every label of its pc.        *)
(***************************************************************************)
EXTENDS States, FiniteSets

CONSTANTS
  Machines,          \* the state machines
  Callers,           \* client threads (control system, other devices)
  Async,             \* the machines constructed with bAsync = true
  Requests,          \* the states clients ask for
  DelegateOutcomes,  \* how a delegate may end, see Outcome
  PushOutcomes,      \* how a push to the getState PV may end, see Outcome
  MaxCalls,          \* bound: calls one client thread makes
  NoThread, NoMachine, NoTransition

\* "rollback" is StateMachineRollBack, "error" any other std::runtime_error,
\* "other" an exception that is not a std::runtime_error (std::logic_error,
\* hence nds::NoPortDefinedError, or a type of the delegate's own).
Outcome == {"ok", "rollback", "error", "other"}

Threads == Callers \cup Machines

ASSUME ConstantsAssumption ==
  /\ Callers \cap Machines = {}
  /\ Async \subseteq Machines
  /\ Requests \subseteq State
  /\ DelegateOutcomes \subseteq Outcome
  /\ PushOutcomes \subseteq Outcome
  /\ MaxCalls \in Nat
  /\ NoThread \notin Threads
  /\ NoMachine \notin Machines
  /\ NoTransition \notin Transitions

VARIABLES
  state,       \* state[m]: m_localState
  shown,       \* shown[m]: the last value pushed to m's getState PV
  life,        \* life[m]: registration of m, see Life
  stateMutex,  \* owner of m_stateMutex
  threadLock,  \* threadLock[m]: owner of m_lockTransitionThread
  pc,          \* pc[t]: where thread t stands
  on,          \* on[t]: the machine t works on
  goal,        \* goal[t]: newState, the argument of setState
  was,         \* was[t]: localState, the state setState has read
  tr,          \* tr[t]: initialState, finalState and transitionFunction
  out,         \* out[t]: how the delegate ended, once it has
  calls,       \* calls[t]: calls client t has made (bounded by MaxCalls)
  aborted      \* std::terminate was called: the process is gone

vars == <<state, shown, life, stateMutex, threadLock, pc, on, goal, was, tr, out, calls,
          aborted>>

machineVars == <<state, shown, life>>
frameVars   == <<on, goal, was, tr, out>>

Life == {"constructed", "ready", "closing", "gone"}

\* Labels of a thread.  decide, announce and publish hold stateMutex; join
\* and deinitJoin hold threadLock.
PC == { "idle", "enter", "decide", "announce", "launch", "join", "call", "delegate",
        "settle", "publish", "exit", "ended", "deinit", "deinitJoin" }

InStateMutex  == {"decide", "announce", "publish"}
InThreadLock  == {"join", "deinitJoin"}

\* From the moment the intermediate state is set until the final one is.
Pending(t) == pc[t] \in {"announce", "launch", "join", "call", "delegate", "settle"}

-----------------------------------------------------------------------------
(* Helpers                                                                  *)

\* std::recursive_mutex: free, or already owned by this thread.
MutexFree(t) == stateMutex \in {NoThread, t}

Goto(t, label) == pc' = [pc EXCEPT ![t] = label]

\* Where a thread goes when setState, or the transition thread's function,
\* returns.
Back(t) == IF t \in Callers THEN "idle" ELSE "exit"

DropFrame(t) ==
  /\ on'   = [on EXCEPT ![t] = NoMachine]
  /\ goal' = [goal EXCEPT ![t] = "unknown"]
  /\ was'  = [was EXCEPT ![t] = "unknown"]
  /\ tr'   = [tr EXCEPT ![t] = NoTransition]
  /\ out'  = [out EXCEPT ![t] = "ok"]

Return(t) == Goto(t, Back(t)) /\ DropFrame(t)

\* executeTransition is left, normally ("ok") or by an exception e.  A client
\* gets the exception; executeTransitionThread catches std::runtime_error only,
\* anything else ends the process.
Leave(t, e) ==
  /\ Return(t)
  /\ aborted' = (t \in Machines /\ e = "other")

\* The state executeTransition sets after the delegate: final state, initial
\* state on StateMachineRollBack, fault on another std::runtime_error.
Landing(row, o) ==
  CASE o = "ok"       -> row.to
    [] o = "rollback" -> row.from
    [] o = "error"    -> "fault"

-----------------------------------------------------------------------------
Init ==
  /\ state      = [m \in Machines |-> "off"]
  /\ shown      = [m \in Machines |-> "unknown"]
  /\ life       = [m \in Machines |-> "constructed"]
  /\ stateMutex = NoThread
  /\ threadLock = [m \in Machines |-> NoThread]
  /\ pc         = [t \in Threads |-> "idle"]
  /\ on         = [t \in Threads |-> NoMachine]
  /\ goal       = [t \in Threads |-> "unknown"]
  /\ was        = [t \in Threads |-> "unknown"]
  /\ tr         = [t \in Threads |-> NoTransition]
  /\ out        = [t \in Threads |-> "ok"]
  /\ calls      = [t \in Callers |-> 0]
  /\ aborted    = FALSE

\* initialize: the PVs are registered, the state is set and pushed under the
\* mutex, the port then tells the control system that registration is over.
Initialize(m) ==
  /\ life[m] = "constructed"
  /\ stateMutex = NoThread
  /\ life'  = [life EXCEPT ![m] = "ready"]
  /\ state' = [state EXCEPT ![m] = "off"]
  /\ shown' = [shown EXCEPT ![m] = "off"]
  /\ UNCHANGED <<stateMutex, threadLock, pc, frameVars, calls, aborted>>

\* A client enters setState: directly, by a command, or by writing the
\* setState PV.
CallSetState(t, m, s) ==
  /\ pc[t] = "idle" /\ calls[t] < MaxCalls
  /\ life[m] \in {"ready", "closing"}
  /\ Goto(t, "enter")
  /\ on'    = [on EXCEPT ![t] = m]
  /\ goal'  = [goal EXCEPT ![t] = s]
  /\ calls' = [calls EXCEPT ![t] = @ + 1]
  /\ UNCHANGED <<machineVars, stateMutex, threadLock, was, tr, out, aborted>>

\* Mutant of EnterSetState: the lock_guard is missing.
Mut_EnterUnlocked(t) ==
  /\ pc[t] = "enter"
  /\ MutexFree(t)
  /\ was' = [was EXCEPT ![t] = state[on[t]]]
  /\ Goto(t, "decide")
  /\ UNCHANGED <<machineVars, stateMutex, threadLock, on, goal, tr, out, calls, aborted>>

\* setState locks the mutex and reads the state.
EnterSetState(t) ==
  /\ pc[t] = "enter"
  /\ MutexFree(t)
  /\ stateMutex' = t
  /\ was' = [was EXCEPT ![t] = state[on[t]]]
  /\ Goto(t, "decide")
  /\ UNCHANGED <<machineVars, threadLock, on, goal, tr, out, calls, aborted>>

\* setState returns early: already there, no such transition (thrown), or
\* vetoed by m_allowChange (thrown).
Refuse(t) ==
  /\ pc[t] = "decide"
  /\ \/ was[t] = goal[t]
     \/ ~HasTransition(was[t], goal[t])
     \/ HasTransition(was[t], goal[t])  \* m_allowChange answers false
  /\ stateMutex' = NoThread
  /\ Return(t)
  /\ UNCHANGED <<machineVars, threadLock, calls, aborted>>

\* Mutant of Accept: the final state is set at once.
Mut_AcceptFinal(t) ==
  /\ pc[t] = "decide"
  /\ was[t] # goal[t]
  /\ \E row \in Transitions :
       /\ row.from = was[t] /\ row.to = goal[t]
       /\ state' = [state EXCEPT ![on[t]] = row.to]
       /\ tr'    = [tr EXCEPT ![t] = row]
  /\ Goto(t, "announce")
  /\ UNCHANGED <<shown, life, stateMutex, threadLock, on, goal, was, out, calls, aborted>>

\* setState sets the intermediate state.
Accept(t) ==
  /\ pc[t] = "decide"
  /\ was[t] # goal[t]
  /\ \E row \in Transitions :
       /\ row.from = was[t] /\ row.to = goal[t]
       /\ state' = [state EXCEPT ![on[t]] = row.via]
       /\ tr'    = [tr EXCEPT ![t] = row]
  /\ Goto(t, "announce")
  /\ UNCHANGED <<shown, life, stateMutex, threadLock, on, goal, was, out, calls, aborted>>

\* Mutant of Announce: the intermediate state is not pushed.
Mut_AnnounceNothing(t, p) ==
  /\ pc[t] = "announce"
  /\ stateMutex' = NoThread
  /\ Goto(t, IF on[t] \in Async THEN "launch" ELSE "call")
  /\ UNCHANGED <<state, shown, life, threadLock, frameVars, calls, aborted>>

\* ... and pushes it.  The value reaches the control system before a
\* subscriber of getState can throw; an exception leaves setState.
Announce(t, p) ==
  /\ pc[t] = "announce"
  /\ shown' = [shown EXCEPT ![on[t]] = state[on[t]]]
  /\ stateMutex' = NoThread
  /\ IF p = "ok"
       THEN /\ Goto(t, IF on[t] \in Async THEN "launch" ELSE "call")
            /\ UNCHANGED frameVars
       ELSE Return(t)
  /\ UNCHANGED <<state, life, threadLock, calls, aborted>>

LockTransitionThread(t) ==
  /\ pc[t] = "launch"
  /\ threadLock[on[t]] = NoThread
  /\ threadLock' = [threadLock EXCEPT ![on[t]] = t]
  /\ Goto(t, "join")
  /\ UNCHANGED <<machineVars, stateMutex, frameVars, calls, aborted>>

\* Join the previous transition thread, start the new one, return.
Joined(m) == pc[m] \in {"idle", "ended"}

LaunchTransitionThread(t) ==
  LET m == on[t] IN
  /\ pc[t] = "join"
  /\ Joined(m)
  /\ threadLock' = [threadLock EXCEPT ![m] = NoThread]
  /\ pc'   = [pc EXCEPT ![t] = "idle", ![m] = "call"]
  /\ on'   = [on EXCEPT ![t] = NoMachine, ![m] = m]
  /\ goal' = [goal EXCEPT ![t] = "unknown", ![m] = goal[t]]
  /\ was'  = [was EXCEPT ![t] = "unknown"]
  /\ tr'   = [tr EXCEPT ![t] = NoTransition, ![m] = tr[t]]
  /\ UNCHANGED <<machineVars, stateMutex, out, calls, aborted>>

\* Mutant of InvokeDelegate: the mutex is held while the delegate runs.
Mut_InvokeLocked(t) ==
  /\ pc[t] = "call"
  /\ MutexFree(t)
  /\ stateMutex' = t
  /\ Goto(t, "delegate")
  /\ UNCHANGED <<machineVars, threadLock, frameVars, calls, aborted>>

InvokeDelegate(t) ==
  /\ pc[t] = "call"
  /\ Goto(t, "delegate")
  /\ UNCHANGED <<machineVars, stateMutex, threadLock, frameVars, calls, aborted>>

\* Mutants of DelegateEnds: only StateMachineRollBack is caught; a rolled back
\* transition calls the delegate again.
Mut_DelegateErrorEscapes(t, o) ==
  /\ pc[t] = "delegate"
  /\ IF o \in {"error", "other"}
       THEN Leave(t, o)
       ELSE /\ Goto(t, "settle")
            /\ out' = [out EXCEPT ![t] = o]
            /\ UNCHANGED <<on, goal, was, tr, aborted>>
  /\ UNCHANGED <<machineVars, stateMutex, threadLock, calls>>

Mut_DelegateRetried(t, o) ==
  /\ pc[t] = "delegate"
  /\ Goto(t, IF o = "rollback" THEN "call" ELSE "settle")
  /\ out' = [out EXCEPT ![t] = o]
  /\ UNCHANGED <<machineVars, stateMutex, threadLock, on, goal, was, tr, calls, aborted>>

\* The delegate ends.  An exception that is not a std::runtime_error passes
\* both catch clauses.
DelegateEnds(t, o) ==
  /\ pc[t] = "delegate"
  /\ IF o = "other"
       THEN Leave(t, o)
       ELSE /\ Goto(t, "settle")
            /\ out' = [out EXCEPT ![t] = o]
            /\ UNCHANGED <<on, goal, was, tr, aborted>>
  /\ UNCHANGED <<machineVars, stateMutex, threadLock, calls>>

\* Mutant of Settle: the state is set outside the mutex.
Mut_SettleUnlocked(t) ==
  /\ pc[t] = "settle"
  /\ state' = [state EXCEPT ![on[t]] = Landing(tr[t], out[t])]
  /\ Goto(t, "publish")
  /\ UNCHANGED <<shown, life, stateMutex, threadLock, frameVars, calls, aborted>>

\* The three copies of "lock, set state" of executeTransition.
Settle(t) ==
  /\ pc[t] = "settle"
  /\ MutexFree(t)
  /\ stateMutex' = t
  /\ state' = [state EXCEPT ![on[t]] = Landing(tr[t], out[t])]
  /\ Goto(t, "publish")
  /\ UNCHANGED <<shown, life, threadLock, frameVars, calls, aborted>>

\* The push that follows.  After a successful delegate it is still inside
\* the try block: what it throws is handled like an exception of the
\* delegate, once the lock has been released by unwinding.  In a handler it
\* replaces the exception being rethrown.
Publish(t, p) ==
  /\ pc[t] = "publish"
  /\ shown' = [shown EXCEPT ![on[t]] = state[on[t]]]
  /\ stateMutex' = NoThread
  /\ CASE p = "ok" ->
            Leave(t, out[t])
       [] p \in {"rollback", "error"} /\ out[t] = "ok" ->
            /\ Goto(t, "settle")
            /\ out' = [out EXCEPT ![t] = p]
            /\ UNCHANGED <<on, goal, was, tr, aborted>>
       [] OTHER ->
            Leave(t, p)
  /\ UNCHANGED <<state, life, threadLock, calls>>

\* The transition thread leaves its function and becomes joinable at once.
ThreadEnds(m) ==
  /\ pc[m] = "exit"
  /\ Goto(m, "ended")
  /\ UNCHANGED <<machineVars, stateMutex, threadLock, frameVars, calls, aborted>>

-----------------------------------------------------------------------------
(* deinitialize                                                             *)

CallDeinitialize(t, m) ==
  /\ pc[t] = "idle" /\ calls[t] < MaxCalls
  /\ life[m] = "ready"
  /\ life'  = [life EXCEPT ![m] = "closing"]
  /\ on'    = [on EXCEPT ![t] = m]
  /\ calls' = [calls EXCEPT ![t] = @ + 1]
  /\ Goto(t, "deinit")
  /\ UNCHANGED <<state, shown, stateMutex, threadLock, goal, was, tr, out, aborted>>

LockForDeinitialize(t) ==
  /\ pc[t] = "deinit"
  /\ threadLock[on[t]] = NoThread
  /\ threadLock' = [threadLock EXCEPT ![on[t]] = t]
  /\ Goto(t, "deinitJoin")
  /\ UNCHANGED <<machineVars, stateMutex, frameVars, calls, aborted>>

\* Mutant of FinishDeinitialize: the transition thread is not joined.
Mut_DeinitializeAtOnce(t) ==
  LET m == on[t] IN
  /\ pc[t] = "deinitJoin"
  /\ pc'   = [pc EXCEPT ![t] = "idle"]
  /\ life' = [life EXCEPT ![m] = "gone"]
  /\ threadLock' = [threadLock EXCEPT ![m] = NoThread]
  /\ DropFrame(t)
  /\ UNCHANGED <<state, shown, stateMutex, calls, aborted>>

\* Join, deregister the PVs, unlock: clients cannot reach the machine any more.
FinishDeinitialize(t) ==
  LET m == on[t] IN
  /\ pc[t] = "deinitJoin"
  /\ Joined(m)
  /\ pc'   = [pc EXCEPT ![t] = "idle", ![m] = "idle"]
  /\ life' = [life EXCEPT ![m] = "gone"]
  /\ threadLock' = [threadLock EXCEPT ![m] = NoThread]
  /\ DropFrame(t)
  /\ UNCHANGED <<state, shown, stateMutex, calls, aborted>>

\* The destructor takes m_lockTransitionThread and joins the thread once more.
CanBeDestroyed(m) == threadLock[m] = NoThread /\ Joined(m)

-----------------------------------------------------------------------------
\* What thread t does by itself once it is inside a call, the delegate apart.
Advance(t) ==
  \/ EnterSetState(t) \/ Refuse(t) \/ Accept(t)
  \/ \E p \in PushOutcomes : Announce(t, p) \/ Publish(t, p)
  \/ LockTransitionThread(t) \/ LaunchTransitionThread(t)
  \/ InvokeDelegate(t) \/ Settle(t)
  \/ LockForDeinitialize(t) \/ FinishDeinitialize(t)
  \/ t \in Machines /\ ThreadEnds(t)

Call(t) ==
  \/ \E m \in Machines, s \in Requests : CallSetState(t, m, s)
  \/ \E m \in Machines : CallDeinitialize(t, m)

DelegateReturns(t) == \E o \in DelegateOutcomes : DelegateEnds(t, o)

\* The process is gone, or no client has anything left to call and every thread
\* has come back.
Finished ==
  /\ \/ aborted
     \/ /\ \A t \in Callers : pc[t] = "idle"
        /\ \/ \A t \in Callers : calls[t] = MaxCalls
           \/ \A m \in Machines : life[m] = "gone"
        /\ \A m \in Machines : Joined(m) /\ life[m] # "constructed"
  /\ UNCHANGED vars

Next ==
  \/ /\ ~aborted
     /\ \/ \E m \in Machines : Initialize(m)
        \/ \E t \in Callers : Call(t)
        \/ \E t \in Threads : Advance(t) \/ DelegateReturns(t)
  \/ Finished

Spec == Init /\ [][Next]_vars

\* A thread that can go on eventually does.  Mutexes are contended finitely
\* often, because every client makes at most MaxCalls calls: weak fairness is
\* enough.  Delegates are the user's and may hang.
Progress == \A t \in Threads : WF_vars(Advance(t))
FairSpec == Spec /\ Progress

DelegatesReturn == \A t \in Threads : WF_vars(DelegateReturns(t))

-----------------------------------------------------------------------------
(* Properties                                                               *)

\* Well-formedness of the machines, the locks and the threads' frames; what
\* executeTransition sets is a state of the enumeration and never "unknown".
TypeOK ==
  /\ state \in [Machines -> State \ {"unknown"}]
  /\ shown \in [Machines -> State]
  /\ life \in [Machines -> Life]
  /\ stateMutex \in Threads \cup {NoThread}
  /\ threadLock \in [Machines -> Callers \cup {NoThread}]
  /\ pc \in [Threads -> PC]
  /\ on \in [Threads -> Machines \cup {NoMachine}]
  /\ goal \in [Threads -> State]
  /\ was \in [Threads -> State]
  /\ tr \in [Threads -> Transitions \cup {NoTransition}]
  /\ out \in [Threads -> Outcome]
  /\ calls \in [Callers -> 0..MaxCalls]
  /\ aborted \in BOOLEAN

\* Two transitions of one machine never overlap, however many clients ask for
\* one at the same time and whichever thread runs the delegate
\* (setState reads and sets the state under one acquisition of the mutex).
AtMostOneTransition ==
  \A t, u \in Threads : Pending(t) /\ Pending(u) /\ on[t] = on[u] => t = u

\* What the constructor's documentation guarantees to a delegate: it is called
\* only for a machine whose state was the delegate's, and as long as it runs
\* the machine shows the delegate's intermediate state.
DelegateGuarantee ==
  \A t \in Threads :
    pc[t] \in {"call", "delegate"} => state[on[t]] = tr[t].via

\* No machine is left in an intermediate state by nobody: there is a thread
\* that will settle it.
NotStranded ==
  \A m \in Machines :
    state[m] \in IntermediateState => \E t \in Threads : Pending(t) /\ on[t] = m

\* Whenever the mutex is free, the last value the control system was sent
\* through getState is the machine's state: no change is missed, none is
\* announced out of order.
ShownIsCurrent ==
  stateMutex = NoThread =>
    \A m \in Machines : life[m] # "constructed" => shown[m] = state[m]

\* The values the control system receives follow the documented diagram step
\* by step: into the row's intermediate state, and from there to its final
\* state, back, or to fault.
Edge(a, b) ==
  \/ a = "unknown" /\ b = "off"
  \/ \E row \in Transitions :
       \/ a = row.from /\ b = row.via
       \/ a = row.via /\ b \in {row.to, row.from, "fault"}

ShownFollowsDiagram ==
  [][\A m \in Machines : shown'[m] # shown[m] => Edge(shown[m], shown'[m])]_shown

\* Every transition comes to an end, provided delegates return.
TransitionsEnd ==
  DelegatesReturn =>
    \A m \in Machines :
      state[m] \in IntermediateState ~> state[m] \in RestState

\* setState on an asynchronous machine returns to its caller even if no
\* delegate of any machine ever does.
AsyncCallsReturn ==
  \A t \in Callers :
    pc[t] = "enter" /\ on[t] \in Async ~> pc[t] = "idle"

\* "Wait for pending transitions to terminate and deregister the PVs"
\* (stateMachineImpl.h:158): when deinitialize is done with a machine, no
\* transition of it is pending.
DeinitializeWaits ==
  [][\A m \in Machines :
       life[m] = "closing" /\ life'[m] = "gone" =>
         ~\E t \in Threads : Pending(t) /\ on[t] = m]_vars

\* What canChange looks at, apart from the veto of the driver's delegate.
CanChange(m, s) == IsAllowedTransition(state[m], s)

\* canChange(s) "returns true if the transition is legal" (stateMachine.h:169):
\* setState(s) then finds a transition.
CanChangeAgrees ==
  \A m \in Machines, s \in Requests :
    life[m] = "ready" /\ s # state[m] /\ CanChange(m, s)
      => HasTransition(state[m], s)

-----------------------------------------------------------------------------
(* Refinement: the control system's view.                                   *)

\* The thread that has announced a transition of m and not yet its outcome.
Announced(t) == pc[t] \in {"launch", "join", "call", "delegate", "settle", "publish"}

InTransit(m) == { t \in Threads : Announced(t) /\ on[t] = m }

PhaseOf(t) ==
  CASE pc[t] \in {"launch", "join", "call"} -> "announced"
    [] pc[t] = "delegate"                   -> "running"
    [] pc[t] \in {"settle", "publish"}      -> "returned"

Protocol == INSTANCE TransitionProtocol WITH
  transit <- [m \in Machines |->
                IF InTransit(m) = {} THEN NoTransition
                ELSE tr[CHOOSE t \in InTransit(m) : TRUE]],
  phase   <- [m \in Machines |->
                IF InTransit(m) = {} THEN "rest"
                ELSE PhaseOf(CHOOSE t \in InTransit(m) : TRUE)]

\* Every behaviour of the threads is one of the protocol: each announced
\* transition calls its delegate exactly once and ends in one of its outcomes.
ImplementsProtocol == Protocol!Spec
=============================================================================
