------------------------------- MODULE PVPush -------------------------------
(***************************************************************************)
(* What happens to a value pushed on an input PV: PVBaseInImpl::push with  *)
(* its decimation and its fan-out to subscribed output PVs and replication *)
(* destinations, PVBaseInImpl::setDecimation, PVVariableInImpl::setValue   *)
(* and PVVariableOutImpl::write.                                           *)
(*                                                                         *)
(* m_decimationCount is a plain integer: its decrement is a load and a     *)
(* store, its reset another store.  The fan-out of a PV holds the PV's     *)
(* m_lockSubscribersList, a mutex that is not recursive, and pushes on the *)
(* destinations from inside: a call is a stack of frames, one per PV.      *)
(* The links are constant here; PVRegistry models how they come and go.    *)
(***************************************************************************)
EXTENDS Naturals, Sequences, FiniteSets, SequencesExt, PVTypes

CONSTANTS
  Threads,       \* device threads
  Inputs,        \* the input PVs
  Outputs,       \* the output PVs
  Subscribers,   \* Subscribers[i]: m_subscriberOutputPVs
  Destinations,  \* Destinations[i]: m_replicationDestinationPVs
  PushesOn,      \* PushesOn[t]: the PVs t calls push on
  SetsOn,        \* SetsOn[t]: the variables t calls setValue on
  Decimations,   \* Decimations[i]: arguments of setDecimation on i
  Type,          \* Type[p]: the data type of PV p
  Acknowledges,  \* Acknowledges[o]: the inputs, one at most, on which the write
                 \* delegate of a PV action o calls setValueBack
  Throwing,      \* output PVs whose write delegate may throw
  Width,         \* number of values of m_decimationCount, 2^32 in the code
  MaxCalls,      \* bound: calls made on one PV
  NoThread, NoValue

VARIABLES
  factor,    \* m_decimationFactor
  count,     \* m_decimationCount
  listLock,  \* the holder of m_lockSubscribersList
  held,      \* held[i]: m_value of an input variable
  stack,     \* stack[t]: the calls t is in, innermost last
  calls,     \* calls[i]: calls made on i so far (bounded by MaxCalls)
  arrived,   \* arrived[i]: values pushed on i since setDecimation
  passed,    \* passed[i]: values i handed to the control system since then
  got,       \* got[o][i]: number of the last value called on i that o received
  written,   \* written[o]: what o was written last
  cut,       \* the PVs whose last fan-out an exception has cut short
  ended      \* whether the process was terminated

decimationVars == <<factor, count, arrived, passed>>
vars == <<factor, count, listLock, held, stack, calls, arrived, passed, got, written, cut, ended>>

-----------------------------------------------------------------------------
(* The graph of links.                                                      *)

Links(i) == Subscribers[i] \cup Destinations[i]

\* The inputs on which a push on i pushes.
Onward(i) == Destinations[i] \cup UNION { Acknowledges[o] : o \in Subscribers[i] }

\* The inputs a push on i passes through: those in every set that has i and all that
\* is onward of its members.
Through(i) ==
  { j \in Inputs : \A S \in SUBSET Inputs :
      i \in S /\ (\A k \in S : Onward(k) \subseteq S) => j \in S }

Downstream(i) == UNION { Subscribers[j] : j \in Through(i) }

Acyclic == \A i \in Inputs : \A j \in Onward(i) : i \notin Through(j)

ASSUME LinksAssumption ==
  /\ Subscribers \in [Inputs -> SUBSET Outputs]
  /\ Destinations \in [Inputs -> SUBSET Inputs]
  /\ PushesOn \in [Threads -> SUBSET Inputs]
  /\ SetsOn \in [Threads -> SUBSET Inputs]
  /\ Throwing \subseteq Outputs
  /\ Type \in [Inputs \cup Outputs -> DataTypes]
  /\ Acknowledges \in [Outputs -> SUBSET Inputs]
  /\ \A o \in Outputs : IsFiniteSet(Acknowledges[o]) /\ Cardinality(Acknowledges[o]) <= 1
  /\ \A o \in Outputs : Acknowledges[o] # {} => Type[o] = "int32"
  /\ Inputs \cap Outputs = {} /\ NoThread \notin Threads

ASSUME BoundsAssumption ==
  /\ Width \in Nat \ {0, 1} /\ MaxCalls \in Nat
  /\ Decimations \in [Inputs -> SUBSET (0..Width-1)]

-----------------------------------------------------------------------------
(* Frames: where a call on a PV has got to.                                 *)

Value(i, n) == [root |-> i, number |-> n]

Frame(i, kind, v) ==
  [pv |-> i, kind |-> kind, value |-> v, register |-> 0, todo |-> {},
   at |-> IF kind = "push" THEN "load" ELSE "store value"]

InCall(t) == stack[t] # <<>>
Top(t)    == Last(stack[t])
At(t, l)  == ~ended /\ InCall(t) /\ Top(t).at = l
PV(t)     == Top(t).pv

SetTop(t, frame) == stack' = [stack EXCEPT ![t] = Front(@) \o <<frame>>]
Goto(t, l)       == SetTop(t, [Top(t) EXCEPT !.at = l])

Init ==
  /\ factor   = [i \in Inputs |-> 1]
  /\ count    = [i \in Inputs |-> 1]
  /\ listLock = [i \in Inputs |-> NoThread]
  /\ held     = [i \in Inputs |-> NoValue]
  /\ stack    = [t \in Threads |-> <<>>]
  /\ calls    = [i \in Inputs |-> 0]
  /\ arrived  = [i \in Inputs |-> <<>>]
  /\ passed   = [i \in Inputs |-> <<>>]
  /\ got      = [o \in Outputs |-> [i \in Inputs |-> 0]]
  /\ written  = [o \in Outputs |-> NoValue]
  /\ cut      = {}
  /\ ended    = FALSE

\* Two stores that the documentation asks not to run during a push on i.
SetDecimation(i, d) ==
  /\ ~ended /\ \A t \in Threads : \A f \in ToSet(stack[t]) : f.pv # i
  /\ factor'  = [factor EXCEPT ![i] = d]
  /\ count'   = [count EXCEPT ![i] = d]
  /\ arrived' = [arrived EXCEPT ![i] = <<>>]
  /\ passed'  = [passed EXCEPT ![i] = <<>>]
  /\ UNCHANGED <<listLock, held, stack, calls, got, written, cut, ended>>

\* A device thread calls push or setValue.
Call(t, i, kind) ==
  /\ ~ended /\ ~InCall(t) /\ calls[i] < MaxCalls
  /\ calls' = [calls EXCEPT ![i] = @ + 1]
  /\ stack' = [stack EXCEPT ![t] = <<Frame(i, kind, Value(i, calls'[i]))>>]
  /\ UNCHANGED <<decimationVars, listLock, held, got, written, cut, ended>>

Push(t, i)     == i \in PushesOn[t] /\ Call(t, i, "push")
SetValue(t, i) == i \in SetsOn[t] /\ Call(t, i, "setValue")

-----------------------------------------------------------------------------
(* Decimation: if(--m_decimationCount == 0) ...                             *)

LoadCount(t) ==
  /\ At(t, "load")
  /\ SetTop(t, [Top(t) EXCEPT !.at = "store",
                              !.register = (count[PV(t)] + Width - 1) % Width])
  /\ arrived' = [arrived EXCEPT ![PV(t)] = Append(@, Top(t).value)]
  /\ UNCHANGED <<factor, count, listLock, held, calls, passed, got, written, cut, ended>>

\* Mutant of StoreCount: the counter is reset only once it is below zero.
Mut_StoreLate(t) ==
  /\ At(t, "store")
  /\ count' = [count EXCEPT ![PV(t)] = Top(t).register]
  /\ Goto(t, IF Top(t).register = Width - 1 THEN "reset" ELSE "lock")
  /\ UNCHANGED <<factor, listLock, held, calls, arrived, passed, got, written, cut, ended>>

StoreCount(t) ==
  /\ At(t, "store")
  /\ count' = [count EXCEPT ![PV(t)] = Top(t).register]
  /\ Goto(t, IF Top(t).register = 0 THEN "reset" ELSE "lock")
  /\ UNCHANGED <<factor, listLock, held, calls, arrived, passed, got, written, cut, ended>>

ResetCount(t) ==
  /\ At(t, "reset")
  /\ count' = [count EXCEPT ![PV(t)] = factor[PV(t)]]
  /\ Goto(t, "pass")
  /\ UNCHANGED <<factor, listLock, held, calls, arrived, passed, got, written, cut, ended>>

PassToControlSystem(t) ==
  /\ At(t, "pass")
  /\ passed' = [passed EXCEPT ![PV(t)] = Append(@, Top(t).value)]
  /\ Goto(t, "lock")
  /\ UNCHANGED <<factor, count, listLock, held, calls, arrived, got, written, cut, ended>>

\* setValue stores the value under m_pvMutex, which it then releases.
StoreValue(t) ==
  /\ At(t, "store value")
  /\ held' = [held EXCEPT ![PV(t)] = Top(t).value]
  /\ Goto(t, "lock")
  /\ UNCHANGED <<decimationVars, listLock, calls, got, written, cut, ended>>

-----------------------------------------------------------------------------
(* Fan-out, under m_lockSubscribersList.                                    *)

\* Mutant of LockList: the list is copied and the mutex not kept.
Mut_LockNothing(t) ==
  /\ At(t, "lock")
  /\ listLock[PV(t)] = NoThread
  /\ SetTop(t, [Top(t) EXCEPT !.at = "fan",
       !.todo = IF Top(t).kind = "push" THEN Links(PV(t)) ELSE Subscribers[PV(t)]])
  /\ cut' = cut \ {PV(t)}
  /\ UNCHANGED <<decimationVars, listLock, held, calls, got, written, ended>>

\* setValue goes through the subscribed outputs only.
LockList(t) ==
  /\ At(t, "lock")
  /\ listLock[PV(t)] = NoThread
  /\ listLock' = [listLock EXCEPT ![PV(t)] = t]
  /\ SetTop(t, [Top(t) EXCEPT !.at = "fan",
       !.todo = IF Top(t).kind = "push" THEN Links(PV(t)) ELSE Subscribers[PV(t)]])
  /\ cut' = cut \ {PV(t)}
  /\ UNCHANGED <<decimationVars, held, calls, got, written, ended>>

\* A push keeps the type of the PV it started on, also where it is replicated to.
Accepts(o, v) == Reaches(Type[o], Type[v.root])

\* The next subscriber, in the order of the pointers in the set.  A PV action may
\* push the value back, before its write returns.
WriteOutput(t, o) ==
  /\ At(t, "fan") /\ o \in Top(t).todo /\ Accepts(o, Top(t).value)
  /\ LET rest == [Top(t) EXCEPT !.todo = @ \ {o}]
         back == SetToSeq({ Frame(j, "push", Top(t).value) : j \in Acknowledges[o] })
     IN stack' = [stack EXCEPT ![t] = Front(@) \o <<rest>> \o back]
  /\ got' = [got EXCEPT ![o][Top(t).value.root] = Top(t).value.number]
  /\ written' = [written EXCEPT ![o] = Top(t).value]
  /\ UNCHANGED <<decimationVars, listLock, held, calls, cut, ended>>

\* A value of a type that the output cannot take: the process ends.
WriteEnds(t, o) ==
  /\ At(t, "fan") /\ o \in Top(t).todo /\ ~Accepts(o, Top(t).value)
  /\ ended' = TRUE
  /\ UNCHANGED <<decimationVars, listLock, held, stack, calls, got, written, cut>>

\* Mutant of WriteThrows: the locks are taken and left without a guard object.
Mut_LocksKept(t, o) ==
  /\ o \in Throwing
  /\ At(t, "fan") /\ o \in Top(t).todo
  /\ stack' = [stack EXCEPT ![t] = <<>>]
  /\ cut' = cut \cup { f.pv : f \in ToSet(stack[t]) }
  /\ UNCHANGED <<decimationVars, listLock, held, calls, got, written, ended>>

\* The exception of a write delegate leaves push through all its frames; the
\* lock guards release the mutexes, what was left to do is not done.
WriteThrows(t, o) ==
  /\ o \in Throwing
  /\ At(t, "fan") /\ o \in Top(t).todo
  /\ stack' = [stack EXCEPT ![t] = <<>>]
  /\ listLock' = [i \in Inputs |-> IF listLock[i] = t THEN NoThread ELSE listLock[i]]
  /\ cut' = cut \cup { f.pv : f \in ToSet(stack[t]) }
  /\ UNCHANGED <<decimationVars, held, calls, got, written, ended>>

\* The destinations come after the outputs.
Replicate(t, j) ==
  /\ At(t, "fan") /\ j \in Top(t).todo
  /\ Top(t).todo \cap Outputs = {}
  /\ stack' = [stack EXCEPT ![t] =
       Front(@) \o << [Top(t) EXCEPT !.todo = @ \ {j}],
                      Frame(j, "push", Top(t).value) >>]
  /\ UNCHANGED <<decimationVars, listLock, held, calls, got, written, cut, ended>>

\* Mutant of Return: the loop over the destinations is never entered.
Mut_ReturnEarly(t) ==
  /\ At(t, "fan") /\ Top(t).todo \cap Outputs = {}
  /\ listLock' = [listLock EXCEPT ![PV(t)] = NoThread]
  /\ stack' = [stack EXCEPT ![t] = Front(@)]
  /\ UNCHANGED <<decimationVars, held, calls, got, written, cut, ended>>

Return(t) ==
  /\ At(t, "fan") /\ Top(t).todo = {}
  /\ listLock' = [listLock EXCEPT ![PV(t)] = NoThread]
  /\ stack' = [stack EXCEPT ![t] = Front(@)]
  /\ UNCHANGED <<decimationVars, held, calls, got, written, cut, ended>>

-----------------------------------------------------------------------------
Step(t) ==
  \/ LoadCount(t) \/ StoreCount(t) \/ ResetCount(t) \/ PassToControlSystem(t)
  \/ StoreValue(t) \/ LockList(t) \/ Return(t)
  \/ \E o \in Outputs : WriteOutput(t, o) \/ WriteEnds(t, o) \/ WriteThrows(t, o)
  \/ \E j \in Inputs : Replicate(t, j)

\* No thread is inside a call, or the process has ended: it may stay so.
Idle == (ended \/ \A t \in Threads : ~InCall(t)) /\ UNCHANGED vars

Next ==
  \/ \E i \in Inputs : \E d \in Decimations[i] : SetDecimation(i, d)
  \/ \E t \in Threads :
       \/ \E i \in Inputs : Push(t, i) \/ SetValue(t, i)
       \/ Step(t)
  \/ Idle

Spec == Init /\ [][Next]_vars

\* A thread inside a call runs until it returns.
FairSpec == Spec /\ \A t \in Threads : WF_vars(Step(t))
-----------------------------------------------------------------------------
(* Properties                                                               *)

Places == {"load", "store", "reset", "pass", "store value", "lock", "fan"}

Called == [root : Inputs, number : 1..MaxCalls]

\* Counters keep their width, frames and histories are well formed.
TypeOK ==
  /\ factor \in [Inputs -> 0..Width-1] /\ count \in [Inputs -> 0..Width-1]
  /\ listLock \in [Inputs -> Threads \cup {NoThread}]
  /\ held \in [Inputs -> Called \cup {NoValue}]
  /\ calls \in [Inputs -> 0..MaxCalls]
  /\ \A t \in Threads : \A f \in ToSet(stack[t]) :
       /\ f.pv \in Inputs /\ f.kind \in {"push", "setValue"} /\ f.value \in Called
       /\ f.register \in 0..Width-1 /\ f.at \in Places
       /\ f.todo \subseteq Inputs \cup Outputs
  /\ \A i \in Inputs : ToSet(arrived[i]) \subseteq Called /\ ToSet(passed[i]) \subseteq ToSet(arrived[i])
  /\ got \in [Outputs -> [Inputs -> 0..MaxCalls]]
  /\ written \in [Outputs -> Called \cup {NoValue}]
  /\ cut \subseteq Inputs /\ ended \in BOOLEAN

Frames(i) == UNION { {f \in ToSet(stack[t]) : f.pv = i} : t \in Threads }

InDecimation(i) == \E f \in Frames(i) : f.at \in {"store", "reset", "pass"}

\* The control system gets the values number d, 2d, 3d... of those pushed on the
\* PV since the decimation factor was set to d, and no other: the counter and
\* its reset agree whatever other threads push elsewhere meanwhile.
ExactDecimation ==
  \A i \in Inputs :
    factor[i] # 0 /\ ~InDecimation(i) =>
      passed[i] = [k \in 1..(Len(arrived[i]) \div factor[i]) |-> arrived[i][k * factor[i]]]

\* With decimation factor 0 "none of the data is passed to the control system"
\* (pvBaseIn.h:98-99).
NothingPassedAtZero == \A i \in Inputs : factor[i] = 0 => passed[i] = <<>>

\* No call that started on i is under way.
Quiet(i) == \A t \in Threads : InCall(t) => Top(t).value.root # i

\* A push that has returned has reached every output downstream, also through
\* replication: nothing is skipped because other threads hold the lists.
Delivered ==
  \A i \in Inputs :
    Quiet(i) /\ i \notin cut => \A o \in Downstream(i) : got[o][i] = calls[i]

\* The outputs subscribed to i and to nothing else.
OwnSubscribers(i) == { o \in Subscribers[i] : \A j \in Inputs \ {i} : o \notin Subscribers[j] }

\* The outputs subscribed to one PV end up with the same value, whoever pushed
\* it and through whichever PVs it came: one fan-out at a time goes through.
SubscribersAgree ==
  \A i \in Inputs : i \notin cut /\ (\A f \in Frames(i) : f.at # "fan") =>
    \A o1, o2 \in OwnSubscribers(i) : written[o1] = written[o2]

\* Every call returns, or ends the process: the locks are taken along the links,
\* which have no cycle.
PushesReturn == \A t \in Threads : InCall(t) ~> ended \/ ~InCall(t)
=============================================================================
