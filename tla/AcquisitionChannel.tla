------------------------- MODULE AcquisitionChannel -------------------------
(***************************************************************************)
(* A device that acquires on any number of channels: the driver of         *)
(* doc/examples/oscilloscopeMultiChannel, class Channel, on top of the     *)
(* node of DataAcquisition.                                                *)
(*                                                                         *)
(* The start delegate starts a thread that pushes data until a flag is     *)
(* set; the stop delegate sets the flag and joins the thread.  The driver  *)
(* keeps no state of its own to know whether the thread runs: it relies on *)
(* the state machine.  Assigning or destroying a thread object that is     *)
(* joinable calls std::terminate.                                          *)
(***************************************************************************)
EXTENDS DataAcquisition

CONSTANTS
  MaxPushes,    \* bound: values pushed in one run
  StartFails,   \* the system may refuse a thread: std::system_error
  Destroyer,    \* the thread that calls destroyDevice
  Orderly       \* it does so when the other clients are done and nothing runs

ASSUME ChannelAssumption ==
  /\ MaxPushes \in Nat /\ StartFails \in BOOLEAN
  /\ Destroyer \in Callers /\ Orderly \in BOOLEAN
  /\ {"ok", "rollback", "error"} \subseteq DelegateOutcomes  \* how the delegates below end

VARIABLES
  stopFlag,   \* stopFlag[m]: m_bStopAcquisition, "unset" until something assigns it
  joinable,   \* joinable[m]: m_acquisitionThread holds a thread not yet joined
  worker,     \* worker[m]: where the acquisition thread stands, see WorkerPC
  run,        \* run[m]: the number of the start that launched the worker
  pushed,     \* pushed[m]: values pushed since the last start (bounded by MaxPushes)
  passed,     \* passed[m]: those that were passed to the control system
  device      \* "alive", "deleted", or "terminated" with the whole process

driverVars == <<stopFlag, joinable, worker, run, pushed, passed>>
allVars    == <<vars, nodeVars, driverVars, device>>

WorkerPC == {"none", "test", "push", "ended"}

Alive(m) == worker[m] \in {"test", "push"}

-----------------------------------------------------------------------------
\* The constructor adds the channels and initializes the root node; the flag is
\* first assigned by start.
ChannelInit ==
  /\ Init /\ NodeInit
  /\ stopFlag = [m \in Machines |-> "unset"]
  /\ joinable = [m \in Machines |-> FALSE]
  /\ worker   = [m \in Machines |-> "none"]
  /\ run      = [m \in Machines |-> 0]
  /\ pushed   = [m \in Machines |-> 0]
  /\ passed   = [m \in Machines |-> 0]
  /\ device   = "alive"

\* The delegate of t returns (o is "ok") or throws.
DelegateDone(t, o) ==
  /\ DelegateEnds(t, o)
  /\ at' = [at EXCEPT ![t] = "entry"]
  /\ UNCHANGED <<parameter, factor, count, startTime, starts>>

\* switchOn and switchOff do nothing, recover throws StateMachineRollBack.
SwitchOn(t)  == Runs(t, "switchOn")  /\ DelegateDone(t, "ok") /\ UNCHANGED driverVars
SwitchOff(t) == Runs(t, "switchOff") /\ DelegateDone(t, "ok") /\ UNCHANGED driverVars
Recover(t)   == Runs(t, "recover")   /\ DelegateDone(t, "rollback") /\ UNCHANGED driverVars

\* start: first the flag is cleared ...
ClearFlag(t) ==
  /\ In(t, "start", "driver")
  /\ stopFlag' = [stopFlag EXCEPT ![on[t]] = "clear"]
  /\ at' = [at EXCEPT ![t] = "launch"]
  /\ UNCHANGED <<vars, parameter, factor, count, startTime, starts, joinable, worker, run,
                 pushed, passed>>

\* runInThread: a thread object and, at once, its thread.
RunInThread(m) ==
  /\ joinable' = [joinable EXCEPT ![m] = TRUE]
  /\ worker'   = [worker EXCEPT ![m] = "test"]

\* ... then a thread is started and assigned to m_acquisitionThread: an old
\* thread that was not joined ends the process.
StartWorker(t) ==
  LET m == on[t] IN
  /\ In(t, "start", "launch")
  /\ DelegateDone(t, "ok")
  /\ RunInThread(m)
  /\ device'   = IF joinable[m] THEN "terminated" ELSE device
  /\ run'      = [run EXCEPT ![m] = starts[m]]
  /\ pushed'   = [pushed EXCEPT ![m] = 0]
  /\ passed'   = [passed EXCEPT ![m] = 0]
  /\ UNCHANGED stopFlag

\* Mutant of StartWorkerFails: the failure is not reported.
Mut_FailureIgnored(t) ==
  /\ StartFails
  /\ In(t, "start", "launch")
  /\ DelegateDone(t, "ok")
  /\ UNCHANGED driverVars

\* No thread could be created.
StartWorkerFails(t) ==
  /\ StartFails
  /\ In(t, "start", "launch")
  /\ DelegateDone(t, "error")
  /\ UNCHANGED driverVars

Start(t) ==
  \/ (ClearFlag(t) \/ StartWorkerFails(t)) /\ UNCHANGED device
  \/ StartWorker(t)

\* Mutant of RaiseFlag: stop joins and then raises the flag.
Mut_RaiseFlagLate(t) ==
  /\ In(t, "stop", "entry")
  /\ at' = [at EXCEPT ![t] = "join"]
  /\ UNCHANGED <<vars, parameter, factor, count, startTime, starts, driverVars>>

\* stop: first the flag is raised ...
RaiseFlag(t) ==
  /\ In(t, "stop", "entry")
  /\ stopFlag' = [stopFlag EXCEPT ![on[t]] = "raised"]
  /\ at' = [at EXCEPT ![t] = "join"]
  /\ UNCHANGED <<vars, parameter, factor, count, startTime, starts, joinable, worker, run,
                 pushed, passed>>

\* Mutant of JoinWorker: the stop delegate does not wait.
Mut_DetachWorker(t) ==
  LET m == on[t] IN
  /\ In(t, "stop", "join")
  /\ DelegateDone(t, "ok")
  /\ joinable' = [joinable EXCEPT ![m] = FALSE]
  /\ UNCHANGED <<stopFlag, worker, run, pushed, passed>>

\* Thread::join waits until the thread's function has returned.
Join(m) ==
  /\ worker[m] = "ended"
  /\ joinable' = [joinable EXCEPT ![m] = FALSE]
  /\ worker'   = [worker EXCEPT ![m] = "none"]

\* ... then the thread is joined.
JoinWorker(t) ==
  /\ In(t, "stop", "join")
  /\ DelegateDone(t, "ok")
  /\ Join(on[t])
  /\ UNCHANGED <<stopFlag, run, pushed, passed>>

Stop(t) == (RaiseFlag(t) \/ JoinWorker(t)) /\ UNCHANGED device

-----------------------------------------------------------------------------
(* acquisitionLoop                                                          *)

\* What a read of the flag may give: anything, as long as it has no value.
Reads(flag) == IF flag = "unset" THEN BOOLEAN ELSE {flag = "raised"}

\* The loop tests the flag and reads the amplitude.
TestFlag(m) ==
  /\ worker[m] = "test"
  /\ \E stop \in Reads(stopFlag[m]) :
       /\ stop \/ pushed[m] < MaxPushes
       /\ worker' = [worker EXCEPT ![m] = IF stop THEN "ended" ELSE "push"]
  /\ UNCHANGED <<vars, nodeVars, stopFlag, joinable, run, pushed, passed>>

\* It pushes the data and sleeps.
Push(m) ==
  /\ worker[m] = "push"
  /\ PushData(m)
  /\ worker' = [worker EXCEPT ![m] = "test"]
  /\ pushed' = [pushed EXCEPT ![m] = @ + 1]
  /\ passed' = [passed EXCEPT ![m] = IF Passes(m) THEN @ + 1 ELSE @]
  /\ UNCHANGED <<vars, stopFlag, joinable, run>>

-----------------------------------------------------------------------------
(* Composition with the clients and the state machines                      *)

\* What the destroyer waits for: the clients make no calls any more and the
\* channels are switched off or being stopped.
MayDestroy ==
  Orderly =>
    /\ \A t \in Callers \ {Destroyer} : pc[t] = "idle" /\ calls[t] = MaxCalls
    /\ \A m \in Machines : state[m] \notin {"starting", "running"}

Clients ==
  \/ \E t \in Callers \ {Destroyer}, m \in Machines, s \in Requests : CallSetState(t, m, s)
  \/ \E m \in Machines : MayDestroy /\ CallDeinitialize(Destroyer, m)

\* destroyDevice deletes the device when its nodes are deinitialized: members
\* with a joinable thread end the process, the machines' destructors wait for what
\* they have launched since.
DeleteDevice ==
  /\ \A m \in Machines : life[m] = "gone"
  /\ (\E m \in Machines : joinable[m]) \/ \A m \in Machines : CanBeDestroyed(m)
  /\ device' = IF \E m \in Machines : joinable[m] THEN "terminated" ELSE "deleted"
  /\ UNCHANGED <<vars, nodeVars, driverVars>>

\* What the delegate of t does next.
Drive(t) ==
  \/ /\ \/ (TakeStartTime(t) \/ SetDecimation(t)) /\ UNCHANGED driverVars
        \/ SwitchOn(t) \/ SwitchOff(t) \/ Recover(t)
     /\ UNCHANGED device
  \/ Start(t) \/ Stop(t)

Acquire(m) == (TestFlag(m) \/ Push(m)) /\ UNCHANGED device

AdvanceMachine(t) == Advance(t) /\ UNCHANGED <<nodeVars, driverVars, device>>

\* The device is gone, or no thread has anything left to do.
Rest ==
  /\ device # "alive" \/ \A t \in Threads : pc[t] \in {"idle", "ended"}
  /\ UNCHANGED allVars

\* Everything but the delegates and the acquisition threads.
Surroundings ==
  \/ /\ (\E m \in Machines : Initialize(m)) \/ Clients
     /\ UNCHANGED <<nodeVars, driverVars, device>>
  \/ \E t \in Threads : AdvanceMachine(t)
  \/ \E w \in Writes : WriteParameter(w[1], w[2], w[3]) /\ UNCHANGED <<driverVars, device>>
  \/ DeleteDevice

ChannelNext ==
  \/ /\ device = "alive"
     /\ \/ Surroundings
        \/ \E t \in Threads : Drive(t)
        \/ \E m \in Machines : Acquire(m)
  \/ Rest

ChannelSpec == ChannelInit /\ [][ChannelNext]_allVars

\* Threads that can go on do: clients inside a call, transition threads with
\* their delegates, and the acquisition threads, which only sleep in between.
FairChannelSpec ==
  /\ ChannelSpec
  /\ \A t \in Threads : WF_allVars(AdvanceMachine(t) \/ Drive(t))
  /\ \A m \in Machines : WF_allVars(Acquire(m))

-----------------------------------------------------------------------------
(* Properties                                                               *)

\* The variables of the nodes and of the driver are well formed.
ChannelTypeOK ==
  /\ TypeOK
  /\ parameter \in [Machines -> [Parameters -> Int]]
  /\ factor \in [Machines -> 0..Width-1] /\ count \in [Machines -> 0..Width-1]
  /\ startTime \in [Machines -> Nat] /\ starts \in [Machines -> Nat]
  /\ at \in [Threads -> {"entry", "decimation", "driver", "launch", "join"}]
  /\ stopFlag \in [Machines -> {"unset", "clear", "raised"}] /\ joinable \in [Machines -> BOOLEAN]
  /\ worker \in [Machines -> WorkerPC]
  /\ run \in [Machines -> Nat]
  /\ pushed \in [Machines -> 0..MaxPushes] /\ passed \in [Machines -> 0..MaxPushes]
  /\ device \in {"alive", "deleted", "terminated"}

\* "We don't need to check if the thread was already started because the state
\* machine guarantees that the start handler is called only while the state is
\* ON": when start runs, the thread of the run before has been joined, so that
\* none pushes while setDecimation changes the counter.
StartFindsNoWorker ==
  \A t \in Threads : Runs(t, "start") => ~joinable[on[t]] /\ ~Alive(on[t])

\* The acquisition thread lives from a start to the stop that follows it: a
\* channel that says it is running acquires, one in any other state of rest
\* does not, whatever clients ask for and whichever transition fails.
AcquiresWhileRunning ==
  \A m \in Machines :
    /\ Alive(m) => state[m] \in {"starting", "running", "stopping"}
    /\ state[m] = "running" => joinable[m] /\ Alive(m)

\* A thread that acquires sees the start time of its own start, and of the
\* values it has pushed every factor-th was passed, counted from its start; a
\* factor of 0 counts as the full width of the counter.
RunIsItsOwn ==
  \A m \in Machines :
    Alive(m) =>
      /\ startTime[m] = run[m]
      /\ passed[m] = pushed[m] \div (IF factor[m] = 0 THEN Width ELSE factor[m])

\* Nothing ends the process: no thread object is overwritten or destroyed while
\* its thread runs, destruction during a transition included.
NoTerminate == device # "terminated" /\ ~aborted

\* A stop always comes to an end: the thread sees the flag and is joined.
StopEnds ==
  \A m \in Machines : state[m] = "stopping" ~> state[m] = "on"
=============================================================================
