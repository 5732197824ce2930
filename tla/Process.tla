------------------------------ MODULE Process ------------------------------
(***************************************************************************)
(* A process that uses NDS: the factory and the log streams of the control *)
(* systems, which live and die with these.  Threads log on the components  *)
(* of devices, each at the level BaseImpl::isLogLevelEnabled lets pass.    *)
(***************************************************************************)
EXTENDS NdsFactory

CONSTANTS
  Levels,     \* Levels: the log levels, numbers
  FirstLevel, \* the level of a component that was not told
  MaxStreams, \* bound, see LogStreams
  NoStream

ASSUME ProcessAssumption ==
  NoStream \notin [getter : Systems, level : Levels, thread : Threads]

VARIABLES slot, streams, writing, logLevel

INSTANCE LogStreams WITH Getters <- Systems

vars == <<ndsVars, slot, streams, writing, logLevel>>

Init == InitNds /\ LogInit /\ logLevel = [d \in Devices |-> FirstLevel]

\* What t does destroys the control systems to which nothing refers any more.
Client(t) ==
  /\ writing[t] = Quiet /\ ~Ended
  /\ NdsStep(t)
  /\ DestroyGetters(t, Alive \ Alive')
  /\ logLevel' = [d \in Devices |-> IF device'[d] = NoDevice THEN FirstLevel ELSE logLevel[d]]

IsLogLevelEnabled(d, l) == l >= logLevel[d]

GetLogger(t, d, l) == GetLogStream(t, device[d].system, l)

\* ndsDebugStream(component) and its like, up to the operators that write.
Log(t, d, l) ==
  /\ Made(d) /\ ~Ended /\ pc[t] = "idle"
  /\ IsLogLevelEnabled(d, l)
  /\ GetLogger(t, d, l)
  /\ UNCHANGED <<ndsVars, logLevel>>

\* A node hands its level down to all that is below it: the level of its root
\* node is the device's.
HandDown(d, l) == logLevel' = [logLevel EXCEPT ![d] = l]

\* setLogLevel, and the command of that name.
SetLogLevel(d, l) ==
  /\ Made(d) /\ ~Ended
  /\ HandDown(d, l)
  /\ UNCHANGED <<ndsVars, slot, streams, writing>>

Next ==
  \/ MakeFolder /\ UNCHANGED <<slot, streams, writing, logLevel>>
  \/ \E t \in Threads : Client(t)
  \/ \E t \in Threads, d \in Devices, l \in Levels : Log(t, d, l)
  \/ \E t \in Threads : Written(t) /\ UNCHANGED <<ndsVars, logLevel>>
  \/ \E t \in Threads : pc[t] = "idle" /\ ThreadEnds(t) /\ UNCHANGED <<ndsVars, logLevel>>
  \/ \E d \in Devices, l \in Levels : SetLogLevel(d, l)
  \/ Ended /\ UNCHANGED vars

Spec == Init /\ [][Next]_vars
=============================================================================
