-------------------------- MODULE DataAcquisition --------------------------
(***************************************************************************)
(* DataAcquisitionImpl (src/dataAcquisitionImpl.cpp): a node with an       *)
(* asynchronous state machine, a PV for the acquired data and variables    *)
(* for its parameters.  The state machines of the nodes are the Machines   *)
(* of StateMachine; this module adds what the node does on top of them:    *)
(* onStart, which the state machine calls instead of the driver's start    *)
(* delegate, and push.  Driver modules say what the delegates do.          *)
(*                                                                         *)
(* A start is named by its number: m_startTimestampFunction, which the     *)
(* driver or a timing plugin provides, returns the number of the start it  *)
(* is called in.                                                           *)
(***************************************************************************)
EXTENDS StateMachine, Integers

CONSTANTS
  Writes,     \* what the control system writes: triples of a node, a parameter, a value
  Width       \* number of values of std::uint32_t, 2^32 in the code

Parameters == {"Frequency", "Duration", "Amplitude", "Offset", "Decimation",
               "SamplingMode", "Ground"}

ASSUME AcquisitionAssumption ==
  /\ Writes \subseteq Machines \X Parameters \X Int
  /\ Width \in Nat \ {0, 1}

VARIABLES
  parameter,  \* parameter[m]: the values of the node's variable PVs
  factor,     \* factor[m]: m_decimationFactor of the data PV
  count,      \* count[m]: m_decimationCount of the data PV
  startTime,  \* startTime[m]: m_startTime, 0 before the first start
  starts,     \* starts[m]: how often the machine has called onStart
  at          \* at[t]: where thread t stands in the delegate it runs

nodeVars == <<parameter, factor, count, startTime, starts, at>>

-----------------------------------------------------------------------------
\* The constructor writes 1 to some of the PVs, the others are created with 0;
\* sampling mode 1 is "Continuous", ground 0 is "On".
DefaultParameters ==
  [p \in Parameters |-> IF p \in {"Frequency", "Amplitude", "Decimation", "SamplingMode"} THEN 1 ELSE 0]

NodeInit ==
  /\ parameter = [m \in Machines |-> DefaultParameters]
  /\ factor    = [m \in Machines |-> 1]
  /\ count     = [m \in Machines |-> 1]
  /\ startTime = [m \in Machines |-> 0]
  /\ starts    = [m \in Machines |-> 0]
  /\ at        = [t \in Threads |-> "entry"]

\* getFrequencyHz, getDurationSeconds, ... getGround: a copy made under the
\* mutex of the PV.
Parameter(m, p) == parameter[m][p]

\* The control system writes a parameter, at any time, while it can see the PV.
WriteParameter(m, p, v) ==
  /\ life[m] = "ready"
  /\ parameter' = [parameter EXCEPT ![m][p] = v]
  /\ UNCHANGED <<vars, factor, count, startTime, starts, at>>

\* Thread t runs the delegate d of its machine and has got to l.
Runs(t, d) == pc[t] = "delegate" /\ tr[t].delegate = d
In(t, d, l) == Runs(t, d) /\ at[t] = l

\* onStart: m_startTime = m_startTimestampFunction().
TakeStartTime(t) ==
  LET m == on[t] IN
  /\ In(t, "start", "entry")
  /\ starts' = [starts EXCEPT ![m] = @ + 1]
  /\ startTime' = [startTime EXCEPT ![m] = starts'[m]]
  /\ at' = [at EXCEPT ![t] = "decimation"]
  /\ UNCHANGED <<vars, parameter, factor, count>>

\* (std::uint32_t) of a std::int32_t.
ToUnsigned(v) == v % Width

\* Mutant of SetDecimation: the counter goes on from the last run.
Mut_CountKept(t) ==
  LET m == on[t]
      d == ToUnsigned(Parameter(m, "Decimation"))
  IN
  /\ In(t, "start", "decimation")
  /\ factor' = [factor EXCEPT ![m] = d]
  /\ at' = [at EXCEPT ![t] = "driver"]
  /\ UNCHANGED <<vars, parameter, count, startTime, starts>>

\* onStart: the decimation of the data PV is set from the parameter, which
\* starts its counter again; the driver's delegate is called next.
SetDecimation(t) ==
  LET m == on[t]
      d == ToUnsigned(Parameter(m, "Decimation"))
  IN
  /\ In(t, "start", "decimation")
  /\ factor' = [factor EXCEPT ![m] = d]
  /\ count'  = [count EXCEPT ![m] = d]
  /\ at' = [at EXCEPT ![t] = "driver"]
  /\ UNCHANGED <<vars, parameter, startTime, starts>>

\* push on the data PV: the unsigned counter is decremented, and at 0 set to
\* the factor again and the value passed to the control system.
Decremented(m) == (count[m] + Width - 1) % Width
Passes(m) == Decremented(m) = 0

PushData(m) ==
  /\ count' = [count EXCEPT ![m] = IF Passes(m) THEN factor[m] ELSE Decremented(m)]
  /\ UNCHANGED <<parameter, factor, startTime, starts, at>>
=============================================================================
