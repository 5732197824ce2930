---------------------------- MODULE Oscilloscope ----------------------------
(***************************************************************************)
(* The device of doc/examples/oscilloscope: two acquisition nodes, SinWave *)
(* and SquareWave, each with delegates, a flag, a thread and an            *)
(* acquisition function of its own.  They are the two channels of an       *)
(* AcquisitionChannel; the std::thread members stand where class Channel   *)
(* has nds::Thread, which holds a std::thread and adds nothing to it.      *)
(***************************************************************************)
EXTENDS AcquisitionChannel

CONSTANTS SinWave, SquareWave

ASSUME ScopeAssumption == Machines = {SinWave, SquareWave}

On(m, t) == on[t] = m

\* The constructor: one data acquisition node for each wave.
ScopeInit == ChannelInit

OnStart(t) == (TakeStartTime(t) \/ SetDecimation(t)) /\ UNCHANGED <<driverVars, device>>

SwitchSinWave(t)  == On(SinWave, t) /\ (SwitchOn(t) \/ SwitchOff(t)) /\ UNCHANGED device
StartSinWave(t)   == On(SinWave, t) /\ Start(t)
StopSinWave(t)    == On(SinWave, t) /\ Stop(t)
RecoverSinWave(t) == On(SinWave, t) /\ Recover(t) /\ UNCHANGED device

SwitchSquareWave(t)  == On(SquareWave, t) /\ (SwitchOn(t) \/ SwitchOff(t)) /\ UNCHANGED device
StartSquareWave(t)   == On(SquareWave, t) /\ Start(t)
StopSquareWave(t)    == On(SquareWave, t) /\ Stop(t)
RecoverSquareWave(t) == On(SquareWave, t) /\ Recover(t) /\ UNCHANGED device

AcquireSinusoidalWave == Acquire(SinWave)
AcquireSquareWave     == Acquire(SquareWave)

\* What the delegate of t does next.
Delegate(t) ==
  \/ OnStart(t)
  \/ SwitchSinWave(t) \/ StartSinWave(t) \/ StopSinWave(t) \/ RecoverSinWave(t)
  \/ SwitchSquareWave(t) \/ StartSquareWave(t) \/ StopSquareWave(t) \/ RecoverSquareWave(t)

ScopeNext ==
  \/ /\ device = "alive"
     /\ \/ Surroundings
        \/ \E t \in Threads : Delegate(t)
        \/ AcquireSinusoidalWave \/ AcquireSquareWave
  \/ Rest

\* Fairness as in FairChannelSpec.
ScopeSpec ==
  /\ ScopeInit /\ [][ScopeNext]_allVars
  /\ \A t \in Threads : WF_allVars(AdvanceMachine(t) \/ Delegate(t))
  /\ WF_allVars(AcquireSinusoidalWave) /\ WF_allVars(AcquireSquareWave)
=============================================================================
