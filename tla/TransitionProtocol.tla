------------------------- MODULE TransitionProtocol -------------------------
(***************************************************************************)
(* What a state machine promises to the control system that watches its    *)
(* getState PV and to the user whose delegates it calls, without threads   *)
(* or locks: a transition is announced, its delegate is called exactly     *)
(* once, and one of its three outcomes is announced.  StateMachine is      *)
(* shown to implement this for delegates and subscribers that fail, if at  *)
(* all, with a std::runtime_error or without one respectively.             *)
(***************************************************************************)
EXTENDS States

CONSTANTS Machines, NoTransition

VARIABLES
  shown,     \* the value of the getState PV, "unknown" before initialize
  transit,   \* the transition under way, or NoTransition
  phase      \* how far it has come

protocolVars == <<shown, transit, phase>>

Init ==
  /\ shown   = [m \in Machines |-> "unknown"]
  /\ transit = [m \in Machines |-> NoTransition]
  /\ phase   = [m \in Machines |-> "rest"]

\* The machine is registered.
Appear(m) ==
  /\ shown[m] = "unknown"
  /\ shown' = [shown EXCEPT ![m] = "off"]
  /\ UNCHANGED <<transit, phase>>

\* The intermediate state is announced.
Begin(m, row) ==
  /\ phase[m] = "rest"
  /\ shown[m] = row.from
  /\ shown'   = [shown EXCEPT ![m] = row.via]
  /\ transit' = [transit EXCEPT ![m] = row]
  /\ phase'   = [phase EXCEPT ![m] = "announced"]

\* The delegate is called, and comes back.
Enter(m) ==
  /\ phase[m] = "announced"
  /\ phase' = [phase EXCEPT ![m] = "running"]
  /\ UNCHANGED <<shown, transit>>

Exit(m) ==
  /\ phase[m] = "running"
  /\ phase' = [phase EXCEPT ![m] = "returned"]
  /\ UNCHANGED <<shown, transit>>

\* The outcome is announced.
End(m) ==
  /\ phase[m] = "returned"
  /\ \E s \in {transit[m].to, transit[m].from, "fault"} :
       shown' = [shown EXCEPT ![m] = s]
  /\ transit' = [transit EXCEPT ![m] = NoTransition]
  /\ phase'   = [phase EXCEPT ![m] = "rest"]

Next ==
  \E m \in Machines :
    \/ Appear(m)
    \/ \E row \in Transitions : Begin(m, row)
    \/ Enter(m) \/ Exit(m) \/ End(m)

Spec == Init /\ [][Next]_protocolVars
=============================================================================
