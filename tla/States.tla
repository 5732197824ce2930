------------------------------- MODULE States -------------------------------
(***************************************************************************)
(* The states of an NDS3 state machine (include/nds3/definitions.h), the   *)
(* transition table of StateMachineImpl::setState and the predicate behind *)
(* StateMachineImpl::canChange.  No variables: every module that talks     *)
(* about states extends this one.                                          *)
(***************************************************************************)
EXTENDS Naturals

\* state_t in the order of the enumeration: the order is a priority, the
\* global state of a node is the highest one found below it.
Priority == [unknown |-> 0, off |-> 1, switchingOff |-> 2, initializing |-> 3,
             on |-> 4, stopping |-> 5, starting |-> 6, running |-> 7, fault |-> 8]

State == {"unknown", "off", "switchingOff", "initializing", "on",
          "stopping", "starting", "running", "fault"}

IntermediateState == {"switchingOff", "initializing", "starting", "stopping"}

\* States a machine can be in between two transitions.
RestState == {"off", "on", "running", "fault"}

\* A row of setState's table: the state to leave, the state shown while the
\* delegate runs, the state to reach, and which delegate is called.
Row(from, via, to, delegate) ==
  [from |-> from, via |-> via, to |-> to, delegate |-> delegate]

Transitions ==
  { Row("off",     "initializing", "on",      "switchOn"),
    Row("on",      "switchingOff", "off",     "switchOff"),
    Row("on",      "starting",     "running", "start"),
    Row("running", "stopping",     "on",      "stop"),
    Row("fault",   "switchingOff", "off",     "recover") }

\* isAllowedTransition: what canChange answers before it asks the veto
\* delegate.  It is not the table above.
IsAllowedTransition(current, new) ==
  \/ current \in IntermediateState
  \/ <<current, new>> \in { <<"off", "on">>, <<"on", "off">>, <<"on", "running">>,
                            <<"running", "on">>, <<"fault", "on">> }
  \/ new = "fault"

\* setState finds a row for the request instead of throwing
\* StateMachineNoSuchTransition.
HasTransition(current, new) ==
  \E tr \in Transitions : tr.from = current /\ tr.to = new
=============================================================================
