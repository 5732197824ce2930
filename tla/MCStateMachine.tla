--------------------------- MODULE MCStateMachine ---------------------------
(* Values of the constants of StateMachine for model checking.              *)
EXTENDS StateMachine, TLC

CONSTANTS a, b, c1, c2

OneMachine  == {a}
TwoMachines == {a, b}
TwoCallers  == {c1, c2}
Nobody      == {}

\* The states a client may ask for, fault included, and an intermediate one,
\* which the setState PV accepts like any other integer.
SettableStates == {"off", "on", "running"}
AllRequests    == SettableStates \cup {"fault", "starting"}

NoException   == {"ok"}
RuntimeErrors == {"ok", "rollback", "error"}
AnyException  == Outcome
=============================================================================
