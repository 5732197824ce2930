--------------------------- MODULE MCGlobalState ---------------------------
(* A port without a state machine over two channels.  In the tree a channel *)
(* with a machine has a group with another one below it; in the flat tree   *)
(* the second machine is in a group below a channel that has none.          *)
EXTENDS GlobalState, TLC

CONSTANTS port, ch0, ch1, grp, r1

TreeNodes    == {port, ch0, ch1, grp}
TreeChildren == port :> <<ch0, ch1>> @@ ch0 :> <<grp>> @@ ch1 :> <<>> @@ grp :> <<>>
TreeOwners   == {ch0, ch1, grp}

FlatChildren == port :> <<ch0, ch1>> @@ ch0 :> <<>> @@ ch1 :> <<grp>> @@ grp :> <<>>
FlatOwners   == {ch0, grp}

\* The loops over the other tree, given anything that its machines may hold.
Nested == INSTANCE GlobalState WITH Children <- TreeChildren, Owners <- TreeOwners

NestedSamples == [state : State \ {"unknown"}, stamp : 0..MaxClock]

NestedIsHighest ==
  \A held \in [TreeOwners -> NestedSamples] :
    LET global == Nested!GlobalOf(held)
    IN \A n \in TreeNodes :
         /\ \E m \in Nested!Below[n] : global[n] = held[m]
         /\ \A m \in Nested!Below[n] : ~Above(held[m], global[n])

\* getGlobalState gives the highest state below a node, and the latest of the
\* highest ones: for the machines that move and for the nested ones at rest.
HighestInEveryTree == GlobalIsHighest /\ NestedIsHighest
=============================================================================
