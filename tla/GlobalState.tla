---------------------------- MODULE GlobalState ----------------------------
(***************************************************************************)
(* The global state of a tree of nodes: StateMachineImpl::getGlobalState   *)
(* and NodeImpl::getGlobalState / getChildrenState, read while the state   *)
(* machines of the tree move.                                              *)
(*                                                                         *)
(* The machines follow TransitionProtocol, which StateMachine is shown to  *)
(* implement, without the delegate's part of it: every change of a state,  *)
(* its timestamp and its push happen under one acquisition of the state    *)
(* mutex and are one step here.  A read that holds the mutex from start to *)
(* end is one step as well; a read that starts at a node without a state   *)
(* machine holds it only while it is inside a machine below, and takes one *)
(* step per machine it asks.  The tree has been initialized: every machine *)
(* starts in off.                                                          *)
(***************************************************************************)
EXTENDS States, Sequences, SequencesExt

CONSTANTS
  Nodes,         \* the nodes of the tree, state machine nodes and PVs apart
  Children,      \* Children[n]: the children of n in the order of their names
  Owners,        \* the nodes that own a state machine, which is named by them
  Readers,       \* threads that call NodeImpl::getGlobalState
  MaxClock,      \* bound: the latest timestamp
  MaxReads,      \* bound: reads one reader makes
  Consistency,   \* whether the history that ReadIsConsistent needs is kept
  NoTransition, NoNode

VARIABLES
  local,     \* local[m]: m_localState of the machine of node m
  stamp,     \* stamp[m]: m_stateTimestamp
  transit,   \* transit[m]: the row of the transition under way, or NoTransition
  reading,   \* reading[r]: the read under way
  reads      \* reads[r]: reads r has made (bounded by MaxReads)

vars == <<local, stamp, transit, reading, reads>>

machineVars == <<local, stamp, transit>>

-----------------------------------------------------------------------------
(* The fold.                                                                *)

\* A state with the time it was entered.
Sample(s, ts) == [state |-> s, stamp |-> ts]

\* "(int)*pState < (int)childState || equal and the timestamp is older"
Above(x, y) ==
  \/ Priority[x.state] > Priority[y.state]
  \/ x.state = y.state /\ x.stamp > y.stamp

\* Mutant of Highest: the timestamp decides before the priority.
Mut_Latest(acc, x) == IF x.stamp > acc.stamp THEN x ELSE acc

\* One iteration of the loops: the child replaces what has been collected.
Highest(acc, x) == IF Above(x, acc) THEN x ELSE acc

\* getChildrenState starts from unknown.  The timestamp that goes with it is the
\* caller's uninitialized variable and stands here as 0: it is compared only if
\* a child is unknown too, which no tree with a machine under each node is.
Nothing == Sample("unknown", 0)

\* What the machines hold: readLocalState of each.
Held == [m \in Owners |-> Sample(local[m], stamp[m])]

\* getGlobalState of every node, given what the machines hold: its own machine,
\* when it has one, and the global states of the children.
GlobalOf(held) ==
  LET global[n \in Nodes] ==
        LET below == FoldLeft(Highest, Nothing, [i \in DOMAIN Children[n] |-> global[Children[n][i]]])
        IN IF n \in Owners THEN Highest(held[n], below) ELSE below
  IN global

Global == GlobalOf(Held)

\* The nodes at which a read that starts at n takes the mutex: the first
\* machines on the way down, in the order of the traversal.
Entries[n \in Nodes] ==
  IF n \in Owners THEN <<n>>
  ELSE FlattenSeq([i \in DOMAIN Children[n] |-> Entries[Children[n][i]]])

\* The machines below n, its own included.
Below[n \in Nodes] ==
  (IF n \in Owners THEN {n} ELSE {})
    \cup UNION { Below[Children[n][i]] : i \in DOMAIN Children[n] }

\* No node is below itself: the loops would not end.
ASSUME TreeAssumption ==
  /\ Owners \subseteq Nodes
  /\ Children \in [Nodes -> Seq(Nodes)]
  /\ \A S \in SUBSET Nodes : S # {} =>
       \E n \in S : ToSet(Children[n]) \cap S = {}
  /\ \A n \in Nodes : Below[n] # {}
  /\ NoTransition \notin Transitions /\ NoNode \notin Nodes
  /\ MaxClock \in Nat /\ MaxReads \in Nat

-----------------------------------------------------------------------------
NoRead == [node |-> NoNode, todo |-> <<>>, acc |-> Nothing, global |-> Nothing, low |-> <<>>]

Init ==
  /\ local   = [m \in Owners |-> "off"]
  /\ transit = [m \in Owners |-> NoTransition]
  /\ stamp   = [m \in Owners |-> 0]
  /\ reading = [r \in Readers |-> NoRead]
  /\ reads   = [r \in Readers |-> 0]

\* History of the reads under way, brought up to date by every step of a
\* machine: the lowest the global state and each machine have been meanwhile.
Lower(x, y) == IF Above(x, y) THEN y ELSE x

Witness ==
  reading' = [r \in Readers |->
    IF reading[r].node = NoNode THEN NoRead
    ELSE [reading[r] EXCEPT
            !.global = IF Consistency THEN Lower(@, GlobalOf(Held')[reading[r].node]) ELSE @,
            !.low    = [m \in DOMAIN @ |-> Lower(@[m], Held'[m])]]]

\* getTimestamp: the delegate of the machine or of a node above it, or the real
\* time clock.  Each may have its own idea of the time.
Timestamps == 0..MaxClock

\* A machine changes state: m_stateTimestamp = getTimestamp().
Stamped(m) ==
  /\ \E t \in Timestamps : stamp' = [stamp EXCEPT ![m] = t]
  /\ Witness
  /\ UNCHANGED reads

\* setState enters a transition.
SetState(m, row) ==
  /\ transit[m] = NoTransition
  /\ local[m] = row.from
  /\ local'   = [local EXCEPT ![m] = row.via]
  /\ transit' = [transit EXCEPT ![m] = row]
  /\ Stamped(m)

\* executeTransition: success, rollback or error.
EndTransition(m) ==
  /\ transit[m] # NoTransition
  /\ \E s \in {transit[m].to, transit[m].from, "fault"} : local' = [local EXCEPT ![m] = s]
  /\ transit' = [transit EXCEPT ![m] = NoTransition]
  /\ Stamped(m)

-----------------------------------------------------------------------------
(* NodeImpl::getGlobalState of a node without a state machine.              *)

StartRead(r, n) ==
  /\ reading[r].node = NoNode /\ reads[r] < MaxReads
  /\ reading' = [reading EXCEPT ![r] =
       [node |-> n, todo |-> Entries[n], acc |-> Nothing,
        global |-> IF Consistency THEN Global[n] ELSE Nothing,
        low |-> [m \in Below[n] |-> Held[m]]]]
  /\ reads' = [reads EXCEPT ![r] = @ + 1]
  /\ UNCHANGED machineVars

\* Mutant of ReadNext: the last machine asked replaces the others.
Mut_ReadLast(r) ==
  /\ reading[r].todo # <<>>
  /\ reading' = [reading EXCEPT
       ![r].acc  = Global[Head(reading[r].todo)],
       ![r].todo = Tail(@)]
  /\ UNCHANGED <<machineVars, reads>>

\* The next machine on the way is asked, under the mutex.
ReadNext(r) ==
  /\ reading[r].todo # <<>>
  /\ reading' = [reading EXCEPT
       ![r].acc  = Highest(@, Global[Head(reading[r].todo)]),
       ![r].todo = Tail(@)]
  /\ UNCHANGED <<machineVars, reads>>

\* The read returns acc.
EndRead(r) ==
  /\ reading[r].node # NoNode /\ reading[r].todo = <<>>
  /\ reading' = [reading EXCEPT ![r] = NoRead]
  /\ UNCHANGED <<machineVars, reads>>

Next ==
  \/ \E m \in Owners :
       \/ \E row \in Transitions : SetState(m, row)
       \/ EndTransition(m)
  \/ \E r \in Readers :
       \/ \E n \in Nodes \ Owners : StartRead(r, n)
       \/ ReadNext(r) \/ EndRead(r)

Spec == Init /\ [][Next]_vars

-----------------------------------------------------------------------------
(* Properties                                                               *)

\* The state of the tree and of the reads under way is well formed.
TypeOK ==
  /\ local \in [Owners -> State \ {"unknown"}]
  /\ stamp \in [Owners -> 0..MaxClock]
  /\ transit \in [Owners -> Transitions \cup {NoTransition}]
  /\ \A r \in Readers : /\ reading[r].node \in (Nodes \ Owners) \cup {NoNode}
                        /\ reading[r].acc \in [state : State, stamp : 0..MaxClock]
  /\ reads \in [Readers -> 0..MaxReads]

\* The global state of every node is the state of one of the machines below
\* it, with that machine's timestamp, and none of them is above it in
\* (priority, timestamp): what the loops compute, for any shape of the tree.
GlobalIsHighest ==
  \A n \in Nodes :
    /\ \E m \in Below[n] : Global[n] = Held[m]
    /\ \A m \in Below[n] : ~Above(Held[m], Global[n])

\* A read reports at least the lowest state each machine had while it lasted:
\* a machine that is in fault throughout is never hidden by others that move.
NothingHidden ==
  \A r \in Readers :
    reading[r].node # NoNode /\ reading[r].todo = <<>> =>
      \A m \in Below[reading[r].node] : ~Above(reading[r].low[m], reading[r].acc)

\* The shared mutex "allows to read consistent states across the hierarchical
\* state machine" (stateMachineImpl.cpp:23): a read does not report less than the
\* global state has been at every moment of the read.
ReadIsConsistent ==
  \A r \in Readers :
    reading[r].node # NoNode /\ reading[r].todo = <<>> =>
      ~Above(reading[r].global, reading[r].acc)
=============================================================================
