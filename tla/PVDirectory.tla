---------------------------- MODULE PVDirectory ----------------------------
(***************************************************************************)
(* What the factory's register of PVs promises, as if every call took      *)
(* effect at one moment: which PV each name stands for, and which input    *)
(* PVs feed which others.  PVRegistry is shown to implement it.            *)
(***************************************************************************)
CONSTANTS PVs, Names, Name, NoPV

VARIABLES
  registry,   \* registry[n]: the PV registered as n, or NoPV
  feeds       \* the pairs <<source, target>> between registered PVs

directoryVars == <<registry, feeds>>

Registered(p) == registry[Name[p]] = p

Init ==
  /\ registry = [n \in Names |-> NoPV]
  /\ feeds = {}

\* A name is given once.
Register(p) ==
  /\ registry[Name[p]] = NoPV
  /\ registry' = [registry EXCEPT ![Name[p]] = p]
  /\ UNCHANGED feeds

\* Only registered PVs are linked.
Feed(i, p) ==
  /\ Registered(i) /\ Registered(p)
  /\ feeds' = feeds \cup {<<i, p>>}
  /\ UNCHANGED registry

\* unsubscribe and stopReplicationTo end all the links to a PV.
Starve(p) ==
  /\ feeds' = { l \in feeds : l[2] # p }
  /\ UNCHANGED registry

\* A deregistered PV neither feeds nor is fed.
Deregister(p) ==
  /\ Registered(p)
  /\ registry' = [registry EXCEPT ![Name[p]] = NoPV]
  /\ feeds' = { l \in feeds : p \notin {l[1], l[2]} }

Next ==
  \E p \in PVs :
    \/ Register(p) \/ Starve(p) \/ Deregister(p)
    \/ \E i \in PVs : Feed(i, p)

Spec == Init /\ [][Next]_directoryVars
=============================================================================
