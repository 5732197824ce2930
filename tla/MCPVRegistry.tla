---------------------------- MODULE MCPVRegistry ----------------------------
(* Three input PVs, two of which have the same name, and an output PV.      *)
EXTENDS PVRegistry, TLC

CONSTANTS a, twin, b, o, t1, t2, t3

Named == a :> "a" @@ twin :> "a" @@ b :> "b" @@ o :> "o"

\* b replicates to the PV named a, whichever of the two asks for it; o subscribes
\* to both names.
Asked == {<<b, a>>, <<b, twin>>, <<a, o>>, <<b, o>>}
=============================================================================
