------------------------------ MODULE MCPVPush ------------------------------
(* Small graphs of links between input PVs a, b, c, v and output PVs o, p, q *)
EXTENDS PVPush, TLC

CONSTANTS a, b, c, d, v, o, p, q, t1, t2

\* a replicates to c; every PV has the output o; p is a PV action with the
\* acknowledge PV d.
ChainSubscribers  == a :> {o} @@ b :> {o} @@ c :> {o, p} @@ d :> {o}
ChainDestinations == a :> {c} @@ b :> {} @@ c :> {} @@ d :> {}
ChainAcknowledges == o :> {} @@ p :> {d}

\* Both a and b replicate to c, which has two subscribers; v is a variable.
JoinSubscribers  == a :> {} @@ b :> {} @@ c :> {o, p} @@ v :> {q}
JoinDestinations == a :> {c} @@ b :> {c} @@ c :> {} @@ v :> {}

NoAcknowledges    == [x \in Outputs |-> {}]

\* All integers, or bytes that o takes as text and q does not take at all.
Integers   == [x \in Inputs \cup Outputs |-> "int32"]
Bytes      == [x \in Inputs \cup Outputs |->
                 CASE x = o -> "string" [] x = p -> "uint8Array" [] x \in Inputs -> "int8Array" [] OTHER -> "int32"]

\* Decimation factors.
ChainFactors == a :> {} @@ b :> {1, 2} @@ c :> {1, 2, 3} @@ d :> {2}
NoFactors    == [x \in Inputs |-> {}]
ZeroFactors  == [x \in Inputs |-> {0}]

\* Who calls what.
EachItsOwn == t1 :> {a} @@ t2 :> {b}
OneOnV     == t1 :> {v} @@ t2 :> {}
Nobody     == t1 :> {} @@ t2 :> {}

ASSUME Acyclic
=============================================================================
