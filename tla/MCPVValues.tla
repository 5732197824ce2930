----------------------------- MODULE MCPVValues -----------------------------
(* One PV of each class: variables in and out, delegates in and out, one     *)
(* without an initial value, an action and the state of a machine; the       *)
(* delegate inputs and the action are those of the examples.                 *)
EXTENDS ExampleDrivers, TLC

CONSTANTS vin, vout, temp, pini, dout, bare, act, mach, c1, c2, d1

Classes == vin :> "variableIn" @@ vout :> "variableOut" @@ temp :> "delegateIn" @@
           pini :> "delegateIn" @@ dout :> "delegateOut" @@ bare :> "delegateOut" @@
           act :> "action" @@ mach :> "machine"

KindOf == [p \in PVs |-> Classes[p]]

\* The texts of vin and vout may be asked for as bytes.
TypeOf  == [p \in PVs |-> CASE p \in {vin, vout}  -> "string"
                            [] p \in {temp, pini} -> "float64"
                            [] OTHER              -> "int32"]
AskedOf == [p \in PVs |-> CASE p = vin  -> {"int8Array", "uint8Array", "string"}
                            [] p = vout -> {"string", "uint8Array"}
                            [] p = bare -> {"int32", "float64"}
                            [] OTHER    -> {TypeOf[p]}]
ScansOf == [p \in PVs |-> CASE p = vin  -> ScanTypes
                            [] p \in Own -> {}
                            [] OTHER    -> {"passive"}]
=============================================================================
