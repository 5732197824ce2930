--------------------------- MODULE MCNodeLifecycle ---------------------------
(* Three roots.  devA is a port with a channel, a state machine and a second *)
(* port below; devB, a second port of the same name, has a PV with the name  *)
(* of one of devA's; devC wants the channel of devA for itself.  In the last *)
(* tree there is no port.                                                    *)
EXTENDS NodeLifecycle, TLC

CONSTANTS devA, devB, devC, chan, data, sub, level, sm, getState, spare, offset, aux, t1, t2

MCComponents == {devA, devB, devC, chan, data, sub, level, sm, getState, spare, offset, aux}

MCKind ==
  devA :> "port" @@ devB :> "port" @@ devC :> "port" @@ sub :> "port" @@
  chan :> "node" @@ sm :> "machine" @@
  data :> "input" @@ getState :> "input" @@ spare :> "input" @@ aux :> "input" @@
  level :> "output" @@ offset :> "output"

MCLabel ==
  devA :> "dev" @@ devB :> "dev" @@ devC :> "devC" @@ chan :> "CH" @@
  data :> "data" @@ sub :> "sub" @@ level :> "level" @@ sm :> "StateMachine" @@
  getState :> "getState" @@ spare :> "offset" @@ aux :> "AUX" @@ offset :> "offset"

MCChildren ==
  devA :> <<chan, sm, offset, sub>> @@ devB :> <<spare>> @@ devC :> <<aux, chan>> @@
  chan :> <<data>> @@ sub :> <<level>> @@ sm :> <<getState>> @@
  data :> <<>> @@ getState :> <<>> @@ spare :> <<>> @@ level :> <<>> @@ aux :> <<>> @@ offset :> <<>>

NoPortKind == [MCKind EXCEPT ![devB] = "node"]
=============================================================================
