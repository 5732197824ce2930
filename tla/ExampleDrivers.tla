--------------------------- MODULE ExampleDrivers ---------------------------
(***************************************************************************)
(* The devices of doc/examples/thermometer and doc/examples/rpcSquare: the *)
(* functions that they give to PVs of PVValues, beside PVs of other        *)
(* devices.  None of the three that are read fills in the timestamp.       *)
(***************************************************************************)
EXTENDS PVValues

CONSTANTS
  Temperature, TemperaturePINI,  \* the thermometer's PVs
  Square                         \* the PV of rpcSquare

Own == {Temperature, TemperaturePINI, Square}

\* An action with a function for its initial value.
RPCSquare == Kind[Square] = "action" /\ Square \in Initialized

ASSUME DriversAssumption ==
  /\ Own \subseteq PVs /\ RPCSquare
  /\ Kind[Temperature] = "delegateIn" /\ Kind[TemperaturePINI] = "delegateIn"
  /\ \A p \in Own : Scans[p] = {}

\* The constructor of the thermometer: one temperature is read at the start.
Thermometer ==
  /\ ~attributes[TemperaturePINI].atInit
  /\ SetAttributes(TemperaturePINI, "passive", TRUE)

GetTemperature(c) == PV(c) = Temperature /\ FillIn(c, 0, Unset)
GetTempRandom(c)  == PV(c) = TemperaturePINI /\ FillIn(c, 0, Unset)
InitSquare(c)     == PV(c) = Square /\ FillIn(c, 0, Unset)

\* The square is handed back.
SquareIt(c) == PV(c) = Square /\ SetValueBack(c)

DriversNext ==
  \/ Library
  \/ Thermometer
  \/ \E c \in Threads :
       \/ GetTemperature(c) \/ GetTempRandom(c) \/ InitSquare(c) \/ SquareIt(c)
       \/ PV(c) \notin Own /\ (DelegateReads(c) \/ DelegateWrites(c))

DriversSpec == Init /\ [][DriversNext]_vars
=============================================================================
