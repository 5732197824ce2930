----------------------------- MODULE PVValues -----------------------------
(***************************************************************************)
(* What the control system reads from a PV and writes to it, and what the  *)
(* device reads back: the overloads of read and write that the classes of  *)
(* PVs have, the value and the timestamp that variables keep under         *)
(* m_pvMutex, the delegates, and the attributes by which the control       *)
(* system decides when to read.                                            *)
(*                                                                         *)
(* A value is the number of the store it comes from: the value and the     *)
(* timestamp of one store have the same number, 0 those that the           *)
(* constructor set.  Fan-outs are PVPush's, registers PVRegistry's.        *)
(***************************************************************************)
EXTENDS Naturals, PVTypes

CONSTANTS
  PVs, Devices,  \* the PVs, the threads of the device
  Systems,       \* the threads of the control system
  Kind,          \* Kind[p]: the class of p
  Type,          \* Type[p]: getDataType of p
  Initialized,   \* delegate outputs and actions that were given an initValueFunction
  Asked,         \* Asked[p]: types with which the control system reads and writes p
  Scans,         \* Scans[p]: the scan types that the device may choose for p
  MaxStores,     \* bound: values stored in one PV
  Unset,         \* memory that nobody has written
  Nobody

VARIABLES
  value,         \* m_value
  stamp,         \* m_timestamp
  mutex,         \* the holder of m_pvMutex
  attributes,    \* m_scanType and m_bProcessAtInit
  started,       \* whether the device has been initialized
  call,          \* call[c]: what thread c is doing
  stores, done,  \* stores begun and finished in each PV
  ended          \* whether the process was terminated

vars == <<value, stamp, mutex, attributes, started, call, stores, done, ended>>

Threads   == Devices \cup Systems
Kinds     == {"variableIn", "variableOut", "delegateIn", "delegateOut", "action", "machine"}
InputsOf  == { p \in PVs : Kind[p] \in {"variableIn", "delegateIn", "machine"} }
Stored    == { p \in PVs : Kind[p] \in {"variableIn", "variableOut", "machine"} }
ScanTypes == {"periodic", "passive", "interrupt"}

ASSUME PVsAssumption ==
  /\ Devices \cap Systems = {} /\ Nobody \notin Threads
  /\ Kind \in [PVs -> Kinds] /\ Type \in [PVs -> DataTypes]
  /\ Asked \in [PVs -> SUBSET DataTypes] /\ Scans \in [PVs -> SUBSET ScanTypes]
  /\ Initialized \subseteq { p \in PVs : Kind[p] \in {"delegateOut", "action"} }
  /\ \A p \in PVs : Kind[p] \in {"action", "machine"} => Type[p] = "int32"
  /\ MaxStores \in Nat /\ Unset \notin Nat

-----------------------------------------------------------------------------
(* The constructors.                                                        *)

\* An output is read at the start if there is a function to ask, and so is an
\* action.
OutputAtInit(p) == Kind[p] = "delegateOut" /\ p \in Initialized
ActionAtInit(p) == Kind[p] = "action" /\ p \in Initialized

ProcessAtInit(p) == OutputAtInit(p) \/ ActionAtInit(p) \/ Kind[p] = "machine"

\* A state machine's timestamp is set by initialize only.
FirstStamp(p) == IF Kind[p] = "machine" THEN Unset ELSE 0

Idle == [pv |-> Nobody, op |-> "none", at |-> "idle", seen |-> Unset, when |-> Unset, since |-> 0]

Init ==
  /\ value   = [p \in PVs |-> 0]
  /\ stamp   = [p \in PVs |-> FirstStamp(p)]
  /\ mutex   = [p \in PVs |-> Nobody]
  /\ attributes = [p \in PVs |-> [scan |-> "passive", atInit |-> ProcessAtInit(p)]]
  /\ started = FALSE
  /\ call    = [c \in Threads |-> Idle]
  /\ stores  = [p \in PVs |-> 0]
  /\ done    = [p \in PVs |-> 0]
  /\ ended   = FALSE

\* What read gives when it gets to p's own function: a variable its fields, a
\* delegate what it fills in, a PV without an initialization function nothing.
Filled(p) == IF p \in InputsOf \/ p \in Initialized THEN 0 ELSE Unset

\* setScanType and processAtInit.  A driver is taken not to ask for the initial
\* value of a PV that has none.
SetAttributes(p, s, b) ==
  /\ ~started /\ ~ended
  /\ b => p \in Stored \/ Filled(p) # Unset
  /\ attributes' = [attributes EXCEPT ![p] = [scan |-> s, atInit |-> b]]
  /\ UNCHANGED <<value, stamp, mutex, started, call, stores, done, ended>>

\* registrationTerminated: the control system goes over to its scans.
Started ==
  /\ ~started /\ ~ended /\ \A c \in Systems : call[c] = Idle
  /\ started' = TRUE
  /\ UNCHANGED <<value, stamp, mutex, attributes, call, stores, done, ended>>

\* When the control system reads p, by p's attributes: at the start if it has been
\* asked to, later the inputs that do not push.
MayRead(p) ==
  IF started THEN p \in InputsOf /\ attributes[p].scan # "interrupt"
             ELSE attributes[p].atInit

-----------------------------------------------------------------------------
(* Which function a call gets to.                                           *)

\* read with type t, on input and on output PVs: the overloads are the same ones
\* as those of PVBaseOutImpl::write.
InputServes(p, t)  == Reaches(Type[p], t)
OutputServes(p, t) == Reaches(Type[p], t)
Serves(p, t) == IF p \in InputsOf THEN InputServes(p, t) ELSE OutputServes(p, t)

\* write with type t: no input overrides PVBaseImpl::write.
Takes(p, t) == p \notin InputsOf /\ Reaches(Type[p], t)

Free(c) == call[c] = Idle /\ ~ended

Frame(p, op) ==
  [pv |-> p, op |-> op, seen |-> Unset, when |-> Unset, since |-> done[p],
   at |-> IF p \in Stored THEN op ELSE "delegate"]

Begin(c, p, op, served) ==
  /\ Free(c)
  /\ IF served
     THEN call' = [call EXCEPT ![c] = Frame(p, op)] /\ UNCHANGED ended
     ELSE ended' = TRUE /\ UNCHANGED call
  /\ UNCHANGED <<value, stamp, mutex, attributes, started, stores, done>>

CallRead(c, p, t)  == MayRead(p) /\ t \in Asked[p] /\ Begin(c, p, "load", Serves(p, t))
CallWrite(c, p, t) == /\ started /\ t \in Asked[p] /\ p \notin InputsOf
                      /\ stores[p] < MaxStores
                      /\ Begin(c, p, "store", Takes(p, t))

\* The device's own calls need no conversion.
CallSetValue(c, p) == Kind[p] \in {"variableIn", "machine"} /\ stores[p] < MaxStores /\ Begin(c, p, "store", TRUE)
CallGetValue(c, p) == Kind[p] = "variableOut" /\ Begin(c, p, "load", TRUE)

-----------------------------------------------------------------------------
(* The functions.  A first step takes m_pvMutex and stores or copies the    *)
(* value, a second one the timestamp.                                       *)

At(c, l) == call[c].at = l /\ ~ended
PV(c)    == call[c].pv

StoreValue(c) ==
  /\ At(c, "store") /\ mutex[PV(c)] = Nobody /\ stores[PV(c)] < MaxStores
  /\ mutex'  = [mutex EXCEPT ![PV(c)] = c]
  /\ stores' = [stores EXCEPT ![PV(c)] = @ + 1]
  /\ value'  = [value EXCEPT ![PV(c)] = stores'[PV(c)]]
  /\ call'   = [call EXCEPT ![c].at = "store stamp"]
  /\ UNCHANGED <<stamp, attributes, started, done, ended>>

StoreStamp(c) ==
  /\ At(c, "store stamp")
  /\ stamp' = [stamp EXCEPT ![PV(c)] = stores[PV(c)]]
  /\ done'  = [done EXCEPT ![PV(c)] = stores[PV(c)]]
  /\ mutex' = [mutex EXCEPT ![PV(c)] = Nobody]
  /\ call'  = [call EXCEPT ![c] = Idle]
  /\ UNCHANGED <<value, attributes, started, stores, ended>>

\* Mutant of LoadValue: each of the two fields is copied under a lock of its own.
Mut_LoadUnlocked(c) ==
  /\ At(c, "load") /\ mutex[PV(c)] = Nobody
  /\ call'  = [call EXCEPT ![c].at = "load stamp", ![c].seen = value[PV(c)]]
  /\ UNCHANGED <<mutex, value, stamp, attributes, started, stores, done, ended>>

LoadValue(c) ==
  /\ At(c, "load") /\ mutex[PV(c)] = Nobody
  /\ mutex' = [mutex EXCEPT ![PV(c)] = c]
  /\ call'  = [call EXCEPT ![c].at = "load stamp", ![c].seen = value[PV(c)]]
  /\ UNCHANGED <<value, stamp, attributes, started, stores, done, ended>>

LoadStamp(c) ==
  /\ At(c, "load stamp")
  /\ mutex' = [mutex EXCEPT ![PV(c)] = Nobody]
  /\ call'  = [call EXCEPT ![c].at = "return", ![c].when = stamp[PV(c)]]
  /\ UNCHANGED <<value, stamp, attributes, started, stores, done, ended>>

\* A function of the device fills in the value, and the timestamp if it takes the
\* trouble.
FillIn(c, v, ts) ==
  /\ At(c, "delegate") /\ call[c].op = "load"
  /\ call' = [call EXCEPT ![c].at = "return", ![c].seen = v, ![c].when = ts]
  /\ UNCHANGED <<value, stamp, mutex, attributes, started, stores, done, ended>>

DelegateReads(c) == FillIn(c, Filled(PV(c)), Filled(PV(c)))

DelegateWrites(c) ==
  /\ At(c, "delegate") /\ call[c].op = "store"
  /\ call' = [call EXCEPT ![c] = Idle]
  /\ UNCHANGED <<value, stamp, mutex, attributes, started, stores, done, ended>>

\* The function of an action gives an answer: "if(m_pAcknowledgePV)", a pointer
\* that nothing sets.  It is null by chance, or the process ends.
SetValueBack(c) ==
  /\ At(c, "delegate") /\ call[c].op = "store" /\ Kind[PV(c)] = "action"
  /\ call' = [call EXCEPT ![c] = Idle]
  /\ ended' \in BOOLEAN
  /\ UNCHANGED <<value, stamp, mutex, attributes, started, stores, done>>

Return(c) ==
  /\ At(c, "return")
  /\ call' = [call EXCEPT ![c] = Idle]
  /\ UNCHANGED <<value, stamp, mutex, attributes, started, stores, done, ended>>

Terminated == ended /\ UNCHANGED vars

\* Everything but the functions of the device.
Library ==
  \/ \E p \in PVs : \E s \in Scans[p], b \in BOOLEAN : SetAttributes(p, s, b)
  \/ Started
  \/ \E c \in Systems, p \in PVs : \E t \in DataTypes : CallRead(c, p, t) \/ CallWrite(c, p, t)
  \/ \E c \in Devices, p \in PVs : CallSetValue(c, p) \/ CallGetValue(c, p)
  \/ \E c \in Threads :
       StoreValue(c) \/ StoreStamp(c) \/ LoadValue(c) \/ LoadStamp(c) \/ Return(c)
  \/ Terminated

Next == Library \/ \E c \in Threads : DelegateReads(c) \/ DelegateWrites(c)

Spec == Init /\ [][Next]_vars

-----------------------------------------------------------------------------
(* Properties                                                               *)

\* What a read returns was written, and of a PV that keeps its value, the value and
\* the timestamp come from one store, the last one finished when the read began or
\* a later one: nobody gets half of a store, an old value after a newer one, or
\* memory that was never written.
ReadsAreCurrent ==
  \A c \in Threads : call[c].at = "return" =>
    /\ call[c].seen # Unset
    /\ PV(c) \in Stored =>
         call[c].when = call[c].seen /\ call[c].seen \in call[c].since .. stores[PV(c)]

\* "The read function will receive two pointers to the timestamp and value that the
\* function will have to fill with proper data" (pvDelegateIn.h:64-65).
DelegatesFill ==
  \A c \in Threads : call[c].at = "return" => call[c].seen # Unset /\ call[c].when # Unset
=============================================================================
