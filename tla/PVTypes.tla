------------------------------ MODULE PVTypes ------------------------------
(***************************************************************************)
(* The data types of PVs and what becomes of a write with another type:    *)
(* every output PV overrides write of its own type, and PVBaseOutImpl      *)
(* decides about the rest.  Arrays of bytes are passed on byte by byte, so *)
(* a value is the same in all the types it may go through.                 *)
(***************************************************************************)

DataTypes == {"int32", "float64", "int8Array", "uint8Array", "int32Array", "float64Array", "string"}

\* What the write of a type tries next; "none" is a "throw" without an
\* exception, which ends the process.
WriteInstead == [ t \in DataTypes |->
  CASE t = "int8Array"  -> "uint8Array"
    [] t = "uint8Array" -> "string"
    [] OTHER            -> "none" ]

\* A write of type t gets to the own function of an output PV, at most two types on.
Reaches(own, t) ==
  \/ t = own
  \/ WriteInstead[t] # "none" /\ own \in {WriteInstead[t], WriteInstead[WriteInstead[t]]}
=============================================================================
