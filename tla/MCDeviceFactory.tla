-------------------------- MODULE MCDeviceFactory --------------------------
(* Two devices, the root nodes without a device and two or three threads.   *)
EXTENDS DeviceFactory

CONSTANTS t1, t2, t3, d1, d2
=============================================================================
