--------------------------- MODULE MCOscilloscope ---------------------------
(* Values of the constants of Oscilloscope for model checking.              *)
EXTENDS Oscilloscope, TLC

CONSTANTS c1, c2, cs

BothWaves == {SinWave, SquareWave}
Clients12 == {c1, c2, cs}
Commands  == {"off", "on", "running"}

NoException    == {"ok"}
RuntimeErrors  == {"ok", "rollback", "error"}

\* A negative decimation, which becomes 2 as an unsigned integer of 4 values.
DecimationWrite == { <<SinWave, "Decimation", -2>> }
=============================================================================
