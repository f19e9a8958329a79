------------------------------- MODULE MCShell -------------------------------
(* Values on both sides of the edges the shell's formatting has: a         *)
(* coordinate between -1 and 0 degrees, a negative temperature above and   *)
(* below -1 degree, a voltage with a leading zero in its millivolts, a     *)
(* frequency that is not whole kHz; a three-byte usb_buffer.               *)
EXTENDS Shell

MCLats == {-123456789, -5000000, 5000000}
MCTemps == {-150, -5, 2150}
MCVbats == {1005, 4200}
MCFreqs == {144800000, 144005500}
=============================================================================
