------------------------------ MODULE MCUdelay ------------------------------
(* Instances of Udelay for TLC: a timer of 16 values, every start value,   *)
(* delays from the minimum to almost a whole period.                       *)
EXTENDS Udelay

MCDelays == 0 .. 7
MCGaps == {1, 3}
=============================================================================
