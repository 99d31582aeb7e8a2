------------------------------ MODULE MCSdCard ------------------------------
(* Instances of SdCard for TLC: two cards of three sectors, one of them    *)
(* byte-addressed.                                                         *)
EXTENDS SdCard

MCSectors == 0 .. 2
=============================================================================
