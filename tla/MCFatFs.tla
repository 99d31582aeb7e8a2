------------------------------ MODULE MCFatFs ------------------------------
(* Instances of FatFs for TLC: a volume of four clusters whose FAT takes   *)
(* two sectors, and an old file that is absent, or scattered over both.    *)
EXTENDS FatFs

MCOldChains == {<<>>, <<4, 2>>}
=============================================================================
