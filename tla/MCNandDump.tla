---------------------------- MODULE MCNandDump ----------------------------
(* Instances of NandDump for TLC: two iterations of two pages, page 1 with *)
(* a flipped bit, page 2 beyond repair.                                    *)
EXTENDS NandDump
=============================================================================
