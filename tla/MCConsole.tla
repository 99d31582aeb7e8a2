----------------------------- MODULE MCConsole -----------------------------
(* An instance of Console for TLC: every kind of reader.                   *)
EXTENDS Console

MCReaders == {"prompt", "slow", "dead", "absent"}
=============================================================================
