------------------------------ MODULE DumpSpec ------------------------------
(***************************************************************************)
(* What _dump_slc_raw promises, without NAND controller, interrupts or     *)
(* caches: the file grows batch by batch, every batch is the right one,    *)
(* and the call answers 0 only when the file is the whole corrected image. *)
(***************************************************************************)
EXTENDS NandImage

VARIABLES
    active,   \* a call has opened its file and has not returned
    bank,     \* the bank of the last call
    file,     \* the batches f_write has accepted since the file was opened
    ret       \* the value the last call returned

dumpVars == <<active, bank, file, ret>>

DumpInit == active = FALSE /\ bank = NoBank /\ file = <<>> /\ ret = 0

(* A bad bank (-2), or f_open fails (-3).                                  *)
Refuse ==
    /\ ~active
    /\ ret' \in {-2, -3}
    /\ UNCHANGED <<active, bank, file>>

Open(b) ==
    /\ ~active
    /\ active' = TRUE /\ bank' = b /\ file' = <<>>
    /\ UNCHANGED ret

Grow ==
    /\ active /\ Len(file) < TOTAL_ITERATIONS
    /\ file' = Append(file, Batch(bank, Len(file)))
    /\ UNCHANGED <<active, bank, ret>>

(* A write (-4) or the final close (-5) fails, or the image is complete.   *)
Finish ==
    /\ active
    /\ active' = FALSE
    /\ \/ ret' = -4 /\ Len(file) < TOTAL_ITERATIONS
       \/ ret' \in {-5, 0} /\ Len(file) = TOTAL_ITERATIONS
    /\ UNCHANGED <<bank, file>>

DumpNext == Refuse \/ (\E b \in Banks : Open(b)) \/ Grow \/ Finish

Spec == DumpInit /\ [][DumpNext]_dumpVars
=============================================================================
