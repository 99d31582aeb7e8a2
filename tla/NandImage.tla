----------------------------- MODULE NandImage -----------------------------
(***************************************************************************)
(* What a NAND page looks like to the dumper, and the image a dump of one  *)
(* bank must produce.  The bits of a page are abstracted to three classes: *)
(* intact, one bit flipped in a 512-byte sub-block (nand_correct repairs   *)
(* it) and damaged beyond the code (nand_correct gives up).  NandEcc has   *)
(* the arithmetic behind these three classes.                              *)
(***************************************************************************)
EXTENDS Integers, Sequences

CONSTANTS
    NAND_MAX_PAGE,        \* pages of a bank (nand.h: 0x40000)
    PAGES_PER_ITERATION,  \* pages gathered for one f_write (dump.c: 0x10)
    Banks,                \* banks _dump_slc_raw has a file name for
    NoBank,               \* value of nand.c's `initialized' before the first use
    Flipped,              \* pages with one flipped bit
    Broken                \* pages damaged beyond the ECC

ASSUME PageAssumption ==
    /\ NAND_MAX_PAGE \in Nat
    /\ PAGES_PER_ITERATION \in Nat \ {0}

ASSUME BankAssumption == NoBank \notin Banks

TOTAL_ITERATIONS == NAND_MAX_PAGE \div PAGES_PER_ITERATION

Slots == 0 .. PAGES_PER_ITERATION - 1

Content == [bank : Banks \cup {NoBank}, page : Nat,
            bits : {"intact", "flipped", "broken"}]

(* What the controller transfers for page p of bank b.                     *)
Raw(b, p) ==
    [bank |-> b, page |-> p,
     bits |-> IF p \in Broken THEN "broken"
              ELSE IF p \in Flipped THEN "flipped" ELSE "intact"]

(* The buffers before the first transfer.                                  *)
Blank == [bank |-> NoBank, page |-> 0, bits |-> "broken"]

(* nand_correct on the data d with the spare area e: a flipped bit is      *)
(* repaired when both come from the same page; a spare area of another     *)
(* page makes the syndrome, and so the `repair', meaningless.              *)
Corrected(d, e) ==
    IF d.bank = e.bank /\ d.page = e.page
    THEN IF d.bits = "flipped" THEN [d EXCEPT !.bits = "intact"] ELSE d
    ELSE [d EXCEPT !.bits = "broken"]

(* The page that slot k of iteration i holds.                              *)
PageOf(i, k) == i * PAGES_PER_ITERATION + k

(* The 2048 + 64 bytes the dump file must hold for page p of bank b: the   *)
(* corrected data and the spare area as it was read.                       *)
PageImage(b, p) == [data |-> Corrected(Raw(b, p), Raw(b, p)),
                    spare |-> Raw(b, p)]

(* The i-th block of PAGES_PER_ITERATION pages of the dump file.           *)
Batch(b, i) == [k \in Slots |-> PageImage(b, PageOf(i, k))]
=============================================================================
