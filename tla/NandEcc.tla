------------------------------- MODULE NandEcc -------------------------------
(***************************************************************************)
(* nand_correct: the four 512-byte sub-blocks of a page, each with a       *)
(* 32-bit ECC word.  A word is the set of its one bits; the number of a    *)
(* data bit (0 .. 4095) is the set of its one bits, a subset of 0 .. 11.   *)
(* The page is kept as its difference to what was programmed: the set of   *)
(* wrong data bits and the set of wrong ECC bits of each sub-block, so the *)
(* syndrome ecc_read ^ ecc_calc is a function of that difference.          *)
(***************************************************************************)
EXTENDS Integers, FiniteSets

CONSTANTS
    Damages,   \* the differences one sub-block may show, [data, ecc] records
    Others     \* the differences the other three may show

Index == 0 .. 11                  \* bits of a data bit number
Word  == 0 .. 31                  \* bits of an ECC word
Blocks == 0 .. 3

Xor(A, B) == (A \ B) \cup (B \ A)

Differences == [data : SUBSET SUBSET Index, ecc : SUBSET Word]

ASSUME DamageAssumption == Damages \cup Others \subseteq Differences

(* External: the hardware's code as nand_correct decodes it.  For every    *)
(* bit j of the bit number there is one parity over the data bits whose    *)
(* number has bit j set (the odd half) and one over the others (the even   *)
(* half); the halves are stored byte-swapped, bits 4-7 and 20-23 unused.   *)
OddAt(j)  == IF j < 8 THEN j + 8 ELSE j - 8
EvenAt(j) == IF j < 8 THEN j + 24 ELSE j + 8
Column(p) == {OddAt(j) : j \in p} \cup {EvenAt(j) : j \in Index \ p}

(* *ecc_read ^ *ecc_calc                                                   *)
Syndrome(d) ==
    Xor(d.ecc, {b \in Word : Cardinality({p \in d.data : b \in Column(p)}) % 2 = 1})

(* !((syndrome-1) & syndrome)                                              *)
PowerOfTwo(s) == \E b \in Word : s = {b}

(* (syndrome >> 24) | ((syndrome >> 8) & 0xf00)                            *)
Even(s) == {j \in 0 .. 7 : j + 24 \in s} \cup {j \in 8 .. 11 : j + 8 \in s}

HighNibbleLost(s) == {j \in 0 .. 7 : j + 8 \in s}

(* ((syndrome << 8) & 0xf00) | ((syndrome >> 8) & 0x0ff)                   *)
Odd(s) == {j \in 8 .. 11 : j - 8 \in s} \cup {j \in 0 .. 7 : j + 8 \in s}

TrustsOdd(s) ==
    IF s = {} THEN "ok" ELSE IF PowerOfTwo(s) THEN "ecc" ELSE "data"

(* What nand_correct decides about a sub-block with syndrome s.            *)
Verdict(s) ==
    IF s = {} THEN "ok"
    ELSE IF PowerOfTwo(s) THEN "ecc"
    ELSE IF Xor(Even(s), Odd(s)) # Index THEN "uncorrectable"
    ELSE "data"

VARIABLES
    i,              \* the sub-block the loop is at
    blank,          \* sub-blocks whose ecc_read is 0xFFFFFFFF (unformatted)
    before,         \* the differences when nand_correct was called
    now,            \* the differences at present
    uncorrectable, corrected,   \* the two counters
    result          \* NAND_ECC_*, or "none" before the return

vars == <<i, blank, before, now, uncorrectable, corrected, result>>

TypeOK ==
    /\ i \in 0 .. 4 /\ blank \subseteq Blocks
    /\ now \in [Blocks -> Differences] /\ before \in [Blocks -> Differences]
    /\ uncorrectable \in 0 .. i /\ corrected \in 0 .. i - uncorrectable
    /\ result \in {"none", "OK", "CORRECTED", "UNCORRECTABLE"}

Init ==
    /\ i = 0 /\ blank \in {{}, {1}}
    /\ \E b \in Blocks : \E d \in Damages : \E e \in Others :
           before = [c \in Blocks |-> IF c = b THEN d ELSE e]
    /\ now = before
    /\ uncorrectable = 0 /\ corrected = 0 /\ result = "none"

ForgetsPrevious ==
    /\ i < 4 /\ i' = i + 1
    /\ LET s == Syndrome(now[i])
           v == IF i \in blank THEN "ok" ELSE Verdict(s)
       IN /\ corrected' = IF v \in {"ecc", "data"} THEN corrected + 1 ELSE corrected
          /\ uncorrectable' = IF v = "uncorrectable" THEN 1 ELSE 0
          /\ now' = IF v = "data"
                    THEN [now EXCEPT ![i].data = Xor(@, {Odd(s)})]
                    ELSE now
    /\ UNCHANGED <<blank, before, result>>

(* One pass of the loop: dp, ecc_read and ecc_calc move on together.       *)
CorrectBlock ==
    /\ i < 4 /\ i' = i + 1
    /\ LET s == Syndrome(now[i])
           v == IF i \in blank THEN "ok" ELSE Verdict(s)
       IN /\ corrected' = IF v \in {"ecc", "data"} THEN corrected + 1 ELSE corrected
          /\ uncorrectable' = IF v = "uncorrectable" THEN uncorrectable + 1
                                                      ELSE uncorrectable
          /\ now' = IF v = "data"      \* dp[odd >> 3] ^= 1 << (odd & 7)
                    THEN [now EXCEPT ![i].data = Xor(@, {Odd(s)})]
                    ELSE now
    /\ UNCHANGED <<blank, before, result>>

Return ==
    /\ i = 4 /\ result = "none"
    /\ result' = IF uncorrectable > 0 THEN "UNCORRECTABLE"
                 ELSE IF corrected > 0 THEN "CORRECTED" ELSE "OK"
    /\ UNCHANGED <<i, blank, before, now, uncorrectable, corrected>>

Next == CorrectBlock \/ Return

Spec == Init /\ [][Next]_vars
-----------------------------------------------------------------------------
Wrong(d) == Cardinality(d.data) + Cardinality(d.ecc)

(* A sub-block with a single wrong bit, in the data or in the ECC word,    *)
(* leaves the loop with intact data.                                       *)
SingleErrorRepaired ==
    \A b \in Blocks \ blank : b < i /\ Wrong(before[b]) <= 1 => now[b].data = {}

(* With two wrong bits the loop never flips a good data bit: what is still *)
(* wrong afterwards was wrong before.  An unformatted sub-block (ECC word  *)
(* all ones) is left alone whatever it holds.                              *)
NoMiscorrection ==
    \A b \in Blocks :
        /\ Wrong(before[b]) <= 2 => now[b].data \subseteq before[b].data
        /\ b \in blank => now[b] = before[b]

(* The caller is told: NAND_ECC_OK or NAND_ECC_CORRECTED is returned only  *)
(* for a page whose formatted sub-blocks are all intact.                   *)
ResultHonest ==
    result \in {"OK", "CORRECTED"} => \A b \in Blocks \ blank : now[b].data = {}

=============================================================================
