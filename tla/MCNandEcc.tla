----------------------------- MODULE MCNandEcc -----------------------------
(* Every difference of at most two wrong bits out of a sample of data bits *)
(* (the ends of the block, bits around the byte-swapped nibble) and all 32 *)
(* bits of the ECC word.                                                   *)
EXTENDS NandEcc

SampleBits == {{}, {0}, {7}, {8}, {11}, {0, 7, 8}, 0 .. 7, 8 .. 11, 0 .. 11}

AtMostTwo(S) == {{}} \cup {{a, b} : a \in S, b \in S}
AtMostOne(S) == {{}} \cup {{a} : a \in S}

MCDamages ==
    {[data |-> D, ecc |-> {}] : D \in AtMostTwo(SampleBits)}
    \cup {[data |-> D, ecc |-> E] : D \in AtMostOne(SampleBits), E \in AtMostOne(Word)}
    \cup {[data |-> {}, ecc |-> E] : E \in AtMostTwo(Word)}

MCOthers == {[data |-> {}, ecc |-> {}], [data |-> {{0, 7, 8}}, ecc |-> {}],
             [data |-> {}, ecc |-> {5}]}
=============================================================================
