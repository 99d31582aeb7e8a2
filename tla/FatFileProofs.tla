--------------------------- MODULE FatFileProofs ---------------------------
(***************************************************************************)
(* An open file of FatFs, for every size of a sector, a cluster, a file    *)
(* and a transfer and any number of calls and failures: the pointer's      *)
(* cluster and sector always say the same as its offset, and the window    *)
(* and the sectors that bypass it never diverge.                           *)
(***************************************************************************)
EXTENDS FatFile, SequenceTheorems, TLAPS

(* The smaller and the larger of two numbers.                              *)
LEMMA MinTwo ==
    ASSUME NEW a \in Int, NEW b \in Int
    PROVE  Min({a, b}) = IF a <= b THEN a ELSE b
<1>1. \E x \in {a, b} : \A y \in {a, b} : x =< y
  OBVIOUS
<1>2. Min({a, b}) \in {a, b} /\ \A y \in {a, b} : Min({a, b}) =< y
  BY <1>1 DEF Min
<1>3. QED
  BY <1>2

LEMMA MaxTwo ==
    ASSUME NEW a \in Int, NEW b \in Int
    PROVE  Max({a, b}) = IF a >= b THEN a ELSE b
<1>1. \E x \in {a, b} : \A y \in {a, b} : x >= y
  OBVIOUS
<1>2. Max({a, b}) \in {a, b} /\ \A y \in {a, b} : Max({a, b}) >= y
  BY <1>1 DEF Max
<1>3. QED
  BY <1>2

(* Quotient and remainder, and products with one factor in common.         *)
LEMMA DivUnique ==
    ASSUME NEW d \in Nat, d > 0, NEW q \in Nat, NEW r \in 0 .. d - 1
    PROVE  ((d * q + r) \div d) = q /\ ((d * q + r) % d) = r
OBVIOUS

LEMMA DivMod ==
    ASSUME NEW d \in Nat, d > 0, NEW n \in Nat
    PROVE  /\ n = d * (n \div d) + (n % d)
           /\ (n % d) \in 0 .. d - 1 /\ (n \div d) \in Nat
OBVIOUS

LEMMA MulMono ==
    ASSUME NEW d \in Nat, NEW a \in Int, NEW b \in Int, a <= b
    PROVE  d * a <= d * b
OBVIOUS

LEMMA MulStrict ==
    ASSUME NEW d \in Nat, d > 0, NEW a \in Int, NEW b \in Int, d * a < d * b
    PROVE  a < b
OBVIOUS

LEMMA Dist ==
    ASSUME NEW d \in Int, NEW a \in Int, NEW b \in Int
    PROVE  /\ d * (a + b) = d * a + d * b /\ d * (a - b) = d * a - d * b
           /\ d * a \in Int /\ d * b \in Int
OBVIOUS

(* The geometry of the volume.                                             *)
LEMMA Geometry ==
    /\ SS \in Nat /\ SS > 0 /\ csize \in Nat /\ csize >= 1 /\ csize <= 254
    /\ bcs \in Nat /\ bcs = SS * csize /\ bcs >= SS /\ bcs > 0
    /\ NClusters \in Nat /\ SizeLimit \in Nat
<1>1. /\ SS \in Nat /\ SS > 0 /\ csize \in Nat /\ csize >= 1 /\ csize <= 254
      /\ NClusters \in Nat /\ SizeLimit \in Nat
  BY FileAssumption
<1>2. bcs \in Nat /\ bcs = SS * csize
  BY <1>1 DEF bcs
<1>3. SS * 1 <= SS * csize
  BY <1>1, MulMono
<1>4. QED
  BY <1>1, <1>2, <1>3

(* The first k sectors of the c-th cluster end at this offset.             *)
LEMMA Span ==
    ASSUME NEW c \in Int, NEW k \in Int
    PROVE  /\ SS * ((c - 1) * csize + k) = bcs * (c - 1) + SS * k
           /\ (c - 1) * csize + k \in Int
           /\ bcs * c = bcs * (c - 1) + bcs
<1>1. SS \in Int /\ csize \in Int /\ bcs = SS * csize
  BY Geometry
<1>2. SS * ((c - 1) * csize) = (SS * csize) * (c - 1) /\ (c - 1) * csize \in Int
  BY <1>1
<1>3. SS * ((c - 1) * csize + k) = SS * ((c - 1) * csize) + SS * k
  BY <1>1, <1>2, Dist
<1>4. bcs * ((c - 1) + 1) = bcs * (c - 1) + bcs
  BY Geometry, Dist
<1>5. (c - 1) + 1 = c
  OBVIOUS
<1>6. QED
  BY <1>1, <1>2, <1>3, <1>4, <1>5

(* An offset inside or at the end of the p-th sector.                      *)
LEMMA InNthSector ==
    ASSUME NEW p \in Nat, p >= 1, NEW f \in Nat, SS * (p - 1) < f, f <= SS * p
    PROVE  /\ ((f - 1) \div SS) = p - 1
           /\ (f % SS) = IF f = SS * p THEN 0 ELSE f - SS * (p - 1)
           /\ f < SS * p => (f \div SS) = p - 1
<1>1. SS \in Nat /\ SS > 0
  BY Geometry
<1>2. SS * p = SS * (p - 1) + SS /\ SS * (p - 1) \in Int /\ p - 1 \in Nat
  <2>1. SS * (p - 1) = SS * p - SS * 1
    BY <1>1, Dist
  <2>2. QED
    BY <1>1, <2>1
<1> DEFINE r == f - SS * (p - 1)
<1>3. r \in 1 .. SS /\ f = SS * (p - 1) + r
  BY <1>1, <1>2
<1> HIDE DEF r
<1>4. ((f - 1) \div SS) = p - 1
  <2>1. r - 1 \in 0 .. SS - 1 /\ f - 1 = SS * (p - 1) + (r - 1)
    BY <1>1, <1>2, <1>3
  <2>2. QED
    BY <1>1, <1>2, <2>1, DivUnique
<1>5. CASE f = SS * p
  <2>1. (f % SS) = 0
    <3>1. f = SS * p + 0 /\ 0 \in 0 .. SS - 1
      BY <1>1, <1>5
    <3>2. QED
      BY <1>1, <3>1, DivUnique
  <2>2. QED
    BY <1>4, <1>5, <2>1
<1>6. CASE f # SS * p
  <2>1. r \in 0 .. SS - 1
    BY <1>1, <1>2, <1>3, <1>6
  <2>2. (f % SS) = r /\ (f \div SS) = p - 1
    BY <1>1, <1>2, <1>3, <2>1, DivUnique
  <2>3. QED
    BY <1>4, <1>6, <2>2 DEF r
<1>7. QED
  BY <1>5, <1>6
-----------------------------------------------------------------------------
(* The FIL object.                                                         *)
FIL == [fptr : Nat, fsize : Nat, csect : Nat, curr : Nat, dsect : Nat,
        writable : BOOLEAN, written : BOOLEAN, err : BOOLEAN]

PtrTypes ==
    /\ room \in 0 .. NClusters /\ len \in 0 .. room
    /\ fp \in FIL /\ pc \in {"idle", "read", "write", "seek"} /\ bt \in Nat

(* The chain covers the file and has the pointer's cluster.                *)
ChainInv == fp.fsize <= bcs * len /\ fp.curr <= len

(* The pointer before the first cluster, inside a sector or at its end,    *)
(* and at the beginning of a cluster that was just looked up.              *)
Pos == (fp.curr - 1) * csize + fp.csect
AtStart == fp.fptr = 0 /\ fp.csect = 255
AtPos ==
    /\ fp.curr >= 1 /\ fp.csect \in 1 .. csize
    /\ SS * (Pos - 1) < fp.fptr /\ fp.fptr <= SS * Pos
    /\ fp.fptr # SS * Pos => fp.dsect = Pos
AtFresh == fp.curr >= 1 /\ fp.csect = 0 /\ fp.fptr = SS * Pos /\ bt > 0

(* In each call the pointer is at one of these; f_lseek's walks over the   *)
(* beginnings of the clusters.                                             *)
IdleInv == pc = "idle" /\ ~fp.err => (AtStart \/ AtPos) /\ fp.fptr <= fp.fsize
TransferInv ==
    /\ pc \in {"read", "write"} => AtStart \/ AtPos \/ AtFresh
    /\ pc = "read" => fp.fptr + bt <= fp.fsize
SeekInv ==
    pc = "seek" =>
        /\ fp.csect = 255
        /\ bt = 0 => fp.fptr = 0
        /\ bt > 0 /\ fp.curr = 0 => fp.fptr = 0 /\ len = 0
        /\ bt > 0 /\ fp.curr > 0 => fp.fptr = bcs * (fp.curr - 1)
        /\ ~fp.writable => fp.fptr + bt <= fp.fsize
PtrInv ==
    /\ PtrTypes /\ ChainInv /\ IdleInv /\ TransferInv /\ SeekInv
    /\ pc # "idle" => ~fp.err

(* The sector at the pointer, between the look-up of its cluster and the   *)
(* end of that cluster.                                                    *)
LEMMA Position ==
    ASSUME PtrTypes, ChainInv, AtStart \/ AtPos \/ AtFresh, ~AtCluster
    PROVE  /\ AtPos \/ AtFresh
           /\ Here \in Sectors /\ Here \in Nat /\ Here >= 1 /\ Pos \in Nat
           /\ SS * (Here - 1) \in Int /\ SS * Here = SS * (Here - 1) + SS
           /\ (fp.fptr % SS) = fp.fptr - SS * (Here - 1) /\ (fp.fptr % SS) \in 0 .. SS - 1
           /\ AtSector => Here = Pos + 1 /\ fp.fptr = SS * Pos /\ fp.csect < csize
           /\ ~AtSector => Here = Pos /\ AtPos
<1>1. /\ SS \in Nat /\ SS > 0 /\ csize \in Nat /\ csize >= 1 /\ csize <= 254 /\ NClusters \in Nat
  BY Geometry
<1>2. /\ fp.fptr \in Nat /\ fp.csect \in Nat /\ fp.curr \in Nat /\ fp.dsect \in Nat
      /\ fp.curr <= NClusters
  BY <1>1 DEF PtrTypes, FIL, ChainInv
<1>3. AtPos \/ AtFresh
  <2> SUFFICES ASSUME AtStart PROVE FALSE
    OBVIOUS
  <2>1. (0 % SS) = 0
    BY <1>1
  <2>2. QED
    BY <1>1, <2>1 DEF AtStart, AtCluster, AtSector
<1>4. fp.curr >= 1 /\ fp.csect \in 0 .. csize /\ (AtFresh => fp.csect = 0)
  BY <1>1, <1>3 DEF AtPos, AtFresh
<1>5. (fp.curr - 1) * csize \in Nat /\ Pos \in Nat /\ Pos = (fp.curr - 1) * csize + fp.csect
  <2>1. fp.curr - 1 \in Nat
    BY <1>2, <1>4
  <2>2. (fp.curr - 1) * csize \in Nat
    BY <1>1, <2>1
  <2>3. QED
    BY <1>2, <2>2 DEF Pos
<1>6. csize * (fp.curr - 1) + csize <= csize * NClusters /\ csize * NClusters = NClusters * csize
      /\ csize * (fp.curr - 1) = (fp.curr - 1) * csize
  <2>1. csize * fp.curr <= csize * NClusters
    BY <1>1, <1>2, MulMono
  <2>2. csize * (fp.curr - 1) = csize * fp.curr - csize * 1
    BY <1>1, <1>2, Dist
  <2>3. QED
    BY <1>1, <1>2, <2>1, <2>2
<1>7. CASE AtSector
  <2>1. (fp.fptr % SS) = 0 /\ fp.csect < csize
    BY <1>1, <1>2, <1>7 DEF AtCluster, AtSector
  <2>2. fp.fptr = SS * Pos
    <3>1. CASE AtFresh
      BY <3>1 DEF AtFresh
    <3>2. CASE AtPos
      <4>1. Pos >= 1 /\ SS * (Pos - 1) < fp.fptr /\ fp.fptr <= SS * Pos
        BY <1>5, <3>2 DEF AtPos
      <4>2. fp.fptr = SS * Pos \/ fp.fptr - SS * (Pos - 1) = 0
        BY <1>2, <1>5, <2>1, <4>1, InNthSector
      <4>3. SS * (Pos - 1) \in Int
        BY <1>1, <1>5
      <4>4. QED
        BY <1>2, <4>1, <4>2, <4>3
    <3>3. QED
      BY <1>3, <3>1, <3>2
  <2>3. Here = Pos + 1
    BY <1>2, <1>5, <1>7 DEF Here, Sect
  <2>4. Here \in Sectors
    <3>1. Pos + 1 <= NClusters * csize /\ NClusters * csize \in Int
      BY <1>1, <1>2, <1>5, <1>6, <2>1
    <3>2. QED
      BY <1>5, <2>3, <3>1 DEF Sectors
  <2>5. SS * Pos \in Int /\ SS * (Pos + 1) = SS * Pos + SS /\ Here - 1 = Pos
    <3>1. SS * (Pos + 1) = SS * Pos + SS * 1 /\ SS * Pos \in Int
      BY <1>1, <1>5, Dist
    <3>2. QED
      BY <1>1, <1>5, <2>3, <3>1
  <2>6. QED
    BY <1>1, <1>3, <1>5, <1>7, <2>1, <2>2, <2>3, <2>4, <2>5
<1>8. CASE ~AtSector
  <2>1. (fp.fptr % SS) # 0
    BY <1>8 DEF AtSector
  <2>2. AtPos
    <3> SUFFICES ASSUME AtFresh PROVE FALSE
      BY <1>3
    <3>1. fp.fptr = SS * Pos + 0 /\ 0 \in 0 .. SS - 1
      BY <1>1, <1>2 DEF AtFresh
    <3>2. (fp.fptr % SS) = 0
      <4>1. PICK p \in Nat, r \in 0 .. SS - 1 : p = Pos /\ r = 0
        BY <1>5, <3>1
      <4>2. ((SS * p + r) % SS) = r
        BY <1>1, DivUnique
      <4>3. QED
        BY <3>1, <4>1, <4>2, Zenon
    <3>3. QED
      BY <2>1, <3>2
  <2>3. Pos >= 1 /\ SS * (Pos - 1) < fp.fptr /\ fp.fptr <= SS * Pos
    BY <1>5, <2>2 DEF AtPos
  <2>4. (fp.fptr % SS) = fp.fptr - SS * (Pos - 1) /\ fp.fptr # SS * Pos
    BY <1>2, <1>5, <2>1, <2>3, InNthSector
  <2>5. Here = Pos
    BY <1>8, <2>2, <2>4 DEF Here, AtPos
  <2>6. Here \in Sectors
    <3>1. Pos <= NClusters * csize /\ NClusters * csize \in Int
      BY <1>1, <1>2, <1>4, <1>5, <1>6
    <3>2. QED
      BY <1>5, <2>3, <2>5, <3>1 DEF Sectors
  <2>7. SS * (Pos - 1) \in Int /\ SS * Pos = SS * (Pos - 1) + SS
    <3>1. SS * (Pos - 1) = SS * Pos - SS * 1 /\ SS * Pos \in Int
      BY <1>1, <1>5, Dist
    <3>2. QED
      BY <1>1, <1>5, <3>1
  <2>8. (fp.fptr % SS) \in 0 .. SS - 1
    BY <1>1, <1>2, DivMod
  <2>9. QED
    BY <1>3, <1>5, <1>8, <2>2, <2>3, <2>4, <2>5, <2>6, <2>7, <2>8
<1>9. QED
  BY <1>7, <1>8

(* The end of the pointer's sector is inside its cluster.                  *)
LEMMA Reach ==
    ASSUME PtrTypes, ChainInv, AtPos
    PROVE  /\ fp.fptr <= bcs * fp.curr /\ bcs * fp.curr <= bcs * len
           /\ bcs * (fp.curr - 1) < fp.fptr /\ Pos \in Nat /\ Pos >= 1
           /\ Pos = (fp.curr - 1) * csize + fp.csect
<1>1. SS \in Nat /\ SS > 0 /\ csize \in Nat /\ bcs \in Nat /\ bcs = SS * csize
  BY Geometry
<1>2. /\ fp.fptr \in Nat /\ fp.csect \in Nat /\ fp.curr \in Nat /\ len \in Nat
      /\ fp.curr <= len /\ room \in Nat
  BY DEF PtrTypes, FIL, ChainInv
<1>3. fp.curr >= 1 /\ fp.csect >= 1 /\ fp.csect <= csize
  BY <1>1 DEF AtPos
<1>4. Pos \in Nat /\ Pos >= 1 /\ Pos = (fp.curr - 1) * csize + fp.csect
  <2>1. fp.curr - 1 \in Nat
    BY <1>2, <1>3
  <2>2. (fp.curr - 1) * csize \in Nat
    BY <1>1, <2>1
  <2>3. QED
    BY <1>2, <1>3, <2>2 DEF Pos
<1>5. SS * Pos = bcs * (fp.curr - 1) + SS * fp.csect /\ bcs * fp.curr = bcs * (fp.curr - 1) + bcs
  <2>1. fp.curr \in Int /\ fp.csect \in Int
    BY <1>2
  <2>2. QED
    BY <2>1, Span, Zenon DEF Pos
<1>6. SS * fp.csect <= bcs /\ SS * 1 <= SS * fp.csect
  BY <1>1, <1>2, <1>3, MulMono
<1>7. bcs * fp.curr <= bcs * len
  BY <1>1, <1>2, MulMono
<1>8. SS * (Pos - 1) = SS * Pos - SS * 1
  BY <1>1, <1>4, Dist
<1>9. /\ SS * Pos \in Int /\ bcs * (fp.curr - 1) \in Int /\ SS * fp.csect \in Int
      /\ bcs * fp.curr \in Int
  BY <1>1, <1>2, <1>4
<1>10. SS * (Pos - 1) < fp.fptr /\ fp.fptr <= SS * Pos
  BY DEF AtPos
<1>11. fp.fptr <= bcs * fp.curr
  BY <1>1, <1>2, <1>5, <1>6, <1>9, <1>10
<1>12. bcs * (fp.curr - 1) < fp.fptr
  BY <1>1, <1>2, <1>5, <1>6, <1>8, <1>9, <1>10
<1>13. QED
  BY <1>4, <1>7, <1>11, <1>12

(* After a part of a sector the pointer is in that sector or at its end.   *)
LEMMA PartMove ==
    ASSUME PtrTypes, ChainInv, AtStart \/ AtPos \/ AtFresh, ~AtCluster,
           bt > 0, AtSector => bt < SS,
           fp'.dsect = Here, fp'.fptr = fp.fptr + Part, fp'.curr = fp.curr,
           fp'.csect = IF AtSector THEN fp.csect + 1 ELSE fp.csect
    PROVE  AtPos' /\ Part \in 1 .. bt /\ Part <= SS - (fp.fptr % SS)
<1>1. SS \in Nat /\ SS > 0 /\ csize \in Nat
  BY Geometry
<1>2. bt \in Nat /\ fp.fptr \in Nat /\ fp.csect \in Nat /\ fp.curr \in Nat
  BY DEF PtrTypes, FIL
<1>3. /\ AtPos \/ AtFresh
      /\ Here \in Nat /\ Here >= 1 /\ Pos \in Nat
      /\ SS * (Here - 1) \in Int /\ SS * Here = SS * (Here - 1) + SS
      /\ (fp.fptr % SS) = fp.fptr - SS * (Here - 1) /\ (fp.fptr % SS) \in 0 .. SS - 1
      /\ AtSector => Here = Pos + 1 /\ fp.csect < csize
      /\ ~AtSector => Here = Pos /\ AtPos
  BY Position
<1>4. Part \in 1 .. bt /\ Part <= SS - (fp.fptr % SS)
  <2>1. SS - (fp.fptr % SS) \in Int /\ SS - (fp.fptr % SS) >= 1
    BY <1>1, <1>3
  <2>2. Part = IF SS - (fp.fptr % SS) <= bt THEN SS - (fp.fptr % SS) ELSE bt
    BY <1>2, <2>1, MinTwo DEF Part
  <2>3. QED
    BY <1>2, <2>1, <2>2
<1>5. fp'.csect \in 1 .. csize /\ fp.curr >= 1
  <2>1. CASE AtSector
    BY <1>1, <1>2, <1>3, <2>1 DEF AtPos, AtFresh
  <2>2. CASE ~AtSector
    BY <1>1, <1>2, <1>3, <2>2 DEF AtPos
  <2>3. QED
    BY <2>1, <2>2
<1>6. Pos' = Here
  <2>1. (fp.curr - 1) * csize \in Int
    BY <1>1, <1>2
  <2>2. Pos' = IF AtSector THEN Pos + 1 ELSE Pos
    BY <1>2, <2>1 DEF Pos
  <2>3. QED
    BY <1>3, <2>2
<1>7. SS * (Here - 1) < fp.fptr + Part /\ fp.fptr + Part <= SS * Here
  BY <1>1, <1>2, <1>3, <1>4
<1>8. AtPos'
  BY <1>5, <1>6, <1>7 DEF AtPos
<1>9. QED
  BY <1>4, <1>8

(* After whole sectors it is at the end of the last one.                   *)
LEMMA DirectMove ==
    ASSUME PtrTypes, ChainInv, AtStart \/ AtPos \/ AtFresh, AtSector, ~AtCluster,
           bt \div SS > 0,
           fp'.fptr = fp.fptr + Whole * SS, fp'.curr = fp.curr, fp'.csect = fp.csect + Whole
    PROVE  /\ AtPos' /\ Whole \in Nat /\ Whole >= 1 /\ Whole <= csize - fp.csect
           /\ Whole * SS \in Nat /\ Whole * SS >= 1 /\ Whole * SS <= bt
<1>1. SS \in Nat /\ SS > 0 /\ csize \in Nat
  BY Geometry
<1>2. bt \in Nat /\ fp.fptr \in Nat /\ fp.csect \in Nat /\ fp.curr \in Nat
  BY DEF PtrTypes, FIL
<1>3. Pos \in Nat /\ fp.fptr = SS * Pos /\ fp.csect < csize /\ (AtPos \/ AtFresh)
  BY Position
<1>4. (bt \div SS) \in Nat /\ bt = SS * (bt \div SS) + (bt % SS) /\ (bt % SS) \in 0 .. SS - 1
  BY <1>1, <1>2, DivMod
<1>5. Whole \in Nat /\ Whole >= 1 /\ Whole <= csize - fp.csect /\ Whole <= (bt \div SS)
  <2>1. csize - fp.csect \in Nat /\ csize - fp.csect >= 1
    BY <1>1, <1>2, <1>3
  <2>2. Whole = IF (bt \div SS) <= csize - fp.csect THEN (bt \div SS) ELSE csize - fp.csect
    BY <1>4, <2>1, MinTwo DEF Whole
  <2>3. QED
    BY <1>4, <2>1, <2>2
<1>6. Whole * SS \in Nat /\ Whole * SS >= 1 /\ Whole * SS <= bt /\ Whole * SS = SS * Whole
  <2>1. SS * Whole <= SS * (bt \div SS) /\ SS * 1 <= SS * Whole
    BY <1>1, <1>4, <1>5, MulMono
  <2>2. SS * (bt \div SS) \in Int /\ SS * Whole \in Int /\ Whole * SS = SS * Whole
    BY <1>1, <1>4, <1>5
  <2>3. QED
    BY <1>1, <1>2, <1>4, <2>1, <2>2
<1>7. Pos' = Pos + Whole
  <2>1. (fp.curr - 1) * csize \in Int
    BY <1>1, <1>2
  <2>2. QED
    BY <1>2, <1>5, <2>1 DEF Pos
<1>8. fp'.fptr = SS * (Pos + Whole) /\ SS * ((Pos + Whole) - 1) < SS * (Pos + Whole)
  <2>1. SS * (Pos + Whole) = SS * Pos + SS * Whole
    BY <1>1, <1>3, <1>5, Dist
  <2>2. SS * ((Pos + Whole) - 1) = SS * (Pos + Whole) - SS * 1 /\ SS * (Pos + Whole) \in Int
    BY <1>1, <1>3, <1>5, Dist
  <2>3. QED
    BY <1>1, <1>3, <1>6, <2>1, <2>2
<1>9. AtPos'
  <2>1. fp'.csect \in 1 .. csize /\ fp'.curr >= 1
    BY <1>1, <1>2, <1>3, <1>5 DEF AtPos, AtFresh
  <2>2. SS * (Pos + Whole) \in Int
    BY <1>1, <1>3, <1>5
  <2>3. QED
    BY <1>7, <1>8, <2>1, <2>2 DEF AtPos
<1>10. QED
  BY <1>5, <1>6, <1>9

(* At the end of a cluster.                                                *)
LEMMA ClusterEnd ==
    ASSUME PtrTypes, ChainInv, AtStart \/ AtPos \/ AtFresh, AtCluster
    PROVE  /\ AtStart \/ AtPos
           /\ fp.fptr # 0 => AtPos /\ fp.fptr = bcs * fp.curr /\ fp.curr >= 1
           /\ fp.fptr = 0 => AtStart
<1>1. SS \in Nat /\ SS > 0 /\ csize \in Nat /\ csize >= 1
  BY Geometry
<1>2. fp.fptr \in Nat /\ fp.csect \in Nat /\ fp.curr \in Nat
  BY DEF PtrTypes, FIL
<1>3. (fp.fptr % SS) = 0 /\ fp.csect >= csize
  BY DEF AtCluster, AtSector
<1>4. AtStart \/ AtPos
  BY <1>1, <1>3 DEF AtFresh
<1>5. ASSUME AtPos PROVE fp.fptr = bcs * fp.curr /\ fp.curr >= 1 /\ fp.fptr # 0
  <2>1. fp.csect = csize /\ fp.curr >= 1
    BY <1>1, <1>2, <1>3, <1>5 DEF AtPos
  <2>2. Pos \in Nat /\ Pos >= 1 /\ SS * (Pos - 1) < fp.fptr /\ fp.fptr <= SS * Pos
    BY <1>5, Reach DEF AtPos
  <2>3. fp.fptr = SS * Pos \/ fp.fptr - SS * (Pos - 1) = 0
    BY <1>2, <1>3, <2>2, InNthSector
  <2>4. SS * (Pos - 1) \in Int /\ SS * (Pos - 1) >= 0
    <3>1. Pos - 1 \in Nat
      BY <2>2
    <3>2. QED
      BY <1>1, <3>1
  <2>5. fp.fptr = SS * Pos
    BY <1>2, <2>2, <2>3, <2>4
  <2>6. SS * Pos = bcs * (fp.curr - 1) + SS * csize /\ bcs * fp.curr = bcs * (fp.curr - 1) + bcs
    <3>1. fp.curr \in Int /\ fp.csect \in Int
      BY <1>2
    <3>2. QED
      BY <2>1, <3>1, Span, Zenon DEF Pos
  <2>7. QED
    BY <1>2, <2>1, <2>2, <2>4, <2>5, <2>6, Geometry
<1>6. QED
  BY <1>4, <1>5 DEF AtStart

(* The pointer may keep its place.                                         *)
LEMMA SamePlace ==
    ASSUME fp'.fptr = fp.fptr, fp'.csect = fp.csect, fp'.curr = fp.curr, fp'.dsect = fp.dsect
    PROVE  AtStart' = AtStart /\ AtPos' = AtPos /\ Pos' = Pos
<1>1. Pos' = Pos
  BY DEF Pos
<1>2. QED
  BY <1>1 DEF AtStart, AtPos

(* A file is opened at its start.                                          *)
LEMMA PtrInit == Init => PtrInv
<1> SUFFICES ASSUME Init PROVE PtrInv
  OBVIOUS
<1>1. PICK size \in OldSizes, writable \in BOOLEAN :
        /\ len = ((size + bcs - 1) \div bcs) /\ room \in len .. NClusters
        /\ fp = [fptr |-> 0, fsize |-> size, csect |-> 255, curr |-> 0, dsect |-> 0,
                 writable |-> writable, written |-> FALSE, err |-> FALSE]
  BY DEF Init
<1>2. bcs \in Nat /\ bcs > 0 /\ NClusters \in Nat /\ SizeLimit \in Nat
  BY Geometry
<1>3. size \in Nat
  <2>1. MaxBytes \in Int /\ SizeLimit - 1 \in Int
    BY <1>2 DEF MaxBytes
  <2>2. Min({MaxBytes, SizeLimit - 1}) \in Int
    BY <2>1, MinTwo
  <2>3. QED
    BY <2>2, FileAssumption
<1>4. len \in Nat /\ size <= bcs * len
  <2>1. size + bcs - 1 \in Nat
    BY <1>2, <1>3
  <2>2. /\ size + bcs - 1 = bcs * len + ((size + bcs - 1) % bcs)
        /\ ((size + bcs - 1) % bcs) \in 0 .. bcs - 1 /\ len \in Nat
    BY <1>1, <1>2, <2>1, DivMod
  <2>3. bcs * len \in Int
    BY <1>2, <2>2
  <2>4. QED
    BY <1>2, <1>3, <2>2, <2>3
<1>5. /\ fp \in FIL /\ fp.fptr = 0 /\ fp.fsize = size /\ fp.csect = 255 /\ fp.curr = 0
  BY <1>1, <1>3 DEF FIL
<1>6. pc = "idle" /\ bt = 0
  BY DEF Init
<1>7. PtrTypes
  BY <1>1, <1>2, <1>4, <1>5, <1>6 DEF PtrTypes
<1>8. ChainInv
  BY <1>4, <1>5 DEF ChainInv
<1>9. IdleInv
  BY <1>3, <1>5 DEF IdleInv, AtStart
<1>10. TransferInv /\ SeekInv
  BY <1>6 DEF TransferInv, SeekInv
<1>11. QED
  BY <1>6, <1>7, <1>8, <1>9, <1>10 DEF PtrInv

(* Leaving a transfer: the pointer is at the start or in the chain.        *)
LEMMA WriteLeaves ==
    ASSUME PtrInv, pc = "write", AtStart \/ AtPos, fp' = Done, pc' = "idle", len' = len,
           room' = room, bt' = bt
    PROVE  PtrInv'
<1>1. PtrTypes /\ ChainInv /\ fp \in FIL /\ fp.fptr \in Nat /\ fp.fsize \in Nat
  BY DEF PtrInv, PtrTypes, FIL
<1> DEFINE m == Max({fp.fsize, fp.fptr})
<1>2. m \in Nat /\ m >= fp.fptr /\ (m = fp.fsize \/ m = fp.fptr)
  BY <1>1, MaxTwo
<1>3. fp' = [fp EXCEPT !.fsize = m, !.written = TRUE]
  BY DEF Done
<1> HIDE DEF m
<1>4. /\ fp' \in FIL /\ fp'.fptr = fp.fptr /\ fp'.fsize = m /\ fp'.csect = fp.csect
      /\ fp'.curr = fp.curr /\ fp'.dsect = fp.dsect
  BY <1>1, <1>2, <1>3 DEF FIL
<1>5. AtStart' \/ AtPos'
  BY <1>4, SamePlace
<1>6. m <= bcs * len
  <2>1. fp.fsize <= bcs * len
    BY <1>1 DEF ChainInv
  <2>2. CASE AtPos
    <3>1. fp.fptr <= bcs * fp.curr /\ bcs * fp.curr <= bcs * len
      BY <1>1, <2>2, Reach
    <3>2. bcs * fp.curr \in Int /\ bcs * len \in Int
      BY Geometry DEF PtrInv, PtrTypes, FIL
    <3>3. QED
      BY <1>1, <1>2, <2>1, <3>1, <3>2
  <2>3. CASE AtStart
    <3>1. fp.fptr = 0
      BY <2>3 DEF AtStart
    <3>2. bcs * len \in Int
      BY Geometry DEF PtrInv, PtrTypes
    <3>3. QED
      BY <1>1, <1>2, <2>1, <3>1, <3>2
  <2>4. QED
    BY <2>2, <2>3
<1>7. PtrTypes'
  BY <1>1, <1>4 DEF PtrTypes
<1>8. ChainInv'
  BY <1>1, <1>4, <1>6 DEF ChainInv
<1>9. IdleInv'
  BY <1>2, <1>4, <1>5 DEF IdleInv
<1>10. TransferInv' /\ SeekInv'
  BY DEF TransferInv, SeekInv
<1>11. QED
  BY <1>7, <1>8, <1>9, <1>10 DEF PtrInv

(* A turn of a transfer that moves the pointer.                            *)
LEMMA TransferMoves ==
    ASSUME PtrInv, pc \in {"read", "write"}, pc' = pc, room' = room, len' = len,
           fp' \in FIL, fp'.fsize = fp.fsize, fp'.curr = fp.curr, fp'.err = fp.err, AtPos',
           NEW n \in Nat, n <= bt, fp'.fptr = fp.fptr + n, bt' = bt - n
    PROVE  PtrInv'
<1>1. PtrTypes /\ ChainInv /\ bt \in Nat /\ fp.fptr \in Nat
  BY DEF PtrInv, PtrTypes, FIL
<1>2. PtrTypes'
  BY <1>1 DEF PtrTypes
<1>3. ChainInv'
  BY <1>1 DEF ChainInv
<1>4. IdleInv' /\ SeekInv'
  BY DEF IdleInv, SeekInv
<1>5. TransferInv'
  <2>1. pc = "read" => fp.fptr + bt <= fp.fsize
    BY DEF PtrInv, TransferInv
  <2>2. fp'.fptr + bt' = fp.fptr + bt
    BY <1>1
  <2>3. QED
    BY <2>1, <2>2 DEF TransferInv
<1>6. QED
  BY <1>2, <1>3, <1>4, <1>5 DEF PtrInv

(* A turn that takes up a cluster, of the chain or new.                    *)
LEMMA ClusterMoves ==
    ASSUME PtrInv, pc \in {"read", "write"}, AtCluster, bt > 0, pc' = pc, bt' = bt, room' = room,
           NEW c \in Nat, c = IF fp.fptr = 0 THEN 1 ELSE fp.curr + 1,
           fp' = [fp EXCEPT !.curr = c, !.csect = 0],
           len' \in Nat, len <= len', c <= len', len' <= room
    PROVE  PtrInv'
<1>1. /\ PtrTypes /\ ChainInv /\ bt \in Nat /\ fp.fptr \in Nat /\ fp \in FIL /\ fp.curr \in Nat
      /\ fp.fsize \in Nat /\ len \in Nat /\ room \in Nat
  BY DEF PtrInv, PtrTypes, FIL
<1>2. /\ fp' \in FIL /\ fp'.fptr = fp.fptr /\ fp'.curr = c /\ fp'.csect = 0
      /\ fp'.fsize = fp.fsize /\ fp'.err = fp.err
  BY <1>1 DEF FIL
<1>3. PtrTypes'
  BY <1>1, <1>2 DEF PtrTypes
<1>4. ChainInv'
  <2>1. bcs * len <= bcs * len' /\ bcs * len \in Int /\ bcs * len' \in Int
    <3>1. bcs \in Nat /\ len \in Int /\ len' \in Int
      BY <1>1, Geometry
    <3>2. bcs * len <= bcs * len'
      BY <3>1, MulMono
    <3>3. QED
      BY <3>1, <3>2
  <2>2. QED
    BY <1>1, <1>2, <2>1 DEF ChainInv
<1>5. AtFresh'
  <2>1. /\ fp.fptr # 0 => AtPos /\ fp.fptr = bcs * fp.curr
    BY <1>1, ClusterEnd DEF PtrInv, TransferInv
  <2>2. Pos' = (c - 1) * csize + 0 /\ SS * ((c - 1) * csize + 0) = bcs * (c - 1) + SS * 0
    <3>1. c \in Int /\ 0 \in Int
      BY <1>1
    <3>2. SS * ((c - 1) * csize + 0) = bcs * (c - 1) + SS * 0
      BY <3>1, Span, Zenon
    <3>3. QED
      BY <1>2, <3>2 DEF Pos
  <2>3. SS * 0 = 0 /\ bcs * 0 = 0 /\ bcs \in Nat
    BY Geometry
  <2>4. fp.fptr = bcs * (c - 1)
    <3>1. CASE fp.fptr = 0
      BY <2>3, <3>1
    <3>2. CASE fp.fptr # 0
      <4>1. c - 1 = fp.curr
        BY <1>1, <3>2
      <4>2. QED
        BY <2>1, <3>2, <4>1
    <3>3. QED
      BY <3>1, <3>2
  <2>5. bcs * (c - 1) \in Int /\ c >= 1
    BY <1>1, <2>3
  <2>6. QED
    BY <1>2, <2>2, <2>3, <2>4, <2>5 DEF AtFresh
<1>6. TransferInv'
  BY <1>2, <1>5 DEF PtrInv, TransferInv
<1>7. IdleInv' /\ SeekInv'
  BY DEF IdleInv, SeekInv
<1>8. QED
  BY <1>2, <1>3, <1>4, <1>6, <1>7 DEF PtrInv

(* An assignment to the FIL object.                                        *)
LEMMA FilSet ==
    ASSUME fp \in FIL, NEW a \in Nat, NEW b \in Nat, NEW c \in Nat
    PROVE  /\ [fp EXCEPT !.fptr = a, !.csect = b, !.curr = c] \in FIL
           /\ [fp EXCEPT !.curr = c, !.fptr = a] \in FIL
BY Zenon DEF FIL

(* The same for the csect that f_lseek starts with.                        *)
LEMMA FilSet255 ==
    ASSUME fp \in FIL, NEW a \in Nat, NEW c \in Nat,
           fp' = [fp EXCEPT !.fptr = a, !.csect = 255, !.curr = c]
    PROVE  fp' \in FIL
<1>1. PICK b \in Nat : b = 255
  OBVIOUS
<1>2. [fp EXCEPT !.fptr = a, !.csect = b, !.curr = c] \in FIL
  BY FilSet
<1>3. QED
  BY <1>1, <1>2

(* f_lseek starts at the current cluster, or at the origin.                *)
LEMMA SeekBegins == ASSUME PtrInv, NEW ofs \in Nat, f_lseek(ofs) PROVE PtrInv'
<1>1. /\ PtrTypes /\ ChainInv /\ fp \in FIL /\ fp.fptr \in Nat /\ fp.fsize \in Nat
      /\ fp.curr \in Nat /\ len \in Nat /\ bcs \in Nat /\ bcs > 0
  BY Geometry DEF PtrInv, PtrTypes, FIL
<1> DEFINE to == Clipped(ofs)
           start == IF to > 0 /\ Ahead(to) THEN bcs * ((fp.fptr - 1) \div bcs) ELSE 0
           curr == IF to = 0 \/ Ahead(to) THEN fp.curr ELSE Min({len, 1})
<1>2. /\ pc = "idle" /\ ~fp.err /\ pc' = "seek" /\ len' = len /\ room' = room
      /\ bt' = to - start
      /\ fp' = [fp EXCEPT !.fptr = start, !.csect = 255, !.curr = curr]
  BY DEF f_lseek, Call
<1>3. to \in Nat /\ (~fp.writable => to <= fp.fsize)
  BY <1>1 DEF Clipped
<1>4. AtStart \/ AtPos
  BY <1>2 DEF PtrInv, IdleInv
<1>5. Min({len, 1}) = IF len <= 1 THEN len ELSE 1
  BY <1>1, MinTwo
<1> HIDE DEF to
<1>6. CASE to > 0 /\ Ahead(to)
  <2>1. AtPos /\ fp.fptr > 0 /\ ((to - 1) \div bcs) >= ((fp.fptr - 1) \div bcs)
    BY <1>4, <1>6 DEF Ahead, AtStart
  <2>2. fp.curr >= 1 /\ bcs * (fp.curr - 1) < fp.fptr /\ fp.fptr <= bcs * fp.curr
    BY <1>1, <2>1, Reach DEF AtPos
  <2>3. bcs * fp.curr = bcs * (fp.curr - 1) + bcs
    <3>1. fp.curr \in Int /\ 0 \in Int
      BY <1>1
    <3>2. QED
      BY <3>1, Span, Zenon
  <2>4. ((fp.fptr - 1) \div bcs) = fp.curr - 1
    <3> DEFINE r == (fp.fptr - 1) - bcs * (fp.curr - 1)
    <3>1. fp.curr - 1 \in Nat /\ bcs * (fp.curr - 1) \in Int
      BY <1>1, <2>2
    <3>2. r \in 0 .. bcs - 1 /\ fp.fptr - 1 = bcs * (fp.curr - 1) + r
      BY <1>1, <2>2, <2>3, <3>1
    <3> HIDE DEF r
    <3>3. QED
      BY <1>1, <3>1, <3>2, DivUnique
  <2>5. start = bcs * (fp.curr - 1) /\ start \in Nat /\ curr = fp.curr
    <3>1. fp.curr - 1 \in Nat
      BY <1>1, <2>2
    <3>2. bcs * (fp.curr - 1) \in Nat
      BY <1>1, <3>1
    <3>3. QED
      BY <1>6, <2>4, <3>2
  <2>6. to - start >= 1
    <3>1. to - 1 \in Nat
      BY <1>3, <1>6
    <3>2. /\ to - 1 = bcs * ((to - 1) \div bcs) + ((to - 1) % bcs)
          /\ ((to - 1) % bcs) \in 0 .. bcs - 1 /\ ((to - 1) \div bcs) \in Nat
      BY <1>1, <3>1, DivMod
    <3>3. bcs * (fp.curr - 1) <= bcs * ((to - 1) \div bcs)
      BY <1>1, <2>1, <2>4, <3>2, MulMono
    <3>4. bcs * ((to - 1) \div bcs) \in Int
      BY <1>1, <3>2
    <3>5. QED
      BY <1>1, <1>3, <2>5, <3>2, <3>3, <3>4
  <2> HIDE DEF start, curr
  <2>7. /\ fp' \in FIL /\ fp'.fptr = bcs * (fp.curr - 1) /\ fp'.csect = 255
        /\ fp'.curr = fp.curr /\ fp'.fsize = fp.fsize /\ fp'.err = fp.err
        /\ fp'.writable = fp.writable
    <3>1. fp \in FIL /\ curr \in Nat /\ start \in Nat
      BY <1>1, <2>5
    <3>2. fp' \in FIL
      BY <1>2, <3>1, FilSet255
    <3>3. QED
      BY <1>2, <2>5, <3>1, <3>2 DEF FIL
  <2>8. bt' \in Nat /\ bt' > 0 /\ bt' = to - fp'.fptr /\ fp'.fptr \in Nat
    BY <1>2, <1>3, <2>5, <2>6, <2>7
  <2>9. PtrTypes'
    BY <1>1, <1>2, <2>7, <2>8 DEF PtrTypes
  <2>10. ChainInv'
    BY <1>1, <1>2, <2>7 DEF ChainInv
  <2>11. SeekInv'
    <3>1. fp'.fptr + bt' = to
      BY <1>3, <2>8
    <3>2. ~fp'.writable => fp'.fptr + bt' <= fp'.fsize
      BY <1>3, <2>7, <3>1
    <3>3. QED
      BY <1>1, <2>2, <2>7, <2>8, <3>2 DEF SeekInv
  <2>12. IdleInv' /\ TransferInv'
    BY <1>2 DEF IdleInv, TransferInv
  <2>13. QED
    BY <1>2, <2>7, <2>9, <2>10, <2>11, <2>12 DEF PtrInv
<1>7. CASE ~(to > 0 /\ Ahead(to))
  <2>1. start = 0 /\ curr \in Nat /\ curr <= len
    BY <1>1, <1>3, <1>5, <1>7 DEF ChainInv
  <2>2. to > 0 => curr = Min({len, 1})
    BY <1>3, <1>7
  <2> HIDE DEF start, curr
  <2>3. /\ fp' \in FIL /\ fp'.fptr = 0 /\ fp'.csect = 255
        /\ fp'.curr = curr /\ fp'.fsize = fp.fsize /\ fp'.err = fp.err
        /\ fp'.writable = fp.writable
    <3>1. fp \in FIL /\ curr \in Nat /\ start \in Nat
      BY <1>1, <2>1
    <3>2. fp' \in FIL
      BY <1>2, <3>1, FilSet255
    <3>3. QED
      BY <1>2, <2>1, <3>1, <3>2 DEF FIL
  <2>4. bt' = to
    BY <1>2, <1>3, <2>1
  <2>5. PtrTypes'
    BY <1>1, <1>2, <1>3, <2>3, <2>4 DEF PtrTypes
  <2>6. ChainInv'
    BY <1>1, <1>2, <2>1, <2>3 DEF ChainInv
  <2>7. SeekInv'
    <3>1. to > 0 => (curr = 0 => len = 0) /\ (curr > 0 => curr = 1)
      BY <1>1, <1>5, <2>2
    <3>2. bcs * (1 - 1) = 0
      BY <1>1
    <3>3. ~fp'.writable => fp'.fptr + bt' <= fp'.fsize
      BY <1>3, <2>3, <2>4
    <3>4. QED
      BY <1>2, <2>3, <2>4, <3>1, <3>2, <3>3 DEF SeekInv
  <2>8. IdleInv' /\ TransferInv'
    BY <1>2 DEF IdleInv, TransferInv
  <2>9. QED
    BY <1>2, <2>3, <2>5, <2>6, <2>7, <2>8 DEF PtrInv
<1>8. QED
  BY <1>6, <1>7

(* One turn of its loop, ...                                               *)
LEMMA SeekTurns == ASSUME PtrInv, SeekStep PROVE PtrInv'
<1>1. /\ PtrTypes /\ ChainInv /\ fp \in FIL /\ fp.fptr \in Nat /\ fp.fsize \in Nat /\ bt \in Nat
      /\ fp.curr \in Nat /\ len \in Nat /\ room \in Nat /\ len <= room /\ bcs \in Nat /\ bcs > 0
  BY Geometry DEF PtrInv, PtrTypes, FIL
<1> DEFINE clst == IF fp.writable THEN CreateChain(fp.curr) ELSE fp.curr + 1
<1>2. /\ pc = "seek" /\ bt > bcs /\ fp.curr > 0 /\ pc' = pc /\ room' = room
      /\ \/ clst = 0 /\ bt' = bcs /\ UNCHANGED <<fp, len>>
         \/ /\ clst # 0 /\ fp' = [fp EXCEPT !.curr = clst, !.fptr = fp.fptr + bcs]
            /\ bt' = bt - bcs /\ len' = Max({len, clst})
  BY <1>1 DEF SeekStep
<1>3. /\ fp.csect = 255 /\ fp.fptr = bcs * (fp.curr - 1) /\ ~fp.err
      /\ ~fp.writable => fp.fptr + bt <= fp.fsize
  BY <1>1, <1>2 DEF PtrInv, SeekInv
<1>4. bcs * fp.curr = bcs * (fp.curr - 1) + bcs
  <2>1. fp.curr \in Int /\ 0 \in Int
    BY <1>1
  <2>2. QED
    BY <2>1, Span, Zenon
<1>5. clst # 0 => clst = fp.curr + 1 /\ clst <= room
  <2>1. CASE fp.writable
    BY <1>1, <2>1 DEF CreateChain
  <2>2. CASE ~fp.writable
    <3>1. bcs * fp.curr < bcs * len
      <4>1. fp.fsize <= bcs * len /\ bcs * len \in Int /\ bcs * fp.curr \in Int
        BY <1>1 DEF ChainInv
      <4>2. QED
        BY <1>1, <1>2, <1>3, <1>4, <2>2, <4>1
    <3>2. fp.curr < len
      BY <1>1, <3>1, MulStrict
    <3>3. QED
      BY <1>1, <2>2, <3>2
  <2>3. QED
    BY <2>1, <2>2
<1> HIDE DEF clst
<1>6. CASE clst = 0
  <2>1. bt' = bcs /\ fp' = fp /\ len' = len
    BY <1>2, <1>6
  <2>2. PtrTypes' /\ ChainInv'
    BY <1>1, <1>2, <2>1 DEF PtrTypes, ChainInv
  <2>3. ~fp'.writable => fp'.fptr + bt' <= fp'.fsize
    BY <1>1, <1>2, <1>3, <2>1
  <2>4. SeekInv'
    BY <1>1, <1>2, <1>3, <2>1, <2>3 DEF SeekInv
  <2>5. IdleInv' /\ TransferInv'
    BY <1>2 DEF IdleInv, TransferInv
  <2>6. QED
    BY <1>3, <2>1, <2>2, <2>4, <2>5 DEF PtrInv
<1>7. CASE clst # 0
  <2>1. /\ clst = fp.curr + 1 /\ clst \in Nat /\ clst <= room
        /\ fp' = [fp EXCEPT !.curr = clst, !.fptr = fp.fptr + bcs]
        /\ bt' = bt - bcs /\ len' = Max({len, clst})
    BY <1>1, <1>2, <1>5, <1>7
  <2>2. len' \in Nat /\ len <= len' /\ clst <= len' /\ len' <= room
    <3>1. len \in Int /\ clst \in Int
      BY <1>1, <2>1
    <3>2. Max({len, clst}) = IF len >= clst THEN len ELSE clst
      BY <3>1, MaxTwo
    <3>3. QED
      BY <1>1, <2>1, <3>2
  <2>3. /\ fp' \in FIL /\ fp'.fptr = fp.fptr + bcs /\ fp'.csect = 255 /\ fp'.curr = clst
        /\ fp'.fsize = fp.fsize /\ fp'.err = fp.err /\ fp'.writable = fp.writable
    <3>1. fp \in FIL /\ clst \in Nat /\ fp.fptr + bcs \in Nat /\ 255 \in Nat
      BY <1>1, <2>1
    <3>2. fp' \in FIL
      BY <2>1, <3>1, FilSet, Zenon
    <3>3. fp.csect = 255
      BY <1>3
    <3>4. QED
      BY <2>1, <3>1, <3>2, <3>3 DEF FIL
  <2>4. bt' \in Nat /\ bt' > 0 /\ fp'.fptr + bt' = fp.fptr + bt
    BY <1>1, <1>2, <2>1, <2>3
  <2>5. PtrTypes'
    BY <1>1, <1>2, <2>2, <2>3, <2>4 DEF PtrTypes
  <2>6. ChainInv'
    <3>1. len \in Int /\ len' \in Int
      BY <1>1, <2>2
    <3>2. bcs * len <= bcs * len'
      BY <1>1, <2>2, <3>1, MulMono
    <3>3. bcs * len \in Int /\ bcs * len' \in Int
      BY <1>1, <3>1
    <3>4. QED
      BY <1>1, <2>2, <2>3, <3>2, <3>3 DEF ChainInv
  <2>7. SeekInv'
    <3>1. clst - 1 = fp.curr /\ fp'.fptr = bcs * fp.curr
      BY <1>1, <1>3, <1>4, <2>1, <2>3
    <3>2. ~fp'.writable => fp'.fptr + bt' <= fp'.fsize
      BY <1>3, <2>3, <2>4
    <3>3. clst > 0
      BY <1>1, <2>1
    <3>4. QED
      BY <2>3, <2>4, <3>1, <3>2, <3>3 DEF SeekInv
  <2>8. IdleInv' /\ TransferInv'
    BY <1>2 DEF IdleInv, TransferInv
  <2>9. QED
    BY <1>3, <2>3, <2>5, <2>6, <2>7, <2>8 DEF PtrInv
<1>8. QED
  BY <1>6, <1>7

(* ... and the pointer it leaves.                                          *)
LEMMA SeekEnds == ASSUME PtrInv, SeekEnd PROVE PtrInv'
<1>1. /\ PtrTypes /\ ChainInv /\ fp \in FIL /\ fp.fptr \in Nat /\ fp.fsize \in Nat /\ bt \in Nat
      /\ fp.curr \in Nat /\ len \in Nat /\ fp.dsect \in Nat
  BY DEF PtrInv, PtrTypes, FIL
<1>2. /\ bcs \in Nat /\ SS \in Nat /\ SS > 0 /\ csize \in Nat /\ bcs = SS * csize /\ csize <= 254
  BY Geometry
<1> DEFINE q == bt \div SS
           part == IF bt % SS = 0 THEN 0 ELSE 1
           fptr == fp.fptr + bt
           csect == IF bt = 0 THEN 255 ELSE q + part
           dsect == IF part = 1 THEN Sect(fp.curr, q) ELSE fp.dsect
           fsize == Max({fp.fsize, fptr})
           written == fp.written \/ fptr > fp.fsize
<1>3. /\ pc = "seek" /\ bt <= bcs /\ (bt > 0 => fp.curr # 0) /\ pc' = "idle"
      /\ len' = len /\ room' = room /\ bt' = bt
      /\ fp' = [fp EXCEPT !.fptr = fptr, !.csect = csect, !.dsect = dsect, !.fsize = fsize,
                          !.written = written]
  BY DEF SeekEnd
<1>4. /\ fp.csect = 255 /\ (bt = 0 => fp.fptr = 0) /\ ~fp.err
      /\ bt > 0 => fp.fptr = bcs * (fp.curr - 1) /\ fp.curr >= 1
  BY <1>1, <1>3 DEF PtrInv, SeekInv
<1>5. q \in Nat /\ bt = SS * q + (bt % SS) /\ (bt % SS) \in 0 .. SS - 1
  BY <1>1, <1>2, DivMod
<1>6. csect \in Nat
  BY <1>5
<1>7. dsect \in Nat /\ (bt > 0 /\ part = 1 => dsect = (fp.curr - 1) * csize + (q + 1))
  <2>1. CASE bt > 0
    <3>1. fp.curr - 1 \in Nat
      BY <1>1, <1>4, <2>1
    <3>2. (fp.curr - 1) * csize \in Nat
      BY <1>2, <3>1
    <3>3. Sect(fp.curr, q) = (fp.curr - 1) * csize + (q + 1)
      BY <1>5, <3>2 DEF Sect
    <3>4. QED
      BY <1>1, <1>5, <3>2, <3>3
  <2>2. CASE bt = 0
    <3>1. (0 % SS) = 0
      BY <1>2
    <3>2. QED
      BY <1>1, <2>2, <3>1
  <2>3. QED
    BY <1>1, <2>1, <2>2
<1>8. fptr \in Nat /\ fsize \in Nat /\ fptr <= fsize /\ (fsize = fptr \/ fsize = fp.fsize)
  BY <1>1, MaxTwo
<1>9. CASE bt = 0
  <2>1. fptr = 0 /\ csect = 255
    BY <1>1, <1>4, <1>9
  <2> HIDE DEF fptr, csect, dsect, fsize, written
  <2>2. /\ fp' \in FIL /\ fp'.fptr = fptr /\ fp'.csect = csect /\ fp'.curr = fp.curr
        /\ fp'.fsize = fsize
    BY <1>1, <1>3, <1>6, <1>7, <1>8 DEF FIL, written
  <2>3. PtrTypes'
    BY <1>1, <1>3, <2>2 DEF PtrTypes
  <2>4. ChainInv'
    <3>1. bcs * len \in Nat
      BY <1>1, <1>2
    <3>2. QED
      BY <1>1, <1>3, <1>8, <2>1, <2>2, <3>1 DEF ChainInv
  <2>5. IdleInv'
    BY <1>8, <2>1, <2>2 DEF IdleInv, AtStart
  <2>6. TransferInv' /\ SeekInv'
    BY <1>3 DEF TransferInv, SeekInv
  <2>7. QED
    BY <1>3, <2>3, <2>4, <2>5, <2>6 DEF PtrInv
<1>10. CASE bt # 0
  <2>1. bt > 0 /\ fp.fptr = bcs * (fp.curr - 1) /\ fp.curr >= 1 /\ csect = q + part
    BY <1>1, <1>4, <1>10
  <2>2. SS * q \in Int /\ SS * (q + 1) = SS * q + SS
    <3>1. SS * (q + 1) = SS * q + SS * 1
      BY <1>2, <1>5, Dist
    <3>2. QED
      BY <1>2, <1>5, <3>1
  <2>3. SS * (csect - 1) < bt /\ bt <= SS * csect /\ (part = 0 => bt = SS * csect)
    <3>1. CASE part = 0
      <4>1. bt = SS * q /\ csect = q
        BY <1>5, <2>1, <2>2, <3>1
      <4>2. SS * (q - 1) = SS * q - SS * 1
        BY <1>2, <1>5, Dist
      <4>3. QED
        BY <1>1, <1>2, <2>2, <3>1, <4>1, <4>2
    <3>2. CASE part # 0
      <4>1. (bt % SS) > 0 /\ csect = q + 1 /\ csect - 1 = q
        BY <1>5, <2>1, <3>2
      <4>2. QED
        BY <1>1, <1>2, <1>5, <2>2, <3>2, <4>1
    <3>3. QED
      BY <3>1, <3>2
  <2>4. csect \in 1 .. csize
    <3>1. SS * (csect - 1) < SS * csize
      BY <1>1, <1>2, <1>3, <1>6, <2>3
    <3>2. csect - 1 < csize
      BY <1>2, <1>6, <3>1, MulStrict
    <3>3. csect # 0
      <4>1. SS * 0 = 0
        BY <1>2
      <4>2. QED
        BY <1>1, <2>1, <2>3, <4>1
    <3>4. QED
      BY <1>2, <1>6, <3>2, <3>3
  <2>5. part = 0 \/ part = 1
    OBVIOUS
  <2> DEFINE p == (fp.curr - 1) * csize + csect
  <2>6. /\ SS * p = bcs * (fp.curr - 1) + SS * csect
        /\ SS * (p - 1) = bcs * (fp.curr - 1) + SS * (csect - 1)
        /\ bcs * fp.curr = bcs * (fp.curr - 1) + bcs
    <3>1. fp.curr \in Int /\ csect \in Int /\ csect - 1 \in Int
      BY <1>1, <1>6
    <3> HIDE DEF csect
    <3>2. /\ SS * p = bcs * (fp.curr - 1) + SS * csect
          /\ bcs * fp.curr = bcs * (fp.curr - 1) + bcs
      BY <3>1, Span, Zenon
    <3>3. p - 1 = (fp.curr - 1) * csize + (csect - 1)
      <4>1. (fp.curr - 1) * csize \in Int
        BY <1>1, <1>2
      <4>2. QED
        BY <3>1, <4>1
    <3>4. SS * ((fp.curr - 1) * csize + (csect - 1)) = bcs * (fp.curr - 1) + SS * (csect - 1)
      <4> DEFINE k == csect - 1
      <4>1. k \in Int
        BY <3>1
      <4> HIDE DEF k
      <4>2. SS * ((fp.curr - 1) * csize + k) = bcs * (fp.curr - 1) + SS * k
        BY <3>1, <4>1, Span, Zenon
      <4>3. QED
        BY <4>2 DEF k
    <3>5. QED
      BY <3>2, <3>3, <3>4
  <2>7. part = 1 => dsect = p
    BY <1>7, <2>1
  <2> HIDE DEF csect, dsect, part, fsize, written
  <2>8. fptr = fp.fptr + bt
    OBVIOUS
  <2> HIDE DEF fptr
  <2>9. SS * (p - 1) < fptr /\ fptr <= SS * p /\ (part = 0 => fptr = SS * p)
        /\ fptr <= bcs * fp.curr
    <3>1. bcs * (fp.curr - 1) \in Int /\ SS * csect \in Int /\ SS * (csect - 1) \in Int
      BY <1>1, <1>2, <1>6
    <3> HIDE DEF p
    <3>2. bt <= bcs /\ bcs \in Nat
      BY <1>2, <1>3
    <3>3. SS * (p - 1) < fptr /\ fptr <= SS * p
      BY <1>1, <2>1, <2>3, <2>6, <2>8, <3>1
    <3>4. part = 0 => fptr = SS * p
      BY <1>1, <2>1, <2>3, <2>6, <2>8, <3>1
    <3>5. fptr <= bcs * fp.curr
      BY <1>1, <2>1, <2>6, <2>8, <3>1, <3>2
    <3>6. QED
      BY <3>3, <3>4, <3>5
  <2>10. /\ fp' \in FIL /\ fp'.fptr = fptr /\ fp'.csect = csect /\ fp'.curr = fp.curr
         /\ fp'.dsect = dsect /\ fp'.fsize = fsize
    BY <1>1, <1>3, <1>6, <1>7, <1>8 DEF FIL, written
  <2>11. Pos' = p
    BY <2>10 DEF Pos
  <2> HIDE DEF p
  <2>12. AtPos'
    BY <2>1, <2>4, <2>5, <2>7, <2>9, <2>10, <2>11 DEF AtPos
  <2>13. PtrTypes'
    BY <1>1, <1>3, <2>10 DEF PtrTypes
  <2>14. ChainInv'
    <3>1. bcs * fp.curr <= bcs * len
      <4>1. fp.curr <= len /\ fp.curr \in Int /\ len \in Int
        BY <1>1 DEF ChainInv
      <4>2. QED
        BY <1>2, <4>1, MulMono
    <3>2. bcs * fp.curr \in Int /\ bcs * len \in Int
      BY <1>1, <1>2
    <3>3. QED
      BY <1>1, <1>3, <1>8, <2>9, <2>10, <3>1, <3>2 DEF ChainInv
  <2>15. IdleInv'
    BY <1>8, <2>10, <2>12 DEF IdleInv
  <2>16. TransferInv' /\ SeekInv'
    BY <1>3 DEF TransferInv, SeekInv
  <2>17. QED
    BY <1>3, <2>13, <2>14, <2>15, <2>16 DEF PtrInv
<1>11. QED
  BY <1>9, <1>10

(* f_lseek makes a chain for a file that has none.                         *)
LEMMA SeekCreates == ASSUME PtrInv, SeekCreate PROVE PtrInv'
<1>1. /\ PtrTypes /\ ChainInv /\ fp \in FIL /\ fp.fptr \in Nat /\ fp.fsize \in Nat /\ bt \in Nat
      /\ len \in Nat /\ room \in Nat /\ bcs \in Nat
  BY Geometry DEF PtrInv, PtrTypes, FIL
<1> DEFINE c == CreateChain(0)
<1>2. /\ pc = "seek" /\ bt > 0 /\ fp.curr = 0 /\ pc' = pc /\ room' = room
      /\ fp' = [fp EXCEPT !.curr = c] /\ len' = c /\ bt' = IF c = 0 THEN 0 ELSE bt
  BY DEF SeekCreate
<1>3. c \in {0, 1} /\ c \in Nat /\ c <= room
  BY <1>1 DEF CreateChain
<1> HIDE DEF c
<1>4. fp.fptr = 0 /\ len = 0 /\ fp.csect = 255 /\ ~fp.err /\ (~fp.writable => 0 + bt <= fp.fsize)
  BY <1>2 DEF PtrInv, SeekInv
<1>5. fp.fsize = 0
  <2>1. bcs * 0 = 0
    BY <1>1
  <2>2. QED
    BY <1>1, <1>4, <2>1 DEF ChainInv
<1>6. /\ fp' \in FIL /\ fp'.fptr = 0 /\ fp'.csect = 255 /\ fp'.curr = c /\ fp'.fsize = 0
      /\ ~fp'.err /\ fp'.writable = fp.writable
  BY <1>1, <1>2, <1>3, <1>4, <1>5 DEF FIL
<1>7. bt' \in Nat /\ bt' <= bt
  BY <1>1, <1>2
<1>8. PtrTypes'
  BY <1>1, <1>2, <1>3, <1>6, <1>7 DEF PtrTypes
<1>9. ChainInv'
  <2>1. bcs * c \in Nat
    BY <1>1, <1>3
  <2>2. QED
    BY <1>2, <1>3, <1>6, <2>1 DEF ChainInv
<1>10. SeekInv'
  <2>1. bcs * (1 - 1) = 0
    BY <1>1
  <2>2. ~fp'.writable => fp'.fptr + bt' <= fp'.fsize
    <3>1. fp.writable
      BY <1>1, <1>2, <1>4, <1>5
    <3>2. QED
      BY <1>6, <3>1
  <2>3. c = 0 => bt' = 0
    BY <1>2
  <2>4. c > 0 => c = 1
    BY <1>3
  <2>5. QED
    BY <1>3, <1>6, <2>1, <2>2, <2>3, <2>4 DEF SeekInv
<1>11. IdleInv' /\ TransferInv'
  BY <1>2 DEF IdleInv, TransferInv
<1>12. QED
  BY <1>6, <1>8, <1>9, <1>10, <1>11 DEF PtrInv

(* f_read and f_write begin where the last call left the pointer.          *)
LEMMA TransferBegins ==
    ASSUME PtrInv, NEW n \in Nat, f_read(n) \/ (n < SizeLimit /\ f_write(n))
    PROVE  PtrInv'
<1>1. /\ PtrTypes /\ ChainInv /\ fp.fptr \in Nat /\ fp.fsize \in Nat
  BY DEF PtrInv, PtrTypes, FIL
<1>2. /\ pc = "idle" /\ ~fp.err /\ fp' = fp /\ len' = len /\ room' = room /\ pc' \in {"read", "write"}
  BY DEF f_read, f_write, Call
<1>3. (AtStart \/ AtPos) /\ fp.fptr <= fp.fsize
  BY <1>2 DEF PtrInv, IdleInv
<1>4. bt' \in Nat /\ (pc' = "read" => fp.fptr + bt' <= fp.fsize)
  <2>1. CASE f_read(n)
    <3>1. bt' = Min({n, fp.fsize - fp.fptr}) /\ fp.fsize - fp.fptr \in Nat
      BY <1>1, <1>3, <2>1 DEF f_read
    <3>2. bt' = IF n <= fp.fsize - fp.fptr THEN n ELSE fp.fsize - fp.fptr
      BY <3>1, MinTwo
    <3>3. QED
      BY <1>1, <1>3, <3>1, <3>2
  <2>2. CASE f_write(n)
    BY <2>2 DEF f_write, Call
  <2>3. QED
    BY <2>1, <2>2
<1>5. AtStart' \/ AtPos'
  BY <1>2, <1>3, SamePlace
<1>6. PtrTypes'
  BY <1>1, <1>2, <1>4 DEF PtrTypes
<1>7. ChainInv'
  BY <1>1, <1>2 DEF ChainInv
<1>8. TransferInv'
  BY <1>2, <1>4, <1>5 DEF TransferInv
<1>9. IdleInv' /\ SeekInv'
  BY <1>2 DEF IdleInv, SeekInv
<1>10. QED
  BY <1>2, <1>6, <1>7, <1>8, <1>9 DEF PtrInv

(* f_read follows the chain no farther than it goes: it is inside the file.*)
LEMMA ReadFollows == ASSUME PtrInv, ReadCluster PROVE PtrInv'
<1>1. /\ PtrTypes /\ ChainInv /\ fp.fptr \in Nat /\ fp.fsize \in Nat /\ fp.curr \in Nat
      /\ bt \in Nat /\ len \in Nat /\ room \in Nat /\ len <= room
  BY DEF PtrInv, PtrTypes, FIL
<1> DEFINE c == IF fp.fptr = 0 THEN 1 ELSE fp.curr + 1
<1>2. /\ pc = "read" /\ AtCluster /\ bt > 0 /\ pc' = pc /\ bt' = bt /\ room' = room /\ len' = len
      /\ fp' = [fp EXCEPT !.curr = c, !.csect = 0]
  BY DEF ReadCluster
<1>3. c \in Nat
  BY <1>1
<1>4. fp.fptr < bcs * len
  <2>1. fp.fptr + bt <= fp.fsize /\ fp.fsize <= bcs * len
    BY <1>1, <1>2 DEF PtrInv, TransferInv, ChainInv
  <2>2. bcs * len \in Int
    BY <1>1, Geometry
  <2>3. QED
    BY <1>1, <1>2, <2>1, <2>2
<1>5. c <= len
  <2>1. CASE fp.fptr = 0
    <3>1. bcs * 0 < bcs * len
      BY <1>4, <2>1, Geometry
    <3>2. 0 < len
      BY <1>1, <3>1, MulStrict, Geometry
    <3>3. QED
      BY <1>1, <2>1, <3>2
  <2>2. CASE fp.fptr # 0
    <3>1. fp.fptr = bcs * fp.curr
      BY <1>1, <1>2, <2>2, ClusterEnd DEF PtrInv, TransferInv
    <3>2. fp.curr < len
      BY <1>1, <1>4, <3>1, MulStrict, Geometry
    <3>3. QED
      BY <1>1, <2>2, <3>2
  <2>3. QED
    BY <2>1, <2>2
<1> HIDE DEF c
<1>6. c = IF fp.fptr = 0 THEN 1 ELSE fp.curr + 1
  BY DEF c
<1>7. len' \in Nat /\ len <= len' /\ c <= len' /\ len' <= room /\ pc \in {"read", "write"}
  BY <1>1, <1>2, <1>5
<1>8. QED
  BY <1>2, <1>3, <1>6, <1>7, ClusterMoves

(* f_write takes up the next cluster, or ends on a full volume.            *)
LEMMA WriteFollows == ASSUME PtrInv, WriteCluster PROVE PtrInv'
<1>1. /\ PtrTypes /\ ChainInv /\ fp.fptr \in Nat /\ fp.fsize \in Nat /\ fp.curr \in Nat
      /\ bt \in Nat /\ len \in Nat /\ room \in Nat /\ len <= room
  BY DEF PtrInv, PtrTypes, FIL
<1> DEFINE clst == IF fp.fptr = 0 THEN (IF len > 0 THEN 1 ELSE CreateChain(0))
                   ELSE CreateChain(fp.curr)
<1>2. /\ pc = "write" /\ AtCluster /\ bt > 0 /\ bt' = bt /\ room' = room
      /\ \/ clst = 0 /\ fp' = Done /\ pc' = "idle" /\ len' = len
         \/ /\ clst # 0 /\ fp' = [fp EXCEPT !.curr = clst, !.csect = 0]
            /\ len' = Max({len, clst}) /\ pc' = pc
  BY DEF WriteCluster
<1>3. clst # 0 => /\ clst = (IF fp.fptr = 0 THEN 1 ELSE fp.curr + 1)
                  /\ clst \in Nat /\ clst <= room
  <2>1. CASE fp.fptr = 0
    BY <1>1, <2>1 DEF CreateChain
  <2>2. CASE fp.fptr # 0
    BY <1>1, <2>2 DEF CreateChain
  <2>3. QED
    BY <2>1, <2>2
<1> HIDE DEF clst
<1>4. CASE clst = 0
  <2>1. AtStart \/ AtPos
    BY <1>1, <1>2, ClusterEnd DEF PtrInv, TransferInv
  <2>2. QED
    BY <1>2, <1>4, <2>1, WriteLeaves
<1>5. CASE clst # 0
  <2>1. /\ fp' = [fp EXCEPT !.curr = clst, !.csect = 0] /\ pc' = pc
        /\ len' = Max({len, clst}) /\ clst \in Nat /\ clst <= room
        /\ clst = IF fp.fptr = 0 THEN 1 ELSE fp.curr + 1
    BY <1>2, <1>3, <1>5
  <2>2. Max({len, clst}) = IF len >= clst THEN len ELSE clst
    BY <1>1, <2>1, MaxTwo
  <2>3. len' \in Nat /\ len <= len' /\ clst <= len' /\ len' <= room
    BY <1>1, <2>1, <2>2
  <2>4. QED
    BY <1>2, <2>1, <2>3, ClusterMoves
<1>6. QED
  BY <1>4, <1>5

(* Whole sectors, read or written.                                         *)
LEMMA DirectMoves == ASSUME PtrInv, ReadDirect \/ WriteDirect PROVE PtrInv'
<1>1. PtrTypes /\ ChainInv /\ fp \in FIL /\ fp.fptr \in Nat /\ fp.csect \in Nat /\ bt \in Nat
  BY DEF PtrInv, PtrTypes, FIL
<1>2. /\ pc \in {"read", "write"} /\ pc' = pc /\ room' = room /\ len' = len /\ AtSector /\ ~AtCluster
      /\ bt \div SS > 0 /\ bt' = bt - Whole * SS
      /\ fp' = [fp EXCEPT !.csect = fp.csect + Whole, !.fptr = fp.fptr + Whole * SS]
  BY DEF ReadDirect, WriteDirect
<1>3. AtStart \/ AtPos \/ AtFresh
  BY <1>2 DEF PtrInv, TransferInv
<1> DEFINE n == Whole * SS
           k == fp.csect + Whole
<1>4. fp'.fptr = fp.fptr + Whole * SS /\ fp'.curr = fp.curr /\ fp'.csect = fp.csect + Whole
  BY <1>1, <1>2 DEF FIL
<1>5. AtPos' /\ Whole \in Nat /\ n \in Nat /\ n <= bt
  BY <1>1, <1>2, <1>3, <1>4, DirectMove
<1>6. k \in Nat /\ fp.fptr + n \in Nat
  <2> HIDE DEF n
  <2>1. QED
    BY <1>1, <1>5
<1> HIDE DEF n, k
<1>7. fp' = [fp EXCEPT !.csect = k, !.fptr = fp.fptr + n] /\ bt' = bt - n
  BY <1>2 DEF n, k
<1>8. /\ fp' \in FIL /\ fp'.fsize = fp.fsize /\ fp'.curr = fp.curr /\ fp'.err = fp.err
      /\ fp'.fptr = fp.fptr + n
  BY <1>1, <1>6, <1>7 DEF FIL
<1>9. QED
  BY <1>2, <1>5, <1>7, <1>8, TransferMoves

(* A part of a sector, read or written.                                    *)
LEMMA PartMoves == ASSUME PtrInv, ReadPart \/ WritePart PROVE PtrInv'
<1>1. PtrTypes /\ ChainInv /\ fp \in FIL /\ fp.fptr \in Nat /\ fp.csect \in Nat /\ bt \in Nat
  BY DEF PtrInv, PtrTypes, FIL
<1> DEFINE k == IF AtSector THEN fp.csect + 1 ELSE fp.csect
<1>2. /\ pc \in {"read", "write"} /\ pc' = pc /\ room' = room /\ len' = len /\ ~AtCluster
      /\ bt > 0 /\ (AtSector => bt < SS) /\ bt' = bt - Part
      /\ fp' = [fp EXCEPT !.dsect = Here, !.fptr = fp.fptr + Part, !.csect = k]
  BY DEF ReadPart, WritePart
<1>3. AtStart \/ AtPos \/ AtFresh
  BY <1>2 DEF PtrInv, TransferInv
<1>4. /\ fp'.dsect = Here /\ fp'.fptr = fp.fptr + Part /\ fp'.curr = fp.curr
      /\ fp'.csect = IF AtSector THEN fp.csect + 1 ELSE fp.csect
  BY <1>1, <1>2 DEF FIL
<1>5. AtPos' /\ Part \in 1 .. bt
  BY <1>1, <1>2, <1>3, <1>4, PartMove
<1>6. Part \in Nat /\ Part <= bt /\ k \in Nat /\ fp.fptr + Part \in Nat
  BY <1>1, <1>5
<1>7. Here \in Nat
  BY <1>1, <1>2, <1>3, Position
<1> HIDE DEF k
<1>8. /\ fp' \in FIL /\ fp'.fsize = fp.fsize /\ fp'.err = fp.err
  BY <1>1, <1>2, <1>6, <1>7 DEF FIL
<1>9. QED
  BY <1>2, <1>4, <1>5, <1>6, <1>8, TransferMoves

(* f_sync and a failure leave the pointer.                                 *)
LEMMA PtrStays ==
    ASSUME PtrInv, pc = "idle", pc' = pc, room' = room, len' = len, bt' = bt, fp' \in FIL,
           \E w \in BOOLEAN : fp' = [fp EXCEPT !.written = w]
    PROVE  PtrInv'
<1>1. PtrTypes /\ ChainInv /\ fp \in FIL
  BY DEF PtrInv, PtrTypes
<1>2. /\ fp'.fptr = fp.fptr /\ fp'.fsize = fp.fsize /\ fp'.csect = fp.csect /\ fp'.curr = fp.curr
      /\ fp'.dsect = fp.dsect /\ fp'.err = fp.err
  BY <1>1 DEF FIL
<1>3. AtStart' = AtStart /\ AtPos' = AtPos
  BY <1>2, SamePlace
<1>4. PtrTypes' /\ ChainInv'
  BY <1>1, <1>2 DEF PtrTypes, ChainInv
<1>5. IdleInv'
  BY <1>2, <1>3 DEF PtrInv, IdleInv
<1>6. TransferInv' /\ SeekInv'
  BY DEF TransferInv, SeekInv
<1>7. QED
  BY <1>4, <1>5, <1>6 DEF PtrInv

LEMMA PtrAborts ==
    ASSUME PtrInv, pc' = "idle", room' = room, len' = len, bt' = bt,
           fp' = [fp EXCEPT !.err = TRUE]
    PROVE  PtrInv'
<1>1. PtrTypes /\ ChainInv /\ fp \in FIL
  BY DEF PtrInv, PtrTypes
<1>2. fp' \in FIL /\ fp'.fsize = fp.fsize /\ fp'.curr = fp.curr /\ fp'.err
  BY <1>1 DEF FIL
<1>3. PtrTypes' /\ ChainInv'
  BY <1>1, <1>2 DEF PtrTypes, ChainInv
<1>4. IdleInv' /\ TransferInv' /\ SeekInv'
  BY <1>2 DEF IdleInv, TransferInv, SeekInv
<1>5. QED
  BY <1>3, <1>4 DEF PtrInv

LEMMA PtrStep == PtrInv /\ [Next]_vars => PtrInv'
<1> SUFFICES ASSUME PtrInv, [Next]_vars PROVE PtrInv'
  OBVIOUS
<1>1. PtrTypes /\ fp \in FIL /\ fp.fptr \in Nat
  BY DEF PtrInv, PtrTypes, FIL
<1>2. ASSUME NEW n \in Lengths, f_read(n) \/ f_write(n) PROVE PtrInv'
  <2>1. n \in Nat /\ n < SizeLimit
    BY FileAssumption
  <2>2. QED
    BY <1>2, <2>1, TransferBegins
<1>3. ASSUME NEW ofs \in 0 .. Min({MaxBytes + 1, SizeLimit - 1}), f_lseek(ofs) PROVE PtrInv'
  BY <1>3, SeekBegins
<1>4. CASE ReadCluster
  BY <1>4, ReadFollows
<1>5. CASE ReadDirect \/ WriteDirect
  BY <1>5, DirectMoves
<1>6. CASE ReadPart \/ WritePart
  BY <1>6, PartMoves
<1>7. CASE ReadEnd
  <2>1. pc = "read" /\ bt = 0 /\ pc' = "idle" /\ UNCHANGED <<len, room, fp, bt>>
    BY <1>7 DEF ReadEnd
  <2>2. (AtStart \/ AtPos) /\ fp.fptr <= fp.fsize
    BY <1>1, <2>1 DEF PtrInv, TransferInv, AtFresh
  <2>3. AtStart' \/ AtPos'
    BY <2>1, <2>2, SamePlace
  <2>4. PtrTypes' /\ ChainInv'
    BY <2>1 DEF PtrInv, PtrTypes, ChainInv
  <2>5. IdleInv' /\ TransferInv' /\ SeekInv'
    BY <2>1, <2>2, <2>3 DEF IdleInv, TransferInv, SeekInv
  <2>6. QED
    BY <2>1, <2>4, <2>5 DEF PtrInv
<1>8. CASE WriteCluster
  BY <1>8, WriteFollows
<1>9. CASE WriteEnd
  <2>1. /\ pc = "write" /\ bt = 0 /\ fp' = Done /\ pc' = "idle" /\ len' = len /\ room' = room
        /\ bt' = bt
    BY <1>9 DEF WriteEnd
  <2>2. AtStart \/ AtPos
    BY <2>1 DEF PtrInv, TransferInv, AtFresh
  <2>3. QED
    BY <2>1, <2>2, WriteLeaves
<1>10. CASE SeekCreate \/ SeekStep \/ SeekEnd
  BY <1>10, SeekCreates, SeekTurns, SeekEnds
<1>11. CASE f_sync
  <2>1. /\ pc = "idle" /\ fp' = [fp EXCEPT !.written = FALSE] /\ UNCHANGED <<len, room, pc, bt>>
    BY <1>11 DEF f_sync
  <2>2. fp' \in FIL /\ FALSE \in BOOLEAN
    BY <1>1, <2>1 DEF FIL
  <2>3. QED
    BY <2>1, <2>2, PtrStays
<1>12. CASE SyncFails \/ UNCHANGED vars
  <2>1. UNCHANGED <<len, room, pc, bt, fp>>
    BY <1>12 DEF SyncFails, vars
  <2>2. AtStart' = AtStart /\ AtPos' = AtPos /\ AtFresh' = AtFresh
    BY <2>1 DEF AtStart, AtPos, AtFresh, Pos
  <2>3. PtrTypes' /\ ChainInv'
    BY <2>1 DEF PtrInv, PtrTypes, ChainInv
  <2>4. IdleInv' /\ TransferInv' /\ SeekInv'
    BY <2>1, <2>2 DEF PtrInv, IdleInv, TransferInv, SeekInv
  <2>5. QED
    BY <2>1, <2>3, <2>4 DEF PtrInv
<1>13. CASE Abort
  <2>1. /\ pc' = "idle" /\ fp' = [fp EXCEPT !.err = TRUE] /\ UNCHANGED <<len, room, bt>>
    BY <1>13 DEF Abort
  <2>2. QED
    BY <2>1, PtrAborts
<1>14. QED
  BY <1>2, <1>3, <1>4, <1>5, <1>6, <1>7, <1>8, <1>9, <1>10, <1>11, <1>12, <1>13
     DEF Next, Transfer

(* The inductive invariant of the file pointer: wherever a call, or a turn *)
(* of its loop, leaves it, fptr, csect, curr_clust and dsect of ff.c name  *)
(* one place, and the chain has it.                                        *)
THEOREM PointerInvariant == Spec => []PtrInv
<1>1. QED
  BY PtrInit, PtrStep, PTL DEF Spec

(* From it: the place is the one that fptr says.                           *)
LEMMA InStep == PtrInv => PointerInStep
<1> SUFFICES ASSUME PtrInv, pc = "idle", ~fp.err, fp.fptr > 0
             PROVE  /\ fp.curr = ((fp.fptr - 1) \div bcs) + 1 /\ fp.curr <= len
                    /\ fp.csect = (((fp.fptr - 1) % bcs) \div SS) + 1
                    /\ (fp.fptr % SS) # 0 => fp.dsect = ((fp.fptr - 1) \div SS) + 1
  BY DEF PointerInStep
<1>1. /\ PtrTypes /\ ChainInv /\ fp.fptr \in Nat /\ fp.curr \in Nat /\ fp.csect \in Nat
      /\ fp.curr <= len
  BY DEF PtrInv, PtrTypes, FIL, ChainInv
<1>2. /\ bcs \in Nat /\ bcs > 0 /\ SS \in Nat /\ SS > 0 /\ csize \in Nat /\ bcs = SS * csize
  BY Geometry
<1>3. AtPos
  BY DEF PtrInv, IdleInv, AtStart
<1>4. /\ bcs * (fp.curr - 1) < fp.fptr /\ fp.fptr <= bcs * fp.curr /\ Pos \in Nat /\ Pos >= 1
  BY <1>1, <1>3, Reach
<1>5. /\ fp.curr >= 1 /\ fp.csect >= 1 /\ SS * (Pos - 1) < fp.fptr /\ fp.fptr <= SS * Pos
      /\ fp.fptr # SS * Pos => fp.dsect = Pos
  BY <1>2, <1>3 DEF AtPos
<1>6. bcs * fp.curr = bcs * (fp.curr - 1) + bcs
  <2>1. fp.curr \in Int /\ 0 \in Int
    BY <1>1
  <2>2. QED
    BY <2>1, Span, Zenon
<1> DEFINE r == (fp.fptr - 1) - bcs * (fp.curr - 1)
<1>7. fp.curr - 1 \in Nat /\ bcs * (fp.curr - 1) \in Int
  BY <1>1, <1>2, <1>5
<1>8. r \in 0 .. bcs - 1 /\ fp.fptr - 1 = bcs * (fp.curr - 1) + r
  BY <1>1, <1>2, <1>4, <1>6, <1>7
<1>9. SS * Pos = bcs * (fp.curr - 1) + SS * fp.csect
  <2>1. fp.curr \in Int /\ fp.csect \in Int
    BY <1>1
  <2>2. QED
    BY <2>1, Span, Zenon DEF Pos
<1>10. SS * (fp.csect - 1) <= r /\ r < SS * (fp.csect - 1) + SS
  <2>1. SS * (Pos - 1) = SS * Pos - SS * 1 /\ SS * Pos \in Int
    BY <1>2, <1>4, Dist
  <2>2. SS * (fp.csect - 1) = SS * fp.csect - SS * 1 /\ SS * fp.csect \in Int
    BY <1>1, <1>2, Dist
  <2>3. QED
    BY <1>1, <1>2, <1>5, <1>7, <1>9, <2>1, <2>2
<1> HIDE DEF r
<1>11. ((fp.fptr - 1) \div bcs) = fp.curr - 1 /\ ((fp.fptr - 1) % bcs) = r
  <2> DEFINE q == fp.curr - 1
             f == fp.fptr - 1
  <2>1. q \in Nat /\ f = bcs * q + r
    BY <1>7, <1>8
  <2> HIDE DEF q, f
  <2>2. (f \div bcs) = q /\ (f % bcs) = r
    BY <1>2, <1>8, <2>1, DivUnique
  <2>3. QED
    BY <2>2 DEF q, f
<1> DEFINE k == fp.csect - 1
           e == r - SS * k
<1>12. k \in Nat /\ SS * k \in Int
  BY <1>1, <1>2, <1>5
<1>13. e \in 0 .. SS - 1 /\ r = SS * k + e
  BY <1>2, <1>8, <1>10, <1>12
<1> HIDE DEF k, e
<1>14. (r \div SS) = k
  BY <1>2, <1>12, <1>13, DivUnique
<1>15. ((fp.fptr - 1) \div SS) = Pos - 1 /\ (fp.fptr = SS * Pos => (fp.fptr % SS) = 0)
  BY <1>1, <1>4, <1>5, InNthSector
<1>16. fp.csect = (r \div SS) + 1
  BY <1>1, <1>14 DEF k
<1>17. QED
  BY <1>1, <1>4, <1>5, <1>11, <1>15, <1>16

(* Between calls curr_clust, csect and dsect say the same as fptr, and the *)
(* cluster is one of the file's, whatever calls led there: with any        *)
(* lengths and offsets, at cluster boundaries and on a full volume.        *)
THEOREM PointersInStep == Spec => []PointerInStep
<1>1. QED
  BY PointerInvariant, InStep, PTL
-----------------------------------------------------------------------------
(* The bytes of the file: where one is, and what it is.                    *)
Byte == Int \X Int
Body == [InSector -> Byte]
Off(s, b) == (s - 1) * SS + b
View(s, b) == IF win.sect = s THEN win.body[b] ELSE data[s][b]

StoreTypes ==
    /\ data \in [Sectors -> Body] /\ content \in [Offsets -> Byte]
    /\ win \in [sect : Int, body : Body, wflag : BOOLEAN]
    /\ win.sect \in {Elsewhere} \cup Sectors /\ (win.wflag => win.sect \in Sectors)
CallTypes == from \in Nat /\ got \in Seq(Byte) /\ calls \in Nat

(* A known byte is where the driver looks for it, ...                      *)
ViewInv == \A s \in Sectors, b \in InSector : content[Off(s, b)] \in {Junk, View(s, b)}

(* ... and a window that needs no writing back agrees with its sector.     *)
CleanInv ==
    ~win.wflag => \A b \in InSector : win.sect \in Sectors /\ content[Off(win.sect, b)] # Junk
                                        => data[win.sect][b] = win.body[b]

(* Nothing is known behind the end of the file: f_write need not read the  *)
(* sector that it begins there.                                            *)
EdgeInv ==
    ~fp.err => \A o \in Offsets : content[o] # Junk => o < fp.fsize \/ (pc = "write" /\ o < fp.fptr)

(* A window that needs it will be written back by f_sync.                  *)
DirtyInv == win.wflag => fp.written \/ pc = "write" \/ fp.err

(* What f_read has delivered.                                              *)
ReadInv ==
    pc = "read" => /\ from + Len(got) = fp.fptr
                   /\ ~fp.written => \A i \in 1 .. Len(got) : content[from + i - 1] \in {Junk, got[i]}

StoreInv == StoreTypes /\ ViewInv /\ CleanInv
DataInv == StoreInv /\ CallTypes /\ EdgeInv /\ DirtyInv /\ ReadInv

(* At most, a step forgets bytes.                                          *)
Fades == content' \in [Offsets -> Byte] /\ \A o \in Offsets : content'[o] \in {Junk, content[o]}

(* A sector and a place in it are an offset, ...                           *)
LEMMA OffIn ==
    ASSUME NEW s \in Sectors, NEW b \in InSector
    PROVE  /\ Off(s, b) \in Offsets /\ (Off(s, b) \div SS) = s - 1 /\ (Off(s, b) % SS) = b
           /\ Off(s, b) = SS * (s - 1) + b /\ SS * (s - 1) \in Nat
<1>1. /\ SS \in Nat /\ SS > 0 /\ csize \in Nat /\ NClusters \in Nat /\ bcs = SS * csize
  BY Geometry
<1>2. NClusters * csize \in Nat /\ SS * (NClusters * csize) = MaxBytes
  <2>1. NClusters * (SS * csize) = SS * (NClusters * csize)
    BY <1>1
  <2>2. QED
    BY <1>1, <2>1 DEF MaxBytes
<1>3. s - 1 \in Nat /\ s <= NClusters * csize /\ s \in Int /\ b \in 0 .. SS - 1 /\ b \in Nat
  BY <1>1, <1>2 DEF Sectors, InSector
<1>4. SS * (s - 1) \in Nat /\ (s - 1) * SS = SS * (s - 1)
  BY <1>1, <1>3
<1>5. Off(s, b) = SS * (s - 1) + b
  BY <1>4 DEF Off
<1>6. SS * s <= MaxBytes
  BY <1>1, <1>2, <1>3, MulMono
<1>7. SS * (s - 1) = SS * s - SS * 1 /\ SS * s \in Int
  BY <1>1, <1>3, Dist
<1>8. Off(s, b) \in Offsets
  <2>1. MaxBytes \in Int
    BY <1>1, <1>2
  <2>2. QED
    BY <1>1, <1>3, <1>4, <1>5, <1>6, <1>7, <2>1 DEF Offsets
<1>9. QED
  BY <1>1, <1>3, <1>4, <1>5, <1>8, DivUnique

(* ... and each offset is one.                                             *)
LEMMA OffOf ==
    ASSUME NEW o \in Offsets
    PROVE  (o \div SS) + 1 \in Sectors /\ (o % SS) \in InSector /\ Off((o \div SS) + 1, o % SS) = o
<1>1. /\ SS \in Nat /\ SS > 0 /\ csize \in Nat /\ NClusters \in Nat /\ bcs = SS * csize
  BY Geometry
<1>2. NClusters * csize \in Nat /\ SS * (NClusters * csize) = MaxBytes
  <2>1. NClusters * (SS * csize) = SS * (NClusters * csize)
    BY <1>1
  <2>2. QED
    BY <1>1, <2>1 DEF MaxBytes
<1>3. o \in Nat /\ o < MaxBytes /\ MaxBytes \in Int
  BY <1>1, <1>2 DEF Offsets
<1> DEFINE q == o \div SS
           r == o % SS
<1>4. o = SS * q + r /\ r \in 0 .. SS - 1 /\ q \in Nat /\ SS * q \in Int
  <2>1. o = SS * q + r /\ r \in 0 .. SS - 1 /\ q \in Nat
    BY <1>1, <1>3, DivMod
  <2>2. QED
    BY <1>1, <2>1
<1> HIDE DEF q, r
<1>5. q < NClusters * csize
  <2>1. SS * q < SS * (NClusters * csize)
    BY <1>2, <1>3, <1>4
  <2>2. QED
    BY <1>1, <1>2, <1>4, <2>1, MulStrict
<1>6. q + 1 \in Sectors /\ r \in InSector
  BY <1>2, <1>4, <1>5 DEF Sectors, InSector
<1>7. Off(q + 1, r) = SS * q + r
  <2>1. (q + 1) - 1 = q /\ q * SS = SS * q
    BY <1>1, <1>4
  <2>2. QED
    BY <2>1 DEF Off
<1>8. QED
  BY <1>4, <1>6, <1>7 DEF q, r

(* The offsets of the sectors that a call transfers whole.                 *)
LEMMA WholeOff ==
    ASSUME PtrTypes, ChainInv, AtStart \/ AtPos \/ AtFresh, AtSector, ~AtCluster,
           NEW n \in Nat, NEW s \in Sectors, NEW b \in InSector
    PROVE  /\ Off(s, b) = fp.fptr + (s - Here) * SS + b
           /\ s - Here \in 0 .. n - 1 <=> Off(s, b) - fp.fptr \in 0 .. n * SS - 1
<1>1. SS \in Nat /\ SS > 0 /\ fp.fptr \in Nat
  BY Geometry DEF PtrTypes, FIL
<1>2. s \in Int /\ b \in Nat /\ b <= SS - 1
  BY <1>1 DEF Sectors, InSector
<1>3. Here \in Nat /\ fp.fptr = SS * (Here - 1)
  <2>1. Here \in Nat /\ Pos \in Nat /\ fp.fptr = SS * Pos /\ Here = Pos + 1
    BY Position
  <2>2. Here - 1 = Pos
    BY <2>1
  <2>3. QED
    BY <2>1, <2>2
<1> DEFINE d == s - Here
<1>4. d \in Int /\ s - 1 = (Here - 1) + d /\ Here - 1 \in Int
  BY <1>2, <1>3
<1> HIDE DEF d
<1>5. SS * (s - 1) = SS * (Here - 1) + SS * d /\ SS * d \in Int /\ d * SS = SS * d
  <2>1. SS * ((Here - 1) + d) = SS * (Here - 1) + SS * d
    BY <1>1, <1>4, Dist
  <2>2. QED
    BY <1>1, <1>4, <2>1
<1>6. Off(s, b) = fp.fptr + d * SS + b
  BY <1>1, <1>2, <1>3, <1>5, OffIn
<1>7. Off(s, b) - fp.fptr = SS * d + b
  BY <1>1, <1>2, <1>5, <1>6
<1>8. ASSUME d \in 0 .. n - 1 PROVE SS * d + b \in 0 .. n * SS - 1
  <2>1. d + 1 <= n /\ 0 <= d
    BY <1>4, <1>8
  <2>2. SS * (d + 1) <= SS * n /\ SS * 0 <= SS * d
    BY <1>1, <1>4, <2>1, MulMono
  <2>3. SS * (d + 1) = SS * d + SS * 1
    BY <1>1, <1>4, Dist
  <2>4. SS * n = n * SS /\ n * SS \in Int
    BY <1>1
  <2>5. QED
    BY <1>1, <1>2, <1>5, <2>2, <2>3, <2>4
<1>9. ASSUME SS * d + b \in 0 .. n * SS - 1 PROVE d \in 0 .. n - 1
  <2>1. SS * n = n * SS /\ n * SS \in Int
    BY <1>1
  <2>2. SS * d < SS * n
    BY <1>2, <1>5, <1>9, <2>1
  <2>3. d < n
    BY <1>1, <1>4, <2>2, MulStrict
  <2>4. SS * (0 - 1) < SS * d
    BY <1>1, <1>2, <1>5, <1>9, <2>1
  <2>5. 0 - 1 < d
    <3>1. 0 - 1 \in Int
      OBVIOUS
    <3>2. QED
      BY <1>1, <1>4, <2>4, <3>1, MulStrict
  <2>6. QED
    BY <1>4, <2>3, <2>5
<1>10. QED
  BY <1>6, <1>7, <1>8, <1>9 DEF d

(* The offsets of a part of the pointer's sector.                          *)
LEMMA PartOff ==
    ASSUME PtrTypes, ChainInv, AtStart \/ AtPos \/ AtFresh, ~AtCluster,
           NEW n \in Nat, n <= SS - (fp.fptr % SS), NEW s \in Sectors, NEW b \in InSector
    PROVE  /\ Off(Here, b) = fp.fptr - (fp.fptr % SS) + b
           /\ Off(s, b) - fp.fptr \in 0 .. n - 1 <=> s = Here /\ b - (fp.fptr % SS) \in 0 .. n - 1
<1>1. SS \in Nat /\ SS > 0 /\ fp.fptr \in Nat
  BY Geometry DEF PtrTypes, FIL
<1>2. s \in Int /\ b \in Nat /\ b <= SS - 1
  BY <1>1 DEF Sectors, InSector
<1> DEFINE r == fp.fptr % SS
<1>3. /\ Here \in Nat /\ Here \in Sectors /\ SS * (Here - 1) \in Int
      /\ r = fp.fptr - SS * (Here - 1) /\ r \in 0 .. SS - 1
  BY Position
<1>4. n <= SS - r
  OBVIOUS
<1> HIDE DEF r
<1>5. Off(Here, b) = SS * (Here - 1) + b
  BY <1>3, OffIn
<1>6. Off(s, b) = SS * (s - 1) + b /\ SS * (s - 1) \in Int
  BY OffIn
<1> DEFINE In == Off(s, b) - fp.fptr \in 0 .. n - 1 <=> s = Here /\ b - r \in 0 .. n - 1
<1>7. ASSUME s = Here PROVE In
  BY <1>1, <1>2, <1>3, <1>5, <1>7
<1>8. ASSUME s < Here PROVE In
  <2>1. SS * s <= SS * (Here - 1)
    <3>1. s <= Here - 1 /\ Here - 1 \in Int
      BY <1>2, <1>3, <1>8
    <3>2. QED
      BY <1>1, <1>2, <3>1, MulMono
  <2>2. SS * (s - 1) = SS * s - SS * 1 /\ SS * s \in Int
    BY <1>1, <1>2, Dist
  <2>3. Off(s, b) < fp.fptr
    BY <1>1, <1>2, <1>3, <1>6, <2>1, <2>2
  <2>4. QED
    BY <1>1, <1>2, <1>3, <1>6, <1>8, <2>3
<1>9. ASSUME s > Here PROVE In
  <2>1. SS * Here <= SS * (s - 1)
    <3>1. Here <= s - 1 /\ s - 1 \in Int
      BY <1>2, <1>3, <1>9
    <3>2. QED
      BY <1>1, <1>3, <3>1, MulMono
  <2>2. SS * (Here - 1) = SS * Here - SS * 1 /\ SS * Here \in Int
    BY <1>1, <1>3, Dist
  <2>3. Off(s, b) >= fp.fptr + n
    BY <1>1, <1>2, <1>3, <1>4, <1>6, <2>1, <2>2
  <2>4. QED
    BY <1>1, <1>2, <1>3, <1>6, <1>9, <2>3
<1>10. Off(Here, b) = fp.fptr - r + b
  BY <1>1, <1>2, <1>3, <1>5
<1>11. In
  BY <1>2, <1>3, <1>7, <1>8, <1>9
<1>12. QED
  BY <1>10, <1>11 DEF r

LEMMA Bodies == Junk \in Byte /\ Garbage \in Body
<1>1. Junk \in Byte
  BY DEF Junk, Byte
<1>2. QED
  BY <1>1 DEF Garbage, Body

(* The window as a record, and never on the sector 0.                      *)
LEMMA WindowOf ==
    ASSUME StoreTypes
    PROVE  /\ win.sect # 0 /\ win.sect \in Int /\ win.body \in Body /\ win.wflag \in BOOLEAN
           /\ win = [sect |-> win.sect, body |-> win.body, wflag |-> win.wflag]
           /\ Elsewhere \notin Sectors
<1>1. 0 \notin Sectors /\ Elsewhere \notin Sectors /\ Elsewhere # 0
  BY DEF Sectors, Elsewhere
<1>2. QED
  BY <1>1 DEF StoreTypes

(* The window is written back and stays.                                   *)
LEMMA FlushKeeps ==
    ASSUME StoreInv, Fades, data' = Flushed(0), win' = Moved(0)
    PROVE  StoreInv' /\ ~win'.wflag /\ win'.sect = win.sect
<1>1. StoreTypes /\ win.sect # 0 /\ win.body \in Body
  BY WindowOf DEF StoreInv
<1>2. data' = IF win.wflag THEN [data EXCEPT ![win.sect] = win.body] ELSE data
  BY <1>1 DEF Flushed
<1>3. win' = [win EXCEPT !.wflag = FALSE]
  BY <1>1 DEF Moved
<1>4. win'.sect = win.sect /\ win'.body = win.body /\ ~win'.wflag
  BY <1>1, <1>3 DEF StoreTypes
<1>5. StoreTypes'
  <2>1. data' \in [Sectors -> Body]
    BY <1>1, <1>2 DEF StoreTypes
  <2>2. win' \in [sect : Int, body : Body, wflag : BOOLEAN]
    BY <1>1, <1>3 DEF StoreTypes
  <2>3. QED
    BY <1>1, <1>4, <2>1, <2>2 DEF StoreTypes, Fades
<1>6. ViewInv'
  <2> SUFFICES ASSUME NEW s \in Sectors, NEW b \in InSector
               PROVE  content'[Off(s, b)] \in {Junk, View(s, b)'}
    BY DEF ViewInv
  <2>1. content[Off(s, b)] \in {Junk, View(s, b)} /\ content'[Off(s, b)] \in {Junk, content[Off(s, b)]}
    BY OffIn DEF StoreInv, ViewInv, Fades
  <2>2. View(s, b)' = View(s, b)
    BY <1>1, <1>2, <1>4 DEF View, StoreTypes
  <2>3. QED
    BY <2>1, <2>2
<1>7. CleanInv'
  <2> SUFFICES ASSUME NEW b \in InSector, win'.sect \in Sectors, content'[Off(win'.sect, b)] # Junk
               PROVE  data'[win'.sect][b] = win'.body[b]
    BY DEF CleanInv
  <2>1. win.sect \in Sectors /\ content[Off(win.sect, b)] # Junk
    BY <1>4, OffIn DEF Fades
  <2>2. CASE win.wflag
    BY <1>1, <1>2, <1>4, <2>1, <2>2 DEF StoreTypes
  <2>3. CASE ~win.wflag
    BY <1>2, <1>4, <2>1, <2>3 DEF StoreInv, CleanInv
  <2>4. QED
    BY <2>2, <2>3
<1>8. QED
  BY <1>4, <1>5, <1>6, <1>7 DEF StoreInv

(* The window moves to another sector, or out of the file.                 *)
LEMMA MoveKeeps ==
    ASSUME StoreInv, content' = content, NEW t \in {Elsewhere} \cup Sectors, MoveWindow(t)
    PROVE  /\ StoreInv' /\ win'.sect = t /\ (win'.wflag => win.wflag /\ t = win.sect)
           /\ win' = Moved(t)
<1>1. /\ StoreTypes /\ win.sect # 0 /\ win.body \in Body /\ t # 0 /\ data' = Flushed(t)
      /\ win' = Moved(t) /\ Elsewhere \notin Sectors /\ win.sect \in {Elsewhere} \cup Sectors
      /\ data \in [Sectors -> Body] /\ t \in Int
  BY WindowOf DEF StoreInv, MoveWindow, Sectors, Elsewhere, StoreTypes
<1>2. CASE t = win.sect
  <2>1. data' = data /\ win' = win
    BY <1>1, <1>2 DEF Flushed, Moved
  <2>2. \A s, b : View(s, b)' = View(s, b)
    BY <2>1 DEF View
  <2>3. QED
    BY <1>1, <1>2, <2>1, <2>2 DEF StoreInv, StoreTypes, ViewInv, CleanInv
<1>3. CASE t # win.sect
  <2>1. data' = IF win.wflag THEN [data EXCEPT ![win.sect] = win.body] ELSE data
    BY <1>1, <1>3 DEF Flushed
  <2>2. win' = [sect |-> t, wflag |-> FALSE, body |-> IF t = Elsewhere THEN Garbage ELSE data[t]]
    BY <1>1, <1>3 DEF Moved
  <2>3. win'.sect = t /\ ~win'.wflag /\ (t \in Sectors => win'.body = data[t] /\ data'[t] = data[t])
    BY <1>1, <1>3, <2>1, <2>2
  <2>4. StoreTypes'
    <3>1. data' \in [Sectors -> Body]
      BY <1>1, <2>1 DEF StoreTypes
    <3>2. (IF t = Elsewhere THEN Garbage ELSE data[t]) \in Body
      BY <1>1, Bodies
    <3>3. win' \in [sect : Int, body : Body, wflag : BOOLEAN]
      BY <1>1, <2>2, <3>2
    <3>4. QED
      BY <1>1, <2>3, <3>1, <3>3 DEF StoreTypes
  <2>5. ViewInv'
    <3> SUFFICES ASSUME NEW s \in Sectors, NEW b \in InSector
                 PROVE  content[Off(s, b)] \in {Junk, View(s, b)'}
      BY DEF ViewInv
    <3>1. content[Off(s, b)] \in {Junk, View(s, b)}
      BY DEF StoreInv, ViewInv
    <3>2. CASE s = t
      BY <1>3, <2>3, <3>1, <3>2 DEF View
    <3>3. CASE s # t
      <4>1. View(s, b)' = data'[s][b]
        BY <2>3, <3>3 DEF View
      <4>2. CASE s # win.sect
        <5>1. data'[s] = data[s]
          BY <1>1, <2>1, <4>2
        <5>2. QED
          BY <3>1, <4>1, <4>2, <5>1 DEF View
      <4>3. CASE s = win.sect /\ win.wflag
        <5>1. data'[s] = win.body
          BY <1>1, <2>1, <4>3
        <5>2. QED
          BY <3>1, <4>1, <4>3, <5>1 DEF View
      <4>4. CASE s = win.sect /\ ~win.wflag
        <5>1. content[Off(s, b)] # Junk => data[s][b] = win.body[b]
          BY <4>4 DEF StoreInv, CleanInv
        <5>2. QED
          BY <2>1, <3>1, <4>1, <4>4, <5>1 DEF View
      <4>5. QED
        BY <4>2, <4>3, <4>4
    <3>4. QED
      BY <3>2, <3>3
  <2>6. CleanInv'
    BY <2>3 DEF CleanInv
  <2>7. QED
    BY <1>1, <2>3, <2>4, <2>5, <2>6 DEF StoreInv
<1>4. QED
  BY <1>2, <1>3

(* Nothing happens to the card and the window, ...                         *)
LEMMA StoreStays ==
    ASSUME StoreInv, Fades, data' = data, win' = win
    PROVE  StoreInv'
<1>1. StoreTypes'
  BY DEF StoreInv, StoreTypes, Fades
<1>2. ViewInv'
  <2> SUFFICES ASSUME NEW s \in Sectors, NEW b \in InSector
               PROVE  content'[Off(s, b)] \in {Junk, View(s, b)'}
    BY DEF ViewInv
  <2>1. content[Off(s, b)] \in {Junk, View(s, b)} /\ content'[Off(s, b)] \in {Junk, content[Off(s, b)]}
    BY OffIn DEF StoreInv, ViewInv, Fades
  <2>2. View(s, b)' = View(s, b)
    BY DEF View
  <2>3. QED
    BY <2>1, <2>2
<1>3. CleanInv'
  <2> SUFFICES ASSUME ~win.wflag, NEW b \in InSector, win.sect \in Sectors,
                      content'[Off(win.sect, b)] # Junk
               PROVE  data[win.sect][b] = win.body[b]
    BY DEF CleanInv
  <2>1. content[Off(win.sect, b)] # Junk
    BY OffIn DEF Fades
  <2>2. QED
    BY <2>1 DEF StoreInv, CleanInv
<1>4. QED
  BY <1>1, <1>2, <1>3 DEF StoreInv

(* ... or the move fails in its write or its read: the window still has    *)
(* what the write has spoiled.                                             *)
LEMMA MoveFailKeeps ==
    ASSUME StoreInv, Fades, MoveFails
    PROVE  StoreInv' /\ (win'.wflag => win.wflag)
<1>1. CASE data' = Flushed(0) /\ win' = Moved(0)
  BY <1>1, FlushKeeps
<1>2. CASE win.wflag /\ data' = [data EXCEPT ![win.sect] = Garbage] /\ win' = win
  <2>1. StoreTypes'
    <3>1. data' \in [Sectors -> Body]
      BY <1>2, Bodies DEF StoreInv, StoreTypes
    <3>2. QED
      BY <1>2, <3>1 DEF StoreInv, StoreTypes, Fades
  <2>2. ViewInv'
    <3> SUFFICES ASSUME NEW s \in Sectors, NEW b \in InSector
                 PROVE  content'[Off(s, b)] \in {Junk, View(s, b)'}
      BY DEF ViewInv
    <3>1. content[Off(s, b)] \in {Junk, View(s, b)} /\ content'[Off(s, b)] \in {Junk, content[Off(s, b)]}
      BY OffIn DEF StoreInv, ViewInv, Fades
    <3>2. View(s, b)' = View(s, b)
      BY <1>2 DEF View, StoreInv, StoreTypes
    <3>3. QED
      BY <3>1, <3>2
  <2>3. CleanInv'
    BY <1>2 DEF CleanInv
  <2>4. QED
    BY <1>2, <2>1, <2>2, <2>3 DEF StoreInv
<1>3. QED
  BY <1>1, <1>2 DEF MoveFails

(* What disk_write gets when the window is written back first.             *)
LEMMA CardAndWindow ==
    ASSUME StoreInv
    PROVE  /\ Card \in [Sectors -> Body]
           /\ Window \in [sect : Int, body : Body, wflag : BOOLEAN]
           /\ Window.sect = win.sect /\ Window.body = win.body /\ (Window.wflag => win.wflag)
           /\ \A s \in Sectors : s # win.sect => Card[s] = data[s]
           /\ ~Window.wflag => \A b \in InSector :
                 win.sect \in Sectors /\ content[Off(win.sect, b)] # Junk
                    => Card[win.sect][b] = win.body[b]
<1>1. /\ StoreTypes /\ win.sect # 0 /\ win.body \in Body /\ data \in [Sectors -> Body]
      /\ win \in [sect : Int, body : Body, wflag : BOOLEAN] /\ (win.wflag => win.sect \in Sectors)
  BY WindowOf DEF StoreInv, StoreTypes
<1>2. ~win.wflag => \A b \in InSector :
        win.sect \in Sectors /\ content[Off(win.sect, b)] # Junk => data[win.sect][b] = win.body[b]
  BY DEF StoreInv, CleanInv
<1>3. CASE win.sect # fp.dsect
  <2>1. Card = data /\ Window = win
    BY <1>3 DEF Card, Window
  <2>2. QED
    BY <1>1, <1>2, <2>1
<1>4. CASE win.sect = fp.dsect
  <2>1. Card = IF win.wflag THEN [data EXCEPT ![win.sect] = win.body] ELSE data
    BY <1>1, <1>4 DEF Card, Flushed
  <2>2. Window = [win EXCEPT !.wflag = FALSE]
    BY <1>1, <1>4 DEF Window, Moved
  <2>3. /\ Window \in [sect : Int, body : Body, wflag : BOOLEAN]
        /\ Window.sect = win.sect /\ Window.body = win.body /\ ~Window.wflag
    BY <1>1, <2>2
  <2>4. Card \in [Sectors -> Body] /\ \A s \in Sectors : s # win.sect => Card[s] = data[s]
    BY <1>1, <2>1
  <2>5. ASSUME NEW b \in InSector, win.sect \in Sectors, content[Off(win.sect, b)] # Junk
        PROVE  Card[win.sect][b] = win.body[b]
    <3>1. CASE win.wflag
      BY <1>1, <2>1, <2>5, <3>1
    <3>2. CASE ~win.wflag
      BY <1>2, <2>1, <2>5, <3>2
    <3>3. QED
      BY <3>1, <3>2
  <2>6. QED
    BY <2>3, <2>4, <2>5
<1>5. QED
  BY <1>3, <1>4

(* n sectors change on the card, past the window; if the window has one of *)
(* them, its known bytes change with it.                                   *)
LEMMA PastWindow ==
    ASSUME StoreInv, PtrTypes, ChainInv, AtStart \/ AtPos \/ AtFresh, AtSector, ~AtCluster,
           NEW n \in Nat, data' \in [Sectors -> Body], content' \in [Offsets -> Byte],
           win' \in [sect : Int, body : Body, wflag : BOOLEAN], win'.sect = win.sect,
           win'.wflag => win.wflag,
           ~(win.sect - Here \in 0 .. n - 1) => win' = Window,
           \A s \in Sectors : ~(s - Here \in 0 .. n - 1) => data'[s] = Card[s],
           \A o \in Offsets : ~(o - fp.fptr \in 0 .. n * SS - 1) => content'[o] \in {Junk, content[o]},
           \A s \in Sectors, b \in InSector :
              s - Here \in 0 .. n - 1 /\ content'[Off(s, b)] # Junk
                 => /\ content'[Off(s, b)] = data'[s][b]
                    /\ win.sect = s => win'.body[b] = data'[s][b]
    PROVE  StoreInv'
<1>1. /\ Window.body = win.body
      /\ \A s \in Sectors : s # win.sect => Card[s] = data[s]
      /\ ~Window.wflag => \A b \in InSector :
            win.sect \in Sectors /\ content[Off(win.sect, b)] # Junk
               => Card[win.sect][b] = win.body[b]
  BY CardAndWindow
<1>2. StoreTypes'
  BY DEF StoreInv, StoreTypes
<1>3. ASSUME NEW s \in Sectors, NEW b \in InSector, ~(s - Here \in 0 .. n - 1)
      PROVE  content'[Off(s, b)] \in {Junk, content[Off(s, b)]}
  <2>1. ~(Off(s, b) - fp.fptr \in 0 .. n * SS - 1)
    BY <1>3, WholeOff
  <2>2. QED
    BY <2>1, OffIn
<1>4. ViewInv'
  <2> SUFFICES ASSUME NEW s \in Sectors, NEW b \in InSector
               PROVE  content'[Off(s, b)] \in {Junk, View(s, b)'}
    BY DEF ViewInv
  <2>1. CASE s - Here \in 0 .. n - 1
    BY <2>1 DEF View
  <2>2. CASE ~(s - Here \in 0 .. n - 1)
    <3>1. content'[Off(s, b)] \in {Junk, content[Off(s, b)]} /\ content[Off(s, b)] \in {Junk, View(s, b)}
      BY <1>3, <2>2 DEF StoreInv, ViewInv
    <3>2. CASE win.sect = s
      BY <1>1, <2>2, <3>1, <3>2 DEF View
    <3>3. CASE win.sect # s
      BY <1>1, <2>2, <3>1, <3>3 DEF View
    <3>4. QED
      BY <3>2, <3>3
  <2>3. QED
    BY <2>1, <2>2
<1>5. CleanInv'
  <2> SUFFICES ASSUME ~win'.wflag, NEW b \in InSector, win.sect \in Sectors,
                      content'[Off(win.sect, b)] # Junk
               PROVE  data'[win.sect][b] = win'.body[b]
    BY DEF CleanInv
  <2>1. CASE win.sect - Here \in 0 .. n - 1
    BY <2>1
  <2>2. CASE ~(win.sect - Here \in 0 .. n - 1)
    <3>1. win' = Window /\ data'[win.sect] = Card[win.sect] /\ content[Off(win.sect, b)] # Junk
      BY <1>3, <2>2
    <3>2. QED
      BY <1>1, <3>1
  <2>3. QED
    BY <2>1, <2>2
<1>6. QED
  BY <1>2, <1>4, <1>5 DEF StoreInv

(* The sectors of one disk_write are inside the transfer.                  *)
LEMMA WholeBound ==
    ASSUME PtrTypes, ChainInv, AtStart \/ AtPos \/ AtFresh, AtSector, ~AtCluster
    PROVE  Whole \in Nat /\ \A n \in Nat : n <= Whole => n * SS \in Nat /\ n * SS <= bt
<1>1. SS \in Nat /\ SS > 0 /\ csize \in Nat /\ bt \in Nat /\ fp.csect \in Nat
  BY Geometry DEF PtrTypes, FIL
<1>2. (bt \div SS) \in Nat /\ bt = SS * (bt \div SS) + (bt % SS) /\ (bt % SS) \in 0 .. SS - 1
  BY <1>1, DivMod
<1>3. Whole \in Nat /\ Whole <= (bt \div SS)
  <2>1. fp.csect < csize
    BY Position
  <2>2. csize - fp.csect \in Nat
    BY <1>1, <2>1
  <2>3. Whole = IF (bt \div SS) <= csize - fp.csect THEN (bt \div SS) ELSE csize - fp.csect
    BY <1>2, <2>2, MinTwo DEF Whole
  <2>4. QED
    BY <1>2, <2>2, <2>3
<1>4. ASSUME NEW n \in Nat, n <= Whole PROVE n * SS \in Nat /\ n * SS <= bt
  <2>1. n <= (bt \div SS)
    BY <1>2, <1>3, <1>4
  <2>2. SS * n <= SS * (bt \div SS)
    BY <1>1, <1>2, <2>1, MulMono
  <2>3. SS * (bt \div SS) \in Int /\ SS * n \in Nat /\ n * SS = SS * n
    BY <1>1, <1>2
  <2>4. QED
    BY <1>1, <1>2, <2>2, <2>3
<1>5. QED
  BY <1>3, <1>4

(* The caller's bytes, as the history of the file has them.                *)
LEMMA WrittenOf ==
    ASSUME StoreTypes, CallTypes, PtrTypes, NEW n \in Nat, content' = Written(n)
    PROVE  /\ content' \in [Offsets -> Byte]
           /\ \A o \in Offsets : o - fp.fptr \in 0 .. n - 1 => content'[o] = <<calls, o>>
           /\ \A o \in Offsets : ~(o - fp.fptr \in 0 .. n - 1) => content'[o] = content[o]
<1>1. \A o \in Offsets : <<calls, o>> \in Byte /\ content[o] \in Byte
  BY DEF StoreTypes, CallTypes, Offsets, Byte
<1>2. QED
  BY <1>1 DEF Written

(* f_write, whole sectors.                                                 *)
LEMMA WriteDirectKeeps == ASSUME StoreInv, CallTypes, PtrInv, WriteDirect PROVE StoreInv'
<1>1. /\ PtrTypes /\ ChainInv /\ StoreTypes /\ fp.fptr \in Nat /\ calls \in Nat
      /\ win \in [sect : Int, body : Body, wflag : BOOLEAN]
  BY DEF PtrInv, PtrTypes, FIL, StoreInv, StoreTypes, CallTypes
<1>2. /\ pc = "write" /\ AtSector /\ ~AtCluster /\ content' = Written(Whole * SS)
      /\ data' = [s \in Sectors |-> IF s - Here \in 0 .. Whole - 1 THEN Chunk(s) ELSE Card[s]]
      /\ win' = IF win.sect - Here \in 0 .. Whole - 1
                THEN [win EXCEPT !.body = Chunk(win.sect), !.wflag = FALSE] ELSE Window
  BY DEF WriteDirect
<1>3. AtStart \/ AtPos \/ AtFresh
  BY <1>2 DEF PtrInv, TransferInv
<1>4. Whole \in Nat /\ Whole * SS \in Nat
  BY <1>1, <1>2, <1>3, WholeBound
<1>5. Here \in Sectors /\ Here \in Nat
  BY <1>1, <1>2, <1>3, Position
<1>6. /\ content' \in [Offsets -> Byte]
      /\ \A o \in Offsets : o - fp.fptr \in 0 .. Whole * SS - 1 => content'[o] = <<calls, o>>
      /\ \A o \in Offsets : ~(o - fp.fptr \in 0 .. Whole * SS - 1) => content'[o] = content[o]
  BY <1>1, <1>2, <1>4, WrittenOf
<1>7. ASSUME NEW s \in Int PROVE Chunk(s) \in Body
  <2>1. SS \in Nat /\ (s - Here) * SS \in Int
    BY <1>5, Geometry
  <2>2. ASSUME NEW b \in InSector PROVE <<calls, fp.fptr + (s - Here) * SS + b>> \in Byte
    <3>1. b \in Int
      BY <2>1 DEF InSector
    <3>2. fp.fptr + (s - Here) * SS + b \in Int
      BY <1>1, <2>1, <3>1
    <3>3. QED
      BY <1>1, <3>2 DEF Byte
  <2>3. QED
    BY <2>2 DEF Chunk, Body
<1>8. ASSUME NEW s \in Sectors, NEW b \in InSector, s - Here \in 0 .. Whole - 1
      PROVE  content'[Off(s, b)] = Chunk(s)[b]
  <2>1. Off(s, b) = fp.fptr + (s - Here) * SS + b /\ Off(s, b) - fp.fptr \in 0 .. Whole * SS - 1
    BY <1>1, <1>2, <1>3, <1>4, <1>8, WholeOff
  <2>2. content'[Off(s, b)] = <<calls, Off(s, b)>>
    BY <1>6, <2>1, OffIn
  <2>3. Chunk(s)[b] = <<calls, Off(s, b)>>
    BY <2>1 DEF Chunk
  <2>4. QED
    BY <2>2, <2>3
<1>9. data' \in [Sectors -> Body]
  <2>1. Card \in [Sectors -> Body]
    BY CardAndWindow
  <2>2. \A s \in Sectors : Chunk(s) \in Body
    BY <1>7 DEF Sectors
  <2>3. QED
    BY <1>2, <2>1, <2>2
<1>10. /\ win' \in [sect : Int, body : Body, wflag : BOOLEAN] /\ win'.sect = win.sect
       /\ win'.wflag => win.wflag
       /\ win.sect - Here \in 0 .. Whole - 1 => win'.body = Chunk(win.sect)
       /\ ~(win.sect - Here \in 0 .. Whole - 1) => win' = Window
  <2>1. /\ Window \in [sect : Int, body : Body, wflag : BOOLEAN]
        /\ Window.sect = win.sect /\ (Window.wflag => win.wflag)
    BY CardAndWindow
  <2>2. Chunk(win.sect) \in Body
    BY <1>1, <1>7
  <2>3. CASE win.sect - Here \in 0 .. Whole - 1
    <3>1. win' = [win EXCEPT !.body = Chunk(win.sect), !.wflag = FALSE]
      BY <1>2, <2>3
    <3>2. QED
      BY <1>1, <2>2, <2>3, <3>1
  <2>4. CASE ~(win.sect - Here \in 0 .. Whole - 1)
    BY <1>2, <2>1, <2>4
  <2>5. QED
    BY <2>3, <2>4
<1>11. \A s \in Sectors : ~(s - Here \in 0 .. Whole - 1) => data'[s] = Card[s]
  BY <1>2
<1>12. \A s \in Sectors, b \in InSector :
         s - Here \in 0 .. Whole - 1 /\ content'[Off(s, b)] # Junk
            => /\ content'[Off(s, b)] = data'[s][b]
               /\ win.sect = s => win'.body[b] = data'[s][b]
  <2> SUFFICES ASSUME NEW s \in Sectors, NEW b \in InSector, s - Here \in 0 .. Whole - 1
               PROVE  /\ content'[Off(s, b)] = data'[s][b]
                      /\ win.sect = s => win'.body[b] = data'[s][b]
    OBVIOUS
  <2>1. data'[s] = Chunk(s)
    BY <1>2
  <2>2. QED
    BY <1>8, <1>10, <2>1
<1>13. QED
  BY <1>1, <1>2, <1>3, <1>4, <1>6, <1>9, <1>10, <1>11, <1>12, PastWindow

(* ... and when the write of them fails.                                   *)
LEMMA DirectFailKeeps ==
    ASSUME StoreInv, PtrInv, DirectFails, content' \in [Offsets -> Byte],
           \A o \in Offsets : content'[o] = IF o - fp.fptr \in 0 .. bt - 1 THEN Junk ELSE content[o]
    PROVE  StoreInv'
<1>1. /\ PtrTypes /\ ChainInv /\ fp.fptr \in Nat /\ bt \in Nat
  BY DEF PtrInv, PtrTypes, FIL
<1>2. pc = "write" /\ AtSector /\ ~AtCluster /\ win' = Window
  BY DEF DirectFails
<1>3. PICK n \in 0 .. Whole - 1 :
        data' = [s \in Sectors |-> IF s - Here \in 0 .. n THEN Garbage ELSE Card[s]]
  BY DEF DirectFails
<1>4. AtStart \/ AtPos \/ AtFresh
  BY <1>2 DEF PtrInv, TransferInv
<1> DEFINE m == n + 1
<1>5. m \in Nat /\ m * SS \in Nat /\ m * SS <= bt
  <2>1. Whole \in Nat
    BY <1>1, <1>2, <1>4, WholeBound
  <2>2. m \in Nat /\ m <= Whole
    BY <1>3, <2>1
  <2> HIDE DEF m
  <2>3. QED
    BY <1>1, <1>2, <1>4, <2>2, WholeBound
<1>6. data' = [s \in Sectors |-> IF s - Here \in 0 .. m - 1 THEN Garbage ELSE Card[s]]
  <2>1. m - 1 = n
    BY <1>3
  <2>2. QED
    BY <1>3, <2>1
<1> HIDE DEF m
<1>7. /\ Card \in [Sectors -> Body] /\ win' \in [sect : Int, body : Body, wflag : BOOLEAN]
      /\ win'.sect = win.sect /\ (win'.wflag => win.wflag)
  BY <1>2, CardAndWindow
<1>8. data' \in [Sectors -> Body]
  BY <1>6, <1>7, Bodies
<1>9. ASSUME NEW s \in Sectors, NEW b \in InSector, s - Here \in 0 .. m - 1
      PROVE  content'[Off(s, b)] = Junk
  <2>1. Off(s, b) - fp.fptr \in 0 .. m * SS - 1
    BY <1>1, <1>2, <1>4, <1>5, <1>9, WholeOff
  <2>2. Off(s, b) - fp.fptr \in 0 .. bt - 1
    BY <1>1, <1>5, <2>1
  <2>3. QED
    BY <2>2, OffIn
<1>10. \A s \in Sectors : ~(s - Here \in 0 .. m - 1) => data'[s] = Card[s]
  BY <1>6
<1>11. \A o \in Offsets : ~(o - fp.fptr \in 0 .. m * SS - 1) => content'[o] \in {Junk, content[o]}
  OBVIOUS
<1>12. QED
  BY <1>1, <1>2, <1>4, <1>5, <1>7, <1>8, <1>9, <1>10, <1>11, PastWindow

(* f_write, a part of a sector.  The sector that it begins at the growing  *)
(* edge is not read, and nothing was known of it.                          *)
LEMMA WritePartKeeps ==
    ASSUME StoreInv, CallTypes, EdgeInv, PtrInv, WritePart PROVE StoreInv' /\ win'.sect = Here
<1>1. /\ PtrTypes /\ ChainInv /\ StoreTypes /\ fp.fptr \in Nat /\ calls \in Nat /\ fp.fsize \in Nat
      /\ bt \in Nat /\ SS \in Nat /\ SS > 0
  BY Geometry DEF PtrInv, PtrTypes, FIL, StoreInv, CallTypes
<1> DEFINE r == fp.fptr % SS
           grow == AtSector /\ fp.fptr >= fp.fsize
           base == IF grow THEN win.body ELSE Moved(Here).body
           body == [b \in InSector |-> IF b - r \in 0 .. Part - 1
                                       THEN <<calls, fp.fptr - r + b>> ELSE base[b]]
<1>2. /\ pc = "write" /\ bt > 0 /\ ~AtCluster /\ content' = Written(Part)
      /\ \/ data' = Flushed(0)
         \/ data' = Flushed(Here)
      /\ win' = [sect |-> Here, wflag |-> TRUE, body |-> body]
  BY DEF WritePart
<1>3. (AtStart \/ AtPos \/ AtFresh) /\ ~fp.err
  BY <1>2 DEF PtrInv, TransferInv
<1>4. /\ Here \in Sectors /\ Here \in Nat /\ Here # 0 /\ r \in 0 .. SS - 1
  BY <1>1, <1>2, <1>3, Position
<1>5. Part \in Nat /\ Part <= SS - r
  <2>1. SS - r \in Int /\ SS - r >= 1
    BY <1>1, <1>4
  <2>2. Part = IF SS - r <= bt THEN SS - r ELSE bt
    BY <1>1, <2>1, MinTwo DEF Part
  <2>3. QED
    BY <1>1, <2>1, <2>2
<1>6. /\ content' \in [Offsets -> Byte]
      /\ \A o \in Offsets : o - fp.fptr \in 0 .. Part - 1 => content'[o] = <<calls, o>>
      /\ \A o \in Offsets : ~(o - fp.fptr \in 0 .. Part - 1) => content'[o] = content[o]
  BY <1>1, <1>2, <1>5, WrittenOf
<1>7. ASSUME NEW s \in Sectors, NEW b \in InSector
      PROVE  /\ Off(Here, b) = fp.fptr - r + b
             /\ Off(s, b) - fp.fptr \in 0 .. Part - 1 <=> s = Here /\ b - r \in 0 .. Part - 1
  BY <1>1, <1>2, <1>3, <1>5, PartOff
<1>8. AtSector => r = 0
  BY DEF AtSector
<1>9. /\ win.sect # 0 /\ win.body \in Body /\ data \in [Sectors -> Body]
      /\ win.sect \in {Elsewhere} \cup Sectors /\ (win.wflag => win.sect \in Sectors)
  BY <1>1, WindowOf DEF StoreTypes
<1>10. base \in Body /\ (~grow => \A b \in InSector : base[b] = View(Here, b))
  <2>1. Here # Elsewhere
    BY <1>4 DEF Elsewhere
  <2>2. Moved(Here).body = IF Here = win.sect THEN win.body ELSE data[Here]
    BY <1>4, <2>1 DEF Moved
  <2>3. QED
    BY <1>4, <1>9, <2>2 DEF View
<1>11. \A s \in Sectors : s # Here => data'[s] = IF win.wflag /\ win.sect = s THEN win.body ELSE data[s]
  BY <1>2, <1>9 DEF Flushed
<1>12. data' \in [Sectors -> Body]
  BY <1>2, <1>9 DEF Flushed
<1> HIDE DEF r, base, grow
<1>13. body \in Body
  <2>1. ASSUME NEW b \in InSector PROVE <<calls, fp.fptr - r + b>> \in Byte /\ base[b] \in Byte
    <3>1. b \in Int
      BY <1>1 DEF InSector
    <3>2. fp.fptr - r + b \in Int
      BY <1>1, <1>4, <3>1
    <3>3. QED
      BY <1>1, <1>10, <3>2 DEF Byte, Body
  <2>2. QED
    BY <2>1 DEF Body
<1>14. \A b \in InSector : body[b] = IF b - r \in 0 .. Part - 1 THEN <<calls, fp.fptr - r + b>> ELSE base[b]
  OBVIOUS
<1> HIDE DEF body
<1>15. win'.sect = Here /\ win'.wflag /\ win'.body = body
  BY <1>2
<1>16. StoreTypes'
  <2>1. win' \in [sect : Int, body : Body, wflag : BOOLEAN]
    BY <1>2, <1>4, <1>13
  <2>2. QED
    BY <1>4, <1>6, <1>12, <1>15, <2>1 DEF StoreTypes
<1>17. ViewInv'
  <2> SUFFICES ASSUME NEW s \in Sectors, NEW b \in InSector
               PROVE  content'[Off(s, b)] \in {Junk, View(s, b)'}
    BY DEF ViewInv
  <2>1. content[Off(s, b)] \in {Junk, View(s, b)} /\ Off(s, b) \in Offsets
    BY OffIn DEF StoreInv, ViewInv
  <2>2. CASE s = Here /\ b - r \in 0 .. Part - 1
    <3>1. content'[Off(s, b)] = <<calls, Off(s, b)>>
      BY <1>6, <1>7, <2>1, <2>2
    <3>2. QED
      BY <1>7, <1>14, <1>15, <2>2, <3>1 DEF View
  <2>3. CASE s = Here /\ ~(b - r \in 0 .. Part - 1)
    <3>1. content'[Off(s, b)] = content[Off(s, b)] /\ View(s, b)' = base[b]
      BY <1>6, <1>7, <1>14, <1>15, <2>1, <2>3 DEF View
    <3>2. CASE ~grow
      BY <1>10, <2>1, <2>3, <3>1, <3>2
    <3>3. CASE grow
      <4>1. Off(s, b) = fp.fptr - r + b /\ r = 0 /\ fp.fptr >= fp.fsize
        BY <1>7, <1>8, <2>3, <3>3 DEF grow
      <4>2. Off(s, b) >= fp.fptr /\ Off(s, b) >= fp.fsize /\ Off(s, b) \in Int
        BY <1>1, <4>1 DEF InSector
      <4>3. content[Off(s, b)] = Junk
        BY <1>1, <1>3, <2>1, <4>2 DEF EdgeInv
      <4>4. QED
        BY <3>1, <4>3
    <3>4. QED
      BY <3>2, <3>3
  <2>4. CASE s # Here
    <3>1. content'[Off(s, b)] = content[Off(s, b)] /\ View(s, b)' = data'[s][b]
      BY <1>6, <1>7, <1>15, <2>1, <2>4 DEF View
    <3>2. CASE win.sect # s \/ win.wflag
      BY <1>11, <2>1, <2>4, <3>1, <3>2 DEF View
    <3>3. CASE win.sect = s /\ ~win.wflag
      <4>1. content[Off(s, b)] # Junk => data[s][b] = win.body[b]
        BY <3>3 DEF StoreInv, CleanInv
      <4>2. QED
        BY <1>11, <2>1, <2>4, <3>1, <3>3, <4>1 DEF View
    <3>4. QED
      BY <3>2, <3>3
  <2>5. QED
    BY <2>2, <2>3, <2>4
<1>18. CleanInv'
  BY <1>15 DEF CleanInv
<1>19. QED
  BY <1>15, <1>16, <1>17, <1>18 DEF StoreInv
-----------------------------------------------------------------------------
(* f_read appends n bytes.                                                 *)
LEMMA ReadGoesOn ==
    ASSUME CallTypes, PtrTypes, pc = "read", ReadInv, content' = content, from' = from,
           NEW n \in Nat, NEW f \in [1 .. n -> Byte], got' = got \o f,
           fp'.fptr = fp.fptr + n, fp'.written = fp.written,
           ~fp.written => \A i \in 1 .. n : content[fp.fptr + i - 1] \in {Junk, f[i]}
    PROVE  got' \in Seq(Byte) /\ ReadInv'
<1>1. got \in Seq(Byte) /\ Len(got) \in Nat /\ from \in Nat /\ fp.fptr \in Nat
  BY LenProperties DEF CallTypes, PtrTypes, FIL
<1>2. f \in Seq(Byte) /\ Len(f) = n
  <2>1. f \in Seq(Byte)
    BY SeqDef
  <2>2. DOMAIN f = 1 .. n
    OBVIOUS
  <2>3. QED
    BY <2>1, <2>2, LenProperties
<1>3. /\ got' \in Seq(Byte) /\ Len(got') = Len(got) + n
      /\ \A i \in 1 .. Len(got') : got'[i] = IF i <= Len(got) THEN got[i] ELSE f[i - Len(got)]
  <2>1. /\ got \o f \in Seq(Byte) /\ Len(got \o f) = Len(got) + Len(f)
        /\ \A i \in 1 .. Len(got) + Len(f) :
              (got \o f)[i] = IF i <= Len(got) THEN got[i] ELSE f[i - Len(got)]
    BY <1>1, <1>2, ConcatProperties, Zenon
  <2>2. QED
    BY <1>2, <2>1, Zenon
<1>4. from + Len(got) = fp.fptr
  BY DEF ReadInv
<1>5. from + Len(got') = fp'.fptr
  BY <1>1, <1>3, <1>4
<1>6. ASSUME ~fp.written, NEW i \in 1 .. Len(got') PROVE content[from + i - 1] \in {Junk, got'[i]}
  <2>1. CASE i <= Len(got)
    <3>1. i \in 1 .. Len(got) /\ got'[i] = got[i]
      BY <1>1, <1>3, <2>1
    <3>2. QED
      BY <1>6, <3>1 DEF ReadInv
  <2>2. CASE ~(i <= Len(got))
    <3> DEFINE j == i - Len(got)
    <3>1. j \in 1 .. n /\ got'[i] = f[j] /\ from + i - 1 = fp.fptr + j - 1
      BY <1>1, <1>3, <1>4, <2>2
    <3> HIDE DEF j
    <3>2. content[fp.fptr + j - 1] \in {Junk, f[j]}
      BY <1>6, <3>1
    <3>3. QED
      BY <3>1, <3>2
  <2>3. QED
    BY <2>1, <2>2
<1>7. QED
  BY <1>3, <1>5, <1>6 DEF ReadInv

(* A byte of the file is below the end of the chain.                       *)
LEMMA InChain ==
    ASSUME PtrTypes, ChainInv, NEW o \in Nat, o < fp.fsize PROVE o \in Offsets
<1>1. /\ fp.fsize \in Nat /\ len \in Nat /\ len <= NClusters /\ bcs \in Nat /\ NClusters \in Nat
  BY Geometry DEF PtrTypes, FIL
<1>2. bcs * len <= bcs * NClusters /\ fp.fsize <= bcs * len
  BY <1>1, MulMono DEF ChainInv
<1>3. bcs * len \in Int /\ bcs * NClusters \in Int /\ MaxBytes = bcs * NClusters
  BY <1>1 DEF MaxBytes
<1>4. QED
  BY <1>1, <1>2, <1>3 DEF Offsets

(* f_read, whole sectors: the card has them when nothing waits in the      *)
(* window.                                                                 *)
LEMMA ReadDirectKeeps ==
    ASSUME DataInv, PtrInv, ReadDirect PROVE got' \in Seq(Byte) /\ ReadInv'
<1>1. /\ PtrTypes /\ ChainInv /\ StoreTypes /\ CallTypes /\ fp \in FIL /\ fp.fptr \in Nat
      /\ bt \in Nat /\ SS \in Nat /\ SS > 0 /\ fp.fsize \in Nat
  BY Geometry DEF PtrInv, PtrTypes, FIL, DataInv, StoreInv
<1> DEFINE n == Whole * SS
           f == [i \in 1 .. n |-> data[Here + ((i - 1) \div SS)][(i - 1) % SS]]
<1>2. /\ pc = "read" /\ AtSector /\ ~AtCluster /\ got' = got \o f /\ from' = from
      /\ content' = content
      /\ fp' = [fp EXCEPT !.csect = fp.csect + Whole, !.fptr = fp.fptr + n]
  BY DEF ReadDirect
<1>3. (AtStart \/ AtPos \/ AtFresh) /\ fp.fptr + bt <= fp.fsize /\ ~fp.err
  BY <1>2 DEF PtrInv, TransferInv
<1>4. Whole \in Nat /\ n \in Nat /\ n <= bt
  BY <1>1, <1>2, <1>3, WholeBound
<1>5. fp'.fptr = fp.fptr + n /\ fp'.written = fp.written
  BY <1>1, <1>2 DEF FIL
<1> HIDE DEF n
<1>6. Here \in Nat /\ Here - 1 \in Nat /\ fp.fptr = SS * (Here - 1)
  <2>1. Here \in Nat /\ Pos \in Nat /\ fp.fptr = SS * Pos /\ Here = Pos + 1
    BY <1>1, <1>2, <1>3, Position
  <2>2. Here - 1 = Pos
    BY <2>1
  <2>3. QED
    BY <2>1, <2>2
<1>7. ASSUME NEW i \in 1 .. n
      PROVE  /\ fp.fptr + i - 1 \in Offsets
             /\ Here + ((i - 1) \div SS) = ((fp.fptr + i - 1) \div SS) + 1
             /\ ((i - 1) % SS) = ((fp.fptr + i - 1) % SS)
  <2> DEFINE j == i - 1
             q == j \div SS
             e == j % SS
             h == Here - 1
             o == fp.fptr + i - 1
  <2>1. j \in Nat /\ o = fp.fptr + j /\ o \in Nat /\ o < fp.fsize
    BY <1>1, <1>3, <1>4
  <2>2. o \in Offsets
    BY <1>1, <2>1, InChain
  <2>3. h \in Nat /\ Here = h + 1 /\ fp.fptr = SS * h
    BY <1>6
  <2> HIDE DEF o, j, h
  <2>4. j = SS * q + e /\ e \in 0 .. SS - 1 /\ q \in Nat
    BY <1>1, <2>1, DivMod
  <2> HIDE DEF q, e
  <2>5. SS * (h + q) = SS * h + SS * q /\ SS * q \in Int /\ h + q \in Nat
    BY <1>1, <2>3, <2>4, Dist
  <2>6. o = SS * (h + q) + e
    BY <1>1, <2>1, <2>3, <2>4, <2>5
  <2>7. (o \div SS) = h + q /\ (o % SS) = e
    BY <1>1, <2>4, <2>5, <2>6, DivUnique
  <2>8. Here + q = (o \div SS) + 1
    BY <2>3, <2>4, <2>7
  <2>9. QED
    BY <2>2, <2>7, <2>8 DEF o, q, e, j
<1>8. ASSUME NEW i \in 1 .. n
      PROVE  /\ Here + ((i - 1) \div SS) \in Sectors /\ ((i - 1) % SS) \in InSector
             /\ Off(Here + ((i - 1) \div SS), (i - 1) % SS) = fp.fptr + i - 1
  BY <1>7, OffOf
<1>9. f \in [1 .. n -> Byte]
  <2>1. data \in [Sectors -> [InSector -> Byte]]
    BY <1>1 DEF StoreTypes, Body
  <2>2. ASSUME NEW i \in 1 .. n PROVE data[Here + ((i - 1) \div SS)][(i - 1) % SS] \in Byte
    BY <1>8, <2>1
  <2>3. QED
    BY <2>2
<1>10. ASSUME ~fp.written, NEW i \in 1 .. n PROVE content[fp.fptr + i - 1] \in {Junk, f[i]}
  <2> DEFINE s == Here + ((i - 1) \div SS)
             b == (i - 1) % SS
  <2>1. f[i] = data[s][b]
    OBVIOUS
  <2>2. s \in Sectors /\ b \in InSector /\ Off(s, b) = fp.fptr + i - 1
    BY <1>8
  <2> HIDE DEF s, b, f
  <2>3. ~win.wflag
    BY <1>2, <1>3, <1>10 DEF DataInv, DirtyInv
  <2>4. content[Off(s, b)] \in {Junk, View(s, b)}
    BY <2>2 DEF DataInv, StoreInv, ViewInv
  <2>5. win.sect = s /\ content[Off(s, b)] # Junk => data[s][b] = win.body[b]
    BY <2>2, <2>3 DEF DataInv, StoreInv, CleanInv
  <2>6. content[Off(s, b)] \in {Junk, data[s][b]}
    BY <2>4, <2>5 DEF View
  <2>7. QED
    BY <2>1, <2>2, <2>6
<1> HIDE DEF f
<1>11. QED
  BY <1>1, <1>2, <1>4, <1>5, <1>9, <1>10, ReadGoesOn DEF DataInv

(* f_read, a part of a sector.                                             *)
LEMMA ReadPartKeeps ==
    ASSUME DataInv, PtrInv, ReadPart PROVE StoreInv' /\ got' \in Seq(Byte) /\ ReadInv'
                                           /\ (win'.wflag => win.wflag)
<1>1. /\ PtrTypes /\ ChainInv /\ StoreInv /\ StoreTypes /\ CallTypes /\ fp \in FIL /\ fp.fptr \in Nat
      /\ bt \in Nat /\ SS \in Nat /\ SS > 0
  BY Geometry DEF PtrInv, PtrTypes, FIL, DataInv, StoreInv
<1> DEFINE r == fp.fptr % SS
           n == Part
           f == [i \in 1 .. n |-> Moved(Here).body[r + i - 1]]
           k == IF AtSector THEN fp.csect + 1 ELSE fp.csect
<1>2. /\ pc = "read" /\ bt > 0 /\ ~AtCluster /\ got' = got \o f /\ from' = from
      /\ content' = content /\ MoveWindow(Here)
      /\ fp' = [fp EXCEPT !.dsect = Here, !.fptr = fp.fptr + n, !.csect = k]
  BY DEF ReadPart
<1>3. AtStart \/ AtPos \/ AtFresh
  BY <1>2 DEF PtrInv, TransferInv
<1>4. Here \in Sectors /\ r \in 0 .. SS - 1
  BY <1>1, <1>2, <1>3, Position
<1>5. n \in Nat /\ n <= SS - r
  <2>1. SS - r \in Int /\ SS - r >= 1
    BY <1>1, <1>4
  <2>2. Part = IF SS - r <= bt THEN SS - r ELSE bt
    BY <1>1, <2>1, MinTwo DEF Part
  <2>3. QED
    BY <1>1, <2>1, <2>2
<1>6. fp'.fptr = fp.fptr + n /\ fp'.written = fp.written
  BY <1>1, <1>2 DEF FIL
<1>7. StoreInv' /\ win'.sect = Here /\ (win'.wflag => win.wflag) /\ win' = Moved(Here)
  BY <1>1, <1>2, <1>4, MoveKeeps
<1>8. ASSUME NEW i \in 1 .. n
      PROVE  /\ r + i - 1 \in InSector /\ Off(Here, r + i - 1) = fp.fptr + i - 1
             /\ f[i] = win'.body[r + i - 1]
  <2> DEFINE b == r + i - 1
  <2>1. f[i] = win'.body[b]
    BY <1>7
  <2> HIDE DEF f
  <2>2. b \in InSector
    BY <1>1, <1>4, <1>5 DEF InSector
  <2>3. 0 \in Nat /\ 0 <= SS - (fp.fptr % SS)
    BY <1>1, <1>4
  <2> HIDE DEF b
  <2>4. Off(Here, b) = fp.fptr - (fp.fptr % SS) + b
    BY <1>1, <1>2, <1>3, <1>4, <2>2, <2>3, PartOff
  <2>5. fp.fptr - (fp.fptr % SS) + b = fp.fptr + i - 1
    BY <1>1, <1>4, <1>5 DEF b
  <2>6. QED
    BY <2>1, <2>2, <2>4, <2>5 DEF b
<1>9. f \in [1 .. n -> Byte]
  <2>1. win'.body \in Body
    BY <1>7 DEF StoreInv, StoreTypes
  <2>2. ASSUME NEW i \in 1 .. n PROVE f[i] \in Byte
    BY <1>8, <2>1 DEF Body
  <2>3. QED
    BY <2>2
<1>10. ASSUME NEW i \in 1 .. n PROVE content[fp.fptr + i - 1] \in {Junk, f[i]}
  <2>1. PICK h \in Sectors, b \in InSector : h = Here /\ b = r + i - 1
    BY <1>4, <1>8
  <2>2. content'[Off(h, b)] \in {Junk, View(h, b)'}
    BY <1>7 DEF StoreInv, ViewInv
  <2>3. View(h, b)' = win'.body[b]
    BY <1>7, <2>1 DEF View
  <2>4. QED
    BY <1>2, <1>8, <2>1, <2>2, <2>3
<1> HIDE DEF f, n
<1>11. got' \in Seq(Byte) /\ ReadInv'
  BY <1>1, <1>2, <1>5, <1>6, <1>9, <1>10, ReadGoesOn DEF DataInv
<1>12. QED
  BY <1>7, <1>11
-----------------------------------------------------------------------------
(* The bytes of a file that is just opened are the card's.                 *)
LEMMA DataInit == Init => DataInv
<1> SUFFICES ASSUME Init PROVE DataInv
  OBVIOUS
<1>1. PICK size \in OldSizes, writable \in BOOLEAN :
        /\ content = [o \in Offsets |-> IF o < size THEN <<0, o>> ELSE Junk]
        /\ fp = [fptr |-> 0, fsize |-> size, csect |-> 255, curr |-> 0, dsect |-> 0,
                 writable |-> writable, written |-> FALSE, err |-> FALSE]
  BY DEF Init
<1>2. /\ data = [s \in Sectors |-> [b \in InSector |-> content[Off(s, b)]]]
      /\ win = [sect |-> Elsewhere, body |-> Garbage, wflag |-> FALSE]
      /\ pc = "idle" /\ from = 0 /\ got = <<>> /\ calls = 0
  BY DEF Init, Off
<1>3. content \in [Offsets -> Byte]
  <2>1. \A o \in Offsets : <<0, o>> \in Byte
    BY DEF Offsets, Byte
  <2>2. QED
    BY <1>1, <2>1, Bodies
<1>4. data \in [Sectors -> Body]
  <2>1. \A s \in Sectors, b \in InSector : content[Off(s, b)] \in Byte
    BY <1>3, OffIn
  <2>2. QED
    BY <1>2, <2>1 DEF Body
<1>5. win.sect = Elsewhere /\ ~win.wflag /\ Elsewhere \notin Sectors /\ Elsewhere \in Int
  BY <1>2 DEF Elsewhere, Sectors
<1>6. StoreTypes
  <2>1. win \in [sect : Int, body : Body, wflag : BOOLEAN]
    BY <1>2, <1>5, Bodies
  <2>2. QED
    BY <1>3, <1>4, <1>5, <2>1 DEF StoreTypes
<1>7. ViewInv
  <2> SUFFICES ASSUME NEW s \in Sectors, NEW b \in InSector
               PROVE  content[Off(s, b)] \in {Junk, View(s, b)}
    BY DEF ViewInv
  <2>1. data[s][b] = content[Off(s, b)]
    BY <1>2
  <2>2. QED
    BY <1>5, <2>1 DEF View
<1>8. CleanInv
  BY <1>5 DEF CleanInv
<1>9. CallTypes
  BY <1>2 DEF CallTypes
<1>10. EdgeInv
  BY <1>1 DEF EdgeInv
<1>11. DirtyInv /\ ReadInv
  BY <1>2, <1>5 DEF DirtyInv, ReadInv
<1>12. QED
  BY <1>6, <1>7, <1>8, <1>9, <1>10, <1>11 DEF DataInv, StoreInv

(* A step that writes no byte and has f_sync still to come.                *)
LEMMA CallKeeps ==
    ASSUME DataInv, PtrTypes, PtrTypes', StoreInv', CallTypes', Fades,
           win'.wflag => win.wflag, fp.err => fp'.err, fp.written => fp'.written,
           fp.fsize <= fp'.fsize,
           pc = "write" => \/ pc' = "write" /\ fp.fptr <= fp'.fptr
                           \/ fp.fptr <= fp'.fsize /\ fp'.written
                           \/ fp'.err,
           pc' = "read" => ReadInv'
    PROVE  DataInv'
<1>1. EdgeInv'
  <2> SUFFICES ASSUME ~fp'.err, NEW o \in Offsets, content'[o] # Junk
               PROVE  o < fp'.fsize \/ (pc' = "write" /\ o < fp'.fptr)
    BY DEF EdgeInv
  <2>1. o \in Int /\ fp.fsize \in Nat /\ fp.fptr \in Nat /\ fp'.fsize \in Nat /\ fp'.fptr \in Nat
    BY DEF Offsets, PtrTypes, FIL
  <2>2. o < fp.fsize \/ (pc = "write" /\ o < fp.fptr)
    BY DEF DataInv, EdgeInv, Fades
  <2>3. QED
    BY <2>1, <2>2
<1>2. DirtyInv'
  BY DEF DataInv, DirtyInv
<1>3. ReadInv'
  BY DEF ReadInv
<1>4. QED
  BY <1>1, <1>2, <1>3 DEF DataInv

LEMMA SameContent == ASSUME StoreTypes, content' = content PROVE Fades
BY DEF StoreTypes, Fades

(* The window moves, or not, and the file keeps its bytes.                 *)
LEMMA WindowStep ==
    ASSUME StoreInv, content' = content, MoveWindow(Elsewhere) \/ UNCHANGED <<data, win>>
    PROVE  StoreInv' /\ Fades /\ (win'.wflag => win.wflag)
<1>1. Fades
  BY SameContent DEF StoreInv
<1>2. CASE MoveWindow(Elsewhere)
  BY <1>1, <1>2, MoveKeeps
<1>3. CASE UNCHANGED <<data, win>>
  BY <1>1, <1>3, StoreStays
<1>4. QED
  BY <1>2, <1>3

(* f_write's transfers.                                                    *)
LEMMA WriteKeeps ==
    ASSUME DataInv, PtrInv, WriteDirect \/ WritePart PROVE DataInv'
<1>1. /\ StoreInv /\ StoreTypes /\ CallTypes /\ EdgeInv /\ PtrTypes /\ ChainInv /\ fp \in FIL
      /\ fp.fptr \in Nat /\ fp.fsize \in Nat /\ fp.csect \in Nat
  BY DEF DataInv, StoreInv, PtrInv, PtrTypes, FIL
<1>2. /\ pc = "write" /\ pc' = pc /\ UNCHANGED <<from, got, calls>> /\ ~AtCluster
  BY DEF WriteDirect, WritePart
<1>3. (AtStart \/ AtPos \/ AtFresh) /\ ~fp.err
  BY <1>2 DEF PtrInv, TransferInv
<1>4. PICK n \in Nat : /\ content' = Written(n) /\ fp'.fptr = fp.fptr + n /\ fp'.fsize = fp.fsize
  <2>1. CASE WriteDirect
    <3>1. Whole * SS \in Nat
      BY <1>1, <1>3, <2>1, WholeBound DEF WriteDirect
    <3>2. /\ content' = Written(Whole * SS)
          /\ fp' = [fp EXCEPT !.csect = fp.csect + Whole, !.fptr = fp.fptr + Whole * SS]
      BY <2>1 DEF WriteDirect
    <3>3. fp'.fptr = fp.fptr + Whole * SS /\ fp'.fsize = fp.fsize
      BY <1>1, <3>2 DEF FIL
    <3>4. QED
      BY <3>1, <3>2, <3>3
  <2>2. CASE WritePart
    <3> DEFINE k == IF AtSector THEN fp.csect + 1 ELSE fp.csect
    <3>1. /\ content' = Written(Part) /\ bt > 0 /\ (AtSector => bt < SS)
          /\ fp' = [fp EXCEPT !.dsect = Here, !.fptr = fp.fptr + Part, !.csect = k]
      BY <2>2 DEF WritePart
    <3>2. /\ fp'.fptr = fp.fptr + Part /\ fp'.fsize = fp.fsize /\ fp'.dsect = Here
          /\ fp'.curr = fp.curr /\ fp'.csect = k
      BY <1>1, <3>1 DEF FIL
    <3>3. Part \in 1 .. bt
      BY <1>1, <1>2, <1>3, <3>1, <3>2, PartMove
    <3>4. Part \in Nat
      BY <3>3
    <3>5. QED
      BY <3>1, <3>2, <3>4
  <2>3. QED
    BY <2>1, <2>2
<1>5. StoreInv'
  BY <1>1, WriteDirectKeeps, WritePartKeeps
<1>6. EdgeInv'
  <2> SUFFICES ASSUME NEW o \in Offsets, content'[o] # Junk
               PROVE  o < fp'.fsize \/ o < fp'.fptr
    BY <1>2 DEF EdgeInv
  <2>1. o \in Int
    BY DEF Offsets
  <2>2. o - fp.fptr \in 0 .. n - 1 \/ content[o] # Junk
    BY <1>1, <1>4, WrittenOf
  <2>3. CASE o - fp.fptr \in 0 .. n - 1
    BY <1>1, <1>4, <2>1, <2>3
  <2>4. CASE content[o] # Junk
    <3>1. o < fp.fsize \/ o < fp.fptr
      BY <1>1, <1>3, <2>4 DEF EdgeInv
    <3>2. QED
      BY <1>1, <1>4, <2>1, <3>1
  <2>5. QED
    BY <2>2, <2>3, <2>4
<1>7. DirtyInv' /\ ReadInv' /\ CallTypes'
  BY <1>1, <1>2 DEF DirtyInv, ReadInv, CallTypes
<1>8. QED
  BY <1>5, <1>6, <1>7 DEF DataInv

(* The calls begin.                                                        *)
LEMMA BeginKeeps ==
    ASSUME DataInv, PtrInv, PtrInv', NEW n \in Nat, f_read(n) \/ f_write(n) \/ f_lseek(n)
    PROVE  DataInv'
<1>1. /\ StoreInv /\ CallTypes /\ PtrTypes /\ PtrTypes' /\ fp \in FIL /\ fp.fsize \in Nat
      /\ fp.fptr \in Nat
  BY DEF DataInv, PtrInv, PtrTypes, FIL
<1>2. /\ pc = "idle" /\ calls' = calls + 1 /\ UNCHANGED <<data, win, content>>
  BY DEF f_read, f_write, f_lseek, Call
<1>3. StoreInv' /\ Fades /\ (win'.wflag => win.wflag)
  BY <1>1, <1>2, WindowStep
<1>4. fp'.fsize = fp.fsize /\ fp'.err = fp.err /\ fp'.written = fp.written
  <2> DEFINE to == Clipped(n)
             start == IF to > 0 /\ Ahead(to) THEN bcs * ((fp.fptr - 1) \div bcs) ELSE 0
             curr == IF to = 0 \/ Ahead(to) THEN fp.curr ELSE Min({len, 1})
  <2>1. fp' = fp \/ fp' = [fp EXCEPT !.fptr = start, !.csect = 255, !.curr = curr]
    BY DEF f_read, f_write, f_lseek
  <2> HIDE DEF start, curr
  <2>2. QED
    BY <1>1, <2>1 DEF FIL
<1>5. CallTypes' /\ (pc' = "read" => ReadInv')
  <2>1. CASE f_read(n)
    <3>1. from' = fp.fptr /\ got' = <<>> /\ fp' = fp
      BY <2>1 DEF f_read
    <3>2. CallTypes'
      BY <1>1, <1>2, <3>1 DEF CallTypes
    <3>3. Len(got') = 0
      BY <3>1
    <3>4. from' + Len(got') = fp'.fptr /\ \A i \in 1 .. Len(got') : FALSE
      BY <1>1, <3>1, <3>3
    <3>5. QED
      BY <3>2, <3>4 DEF ReadInv
  <2>2. CASE f_write(n)
    BY <1>1, <1>2, <2>2 DEF f_write, Call, CallTypes
  <2>3. CASE f_lseek(n)
    BY <1>1, <1>2, <2>3 DEF f_lseek, Call, CallTypes
  <2>4. QED
    BY <2>1, <2>2, <2>3
<1>6. fp.fsize <= fp'.fsize
  BY <1>1, <1>4
<1>7. QED
  BY <1>1, <1>2, <1>3, <1>4, <1>5, <1>6, CallKeeps

(* A disk access fails: the call's own bytes are lost, and no other.       *)
LEMMA AbortKeeps == ASSUME DataInv, PtrInv, PtrInv', Abort PROVE DataInv'
<1>1. /\ StoreInv /\ StoreTypes /\ CallTypes /\ PtrTypes /\ PtrTypes' /\ fp \in FIL /\ fp.fsize \in Nat
      /\ fp.fptr \in Nat
  BY DEF DataInv, StoreInv, PtrInv, PtrTypes, FIL
<1>2. /\ pc' = "idle" /\ fp' = [fp EXCEPT !.err = TRUE] /\ UNCHANGED <<from, got, calls>>
      /\ MoveFails \/ DirectFails \/ UNCHANGED <<data, win>>
      /\ content' = [o \in Offsets |->
                       IF pc = "write" /\ o - fp.fptr \in 0 .. bt - 1 THEN Junk ELSE content[o]]
  BY DEF Abort
<1>3. Fades
  BY <1>1, <1>2, Bodies DEF Fades, StoreTypes
<1>4. StoreInv'
  <2>1. CASE MoveFails
    BY <1>1, <1>3, <2>1, MoveFailKeeps
  <2>2. CASE DirectFails
    <3>1. pc = "write"
      BY <2>2 DEF DirectFails
    <3>2. \A o \in Offsets : content'[o] = IF o - fp.fptr \in 0 .. bt - 1 THEN Junk ELSE content[o]
      BY <1>2, <3>1
    <3>3. content' \in [Offsets -> Byte]
      BY <1>3 DEF Fades
    <3>4. QED
      BY <1>1, <2>2, <3>2, <3>3, DirectFailKeeps
  <2>3. CASE UNCHANGED <<data, win>>
    BY <1>1, <1>3, <2>3, StoreStays
  <2>4. QED
    BY <1>2, <2>1, <2>2, <2>3
<1>5. fp'.err
  BY <1>1, <1>2 DEF FIL
<1>6. EdgeInv' /\ DirtyInv' /\ ReadInv' /\ CallTypes'
  BY <1>1, <1>2, <1>5 DEF EdgeInv, DirtyInv, ReadInv, CallTypes
<1>7. QED
  BY <1>4, <1>6 DEF DataInv

LEMMA DataStep == DataInv /\ PtrInv /\ PtrInv' /\ [Next]_vars => DataInv'
<1> SUFFICES ASSUME DataInv, PtrInv, PtrInv', [Next]_vars PROVE DataInv'
  OBVIOUS
<1>1. /\ StoreInv /\ StoreTypes /\ CallTypes /\ PtrTypes /\ PtrTypes' /\ fp \in FIL
      /\ fp.fsize \in Nat /\ fp.fptr \in Nat /\ ReadInv
  BY DEF DataInv, StoreInv, PtrInv, PtrTypes, FIL
<1>2. Max({fp.fsize, fp.fptr}) >= fp.fsize /\ Max({fp.fsize, fp.fptr}) >= fp.fptr
  BY <1>1, MaxTwo
<1>3. ASSUME fp' = Done
      PROVE  fp'.err = fp.err /\ fp'.written /\ fp.fsize <= fp'.fsize /\ fp.fptr <= fp'.fsize
  <2> DEFINE m == Max({fp.fsize, fp.fptr})
  <2>1. fp' = [fp EXCEPT !.fsize = m, !.written = TRUE] /\ m >= fp.fsize /\ m >= fp.fptr
    BY <1>2, <1>3 DEF Done
  <2> HIDE DEF m
  <2>2. fp'.err = fp.err /\ fp'.written /\ fp'.fsize = m
    BY <1>1, <2>1 DEF FIL
  <2>3. QED
    BY <2>1, <2>2
<1>4. ASSUME NEW n \in Lengths, f_read(n) \/ f_write(n) PROVE DataInv'
  <2>1. n \in Nat
    BY FileAssumption
  <2>2. QED
    BY <1>4, <2>1, BeginKeeps
<1>5. ASSUME NEW ofs \in 0 .. Min({MaxBytes + 1, SizeLimit - 1}), f_lseek(ofs) PROVE DataInv'
  BY <1>5, BeginKeeps
<1>6. CASE ReadCluster
  <2>1. /\ pc = "read" /\ pc' = pc /\ UNCHANGED <<from, got, calls, content>>
        /\ MoveWindow(Elsewhere) \/ UNCHANGED <<data, win>>
        /\ \E c : fp' = [fp EXCEPT !.curr = c, !.csect = 0]
    BY <1>6 DEF ReadCluster
  <2>2. fp'.fptr = fp.fptr /\ fp'.fsize = fp.fsize /\ fp'.err = fp.err /\ fp'.written = fp.written
    BY <1>1, <2>1 DEF FIL
  <2>3. StoreInv' /\ Fades /\ (win'.wflag => win.wflag)
    BY <1>1, <2>1, WindowStep
  <2>4. CallTypes' /\ ReadInv' /\ fp.fsize <= fp'.fsize
    BY <1>1, <2>1, <2>2 DEF CallTypes, ReadInv
  <2>5. QED
    BY <1>1, <2>1, <2>2, <2>3, <2>4, CallKeeps
<1>7. CASE ReadDirect
  <2>1. /\ pc = "read" /\ pc' = pc /\ UNCHANGED <<data, win, from, calls, content>>
        /\ \E a, c : fp' = [fp EXCEPT !.csect = c, !.fptr = a]
    BY <1>7 DEF ReadDirect
  <2>2. fp'.fsize = fp.fsize /\ fp'.err = fp.err /\ fp'.written = fp.written
    BY <1>1, <2>1 DEF FIL
  <2>3. StoreInv' /\ Fades /\ (win'.wflag => win.wflag)
    BY <1>1, <2>1, WindowStep
  <2>4. CallTypes' /\ ReadInv' /\ fp.fsize <= fp'.fsize
    BY <1>1, <1>7, <2>1, <2>2, ReadDirectKeeps DEF CallTypes
  <2>5. QED
    BY <1>1, <2>1, <2>2, <2>3, <2>4, CallKeeps
<1>8. CASE ReadPart
  <2>1. /\ pc = "read" /\ pc' = pc /\ UNCHANGED <<from, calls, content>>
        /\ \E a, c, d : fp' = [fp EXCEPT !.dsect = d, !.fptr = a, !.csect = c]
    BY <1>8 DEF ReadPart
  <2>2. fp'.fsize = fp.fsize /\ fp'.err = fp.err /\ fp'.written = fp.written
    BY <1>1, <2>1 DEF FIL
  <2>3. StoreInv' /\ (win'.wflag => win.wflag) /\ ReadInv' /\ got' \in Seq(Byte)
    BY <1>8, ReadPartKeeps
  <2>4. Fades
    BY <1>1, <2>1, SameContent
  <2>5. CallTypes' /\ fp.fsize <= fp'.fsize
    BY <1>1, <2>1, <2>2, <2>3 DEF CallTypes
  <2>6. QED
    BY <1>1, <2>1, <2>2, <2>3, <2>4, <2>5, CallKeeps
<1>9. CASE ReadEnd \/ UNCHANGED vars
  <2>1. /\ UNCHANGED <<data, win, fp, from, got, calls, content>>
        /\ pc' = pc \/ (pc = "read" /\ pc' = "idle")
    BY <1>9 DEF ReadEnd, vars
  <2>2. StoreInv' /\ Fades /\ (win'.wflag => win.wflag)
    BY <1>1, <2>1, WindowStep
  <2>3. CallTypes' /\ (pc' = "read" => ReadInv') /\ fp.fsize <= fp'.fsize /\ fp.fptr <= fp'.fptr
    BY <1>1, <2>1 DEF CallTypes, ReadInv
  <2>4. QED
    BY <1>1, <2>1, <2>2, <2>3, CallKeeps
<1>10. CASE WriteCluster
  <2>1. /\ pc = "write" /\ UNCHANGED <<from, got, calls, content>>
        /\ MoveWindow(Elsewhere) \/ UNCHANGED <<data, win>>
        /\ \/ pc' = pc /\ \E c : fp' = [fp EXCEPT !.curr = c, !.csect = 0]
           \/ pc' = "idle" /\ fp' = Done
    BY <1>10 DEF WriteCluster
  <2>2. StoreInv' /\ Fades /\ (win'.wflag => win.wflag) /\ CallTypes'
    BY <1>1, <2>1, WindowStep DEF CallTypes
  <2>3. CASE fp' = Done
    BY <1>1, <1>3, <2>1, <2>2, <2>3, CallKeeps
  <2>4. CASE pc' = pc /\ \E c : fp' = [fp EXCEPT !.curr = c, !.csect = 0]
    <3>1. fp'.fptr = fp.fptr /\ fp'.fsize = fp.fsize /\ fp'.err = fp.err /\ fp'.written = fp.written
      BY <1>1, <2>4 DEF FIL
    <3>2. fp.fsize <= fp'.fsize /\ fp.fptr <= fp'.fptr
      BY <1>1, <3>1
    <3>3. pc = "write" /\ pc' = "write"
      BY <2>1, <2>4
    <3>4. QED
      BY <1>1, <2>2, <3>1, <3>2, <3>3, CallKeeps
  <2>5. QED
    BY <2>1, <2>3, <2>4
<1>11. CASE WriteDirect \/ WritePart
  BY <1>11, WriteKeeps
<1>12. CASE WriteEnd
  <2>1. /\ pc = "write" /\ pc' = "idle" /\ fp' = Done
        /\ UNCHANGED <<data, win, from, got, calls, content>>
    BY <1>12 DEF WriteEnd
  <2>2. StoreInv' /\ Fades /\ (win'.wflag => win.wflag) /\ CallTypes'
    BY <1>1, <2>1, WindowStep DEF CallTypes
  <2>3. QED
    BY <1>1, <1>3, <2>1, <2>2, CallKeeps
<1>13. CASE SeekCreate \/ SeekStep
  <2>1. /\ pc = "seek" /\ pc' = pc /\ UNCHANGED <<from, got, calls, content>> /\ MoveWindow(Elsewhere)
        /\ \/ fp' = fp
           \/ \E c : fp' = [fp EXCEPT !.curr = c]
           \/ \E a, c : fp' = [fp EXCEPT !.curr = c, !.fptr = a]
    BY <1>13 DEF SeekCreate, SeekStep
  <2>2. fp'.fsize = fp.fsize /\ fp'.err = fp.err /\ fp'.written = fp.written
    BY <1>1, <2>1 DEF FIL
  <2>3. StoreInv' /\ Fades /\ (win'.wflag => win.wflag)
    BY <1>1, <2>1, WindowStep
  <2>4. fp.fsize <= fp'.fsize
    BY <1>1, <2>2
  <2>5. CallTypes' /\ pc = "seek" /\ pc' = "seek"
    BY <1>1, <2>1 DEF CallTypes
  <2>6. QED
    BY <1>1, <2>2, <2>3, <2>4, <2>5, CallKeeps
<1>14. CASE SeekEnd
  <2> DEFINE fptr == fp.fptr + bt
             m == Max({fp.fsize, fptr})
             w == fp.written \/ fptr > fp.fsize
             part == IF bt % SS = 0 THEN 0 ELSE 1
             c == IF bt = 0 THEN 255 ELSE bt \div SS + part
             d == IF part = 1 THEN Sect(fp.curr, bt \div SS) ELSE fp.dsect
  <2>1. /\ pc = "seek" /\ pc' = "idle" /\ UNCHANGED <<data, win, from, got, calls, content>>
        /\ fp' = [fp EXCEPT !.fptr = fptr, !.csect = c, !.dsect = d, !.fsize = m, !.written = w]
    BY <1>14 DEF SeekEnd
  <2>2. m >= fp.fsize
    BY <1>1, MaxTwo DEF PtrTypes
  <2>3. fp.written => w
    OBVIOUS
  <2> HIDE DEF m, w, fptr, c, d
  <2>4. fp'.err = fp.err /\ fp'.fsize = m /\ fp'.written = w
    BY <1>1, <2>1 DEF FIL
  <2>5. StoreInv' /\ Fades /\ (win'.wflag => win.wflag) /\ CallTypes' /\ fp.fsize <= fp'.fsize
    BY <1>1, <2>1, <2>2, <2>4, WindowStep DEF CallTypes
  <2>6. QED
    BY <1>1, <2>1, <2>3, <2>4, <2>5, CallKeeps
<1>15. CASE f_sync
  <2>1. /\ pc = "idle" /\ pc' = pc /\ UNCHANGED <<from, got, calls, content>>
        /\ MoveWindow(Elsewhere) /\ fp' = [fp EXCEPT !.written = FALSE]
    BY <1>15 DEF f_sync
  <2>2. fp'.fsize = fp.fsize /\ fp'.err = fp.err
    BY <1>1, <2>1 DEF FIL
  <2>3. StoreInv' /\ win'.sect = Elsewhere /\ CallTypes'
    BY <1>1, <2>1, MoveKeeps DEF CallTypes
  <2>4. ~win'.wflag
    <3>1. Elsewhere \notin Sectors
      BY DEF Elsewhere, Sectors
    <3>2. QED
      BY <2>3, <3>1 DEF StoreInv, StoreTypes
  <2>5. EdgeInv'
    BY <2>1, <2>2 DEF DataInv, EdgeInv
  <2>6. DirtyInv' /\ ReadInv'
    BY <2>1, <2>4 DEF DirtyInv, ReadInv
  <2>7. QED
    BY <2>3, <2>5, <2>6 DEF DataInv
<1>16. CASE SyncFails
  <2>1. /\ pc = "idle" /\ pc' = pc /\ UNCHANGED <<fp, from, got, calls, content>> /\ MoveFails
    BY <1>16 DEF SyncFails
  <2>2. Fades
    BY <1>1, <2>1, SameContent
  <2>3. StoreInv' /\ (win'.wflag => win.wflag) /\ CallTypes' /\ fp.fsize <= fp'.fsize
    BY <1>1, <2>1, <2>2, MoveFailKeeps DEF CallTypes
  <2>4. QED
    BY <1>1, <2>1, <2>2, <2>3, CallKeeps
<1>17. CASE Abort
  BY <1>17, AbortKeeps
<1>18. QED
  BY <1>4, <1>5, <1>6, <1>7, <1>8, <1>9, <1>10, <1>11, <1>12, <1>13, <1>14, <1>15, <1>16, <1>17
     DEF Next, Transfer

(* The inductive invariant of the file's bytes: a known byte is in the     *)
(* window when that has its sector and else on the card, a clean window    *)
(* agrees with the card, nothing is known behind the end, and a dirty      *)
(* window is never forgotten (f_read, f_write, f_sync and move_window).    *)
THEOREM FileInvariant == Spec => [](PtrInv /\ DataInv)
<1>1. Init => DataInv
  BY DataInit
<1>2. QED
  BY <1>1, DataStep, PointerInvariant, PTL DEF Spec

LEMMA Intact == DataInv => FileIntact
<1> SUFFICES ASSUME DataInv, NEW o \in Offsets, content[o] # Junk
             PROVE  content[o] = IF InWindow(o) THEN win.body[o % SS] ELSE OnCard(o)
  BY DEF FileIntact, Known
<1> DEFINE s == (o \div SS) + 1
           b == o % SS
<1>1. s \in Sectors /\ b \in InSector /\ Off(s, b) = o
  BY OffOf
<1> HIDE DEF s, b
<1>2. content[o] = View(s, b)
  BY <1>1 DEF DataInv, StoreInv, ViewInv
<1>3. QED
  BY <1>2 DEF View, InWindow, OnCard, s, b

LEMMA Durable == DataInv => SyncIsDurable
<1> SUFFICES ASSUME DataInv, pc = "idle", ~fp.written, ~fp.err, NEW o \in Offsets, content[o] # Junk
             PROVE  content[o] = OnCard(o)
  BY DEF SyncIsDurable, Known
<1> DEFINE s == (o \div SS) + 1
           b == o % SS
<1>1. s \in Sectors /\ b \in InSector /\ Off(s, b) = o
  BY OffOf
<1>2. OnCard(o) = data[s][b]
  BY DEF OnCard
<1> HIDE DEF s, b
<1>3. ~win.wflag
  BY DEF DataInv, DirtyInv
<1>4. content[o] = View(s, b)
  BY <1>1 DEF DataInv, StoreInv, ViewInv
<1>5. win.sect = s => data[s][b] = win.body[b]
  BY <1>1, <1>3 DEF DataInv, StoreInv, CleanInv
<1>6. QED
  BY <1>2, <1>4, <1>5 DEF View

(* The sectors that bypass the window and the ones that go through it      *)
(* never diverge, and a failed call loses no byte but its own: between     *)
(* calls, every byte that a call wrote is where the driver looks for it.   *)
THEOREM FilesIntact == Spec => []FileIntact
<1>1. QED
  BY FileInvariant, Intact, PTL

(* After f_sync (or before anything is written) the card alone has the     *)
(* file: its move of the window to the directory entry wrote it back.      *)
THEOREM SyncsDurable == Spec => []SyncIsDurable
<1>1. QED
  BY FileInvariant, Durable, PTL

(* A file that was not written since f_sync reads back as written: f_read  *)
(* delivers the bytes in order, whole sectors from the card and parts from *)
(* the window.                                                             *)
THEOREM ReadsAfterSync == Spec => ReadAfterSync
<1>1. DataInv /\ [Next]_vars =>
        [pc = "read" /\ pc' = "idle" /\ ~fp'.err /\ ~fp.written =>
           /\ from + Len(got) = fp.fptr
           /\ \A i \in 1 .. Len(got) : content[from + i - 1] \in {Junk, got[i]}]_vars
  BY DEF DataInv, ReadInv
<1>2. QED
  BY <1>1, FileInvariant, PTL DEF Spec, ReadAfterSync
=============================================================================
