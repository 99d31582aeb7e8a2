---------------------------- MODULE NandEccProofs ----------------------------
(***************************************************************************)
(* What nand_correct's decoding does for every one of the 4096 data bits   *)
(* and 32 ECC bits of a sub-block, not only TLC's sample.                  *)
(***************************************************************************)
EXTENDS NandEcc, FiniteSetTheorems, TLAPS

(* The positions of the parities in the word: no two coincide.             *)
LEMMA Layout ==
    ASSUME NEW j \in Index, NEW k \in Index
    PROVE  /\ OddAt(j) \in Word /\ EvenAt(j) \in Word
           /\ OddAt(j) # EvenAt(k)
           /\ (OddAt(j) = OddAt(k) \/ EvenAt(j) = EvenAt(k)) => j = k
BY DEF OddAt, EvenAt, Index, Word

(* The shifts and masks of nand_correct pick the parities up there.        *)
LEMMA Halves ==
    ASSUME NEW s
    PROVE  /\ Odd(s) = {j \in Index : OddAt(j) \in s}
           /\ Even(s) = {j \in Index : EvenAt(j) \in s}
BY DEF Odd, Even, OddAt, EvenAt, Index

(* The halves nand_correct extracts from the column of bit p are p itself  *)
(* and its complement: the two shifts undo the byte-swapped layout.        *)
LEMMA ColumnHalves ==
    ASSUME NEW p \in SUBSET Index
    PROVE  /\ Odd(Column(p)) = p
           /\ Even(Column(p)) = Index \ p
<1>1. ASSUME NEW j \in Index
      PROVE  /\ OddAt(j) \in Column(p) <=> j \in p
             /\ EvenAt(j) \in Column(p) <=> j \notin p
  BY Layout DEF Column
<1>2. QED
  BY <1>1, Halves

(* Extraction is linear.                                                   *)
LEMMA HalvesLinear ==
    ASSUME NEW s, NEW t
    PROVE  /\ Odd(Xor(s, t)) = Xor(Odd(s), Odd(t))
           /\ Even(Xor(s, t)) = Xor(Even(s), Even(t))
BY DEF Odd, Even, Xor

(* One wrong data bit: nand_correct flips exactly that bit.                *)
THEOREM OneDataBit ==
    ASSUME NEW p \in SUBSET Index
    PROVE  Verdict(Column(p)) = "data" /\ Odd(Column(p)) = p
<1>1. Xor(Even(Column(p)), Odd(Column(p))) = Index
  BY ColumnHalves DEF Xor
<1>2. Column(p) # {}
  BY DEF Column, Index
<1>3. ~PowerOfTwo(Column(p))
  <2>1. \A j \in Index : OddAt(j) \in Column(p) \/ EvenAt(j) \in Column(p)
    BY DEF Column
  <2>2. 0 \in Index /\ 1 \in Index
    BY DEF Index
  <2>3. {OddAt(0), EvenAt(0)} \cap {OddAt(1), EvenAt(1)} = {}
    BY DEF OddAt, EvenAt
  <2>4. QED
    BY <2>1, <2>2, <2>3 DEF PowerOfTwo
<1>4. QED
  BY <1>1, <1>2, <1>3, ColumnHalves DEF Verdict

(* One wrong ECC bit: the data is left alone and the page counts as        *)
(* corrected.                                                              *)
THEOREM OneEccBit ==
    ASSUME NEW b \in Word
    PROVE  Verdict({b}) = "ecc"
BY DEF Verdict, PowerOfTwo

(* Two wrong data bits: never repaired, always reported.                   *)
THEOREM TwoDataBits ==
    ASSUME NEW p \in SUBSET Index, NEW q \in SUBSET Index, p # q
    PROVE  Verdict(Xor(Column(p), Column(q))) = "uncorrectable"
<1> DEFINE s == Xor(Column(p), Column(q))
<1>1. Odd(s) = Xor(p, q) /\ Even(s) = Xor(Index \ p, Index \ q)
  <2>1. Odd(s) = Xor(Odd(Column(p)), Odd(Column(q)))
    BY HalvesLinear
  <2>2. Even(s) = Xor(Even(Column(p)), Even(Column(q)))
    BY HalvesLinear
  <2>3. QED
    BY <2>1, <2>2, ColumnHalves
<1>2. Even(s) = Odd(s)
  BY <1>1 DEF Xor
<1>3. PICK j \in Index : j \in Odd(s) /\ j \in Even(s)
  BY <1>1, <1>2 DEF Xor
<1>4. OddAt(j) \in s /\ EvenAt(j) \in s /\ OddAt(j) # EvenAt(j)
  BY <1>3 DEF Odd, Even, OddAt, EvenAt, Index
<1>5. s # {} /\ ~PowerOfTwo(s)
  BY <1>4 DEF PowerOfTwo
<1>6. Xor(Even(s), Odd(s)) # Index
  BY <1>2, <1>3 DEF Xor
<1>7. QED
  BY <1>5, <1>6 DEF Verdict

(* Two wrong ECC bits: the data is left alone, the page is reported.       *)
THEOREM TwoEccBits ==
    ASSUME NEW a \in Word, NEW b \in Word, a # b
    PROVE  Verdict({a, b}) = "uncorrectable"
<1>1. {a, b} # {} /\ ~PowerOfTwo({a, b})
  BY DEF PowerOfTwo
<1>2. \E j \in 0 .. 2 : {j + 8, j + 24} \cap {a, b} = {}
  BY DEF Word
<1>3. PICK j \in 0 .. 2 : j + 8 \notin {a, b} /\ j + 24 \notin {a, b}
  BY <1>2
<1>4. j \in Index /\ OddAt(j) \notin {a, b} /\ EvenAt(j) \notin {a, b}
  BY <1>3 DEF OddAt, EvenAt, Index
<1>5. Xor(Even({a, b}), Odd({a, b})) # Index
  BY <1>4, Halves DEF Xor
<1>6. QED
  BY <1>1, <1>5 DEF Verdict

(* A wrong data bit together with a wrong ECC bit: either the ECC bit is   *)
(* one of the eight unused ones and the data bit is repaired, or nothing   *)
(* is changed and the page is reported.                                    *)
THEOREM DataAndEccBit ==
    ASSUME NEW p \in SUBSET Index, NEW b \in Word
    PROVE  LET s == Xor(Column(p), {b})
           IN  \/ Verdict(s) = "uncorrectable"
               \/ Verdict(s) = "data" /\ Odd(s) = p
<1> DEFINE s == Xor(Column(p), {b})
<1>1. Odd(s) = Xor(p, Odd({b})) /\ Even(s) = Xor(Index \ p, Even({b}))
  <2>1. Odd(s) = Xor(Odd(Column(p)), Odd({b}))
    BY HalvesLinear
  <2>2. Even(s) = Xor(Even(Column(p)), Even({b}))
    BY HalvesLinear
  <2>3. QED
    BY <2>1, <2>2, ColumnHalves
<1>2. s # {} /\ ~PowerOfTwo(s)
  <2>1. \A j \in Index : OddAt(j) \in Column(p) \/ EvenAt(j) \in Column(p)
    BY DEF Column
  <2>2. \A j \in 0 .. 3 : OddAt(j) = j + 8 /\ EvenAt(j) = j + 24 /\ j \in Index
    BY DEF OddAt, EvenAt, Index
  <2>3. PICK x \in Column(p), y \in Column(p) : x # y /\ x # b /\ y # b
    BY <2>1, <2>2
  <2>4. x \in s /\ y \in s
    BY <2>3 DEF Xor
  <2>5. QED
    BY <2>3, <2>4 DEF PowerOfTwo
<1>3. CASE Odd({b}) = {} /\ Even({b}) = {}
  BY <1>1, <1>2, <1>3 DEF Verdict, Xor
<1>4. CASE Odd({b}) # {} \/ Even({b}) # {}
  <2>1. PICK j \in Index : j \in Odd({b}) \/ j \in Even({b})
    BY <1>4 DEF Odd, Even, Index
  <2>2. ~(j \in Odd({b}) /\ j \in Even({b}))
    BY DEF Odd, Even
  <2>3. j \notin Xor(Even(s), Odd(s))
    BY <1>1, <2>1, <2>2 DEF Xor
  <2>4. QED
    BY <1>2, <2>3 DEF Verdict
<1>5. QED
  BY <1>3, <1>4
-----------------------------------------------------------------------------
(* A finite set of at most two elements.                                   *)
LEMMA SmallSet ==
    ASSUME NEW S, IsFiniteSet(S)
    PROVE  /\ Cardinality(S) \in Nat
           /\ Cardinality(S) = 0 <=> S = {}
           /\ Cardinality(S) = 1 => \E x \in S : S = {x}
           /\ Cardinality(S) = 2 => \E x \in S, y \in S : x # y /\ S = {x, y}
<1>1. Cardinality(S) \in Nat /\ (Cardinality(S) = 0 <=> S = {})
  BY FS_CardinalityType, FS_EmptySet
<1>2. Cardinality(S) = 1 => \E x \in S : S = {x}
  BY FS_Singleton
<1>3. ASSUME Cardinality(S) = 2 PROVE \E x \in S, y \in S : x # y /\ S = {x, y}
  <2>1. PICK x \in S : TRUE
    BY <1>1, <1>3
  <2>2. IsFiniteSet(S \ {x}) /\ Cardinality(S \ {x}) = 1
    BY <1>3, <2>1, FS_RemoveElement
  <2>3. PICK y : S \ {x} = {y}
    BY <2>2, FS_Singleton
  <2>4. QED
    BY <2>1, <2>3
<1>4. QED
  BY <1>1, <1>2, <1>3

(* The cardinalities that a parity over at most two bits meets.            *)
LEMMA Parity ==
    /\ Cardinality({}) = 0
    /\ \A x : Cardinality({x}) = 1
    /\ \A x, y : x # y => Cardinality({x, y}) = 2
<1>1. Cardinality({}) = 0 /\ \A x : IsFiniteSet({x}) /\ Cardinality({x}) = 1
  BY FS_EmptySet, FS_Singleton
<1>2. ASSUME NEW x, NEW y, x # y PROVE Cardinality({x, y}) = 2
  <2>1. Cardinality({x} \cup {y}) = 2
    <3>1. Cardinality({x} \cup {y}) = IF y \in {x} THEN Cardinality({x}) ELSE Cardinality({x}) + 1
      BY <1>1, FS_AddElement
    <3>2. y \notin {x} /\ Cardinality({x}) = 1
      BY <1>1, <1>2
    <3>3. QED
      BY <3>1, <3>2
  <2>2. {x} \cup {y} = {x, y}
    OBVIOUS
  <2>3. QED
    BY <2>1, <2>2
<1>3. QED
  BY <1>1, <1>2

(* The syndrome of every difference of at most two wrong bits.             *)
LEMMA SyndromeOf ==
    ASSUME NEW E \in SUBSET Word, NEW p \in SUBSET Index, NEW q \in SUBSET Index
    PROVE  /\ Syndrome([data |-> {}, ecc |-> E]) = E
           /\ Syndrome([data |-> {p}, ecc |-> E]) = Xor(Column(p), E)
           /\ p # q => Syndrome([data |-> {p, q}, ecc |-> {}]) = Xor(Column(p), Column(q))
<1> DEFINE Odds(D) == {b \in Word : Cardinality({r \in D : b \in Column(r)}) % 2 = 1}
<1>0. Column(p) \subseteq Word /\ Column(q) \subseteq Word
  BY Layout DEF Column
<1>1. Odds({}) = {}
  <2>1. \A b \in Word : {r \in {} : b \in Column(r)} = {}
    OBVIOUS
  <2>2. QED
    BY <2>1, Parity
<1>2. Odds({p}) = Column(p)
  <2>1. ASSUME NEW b \in Word
        PROVE  Cardinality({r \in {p} : b \in Column(r)}) = IF b \in Column(p) THEN 1 ELSE 0
    <3>1. {r \in {p} : b \in Column(r)} = IF b \in Column(p) THEN {p} ELSE {}
      OBVIOUS
    <3>2. QED
      BY <3>1, Parity
  <2>2. QED
    BY <1>0, <2>1
<1>3. ASSUME p # q PROVE Odds({p, q}) = Xor(Column(p), Column(q))
  <2>1. ASSUME NEW b \in Word
        PROVE  Cardinality({r \in {p, q} : b \in Column(r)}) % 2 = 1
                 <=> b \in Xor(Column(p), Column(q))
    <3> DEFINE S == {r \in {p, q} : b \in Column(r)}
    <3>1. CASE b \in Column(p) /\ b \in Column(q)
      <4>1. S = {p, q}
        BY <3>1
      <4>2. Cardinality(S) = 2
        <5>1. Cardinality({p, q}) = 2
          BY <1>3, Parity, Zenon
        <5>2. QED
          BY <4>1, <5>1
      <4>3. QED
        BY <3>1, <4>2 DEF Xor
    <3>2. CASE b \in Column(p) /\ b \notin Column(q)
      <4>1. S = {p}
        BY <3>2
      <4>2. Cardinality(S) = 1
        BY <4>1, Parity
      <4>3. QED
        BY <3>2, <4>2 DEF Xor
    <3>3. CASE b \notin Column(p) /\ b \in Column(q)
      <4>1. S = {q}
        BY <3>3
      <4>2. Cardinality(S) = 1
        BY <4>1, Parity
      <4>3. QED
        BY <3>3, <4>2 DEF Xor
    <3>4. CASE b \notin Column(p) /\ b \notin Column(q)
      <4>1. S = {}
        BY <3>4
      <4>2. Cardinality(S) = 0
        BY <4>1, Parity
      <4>3. QED
        BY <3>4, <4>2 DEF Xor
    <3>5. QED
      BY <3>1, <3>2, <3>3, <3>4
  <2>2. Xor(Column(p), Column(q)) \subseteq Word
    BY <1>0 DEF Xor
  <2>3. QED
    BY <2>1, <2>2
<1>4. \A D : Syndrome([data |-> D, ecc |-> E]) = Xor(E, Odds(D))
  BY DEF Syndrome
<1>5. Syndrome([data |-> {p, q}, ecc |-> {}]) = Xor({}, Odds({p, q}))
  BY DEF Syndrome
<1>6. QED
  <2> HIDE DEF Odds
  <2> QED
    BY <1>1, <1>2, <1>3, <1>4, <1>5 DEF Xor

(* Only so many bits can be wrong.                                         *)
LEMMA FiniteDifference ==
    ASSUME NEW d \in Differences
    PROVE  IsFiniteSet(d.data) /\ IsFiniteSet(d.ecc)
<1>1. d.data \in SUBSET SUBSET Index /\ d.ecc \in SUBSET Word
  BY DEF Differences
<1>2. IsFiniteSet(Index) /\ IsFiniteSet(Word)
  <2>1. \A k \in Int : IsFiniteSet(0 .. k)
    BY FS_Interval
  <2>2. 11 \in Int /\ 31 \in Int
    OBVIOUS
  <2>3. QED
    BY <2>1, <2>2, Zenon DEF Index, Word
<1>3. IsFiniteSet(SUBSET Index)
  BY <1>2, FS_SUBSET
<1>4. QED
  BY <1>1, <1>2, <1>3, FS_Subset

(* At most two wrong bits: a bit that is flipped is the one wrong data     *)
(* bit; a block that is left alone and not reported has intact data; and   *)
(* one wrong bit is never reported as uncorrectable.                       *)
LEMMA Decode ==
    ASSUME NEW d \in Differences, Wrong(d) <= 2
    PROVE  /\ Verdict(Syndrome(d)) = "data" => d.data = {Odd(Syndrome(d))}
           /\ Verdict(Syndrome(d)) \in {"ok", "ecc"} => d.data = {}
           /\ Wrong(d) <= 1 => Verdict(Syndrome(d)) # "uncorrectable"
           /\ Verdict(Syndrome(d)) \in {"ok", "ecc", "data", "uncorrectable"}
<1> DEFINE D == d.data
           E == d.ecc
           v == Verdict(Syndrome(d))
<1>0. v \in {"ok", "ecc", "data", "uncorrectable"}
  BY DEF Verdict
<1>1. D \in SUBSET SUBSET Index /\ E \in SUBSET Word /\ d = [data |-> D, ecc |-> E]
  BY DEF Differences
<1>2. IsFiniteSet(D) /\ IsFiniteSet(E)
  BY FiniteDifference
<1> DEFINE m == Cardinality(D)
           n == Cardinality(E)
<1>3. /\ m \in Nat /\ n \in Nat /\ m + n <= 2 /\ Wrong(d) = m + n
      /\ (m = 0 <=> D = {}) /\ (n = 0 <=> E = {})
  BY <1>2, SmallSet DEF Wrong
<1>4. /\ m = 1 => \E p \in D : D = {p}
      /\ m = 2 => \E p \in D, q \in D : p # q /\ D = {p, q}
      /\ n = 1 => \E a \in E : E = {a}
      /\ n = 2 => \E a \in E, b \in E : a # b /\ E = {a, b}
  BY <1>2, SmallSet
<1> HIDE DEF m, n
<1>5. CASE m = 0 /\ n = 0
  <2>1. Syndrome(d) = {} /\ D = {}
    BY <1>1, <1>3, <1>5, SyndromeOf
  <2>2. QED
    BY <1>3, <1>5, <2>1 DEF Verdict
<1>6. CASE m = 0 /\ n = 1
  <2>1. PICK a \in Word : E = {a}
    BY <1>1, <1>4, <1>6
  <2>2. Syndrome(d) = {a} /\ D = {}
    BY <1>1, <1>3, <1>6, <2>1, SyndromeOf
  <2>3. v = "ecc"
    BY <2>2, OneEccBit
  <2>4. QED
    BY <2>2, <2>3
<1>7. CASE m = 0 /\ n = 2
  <2>1. PICK a \in Word, b \in Word : a # b /\ E = {a, b}
    BY <1>1, <1>4, <1>7
  <2>2. Syndrome(d) = {a, b}
    BY <1>1, <1>3, <1>7, <2>1, SyndromeOf
  <2>3. v = "uncorrectable"
    BY <2>1, <2>2, TwoEccBits
  <2>4. QED
    BY <1>3, <1>7, <2>3
<1>8. CASE m = 1 /\ n = 0
  <2>1. PICK p \in SUBSET Index : D = {p}
    BY <1>1, <1>4, <1>8
  <2>2. Syndrome(d) = Column(p)
    <3>1. Syndrome(d) = Xor(Column(p), {})
      BY <1>1, <1>3, <1>8, <2>1, SyndromeOf
    <3>2. QED
      BY <3>1 DEF Xor
  <2>3. v = "data" /\ Odd(Syndrome(d)) = p
    BY <2>2, OneDataBit
  <2>4. QED
    BY <2>1, <2>3
<1>9. CASE m = 1 /\ n = 1
  <2>1. PICK p \in SUBSET Index : D = {p}
    BY <1>1, <1>4, <1>9
  <2>2. PICK a \in Word : E = {a}
    BY <1>1, <1>4, <1>9
  <2>3. Syndrome(d) = Xor(Column(p), {a})
    BY <1>1, <2>1, <2>2, SyndromeOf
  <2>4. v = "uncorrectable" \/ (v = "data" /\ Odd(Syndrome(d)) = p)
    BY <2>3, DataAndEccBit
  <2>5. QED
    BY <1>3, <1>9, <2>1, <2>4
<1>10. CASE m = 2 /\ n = 0
  <2>1. PICK p \in SUBSET Index, q \in SUBSET Index : p # q /\ D = {p, q}
    BY <1>1, <1>4, <1>10
  <2>2. Syndrome(d) = Xor(Column(p), Column(q))
    BY <1>1, <1>3, <1>10, <2>1, SyndromeOf
  <2>3. v = "uncorrectable"
    BY <2>1, <2>2, TwoDataBits
  <2>4. QED
    BY <1>3, <1>10, <2>3
<1>11. QED
  BY <1>3, <1>5, <1>6, <1>7, <1>8, <1>9, <1>10

(* The number of wrong bits is a number.                                   *)
LEMMA WrongType == \A d \in Differences : Wrong(d) \in Nat
<1> SUFFICES ASSUME NEW d \in Differences PROVE Wrong(d) \in Nat
  OBVIOUS
<1>1. IsFiniteSet(d.data) /\ IsFiniteSet(d.ecc)
  BY FiniteDifference
<1>2. QED
  BY <1>1, FS_CardinalityType DEF Wrong
-----------------------------------------------------------------------------
(* The loop so far: the blocks ahead and the unformatted ones are as they  *)
(* were; one that is behind has intact data, or was left as it was and     *)
(* counted, as far as at most two bits were wrong in it.                   *)
LoopInv ==
    /\ \A b \in Blocks : b >= i \/ b \in blank => now[b] = before[b]
    /\ \A b \in Blocks \ blank : b < i /\ Wrong(before[b]) <= 2 =>
           \/ now[b].data = {}
           \/ now[b] = before[b] /\ uncorrectable > 0 /\ ~(Wrong(before[b]) <= 1)
    /\ \A b \in Blocks : before[b] \in Damages \cup Others
    /\ result # "none" => i = 4
    /\ result \in {"OK", "CORRECTED"} => uncorrectable = 0

IInv == TypeOK /\ LoopInv

(* The loop starts with every block ahead of it.                           *)
LEMMA InitInv == Init => IInv
<1> SUFFICES ASSUME Init PROVE IInv
  OBVIOUS
<1>1. PICK b \in Blocks, d \in Damages, e \in Others :
          before = [c \in Blocks |-> IF c = b THEN d ELSE e]
  BY DEF Init
<1>2. before \in [Blocks -> Damages \cup Others]
  BY <1>1
<1>3. before \in [Blocks -> Differences] /\ now = before
  BY <1>2, DamageAssumption DEF Init
<1>4. TypeOK
  BY <1>3 DEF Init, TypeOK, Blocks
<1>5. LoopInv
  BY <1>2 DEF Init, LoopInv, Blocks
<1>6. QED
  BY <1>4, <1>5 DEF IInv

(* One pass of the loop.                                                   *)
LEMMA PassInv == IInv /\ CorrectBlock => IInv'
<1> SUFFICES ASSUME IInv, CorrectBlock PROVE IInv'
  OBVIOUS
<1> DEFINE s == Syndrome(now[i])
           v == IF i \in blank THEN "ok" ELSE Verdict(s)
<1>1. /\ i \in 0 .. 3 /\ i' = i + 1 /\ UNCHANGED <<blank, before, result>>
      /\ corrected' = IF v \in {"ecc", "data"} THEN corrected + 1 ELSE corrected
      /\ uncorrectable' = IF v = "uncorrectable" THEN uncorrectable + 1 ELSE uncorrectable
      /\ now' = IF v = "data" THEN [now EXCEPT ![i].data = Xor(@, {Odd(s)})] ELSE now
  BY DEF IInv, TypeOK, CorrectBlock
<1>2. i \in Blocks /\ now[i] = before[i] /\ now \in [Blocks -> Differences]
  BY <1>1 DEF IInv, TypeOK, LoopInv, Blocks
<1>3. i \notin blank /\ Wrong(before[i]) <= 2 =>
          /\ v = "data" => now[i].data = {Odd(s)}
          /\ v \in {"ok", "ecc"} => now[i].data = {}
          /\ Wrong(before[i]) <= 1 => v # "uncorrectable"
          /\ v \in {"ok", "ecc", "data", "uncorrectable"}
  BY <1>2, Decode
<1>4. Odd(s) \in SUBSET Index
  BY Halves
<1> HIDE DEF s, v
<1>5. /\ now' \in [Blocks -> Differences]
      /\ \A b \in Blocks : b # i => now'[b] = now[b]
      /\ v = "data" => now'[i].data = Xor(now[i].data, {Odd(s)})
      /\ v # "data" => now'[i] = now[i]
  <2>1. CASE v = "data"
    <3>1. now' = [now EXCEPT ![i].data = Xor(now[i].data, {Odd(s)})]
      BY <1>1, <2>1
    <3>2. now[i] \in Differences
      BY <1>2
    <3>3. Xor(now[i].data, {Odd(s)}) \in SUBSET SUBSET Index
      BY <1>4, <3>2 DEF Xor, Differences
    <3>4. [now[i] EXCEPT !.data = Xor(now[i].data, {Odd(s)})] \in Differences
      BY <3>2, <3>3 DEF Differences
    <3>5. now' = [now EXCEPT ![i] = [now[i] EXCEPT !.data = Xor(now[i].data, {Odd(s)})]]
      BY <3>1
    <3>6. now'[i] = [now[i] EXCEPT !.data = Xor(now[i].data, {Odd(s)})]
      BY <1>2, <3>5
    <3>7. now'[i].data = Xor(now[i].data, {Odd(s)})
      BY <3>2, <3>6 DEF Differences
    <3>8. QED
      BY <1>2, <2>1, <3>4, <3>5, <3>7
  <2>2. CASE v # "data"
    BY <1>1, <1>2, <2>2
  <2>3. QED
    BY <2>1, <2>2
<1>6. TypeOK'
  BY <1>1, <1>5 DEF IInv, TypeOK
<1>7. LoopInv'
  <2>1. ASSUME NEW b \in Blocks, b >= i' \/ b \in blank PROVE now'[b] = before[b]
    <3>1. CASE b = i
      <4>1. v = "ok"
        BY <1>1, <2>1, <3>1 DEF v
      <4>2. QED
        BY <1>2, <1>5, <3>1, <4>1
    <3>2. CASE b # i
      BY <1>1, <1>5, <2>1, <3>2 DEF IInv, LoopInv, Blocks
    <3>3. QED
      BY <3>1, <3>2
  <2>2. ASSUME NEW b \in Blocks \ blank, b < i', Wrong(before[b]) <= 2
        PROVE  \/ now'[b].data = {}
               \/ now'[b] = before[b] /\ uncorrectable' > 0 /\ ~(Wrong(before[b]) <= 1)
    <3>1. uncorrectable' >= uncorrectable /\ uncorrectable \in Nat /\ uncorrectable' \in Nat
      BY <1>1 DEF IInv, TypeOK
    <3>2. CASE b = i
      <4>1. CASE v = "uncorrectable"
        BY <1>1, <1>2, <1>3, <1>5, <2>2, <3>1, <3>2, <4>1
      <4>2. CASE v = "data"
        BY <1>3, <1>5, <2>2, <3>2, <4>2 DEF Xor
      <4>3. CASE v \in {"ok", "ecc"}
        BY <1>3, <1>5, <2>2, <3>2, <4>3
      <4>4. QED
        BY <1>3, <2>2, <3>2, <4>1, <4>2, <4>3
    <3>3. CASE b # i
      <4>1. b < i /\ now'[b] = now[b]
        BY <1>1, <1>5, <2>2, <3>3 DEF Blocks
      <4>2. QED
        BY <2>2, <3>1, <4>1 DEF IInv, LoopInv
    <3>4. QED
      BY <3>2, <3>3
  <2>3. result = "none"
    BY <1>1 DEF IInv, TypeOK, LoopInv
  <2>4. QED
    BY <1>1, <2>1, <2>2, <2>3 DEF IInv, LoopInv
<1>8. QED
  BY <1>6, <1>7 DEF IInv

(* Every step of nand_correct keeps the invariant.                         *)
LEMMA StepInv == IInv /\ [Next]_vars => IInv'
<1> SUFFICES ASSUME IInv, [Next]_vars PROVE IInv'
  OBVIOUS
<1>1. CASE CorrectBlock
  BY <1>1, PassInv
<1>2. CASE Return
  <2>1. /\ i = 4 /\ UNCHANGED <<i, blank, before, now, uncorrectable, corrected>>
        /\ result' \in {"OK", "CORRECTED", "UNCORRECTABLE"}
        /\ result' \in {"OK", "CORRECTED"} => ~(uncorrectable > 0)
    BY <1>2 DEF Return
  <2>2. TypeOK'
    BY <2>1 DEF IInv, TypeOK
  <2>3. LoopInv'
    <3>1. uncorrectable \in Nat
      BY <2>1 DEF IInv, TypeOK
    <3>2. QED
      BY <2>1, <3>1 DEF IInv, LoopInv
  <2>4. QED
    BY <2>2, <2>3 DEF IInv
<1>3. CASE UNCHANGED vars
  BY <1>3 DEF vars, IInv, TypeOK, LoopInv
<1>4. QED
  BY <1>1, <1>2, <1>3 DEF Next

(* The loop of nand_correct, on every page.                                *)
THEOREM EccInvariant == Spec => []IInv
  BY InitInv, StepInv, PTL DEF Spec

(* A sub-block with one wrong bit, whichever of the 4128 it is, leaves the *)
(* loop with intact data.                                                  *)
THEOREM SingleErrorsRepaired == Spec => []SingleErrorRepaired
<1>1. IInv => SingleErrorRepaired
  <2> SUFFICES ASSUME IInv, NEW b \in Blocks \ blank, b < i, Wrong(before[b]) <= 1
               PROVE  now[b].data = {}
    BY DEF SingleErrorRepaired
  <2>1. Wrong(before[b]) <= 2
    BY WrongType DEF IInv, TypeOK
  <2>2. QED
    BY <2>1 DEF IInv, LoopInv
<1>2. QED
  BY <1>1, EccInvariant, PTL

(* With at most two wrong bits no good bit is ever flipped, and an         *)
(* unformatted sub-block is left alone.                                    *)
THEOREM NoMiscorrections == Spec => []NoMiscorrection
<1>1. IInv => NoMiscorrection
  <2> SUFFICES ASSUME IInv, NEW b \in Blocks
               PROVE  /\ Wrong(before[b]) <= 2 => now[b].data \subseteq before[b].data
                      /\ b \in blank => now[b] = before[b]
    BY DEF NoMiscorrection
  <2>1. b \in blank => now[b] = before[b]
    BY DEF IInv, LoopInv
  <2>2. ASSUME Wrong(before[b]) <= 2, b \notin blank PROVE now[b].data \subseteq before[b].data
    <3>1. CASE b < i
      BY <2>2, <3>1 DEF IInv, LoopInv
    <3>2. CASE ~(b < i)
      BY <3>2 DEF IInv, TypeOK, LoopInv, Blocks
    <3>3. QED
      BY <3>1, <3>2
  <2>3. QED
    BY <2>1, <2>2
<1>2. QED
  BY <1>1, EccInvariant, PTL

(* What the code can vouch for: no sub-block has more than two wrong bits. *)
AtMostTwoWrong == \A d \in Damages \cup Others : Wrong(d) <= 2

(* Then NAND_ECC_OK and NAND_ECC_CORRECTED are returned only for a page    *)
(* whose formatted sub-blocks are all intact.                              *)
THEOREM ResultsHonest ==
    ASSUME AtMostTwoWrong
    PROVE  Spec => []ResultHonest
<1>1. IInv => ResultHonest
  <2> SUFFICES ASSUME IInv, result \in {"OK", "CORRECTED"}, NEW b \in Blocks \ blank
               PROVE  now[b].data = {}
    BY DEF ResultHonest
  <2>1. i = 4 /\ uncorrectable = 0 /\ b < i
    BY DEF IInv, LoopInv, Blocks
  <2>2. Wrong(before[b]) <= 2
    BY AtMostTwoWrong DEF AtMostTwoWrong, IInv, LoopInv
  <2>3. QED
    BY <2>1, <2>2 DEF IInv, LoopInv
<1>2. QED
  BY <1>1, EccInvariant, PTL
=============================================================================
