----------------------------- MODULE BootProofs -----------------------------
(***************************************************************************)
(* The boot for every size of a word, of the stack, of the global offset   *)
(* table and of each section: the loader never touches mini's ELF while it *)
(* still needs it (ElfIntact), and whatever state the boot stops in is the *)
(* right one, with everything in its place when it is mini's _main.        *)
(***************************************************************************)
EXTENDS Boot, TLAPS

(* ALIGN rounds up to a multiple.                                          *)
LEMMA AlignUp ==
    ASSUME NEW n \in Nat, NEW a \in Nat \ {0}
    PROVE  ALIGN(n, a) \in Nat /\ ALIGN(n, a) >= n /\ \E k \in Nat : ALIGN(n, a) = k * a
<1> DEFINE q == (n + a - 1) \div a
<1>1. q \in Nat /\ q * a <= n + a - 1 /\ n + a - 1 < (q + 1) * a
  OBVIOUS
<1>2. ALIGN(n, a) = q * a
  BY DEF ALIGN
<1> HIDE DEF q
<1>3. (q + 1) * a = q * a + a /\ q * a \in Nat
  BY <1>1
<1>4. q * a >= n
  BY <1>1, <1>3
<1>5. QED
  BY <1>1, <1>2, <1>3, <1>4

(* A whole number of words: the distance from which a loop that ends on    *)
(* equality does end.                                                      *)
Whole(n) == \E k \in Nat : n = k * WordSize

(* Whole numbers of words add up to one ...                                *)
LEMMA WholeSum ==
    ASSUME NEW m, NEW n, Whole(m), Whole(n)
    PROVE  m + n \in Nat /\ Whole(m + n)
<1>0. WordSize \in Nat \ {0}
  BY BootAssumption
<1>1. PICK i \in Nat : m = i * WordSize
  BY DEF Whole
<1>2. PICK j \in Nat : n = j * WordSize
  BY DEF Whole
<1>3. m + n = (i + j) * WordSize /\ i + j \in Nat
  BY <1>0, <1>1, <1>2
<1>4. (i + j) * WordSize \in Nat
  BY <1>0
<1>5. QED
  BY <1>3, <1>4 DEF Whole

(* ... and so does the difference of two.                                  *)
LEMMA WholeDifference ==
    ASSUME NEW m, NEW n, Whole(m), Whole(n), m <= n
    PROVE  n - m \in Nat /\ Whole(n - m)
<1>0. WordSize \in Nat \ {0}
  BY BootAssumption
<1>1. PICK i \in Nat : m = i * WordSize
  BY DEF Whole
<1>2. PICK j \in Nat : n = j * WordSize
  BY DEF Whole
<1>3. CASE i <= j
  <2>1. n - m = (j - i) * WordSize /\ j - i \in Nat
    BY <1>0, <1>1, <1>2, <1>3
  <2>2. (j - i) * WordSize \in Nat
    BY <1>0, <1>3
  <2>3. QED
    BY <2>1, <2>2 DEF Whole
<1>4. CASE j < i
  <2>1. PICK d \in Nat : i = j + 1 + d
    <3>1. i - j - 1 \in Nat /\ i = j + 1 + (i - j - 1)
      BY <1>4
    <3>2. QED
      BY <3>1
  <2>2. m = n + WordSize + d * WordSize
    BY <1>0, <1>1, <1>2, <2>1
  <2>3. d * WordSize \in Nat /\ n \in Nat
    BY <1>0, <1>2
  <2>4. FALSE
    BY <1>0, <2>2, <2>3
  <2>5. QED
    BY <2>4
<1>5. QED
  BY <1>3, <1>4

(* The sections of the loader follow one another, each on a whole number   *)
(* of words, and its stack ends where the ELF begins.                      *)
LEMMA StubLayout ==
    ASSUME NEW sz \in StubSizes
    PROVE  LET s == stub(sz)
           IN /\ {s.got_start, s.got_end, s.bss_start, s.bss_end, s.loader_size} \subseteq Nat
              /\ HdrSize <= s.got_start /\ s.got_start <= s.got_end /\ Whole(s.got_end - s.got_start)
              /\ s.got_end <= s.bss_start
              /\ s.bss_start <= s.bss_end /\ Whole(s.bss_end - s.bss_start)
              /\ s.stack_addr = s.bss_end + StackSize
              /\ s.stack_addr = HdrSize + s.loader_size
<1>0. /\ WordSize \in Nat \ {0} /\ StackSize \in Nat \ {0} /\ GotWords \in Nat
      /\ sz.code \in Nat /\ sz.data \in Nat /\ sz.bss \in Nat
  BY BootAssumption DEF StubSizes
<1> DEFINE code == ALIGN(sz.code, WordSize)
           words == GotWords * WordSize
           data == ALIGN(sz.data, WordSize)
           bss == HdrSize + code + words + data
           bssEnd == ALIGN(bss + sz.bss, 8 * WordSize)
<1>1. HdrSize \in Nat /\ Whole(HdrSize)
  BY <1>0 DEF HdrSize, Whole
<1>2. code \in Nat /\ Whole(code) /\ data \in Nat /\ Whole(data)
  BY <1>0, AlignUp DEF Whole
<1>3. words \in Nat /\ Whole(words)
  BY <1>0 DEF Whole
<1> HIDE DEF code, words, data
<1>4. bss \in Nat /\ Whole(bss)
  BY <1>1, <1>2, <1>3, WholeSum
<1> HIDE DEF bss
<1>5. 8 * WordSize \in Nat \ {0} /\ bss + sz.bss \in Nat
  BY <1>0, <1>4
<1>6. bssEnd \in Nat /\ bss <= bssEnd /\ \E k \in Nat : bssEnd = k * (8 * WordSize)
  <2>1. bssEnd \in Nat /\ bssEnd >= bss + sz.bss /\ \E k \in Nat : bssEnd = k * (8 * WordSize)
    BY <1>5, AlignUp, Zenon
  <2> HIDE DEF bssEnd
  <2>2. QED
    BY <1>0, <1>4, <2>1
<1>7. Whole(bssEnd)
  <2>1. PICK k \in Nat : bssEnd = k * (8 * WordSize)
    BY <1>6
  <2>2. k * (8 * WordSize) = (8 * k) * WordSize /\ 8 * k \in Nat
    BY <1>0
  <2>3. QED
    BY <2>1, <2>2 DEF Whole
<1>8. Whole(bssEnd - bss)
  BY <1>4, <1>6, <1>7, WholeDifference
<1>9. stub(sz) = [got_start |-> HdrSize + code, got_end |-> HdrSize + code + words,
                  bss_start |-> bss, bss_end |-> bssEnd, stack_addr |-> bssEnd + StackSize,
                  loader_size |-> bssEnd + StackSize - HdrSize]
  BY DEF stub, code, words, data, bss
<1> HIDE DEF bssEnd
<1>10. bss >= HdrSize + code + words
  BY <1>1, <1>2, <1>3 DEF bss
<1>11. (HdrSize + code + words) - (HdrSize + code) = words
  BY <1>1, <1>2, <1>3
<1>12. bssEnd + StackSize - HdrSize \in Nat /\ HdrSize + (bssEnd + StackSize - HdrSize) = bssEnd + StackSize
  <2>1. bssEnd \in Nat /\ HdrSize \in Nat /\ HdrSize <= bssEnd
    BY <1>1, <1>2, <1>3, <1>4, <1>6, <1>10
  <2>2. QED
    BY <1>0, <2>1
<1>13. QED
  BY <1>0, <1>1, <1>2, <1>3, <1>4, <1>6, <1>8, <1>9, <1>10, <1>11, <1>12
-----------------------------------------------------------------------------
(* What a cell of a file can be.                                           *)
Cell ==
    {Byte(v) : v \in Int} \cup {<<name, i>> : name \in {"init", "text", "data", "data2"}, i \in Nat}
      \cup {Ehdr(ident, phoff, 4, SRAM) : ident \in BOOLEAN, phoff \in {0, 1}}
      \cup {Phdr("null", 0, 0, 1, 1)}
      \cup {Phdr("load", off, paddr, n, m) : off \in Nat, paddr \in Nat, n \in Nat, m \in Int}

(* A byte is a cell, and carries its value.                                *)
LEMMA ByteCell == \A v \in Int : Byte(v) \in Cell /\ Byte(v)[2] = v
BY DEF Byte, Cell

(* So are the zeros that pad a section or the loader; there are as many as *)
(* asked for.                                                              *)
LEMMA ZerosLen == \A n \in Nat : Zeros(n) \in Seq(Cell) /\ Len(Zeros(n)) = n
<1> SUFFICES ASSUME NEW n \in Nat PROVE Zeros(n) \in Seq(Cell) /\ Len(Zeros(n)) = n
  OBVIOUS
<1>1. Zero \in Cell
  BY ByteCell DEF Zero
<1>2. QED
  BY <1>1 DEF Zeros

(* Concatenation, by a name of its own so that the facts about it are      *)
(* cited and not found.                                                    *)
Join(s, t) == s \o t

(* The second sequence begins where the first ends.                        *)
LEMMA Joined ==
    ASSUME NEW s \in Seq(Cell), NEW t \in Seq(Cell)
    PROVE  /\ Join(s, t) \in Seq(Cell) /\ Len(Join(s, t)) = Len(s) + Len(t)
           /\ \A i \in 1 .. Len(s) : Join(s, t)[i] = s[i]
           /\ \A i \in 1 .. Len(t) : Join(s, t)[Len(s) + i] = t[i]
BY DEF Join

(* A word is WordSize cells, its value in the first.                       *)
LEMMA WordLen ==
    ASSUME NEW v \in Int
    PROVE  Word(v) \in Seq(Cell) /\ Len(Word(v)) = WordSize /\ Word(v)[1] = Byte(v)
<1> DEFINE z == Zeros(WordSize - 1)
<1>1. WordSize - 1 \in Nat
  BY BootAssumption
<1>2. z \in Seq(Cell) /\ Len(z) = WordSize - 1
  BY <1>1, ZerosLen
<1> DEFINE b == <<Byte(v)>>
<1>3. b \in Seq(Cell) /\ Len(b) = 1 /\ b[1] = Byte(v)
  BY ByteCell
<1>4. Word(v) = Join(b, z)
  BY DEF Word, Join
<1> HIDE DEF z, b
<1>5. /\ Join(b, z) \in Seq(Cell) /\ Len(Join(b, z)) = Len(b) + Len(z)
      /\ \A i \in 1 .. Len(b) : Join(b, z)[i] = b[i]
  BY <1>2, <1>3, Joined, Zenon
<1>6. QED
  BY <1>1, <1>2, <1>3, <1>4, <1>5, BootAssumption

(* The bytes of a section, as many as the linker found, ...                *)
LEMMA BytesLen ==
    ASSUME NEW name \in {"init", "text", "data", "data2"}, NEW n \in Nat
    PROVE  Bytes(name, n) \in Seq(Cell) /\ Len(Bytes(name, n)) = n
<1>1. \A i \in 1 .. n : <<name, i>> \in Cell
  BY DEF Cell
<1>2. QED
  BY <1>1 DEF Bytes

(* ... and the section: padded to whole words, its own bytes first.        *)
LEMMA SectionLen ==
    ASSUME NEW name \in {"init", "text", "data", "data2"}, NEW n \in Nat
    PROVE  /\ Section(name, n) \in Seq(Cell) /\ Len(Section(name, n)) = ALIGN(n, WordSize)
           /\ \A i \in 1 .. n : Section(name, n)[i] = <<name, i>>
<1> DEFINE b == Bytes(name, n)
           a == ALIGN(n, WordSize)
           z == Zeros(a - n)
<1>1. a \in Nat /\ a >= n
  BY BootAssumption, AlignUp
<1>2. b \in Seq(Cell) /\ Len(b) = n
  BY BytesLen
<1>3. \A i \in 1 .. n : b[i] = <<name, i>>
  BY DEF Bytes
<1>4. z \in Seq(Cell) /\ Len(z) = a - n
  BY <1>1, ZerosLen
<1>5. Section(name, n) = Join(b, z)
  BY DEF Section, Join
<1> HIDE DEF b, z
<1>6. /\ Join(b, z) \in Seq(Cell) /\ Len(Join(b, z)) = Len(b) + Len(z)
      /\ \A i \in 1 .. Len(b) : Join(b, z)[i] = b[i]
  BY <1>2, <1>4, Joined, Zenon
<1> HIDE DEF a
<1>7. Len(b) + Len(z) = a
  BY <1>1, <1>2, <1>4
<1>8. QED
  BY <1>2, <1>3, <1>5, <1>6, <1>7 DEF a

Join4(h, p, q, e) == Join(Join(Join(h, p), q), e)

(* Where the parts of four concatenated sequences are.                     *)
Parts4(u, h, p, q, e) ==
    /\ u \in Seq(Cell) /\ Len(u) = Len(h) + Len(p) + Len(q) + Len(e)
    /\ \A i \in 1 .. Len(h) : u[i] = h[i]
    /\ \A i \in 1 .. Len(p) : u[Len(h) + i] = p[i]
    /\ \A i \in 1 .. Len(q) : u[Len(h) + Len(p) + i] = q[i]
    /\ \A i \in 1 .. Len(e) : u[Len(h) + Len(p) + Len(q) + i] = e[i]

(* Four sequences, one behind the other.                                   *)
LEMMA FourJoined ==
    ASSUME NEW h \in Seq(Cell), NEW p \in Seq(Cell), NEW q \in Seq(Cell), NEW e \in Seq(Cell)
    PROVE  Parts4(Join4(h, p, q, e), h, p, q, e)
<1> DEFINE a == Join(h, p)
           b == Join(a, q)
           u == Join4(h, p, q, e)
<1>1. /\ a \in Seq(Cell) /\ Len(a) = Len(h) + Len(p)
      /\ \A i \in 1 .. Len(h) : a[i] = h[i]
      /\ \A i \in 1 .. Len(p) : a[Len(h) + i] = p[i]
  BY Joined, Zenon
<1> HIDE DEF a
<1>2. /\ b \in Seq(Cell) /\ Len(b) = Len(a) + Len(q)
      /\ \A i \in 1 .. Len(a) : b[i] = a[i]
      /\ \A i \in 1 .. Len(q) : b[Len(a) + i] = q[i]
  BY <1>1, Joined, Zenon
<1>3. u = Join(b, e)
  BY DEF a, Join4
<1> HIDE DEF b, u
<1>4. /\ Join(b, e) \in Seq(Cell) /\ Len(Join(b, e)) = Len(b) + Len(e)
      /\ \A i \in 1 .. Len(b) : Join(b, e)[i] = b[i]
      /\ \A i \in 1 .. Len(e) : Join(b, e)[Len(b) + i] = e[i]
  BY <1>2, Joined, Zenon
<1>5. /\ u \in Seq(Cell) /\ Len(u) = Len(b) + Len(e)
      /\ \A i \in 1 .. Len(b) : u[i] = b[i]
      /\ \A i \in 1 .. Len(e) : u[Len(b) + i] = e[i]
  BY <1>3, <1>4
<1>6. Len(h) \in Nat /\ Len(p) \in Nat /\ Len(q) \in Nat /\ Len(e) \in Nat
  OBVIOUS
<1>7. \A i \in 1 .. Len(h) : u[i] = h[i]
  BY <1>1, <1>2, <1>5, <1>6
<1>8. ASSUME NEW i \in 1 .. Len(p) PROVE u[Len(h) + i] = p[i]
  <2>1. Len(h) + i \in 1 .. Len(a) /\ Len(h) + i \in 1 .. Len(b)
    BY <1>1, <1>2, <1>6
  <2>2. QED
    BY <1>1, <1>2, <1>5, <2>1
<1>9. ASSUME NEW i \in 1 .. Len(q) PROVE u[Len(h) + Len(p) + i] = q[i]
  BY <1>1, <1>2, <1>5, <1>6
<1>10. QED
  BY <1>1, <1>2, <1>5, <1>6, <1>7, <1>8, <1>9 DEF u, Parts4

(* The four words of a header.                                             *)
Header(x, y, z) == Join4(Word(x), Word(y), Word(z), Word(0))

(* The header has the length in its first word and its second word         *)
(* WordSize cells further.                                                 *)
LEMMA HeaderWords ==
    ASSUME NEW x \in Int, NEW y \in Int, NEW z \in Int
    PROVE  /\ Header(x, y, z) \in Seq(Cell) /\ Len(Header(x, y, z)) = HdrSize
           /\ Header(x, y, z)[1] = Byte(x) /\ Header(x, y, z)[WordSize + 1] = Byte(y)
<1> DEFINE a == Word(x)
           b == Word(y)
           c == Word(z)
           d == Word(0)
           h == Join4(a, b, c, d)
<1>1. WordSize \in Nat \ {0}
  BY BootAssumption
<1>2. /\ a \in Seq(Cell) /\ Len(a) = WordSize /\ a[1] = Byte(x)
      /\ b \in Seq(Cell) /\ Len(b) = WordSize /\ b[1] = Byte(y)
      /\ c \in Seq(Cell) /\ Len(c) = WordSize
      /\ d \in Seq(Cell) /\ Len(d) = WordSize
  BY WordLen
<1>3. Header(x, y, z) = h
  BY DEF Header
<1> HIDE DEF a, b, c, d
<1>4. Parts4(h, a, b, c, d)
  <2>1. a \in Seq(Cell) /\ b \in Seq(Cell) /\ c \in Seq(Cell) /\ d \in Seq(Cell)
    BY <1>2
  <2>2. QED
    BY <2>1, FourJoined, Zenon
<1> HIDE DEF h
<1>5. h \in Seq(Cell) /\ Len(h) = HdrSize
  BY <1>1, <1>2, <1>4 DEF HdrSize, Parts4
<1>6. h[1] = Byte(x) /\ h[WordSize + 1] = Byte(y)
  BY <1>1, <1>2, <1>4 DEF Parts4
<1>7. QED
  BY <1>3, <1>5, <1>6

(* A file that makebin.py takes as a loader of this length.                *)
GoodLoader(f, n) ==
    /\ f \in Seq(Cell) /\ HdrSize <= Len(f)
    /\ f[1] = Byte(HdrSize) /\ f[WordSize + 1] = Byte(n)

(* makebin.py makes the loader as long as its header says, BSS and stack   *)
(* included.                                                               *)
LEMMA PaddedLen ==
    ASSUME NEW n \in Nat, NEW f, GoodLoader(f, n)
    PROVE  /\ HdrLen(f) = HdrSize /\ LoaderLen(f) = n
           /\ hdr(f) \in Seq(Cell) /\ Len(hdr(f)) = HdrSize
           /\ padded(f) \in Seq(Cell) /\ Len(padded(f)) = n
           /\ \A i \in 1 .. n : HdrSize + i <= Len(f) => padded(f)[i] = f[HdrSize + i]
<1>1. HdrSize \in Nat /\ f \in Seq(Cell) /\ HdrSize <= Len(f) /\ Len(f) \in Nat
  BY BootAssumption DEF HdrSize, GoodLoader
<1>2. HdrLen(f) = HdrSize /\ LoaderLen(f) = n
  BY <1>1, ByteCell DEF GoodLoader, HdrLen, LoaderLen
<1>3. hdr(f) \in Seq(Cell) /\ Len(hdr(f)) = HdrSize
  BY <1>1, <1>2 DEF hdr, Part
<1> DEFINE end == IF HdrSize + n < Len(f) THEN HdrSize + n ELSE Len(f)
           l == loader(f)
           z == Zeros(n - Len(l))
<1>4. end \in HdrSize .. Len(f) /\ end - HdrSize <= n
  BY <1>1
<1>5. loader(f) = SubSeq(f, HdrSize + 1, end)
  BY <1>2 DEF loader, Part
<1> HIDE DEF end
<1>6. l \in Seq(Cell) /\ Len(l) = end - HdrSize
  BY <1>1, <1>4, <1>5
<1>a. \A i \in 1 .. Len(l) : l[i] = f[HdrSize + i]
  BY <1>1, <1>4, <1>5
<1>b. \A i \in 1 .. n : HdrSize + i <= Len(f) => i \in 1 .. Len(l)
  BY <1>1, <1>4, <1>6 DEF end
<1>7. n - Len(l) \in Nat
  BY <1>1, <1>4, <1>6
<1> HIDE DEF l
<1>8. z \in Seq(Cell) /\ Len(z) = n - Len(l)
  BY <1>7, ZerosLen
<1>9. padded(f) = Join(l, z)
  BY <1>2 DEF padded, Join, l
<1> HIDE DEF z
<1>10. /\ Join(l, z) \in Seq(Cell) /\ Len(Join(l, z)) = Len(l) + Len(z)
       /\ \A i \in 1 .. Len(l) : Join(l, z)[i] = l[i]
  BY <1>6, <1>8, Joined, Zenon
<1>11. Len(l) + Len(z) = n
  BY <1>1, <1>4, <1>6, <1>8
<1>12. \A i \in 1 .. n : HdrSize + i <= Len(f) => padded(f)[i] = f[HdrSize + i]
  BY <1>a, <1>b, <1>9, <1>10
<1>13. QED
  BY <1>2, <1>3, <1>9, <1>10, <1>11, <1>12

(* What makebin.py writes: the ELF begins behind the loader's length.      *)
LEMMA NewData ==
    ASSUME NEW n \in Nat, NEW f, GoodLoader(f, n), NEW elf \in Seq(Cell)
    PROVE  LET new == newdata(f, elf)
           IN /\ GoodLoader(new, n) /\ Len(new) = HdrSize + n + Len(elf)
              /\ \A i \in 1 .. Len(elf) : new[HdrSize + n + i] = elf[i]
              /\ \A i \in 1 .. n : HdrSize + i <= Len(f) => new[HdrSize + i] = f[HdrSize + i]
<1> DEFINE h == Header(HdrSize, n, Len(elf))
           p == Part(hdr(f), HdrSize, Len(hdr(f)))
           q == padded(f)
           new == newdata(f, elf)
<1>0. HdrSize \in Nat /\ WordSize \in Nat \ {0} /\ HdrSize = 4 * WordSize /\ Len(elf) \in Nat
  BY BootAssumption DEF HdrSize
<1>1. /\ HdrLen(f) = HdrSize /\ LoaderLen(f) = n
      /\ hdr(f) \in Seq(Cell) /\ Len(hdr(f)) = HdrSize
      /\ q \in Seq(Cell) /\ Len(q) = n
      /\ \A i \in 1 .. n : HdrSize + i <= Len(f) => q[i] = f[HdrSize + i]
  BY PaddedLen
<1>2. h \in Seq(Cell) /\ Len(h) = HdrSize /\ h[1] = Byte(HdrSize) /\ h[WordSize + 1] = Byte(n)
  <2>1. HdrSize \in Int /\ n \in Int /\ Len(elf) \in Int
    BY <1>0
  <2>2. QED
    BY <2>1, HeaderWords, ZenonT(40)
<1>3. p \in Seq(Cell) /\ Len(p) = 0
  BY <1>0, <1>1 DEF Part
<1>4. new = Join4(h, p, q, elf)
  BY <1>1 DEF newdata, Join4, Header, Join
<1> HIDE DEF h, p, q, new
<1>5. Parts4(new, h, p, q, elf)
  <2>1. h \in Seq(Cell) /\ p \in Seq(Cell) /\ q \in Seq(Cell)
    BY <1>1, <1>2, <1>3
  <2>2. QED
    BY <1>4, <2>1, FourJoined, Zenon
<1>6. /\ new \in Seq(Cell) /\ Len(new) = HdrSize + n + Len(elf)
      /\ new[1] = h[1] /\ new[WordSize + 1] = h[WordSize + 1]
      /\ \A i \in 1 .. Len(elf) : new[HdrSize + n + i] = elf[i]
  <2>1. /\ new \in Seq(Cell) /\ Len(new) = Len(h) + Len(p) + Len(q) + Len(elf)
        /\ \A i \in 1 .. Len(h) : new[i] = h[i]
        /\ \A i \in 1 .. Len(elf) : new[Len(h) + Len(p) + Len(q) + i] = elf[i]
    BY <1>5 DEF Parts4
  <2>2. Len(h) + Len(p) + Len(q) = HdrSize + n
    BY <1>0, <1>1, <1>2, <1>3
  <2>3. 1 \in 1 .. Len(h) /\ WordSize + 1 \in 1 .. Len(h)
    BY <1>0, <1>2
  <2>4. QED
    BY <2>1, <2>2, <2>3
<1>7. GoodLoader(new, n)
  BY <1>0, <1>2, <1>6 DEF GoodLoader
<1>8. \A i \in 1 .. n : HdrSize + i <= Len(f) => new[HdrSize + i] = f[HdrSize + i]
  <2>1. \A i \in 1 .. Len(q) : new[Len(h) + Len(p) + i] = q[i]
    BY <1>5 DEF Parts4
  <2>2. Len(h) + Len(p) = HdrSize
    BY <1>0, <1>2, <1>3
  <2>3. QED
    BY <1>1, <2>1, <2>2
<1>9. QED
  BY <1>6, <1>7, <1>8 DEF new

(* The loader's table has a word for each of its entries.                  *)
LEMMA GotLen == Got \in Seq(Cell) /\ Len(Got) = GotWords * WordSize
<1> DEFINE n == GotWords * WordSize
           entry(i) == IF (i - 1) % WordSize = 0 THEN Byte(GotEntry((i - 1) \div WordSize)) ELSE Zero
<1>1. n \in Nat /\ WordSize \in Nat \ {0}
  BY BootAssumption
<1>2. ASSUME NEW i \in 1 .. n PROVE entry(i) \in Cell
  <2>1. (i - 1) \div WordSize \in Int
    BY <1>1
  <2>2. QED
    BY <2>1, ByteCell DEF GotEntry, Zero
<1>3. Got = [i \in 1 .. n |-> entry(i)]
  BY DEF Got
<1> HIDE DEF n, entry
<1>4. Got \in Seq(Cell) /\ Len(Got) = n
  BY <1>1, <1>2, <1>3
<1>5. QED
  BY <1>4 DEF n

(* The linker's file is a good loader, and so is one made from it.         *)
LEMMA StubGood ==
    ASSUME NEW sz \in StubSizes
    PROVE  /\ GoodLoader(StubBin(sz), stub(sz).loader_size)
           /\ stub(sz).got_end <= Len(StubBin(sz))
           /\ \A i \in 1 .. Len(Got) : StubBin(sz)[stub(sz).got_start + i] = Got[i]
<1> DEFINE n == stub(sz).loader_size
           h == Header(HdrSize, n, 0)
           p == Section("init", sz.code)
           e == Section("data", sz.data)
           f == StubBin(sz)
<1>0. /\ HdrSize \in Nat /\ WordSize \in Nat \ {0} /\ HdrSize = 4 * WordSize
      /\ sz.code \in Nat /\ sz.data \in Nat
  <2>1. sz.code \in Nat /\ sz.data \in Nat
    BY BootAssumption DEF StubSizes
  <2>2. QED
    BY <2>1, BootAssumption DEF HdrSize
<1>1. n \in Nat
  BY StubLayout
<1>2. h \in Seq(Cell) /\ Len(h) = HdrSize /\ h[1] = Byte(HdrSize) /\ h[WordSize + 1] = Byte(n)
  <2>1. PICK z \in Int : z = 0
    OBVIOUS
  <2>2. HdrSize \in Int /\ n \in Int
    BY <1>0, <1>1
  <2> HIDE DEF n
  <2>3. QED
    BY <2>1, <2>2, HeaderWords
<1>3. p \in Seq(Cell) /\ e \in Seq(Cell) /\ Got \in Seq(Cell)
  BY <1>0, SectionLen, GotLen
<1>a. stub(sz).got_start = HdrSize + Len(p) /\ stub(sz).got_end = HdrSize + Len(p) + Len(Got)
  BY <1>0, SectionLen, GotLen DEF stub
<1>4. f = Join4(h, p, Got, e)
  BY DEF StubBin, Join4, Header, Join
<1> HIDE DEF n, h, p, e, f
<1>5. Parts4(f, h, p, Got, e)
  BY <1>2, <1>3, <1>4, FourJoined, Zenon
<1>6. Len(p) \in Nat /\ Len(e) \in Nat /\ Len(Got) \in Nat
  BY <1>3
<1>7. f \in Seq(Cell) /\ HdrSize <= Len(f) /\ f[1] = h[1] /\ f[WordSize + 1] = h[WordSize + 1]
  <2>1. /\ f \in Seq(Cell) /\ Len(f) = Len(h) + Len(p) + Len(Got) + Len(e)
        /\ \A i \in 1 .. Len(h) : f[i] = h[i]
    BY <1>5 DEF Parts4
  <2>2. HdrSize = 4 * WordSize /\ WordSize \in Nat \ {0}
    BY BootAssumption DEF HdrSize
  <2>3. 1 \in 1 .. Len(h) /\ WordSize + 1 \in 1 .. Len(h)
    BY <1>2, <2>2
  <2>4. HdrSize <= Len(f)
    BY <1>2, <1>6, <2>1, <2>2
  <2>5. QED
    BY <2>1, <2>3, <2>4
<1>8. GoodLoader(f, n)
  BY <1>2, <1>7 DEF GoodLoader
<1>9. stub(sz).got_end <= Len(f) /\ \A i \in 1 .. Len(Got) : f[stub(sz).got_start + i] = Got[i]
  <2>1. /\ Len(f) = Len(h) + Len(p) + Len(Got) + Len(e)
        /\ \A i \in 1 .. Len(Got) : f[Len(h) + Len(p) + i] = Got[i]
    BY <1>5 DEF Parts4
  <2>2. Len(h) + Len(p) = stub(sz).got_start
    BY <1>2, <1>a
  <2>3. HdrSize + Len(p) + Len(Got) <= Len(f)
    BY <1>0, <1>2, <1>6, <2>1
  <2>4. stub(sz).got_end <= Len(f)
    BY <1>a, <2>3
  <2>5. QED
    BY <2>1, <2>2, <2>4
<1>10. QED
  BY <1>8, <1>9 DEF f, n

(* The parts of mini's ELF.                                                *)
Heads(m, ident, phoff) ==
    LET t == ALIGN(m.code, WordSize)
        d == ALIGN(m.data, WordSize)
        d2 == ALIGN(m.data2, WordSize)
    IN <<Ehdr(ident, phoff, 4, SRAM),
         Phdr("null", 0, 0, 1, 1),
         Phdr("load", 5, SRAM, t, t),
         Phdr("load", 5 + t, SRAM2, d, mini(m).excstack_addr - SRAM2),
         Phdr("load", 5 + t + d, MEM2, d2, mini(m).bss2_end - MEM2)>>

(* The stacks begin and end on four words, which are whole words.          *)
LEMMA FourWords ==
    ASSUME NEW n \in Nat
    PROVE  ALIGN(n, 4 * WordSize) \in Nat /\ n <= ALIGN(n, 4 * WordSize) /\ Whole(ALIGN(n, 4 * WordSize))
<1> DEFINE up == ALIGN(n, 4 * WordSize)
<1>0. WordSize \in Nat \ {0} /\ 4 * WordSize \in Nat \ {0}
  BY BootAssumption
<1>1. up \in Nat /\ up >= n /\ \E k \in Nat : up = k * (4 * WordSize)
  BY <1>0, AlignUp, Zenon
<1> HIDE DEF up
<1>2. PICK k \in Nat : up = k * (4 * WordSize)
  BY <1>1
<1>3. k * (4 * WordSize) = (4 * k) * WordSize /\ 4 * k \in Nat
  BY <1>0
<1>4. Whole(up)
  BY <1>2, <1>3 DEF Whole
<1>5. n <= up
  BY <1>1
<1>6. QED
  BY <1>1, <1>4, <1>5 DEF up

(* What mini.ld lays out: the sections of a region follow one another, on  *)
(* whole words.                                                            *)
LEMMA MiniLayout ==
    ASSUME NEW m \in MiniSizes
    PROVE  LET b == mini(m)
               t == ALIGN(m.code, WordSize)
               d == ALIGN(m.data, WordSize)
               d2 == ALIGN(m.data2, WordSize)
               z == ALIGN(m.bss, WordSize)
           IN /\ {b.bss_start, b.bss_end, b.stack_end, b.stack_addr, b.excstack_addr} \subseteq Nat
              /\ {b.bss2_start, b.bss2_end} \subseteq Nat
              /\ t \in Nat /\ m.code <= t /\ d \in Nat /\ m.data <= d /\ d2 \in Nat /\ m.data2 <= d2
              /\ b.bss_start = SRAM2 + d /\ b.bss2_start = MEM2 + d2
              /\ b.bss_end = b.bss_start + z /\ b.bss2_end = b.bss2_start + z
              /\ Whole(z) /\ z \in Nat /\ m.bss <= z /\ Whole(b.stack_addr - b.stack_end)
              /\ b.bss_end <= b.stack_end /\ b.stack_end <= b.stack_addr /\ b.stack_addr <= b.excstack_addr
              /\ {m.code, m.data, m.data2, m.bss} \subseteq Nat
<1> DEFINE d == ALIGN(m.data, WordSize)
           d2 == ALIGN(m.data2, WordSize)
           z == ALIGN(m.bss, WordSize)
           t == ALIGN(m.code, WordSize)
           low == ALIGN(SRAM2 + d + z, 4 * WordSize)
           top == ALIGN(low + MiniStack, 4 * WordSize)
           irq == ALIGN(top + VectorStack, 4 * WordSize)
           exc == ALIGN(irq + VectorStack, 4 * WordSize)
<1>0. m.code \in Nat /\ m.data \in Nat /\ m.data2 \in Nat /\ m.bss \in Nat
  BY BootAssumption DEF MiniSizes
<1>1. /\ WordSize \in Nat \ {0} /\ MiniStack \in Nat /\ VectorStack \in Nat
      /\ SRAM2 \in Nat /\ MEM2 \in Nat
  BY BootAssumption
<1>2. d \in Nat /\ m.data <= d /\ d2 \in Nat /\ m.data2 <= d2 /\ t \in Nat /\ m.code <= t
  BY <1>0, <1>1, AlignUp
<1>3. z \in Nat /\ m.bss <= z /\ Whole(z)
  BY <1>0, <1>1, AlignUp DEF Whole
<1>4. mini(m) = [bss_start |-> SRAM2 + d, bss_end |-> SRAM2 + d + z, stack_end |-> low,
                 stack_addr |-> top, excstack_addr |-> exc,
                 bss2_start |-> MEM2 + d2, bss2_end |-> MEM2 + d2 + z]
  BY DEF mini
<1> HIDE DEF d, d2, z, t
<1>5. SRAM2 + d + z \in Nat
  BY <1>1, <1>2, <1>3
<1>6. low \in Nat /\ SRAM2 + d + z <= low /\ Whole(low)
  BY <1>5, FourWords, Zenon
<1> HIDE DEF low
<1>7. top \in Nat /\ low <= top /\ Whole(top)
  <2>1. low + MiniStack \in Nat /\ low <= low + MiniStack
    BY <1>1, <1>6
  <2>2. top \in Nat /\ low + MiniStack <= top /\ Whole(top)
    BY <2>1, FourWords, Zenon
  <2> HIDE DEF top
  <2>3. QED
    BY <1>6, <2>1, <2>2
<1> HIDE DEF top
<1>8. irq \in Nat /\ top + VectorStack <= irq
  <2>1. top + VectorStack \in Nat
    BY <1>1, <1>7
  <2>2. QED
    BY <2>1, FourWords, Zenon
<1> HIDE DEF irq
<1>9. exc \in Nat /\ irq + VectorStack <= exc
  <2>1. irq + VectorStack \in Nat
    BY <1>1, <1>8
  <2>2. QED
    BY <2>1, FourWords, Zenon
<1> HIDE DEF exc
<1>10. Whole(top - low) /\ top <= exc
  <2>1. Whole(top - low)
    BY <1>6, <1>7, WholeDifference
  <2>2. top <= exc
    BY <1>1, <1>7, <1>8, <1>9
  <2>3. QED
    BY <2>1, <2>2
<1>11. QED
  BY <1>0, <1>1, <1>2, <1>3, <1>4, <1>6, <1>7, <1>9, <1>10 DEF d, d2, z, t

(* The ELF is its five headers and three sections, one behind the other.   *)
LEMMA ElfParts ==
    ASSUME NEW m \in MiniSizes, NEW ident \in BOOLEAN, NEW phoff \in {0, 1}
    PROVE  LET h == Heads(m, ident, phoff)
               t == Section("text", m.code)
               d == Section("data", m.data)
               d2 == Section("data2", m.data2)
           IN /\ h \in Seq(Cell) /\ Len(h) = 5
              /\ t \in Seq(Cell) /\ Len(t) = ALIGN(m.code, WordSize)
              /\ d \in Seq(Cell) /\ Len(d) = ALIGN(m.data, WordSize)
              /\ d2 \in Seq(Cell) /\ Len(d2) = ALIGN(m.data2, WordSize)
              /\ Parts4(Elf(m, ident, phoff), h, t, d, d2)
<1> DEFINE h == Heads(m, ident, phoff)
           t == Section("text", m.code)
           d == Section("data", m.data)
           d2 == Section("data2", m.data2)
           nt == ALIGN(m.code, WordSize)
           nd == ALIGN(m.data, WordSize)
           nd2 == ALIGN(m.data2, WordSize)
           xd == mini(m).excstack_addr - SRAM2
           xd2 == mini(m).bss2_end - MEM2
<1>0. /\ nt \in Nat /\ nd \in Nat /\ nd2 \in Nat /\ xd \in Int /\ xd2 \in Int
      /\ SRAM \in Nat /\ SRAM2 \in Nat /\ MEM2 \in Nat
  BY MiniLayout, BootAssumption
<1>1. /\ t \in Seq(Cell) /\ Len(t) = nt /\ d \in Seq(Cell) /\ Len(d) = nd
      /\ d2 \in Seq(Cell) /\ Len(d2) = nd2
  BY SectionLen, MiniLayout
<1>2. h = <<Ehdr(ident, phoff, 4, SRAM), Phdr("null", 0, 0, 1, 1), Phdr("load", 5, SRAM, nt, nt),
            Phdr("load", 5 + nt, SRAM2, nd, xd), Phdr("load", 5 + nt + nd, MEM2, nd2, xd2)>>
  BY DEF Heads
<1>3. Elf(m, ident, phoff) = Join4(h, t, d, d2)
  BY <1>1, <1>2 DEF Elf, Join4, Join
<1> HIDE DEF nt, nd, nd2, xd, xd2
<1>4. Ehdr(ident, phoff, 4, SRAM) \in Cell
  BY DEF Cell
<1>5. Phdr("null", 0, 0, 1, 1) \in Cell
  BY DEF Cell
<1>6. /\ Phdr("load", 5, SRAM, nt, nt) \in Cell
      /\ Phdr("load", 5 + nt, SRAM2, nd, xd) \in Cell
      /\ Phdr("load", 5 + nt + nd, MEM2, nd2, xd2) \in Cell
  <2>1. 5 \in Nat /\ 5 + nt \in Nat /\ 5 + nt + nd \in Nat /\ nt \in Int
    BY <1>0
  <2>2. \A off \in Nat, paddr \in Nat, n \in Nat, x \in Int : Phdr("load", off, paddr, n, x) \in Cell
    BY DEF Cell
  <2>3. QED
    BY <1>0, <2>1, <2>2
<1> HIDE DEF h, t, d, d2
<1>7. h \in Seq(Cell) /\ Len(h) = 5
  BY <1>2, <1>4, <1>5, <1>6
<1>8. Parts4(Elf(m, ident, phoff), h, t, d, d2)
  BY <1>1, <1>3, <1>7, FourJoined, Zenon
<1>9. QED
  BY <1>1, <1>7, <1>8 DEF h, t, d, d2, nt, nd, nd2
-----------------------------------------------------------------------------
(* Where the ELF begins in memory.                                         *)
ElfAddr == Base + HdrSize + S.loader_size

(* The inputs: sizes the linker found, an ELF, and a loader that is good   *)
(* or that makebin.py refuses.                                             *)
FilesInv ==
    /\ stubsz \in StubSizes /\ minisz \in MiniSizes
    /\ \E ident \in BOOLEAN, phoff \in {0, 1} : elffile = Elf(minisz, ident, phoff)
    /\ GoodLoader(loaderfile, S.loader_size) \/ HdrLen(loaderfile) < HdrSize

(* The image, from makebin.py to the flush.                                *)
ImageInv ==
    pc \in {"LoadMINI", "flush"} =>
        /\ GoodLoader(image, S.loader_size) /\ Len(image) = HdrSize + S.loader_size + Len(elffile)
        /\ \A i \in 1 .. Len(elffile) : image[HdrSize + S.loader_size + i] = elffile[i]

(* The ELF and the two lengths in front of it, from the flush on.          *)
ElfInv == pc \in Running \cup {"ioctl"} => At(ElfAddr, elffile)
HeaderInv ==
    pc \in {"ioctl", "_start", "got_loop", "bss_loop", "loader_main"} =>
        mem[Base] = Byte(HdrSize) /\ mem[Base + WordSize] = Byte(S.loader_size)

(* The registers: both loops are a whole number of words from their end,   *)
(* which is not behind the loader's BSS; loadelf has the ELF's address and *)
(* its place in the program headers.                                       *)
RegInv ==
    /\ pc = "_start" => r1 = Base + HdrSize
    /\ pc \in {"got_loop", "bss_loop", "loader_main"} => r4 = Base
    /\ pc \in {"got_loop", "bss_loop"} =>
           /\ r1 \in Nat /\ r2 \in Nat /\ Base + HdrSize <= r1 /\ r1 <= r2 /\ Whole(r2 - r1)
           /\ r2 <= Base + S.bss_end
    /\ pc \in {"loadelf", "phdrs"} => r1 = ElfAddr
    /\ pc = "phdrs" => count \in 0 .. 4 /\ phdr = ElfAddr + 5 - count

(* The inductive invariant of the loader.                                  *)
LoadInv == FilesInv /\ ImageInv /\ ElfInv /\ HeaderInv /\ RegInv
-----------------------------------------------------------------------------
(* The ELF lies between the loader's stack and mini's regions.             *)
LEMMA ElfRoom ==
    ASSUME FilesInv
    PROVE  /\ ElfAddr \in Nat /\ ElfAddr = Base + S.stack_addr /\ ElfAddr + Len(elffile) <= MEM2
           /\ elffile \in Seq(Cell) /\ Len(elffile) \in Nat
           /\ {Base, HdrSize, WordSize, Top, S.loader_size} \subseteq Nat /\ MEM2 < Top
           /\ 0 < WordSize /\ HdrSize = 4 * WordSize
<1>1. PICK ident \in BOOLEAN, phoff \in {0, 1} : elffile = Elf(minisz, ident, phoff)
  BY DEF FilesInv
<1>2. minisz \in MiniSizes /\ stubsz \in StubSizes
  BY DEF FilesInv
<1> DEFINE t == Section("text", minisz.code)
           d == Section("data", minisz.data)
           d2 == Section("data2", minisz.data2)
           h == Heads(minisz, ident, phoff)
           g == Heads(minisz, TRUE, 1)
<1>3. /\ h \in Seq(Cell) /\ Len(h) = 5 /\ t \in Seq(Cell) /\ d \in Seq(Cell) /\ d2 \in Seq(Cell)
      /\ Parts4(Elf(minisz, ident, phoff), h, t, d, d2)
  BY <1>2, ElfParts
<1>4. Len(g) = 5 /\ Parts4(Elf(minisz, TRUE, 1), g, t, d, d2)
  BY <1>2, ElfParts
<1> HIDE DEF t, d, d2, h, g
<1>5. elffile \in Seq(Cell) /\ Len(elffile) = Len(Elf(minisz, TRUE, 1))
  BY <1>1, <1>3, <1>4 DEF Parts4
<1>6. Base + HdrSize + S.loader_size + Len(elffile) <= MEM2
  BY <1>2, <1>5, RoomAssumption DEF S
<1>7. S.loader_size \in Nat /\ S.stack_addr = HdrSize + S.loader_size
  BY <1>2, StubLayout DEF S
<1>8. {Base, HdrSize, WordSize, Top} \subseteq Nat /\ MEM2 < Top /\ 0 < WordSize /\ HdrSize = 4 * WordSize
  BY BootAssumption DEF HdrSize
<1>9. elffile \in Seq(Cell)
  BY <1>5
<1>10. Len(elffile) \in Nat
  BY <1>9
<1>11. ElfAddr \in Nat /\ ElfAddr = Base + S.stack_addr /\ ElfAddr + Len(elffile) <= MEM2
  <2>1. Base \in Nat /\ HdrSize \in Nat
    BY <1>8
  <2>2. ElfAddr = Base + HdrSize + S.loader_size
    BY DEF ElfAddr
  <2>3. ElfAddr \in Nat /\ ElfAddr = Base + S.stack_addr
    BY <1>7, <2>1, <2>2
  <2>4. ElfAddr + Len(elffile) <= MEM2
    BY <1>6, <2>2
  <2>5. QED
    BY <2>3, <2>4
<1>12. QED
  BY <1>7, <1>8, <1>9, <1>10, <1>11

(* The ELF's header and its program headers.                               *)
LEMMA ElfHeads ==
    ASSUME FilesInv
    PROVE  /\ 5 <= Len(elffile)
           /\ \E ident \in BOOLEAN, phoff \in {0, 1} : elffile[1] = <<"ehdr", ident, phoff, 4, SRAM>>
           /\ \A i \in 2 .. 5 : /\ elffile[i][2] = "load" =>
                                     /\ elffile[i][4] \in {SRAM, SRAM2, MEM2}
                                     /\ elffile[i][5] \in Nat
<1>1. PICK ident \in BOOLEAN, phoff \in {0, 1} : elffile = Elf(minisz, ident, phoff)
  BY DEF FilesInv
<1>2. minisz \in MiniSizes
  BY DEF FilesInv
<1> DEFINE t == Section("text", minisz.code)
           d == Section("data", minisz.data)
           d2 == Section("data2", minisz.data2)
           h == Heads(minisz, ident, phoff)
           nt == ALIGN(minisz.code, WordSize)
           nd == ALIGN(minisz.data, WordSize)
           nd2 == ALIGN(minisz.data2, WordSize)
           xd == mini(minisz).excstack_addr - SRAM2
           xd2 == mini(minisz).bss2_end - MEM2
<1>3. /\ h \in Seq(Cell) /\ Len(h) = 5 /\ t \in Seq(Cell) /\ d \in Seq(Cell) /\ d2 \in Seq(Cell)
      /\ Parts4(elffile, h, t, d, d2)
  BY <1>1, <1>2, ElfParts
<1>4. nt \in Nat /\ nd \in Nat /\ nd2 \in Nat
  BY <1>2, MiniLayout
<1>5. h = <<Ehdr(ident, phoff, 4, SRAM), Phdr("null", 0, 0, 1, 1), Phdr("load", 5, SRAM, nt, nt),
            Phdr("load", 5 + nt, SRAM2, nd, xd), Phdr("load", 5 + nt + nd, MEM2, nd2, xd2)>>
  BY DEF Heads
<1> HIDE DEF t, d, d2, h, nt, nd, nd2, xd, xd2
<1>6. /\ h[1] = Ehdr(ident, phoff, 4, SRAM) /\ h[2] = Phdr("null", 0, 0, 1, 1)
      /\ h[3] = Phdr("load", 5, SRAM, nt, nt) /\ h[4] = Phdr("load", 5 + nt, SRAM2, nd, xd)
      /\ h[5] = Phdr("load", 5 + nt + nd, MEM2, nd2, xd2)
  BY <1>5
<1>7. \A i \in 1 .. 5 : elffile[i] = h[i]
  BY <1>3 DEF Parts4
<1>8. 5 <= Len(elffile)
  BY <1>3 DEF Parts4
<1>9. elffile[1] = <<"ehdr", ident, phoff, 4, SRAM>>
  BY <1>6, <1>7 DEF Ehdr
<1>10. ASSUME NEW i \in 2 .. 5, elffile[i][2] = "load"
       PROVE  elffile[i][4] \in {SRAM, SRAM2, MEM2} /\ elffile[i][5] \in Nat
  <2>1. i \in {2, 3, 4, 5}
    OBVIOUS
  <2>2. CASE i = 2
    BY <1>6, <1>7, <1>10, <2>2 DEF Phdr
  <2>3. CASE i = 3
    BY <1>4, <1>6, <1>7, <2>3 DEF Phdr
  <2>4. CASE i = 4
    BY <1>4, <1>6, <1>7, <2>4 DEF Phdr
  <2>5. CASE i = 5
    BY <1>4, <1>6, <1>7, <2>5 DEF Phdr
  <2>6. QED
    BY <2>1, <2>2, <2>3, <2>4, <2>5
<1>11. QED
  BY <1>8, <1>9, <1>10

(* makebin.py refuses a loader file whose first word is 0.                 *)
LEMMA ShortHeader ==
    ASSUME NEW n, NEW f, GoodLoader(f, n), NEW g, g = <<Byte(0)>> \o Tail(f)
    PROVE  HdrLen(g) < HdrSize
<1>1. f \in Seq(Cell) /\ HdrSize <= Len(f) /\ HdrSize \in Nat \ {0}
  BY BootAssumption DEF GoodLoader, HdrSize
<1>2. Tail(f) \in Seq(Cell)
  <2>1. Len(f) \in Nat /\ Len(f) # 0
    BY <1>1
  <2>2. QED
    BY <1>1, <2>1
<1> DEFINE b == <<Byte(0)>>
           r == Tail(f)
<1>3. b \in Seq(Cell) /\ Len(b) = 1 /\ b[1] = Byte(0)
  BY ByteCell
<1>4. g = Join(b, r)
  BY DEF Join
<1> HIDE DEF b, r
<1>5. \A i \in 1 .. Len(b) : Join(b, r)[i] = b[i]
  BY <1>2, <1>3, Joined DEF r
<1>6. Join(b, r)[1] = Byte(0)
  BY <1>3, <1>5
<1>7. HdrLen(Join(b, r)) = 0
  BY <1>6, ByteCell DEF HdrLen
<1>8. HdrLen(g) = HdrLen(Join(b, r))
  BY <1>4, Zenon
<1>9. 0 < HdrSize
  BY <1>1
<1>10. QED
  BY <1>7, <1>8, <1>9

(* Init establishes the invariant.                                         *)
LEMMA LoadInit == Init => LoadInv
<1> SUFFICES ASSUME Init PROVE LoadInv
  OBVIOUS
<1> DEFINE f == StubBin(stubsz)
           n == S.loader_size
<1>1. pc = "makebin" /\ stubsz \in StubSizes /\ minisz \in MiniSizes
  BY DEF Init
<1>2. \E ident \in BOOLEAN, phoff \in {0, 1} : elffile = Elf(minisz, ident, phoff)
  BY DEF Init
<1>3. GoodLoader(f, n)
  BY <1>1, StubGood DEF S
<1>4. n \in Nat /\ HdrSize \in Nat \ {0}
  BY <1>1, StubLayout, BootAssumption DEF S, HdrSize
<1>5. loaderfile \in {f, newdata(f, <<Junk, Junk>>), <<Byte(0)>> \o Tail(f)}
  BY DEF Init
<1>6. ASSUME loaderfile = newdata(f, <<Junk, Junk>>) PROVE GoodLoader(loaderfile, n)
  <2>1. Junk \in Cell
    BY ByteCell DEF Junk
  <2> DEFINE j == <<Junk, Junk>>
  <2>2. j \in Seq(Cell)
    BY <2>1
  <2> HIDE DEF n, f, j
  <2>3. GoodLoader(newdata(f, j), n)
    BY <1>3, <1>4, <2>2, NewData
  <2>4. QED
    BY <1>6, <2>3 DEF j
<1>7. ASSUME loaderfile = <<Byte(0)>> \o Tail(f) PROVE HdrLen(loaderfile) < HdrSize
  BY <1>3, <1>4, <1>7, ShortHeader
<1>8. GoodLoader(loaderfile, n) \/ HdrLen(loaderfile) < HdrSize
  BY <1>3, <1>5, <1>6, <1>7
<1>9. FilesInv
  BY <1>1, <1>2, <1>8 DEF FilesInv
<1>10. QED
  BY <1>1, <1>9 DEF LoadInv, ImageInv, ElfInv, HeaderInv, RegInv, Running

(* The ELF stays where nothing is written from the loader's stack on, up   *)
(* to mini's first region.                                                 *)
LEMMA ElfKept ==
    ASSUME FilesInv, At(ElfAddr, elffile), UNCHANGED inputs,
           \A a \in ElfAddr .. MEM2 - 1 : mem'[a] = mem[a]
    PROVE  At(ElfAddr, elffile)'
<1>1. ElfAddr' = ElfAddr /\ elffile' = elffile
  BY DEF ElfAddr, S, inputs
<1>2. ASSUME NEW i \in 1 .. Len(elffile) PROVE mem'[ElfAddr + i - 1] = elffile[i]
  <2>1. ElfAddr + i - 1 \in ElfAddr .. MEM2 - 1
    BY ElfRoom, BootAssumption
  <2>2. QED
    BY <2>1 DEF At
<1>3. QED
  BY <1>1, <1>2 DEF At

(* A word that a loop of the loader writes is in front of the loop's end.  *)
LEMMA WordInFront ==
    ASSUME NEW x \in Nat, NEW y \in Nat, x # y, x <= y, Whole(y - x)
    PROVE  x + WordSize <= y /\ Whole(y - (x + WordSize))
<1>1. PICK k \in Nat : y - x = k * WordSize
  BY DEF Whole
<1>2. WordSize \in Nat \ {0}
  BY BootAssumption
<1>3. k # 0
  BY <1>1, <1>2
<1>4. PICK j \in Nat : k = j + 1
  <2>1. k - 1 \in Nat /\ k = (k - 1) + 1
    BY <1>3
  <2>2. QED
    BY <2>1
<1>5. y - x = j * WordSize + WordSize /\ j * WordSize \in Nat
  BY <1>1, <1>2, <1>4
<1>6. y - (x + WordSize) = j * WordSize
  BY <1>2, <1>5
<1>7. QED
  BY <1>2, <1>5, <1>6 DEF Whole

(* What such a loop leaves as it was.                                      *)
LEMMA LoopStep ==
    ASSUME LoadInv, pc \in {"got_loop", "bss_loop"}, r1 # r2, NEW w, StoreWord(w), r1' = r1 + WordSize,
           UNCHANGED <<inputs, image, pc, r2, r4, phdr, count>>
    PROVE  LoadInv'
<1>1. /\ FilesInv /\ At(ElfAddr, elffile) /\ r4 = Base
      /\ mem[Base] = Byte(HdrSize) /\ mem[Base + WordSize] = Byte(S.loader_size)
      /\ r1 \in Nat /\ r2 \in Nat /\ Base + HdrSize <= r1 /\ r1 <= r2 /\ Whole(r2 - r1)
      /\ r2 <= Base + S.bss_end
  BY DEF LoadInv, ElfInv, HeaderInv, RegInv, Running
<1>2. r1 + WordSize <= r2 /\ Whole(r2 - (r1 + WordSize))
  BY <1>1, WordInFront
<1>3. /\ S.bss_end \in Nat /\ S.stack_addr = S.bss_end + StackSize /\ StackSize \in Nat /\ Base \in Nat
      /\ WordSize \in Nat /\ 0 < WordSize
  BY <1>1, StubLayout, BootAssumption DEF FilesInv, S
<1>4. /\ ElfAddr \in Nat /\ ElfAddr = Base + S.stack_addr /\ HdrSize = 4 * WordSize
      /\ MEM2 \in Nat /\ Top \in Nat /\ Base < MEM2 /\ MEM2 < Top
      /\ ElfAddr <= MEM2
  BY <1>1, ElfRoom, BootAssumption
<1>5. r2 <= ElfAddr
  BY <1>1, <1>3, <1>4
<1>6. \A a \in 0 .. Top : a \notin r1 .. r1 + WordSize - 1 => mem'[a] = mem[a]
  BY DEF StoreWord
<1>7. \A a \in ElfAddr .. MEM2 - 1 : mem'[a] = mem[a]
  BY <1>1, <1>2, <1>3, <1>4, <1>5, <1>6
<1>8. At(ElfAddr, elffile)'
  BY <1>1, <1>7, ElfKept
<1>9. mem'[Base] = mem[Base] /\ mem'[Base + WordSize] = mem[Base + WordSize]
  <2>1. Base \in 0 .. Top /\ Base + WordSize \in 0 .. Top
    BY <1>1, <1>2, <1>3, <1>4, <1>5
  <2>2. Base < r1 /\ Base + WordSize < r1
    BY <1>1, <1>3, <1>4
  <2>3. QED
    BY <1>1, <1>3, <1>6, <2>1, <2>2
<1>10. FilesInv' /\ S' = S
  BY <1>1 DEF FilesInv, S, inputs
<1>11. RegInv'
  <2>1. r1' = r1 + WordSize /\ r2' = r2 /\ r4' = r4 /\ pc' = pc
    OBVIOUS
  <2>2. Whole(r2' - r1')
    BY <1>2, <2>1
  <2>3. r1' \in Nat /\ r2' \in Nat /\ Base + HdrSize <= r1' /\ r1' <= r2'
    BY <1>1, <1>2, <1>3, <1>4, <2>1
  <2>4. r2' <= Base + S'.bss_end /\ r4' = Base
    BY <1>1, <1>10, <2>1
  <2>5. pc' \in {"got_loop", "bss_loop"}
    BY <2>1
  <2>6. QED
    BY <2>2, <2>3, <2>4, <2>5 DEF RegInv
<1>12. ImageInv' /\ ElfInv' /\ HeaderInv'
  BY <1>1, <1>8, <1>9, <1>10 DEF ImageInv, ElfInv, HeaderInv
<1>13. QED
  BY <1>10, <1>11, <1>12 DEF LoadInv

(* Every step preserves the invariant.                                     *)
LEMMA LoadStep == LoadInv /\ [Next]_vars => LoadInv'
<1> SUFFICES ASSUME LoadInv, [Next]_vars PROVE LoadInv'
  OBVIOUS
<1>0. /\ FilesInv
      /\ ElfAddr \in Nat /\ ElfAddr = Base + S.stack_addr /\ ElfAddr + Len(elffile) <= MEM2
      /\ elffile \in Seq(Cell) /\ Len(elffile) \in Nat
      /\ {Base, HdrSize, WordSize, Top, S.loader_size, MEM2} \subseteq Nat /\ MEM2 < Top
      /\ 0 < WordSize /\ HdrSize = 4 * WordSize
  BY ElfRoom, BootAssumption DEF LoadInv
<1>B. /\ Base \in Nat /\ HdrSize \in Nat /\ WordSize \in Nat /\ 0 < WordSize /\ WordSize < HdrSize
      /\ MEM2 \in Nat /\ Top \in Nat /\ MEM2 < Top /\ ElfAddr \in Nat /\ Len(elffile) \in Nat
      /\ ElfAddr + Len(elffile) <= MEM2
  BY <1>0
<1>A. ASSUME UNCHANGED inputs PROVE FilesInv' /\ S' = S /\ ElfAddr' = ElfAddr /\ elffile' = elffile
  BY <1>0, <1>A DEF FilesInv, S, inputs, ElfAddr
<1>1. CASE makebin
  <2>1. FilesInv' /\ S' = S /\ elffile' = elffile
    BY <1>1, <1>A DEF makebin
  <2>2. CASE HdrLen(loaderfile) < HdrSize
    BY <1>1, <2>1, <2>2 DEF makebin, LoadInv, ImageInv, ElfInv, HeaderInv, RegInv, Running
  <2>3. CASE ~(HdrLen(loaderfile) < HdrSize)
    <3>1. GoodLoader(loaderfile, S.loader_size)
      BY <1>0, <2>3 DEF FilesInv
    <3>2. pc' = "LoadMINI" /\ image' = newdata(loaderfile, elffile)
      BY <1>1, <2>3 DEF makebin
    <3> DEFINE new == newdata(loaderfile, elffile)
    <3>3. /\ GoodLoader(new, S.loader_size) /\ Len(new) = HdrSize + S.loader_size + Len(elffile)
          /\ \A i \in 1 .. Len(elffile) : new[HdrSize + S.loader_size + i] = elffile[i]
      <4>1. S.loader_size \in Nat /\ elffile \in Seq(Cell)
        BY <1>0
      <4>2. QED
        BY <3>1, <4>1, NewData, ZenonT(40)
    <3>4. ImageInv'
      BY <2>1, <3>2, <3>3 DEF ImageInv
    <3>5. QED
      BY <2>1, <3>2, <3>4 DEF LoadInv, ElfInv, HeaderInv, RegInv, Running
  <2>4. QED
    BY <2>2, <2>3
<1>2. CASE LoadMINI
  BY <1>0, <1>2, <1>A DEF LoadMINI, LoadInv, ImageInv, ElfInv, HeaderInv, RegInv, Running
<1>3. CASE DCFlushRange
  <2>1. pc = "flush" /\ pc' = "ioctl" /\ UNCHANGED <<inputs, image>>
    BY <1>3 DEF DCFlushRange
  <2>2. FilesInv' /\ S' = S /\ ElfAddr' = ElfAddr /\ elffile' = elffile
    BY <2>1, <1>A
  <2> DEFINE n == S.loader_size
             l == Len(elffile)
  <2>3. /\ image[1] = Byte(HdrSize) /\ image[WordSize + 1] = Byte(n) /\ Len(image) = HdrSize + n + l
        /\ \A i \in 1 .. l : image[HdrSize + n + i] = elffile[i]
    BY <2>1 DEF LoadInv, ImageInv, GoodLoader
  <2>4. \A a \in 0 .. Top : a \in Base .. Base + Len(image) - 1 => mem'[a] = image[a - Base + 1]
    BY <1>3 DEF DCFlushRange
  <2>5. ElfAddr = Base + HdrSize + n /\ n \in Nat /\ l \in Nat /\ Base + HdrSize + n + l <= MEM2
    <3>1. n \in Nat /\ l \in Nat
      BY <1>0
    <3>2. ElfAddr = Base + HdrSize + n
      BY DEF ElfAddr
    <3>3. QED
      BY <1>0, <3>1, <3>2
  <2> HIDE DEF n, l
  <2>6. ASSUME NEW k \in 1 .. Len(image) PROVE mem'[Base + k - 1] = image[k]
    <3>1. Base + k - 1 \in 0 .. Top /\ Base + k - 1 \in Base .. Base + Len(image) - 1
      BY <1>B, <2>3, <2>5
    <3>2. (Base + k - 1) - Base + 1 = k
      BY <1>0
    <3>3. QED
      BY <2>4, <3>1, <3>2
  <2>7. mem'[Base] = Byte(HdrSize) /\ mem'[Base + WordSize] = Byte(n)
    <3>1. 1 \in 1 .. Len(image) /\ WordSize + 1 \in 1 .. Len(image)
      BY <1>B, <2>3, <2>5
    <3>2. mem'[Base + 1 - 1] = image[1] /\ mem'[Base + (WordSize + 1) - 1] = image[WordSize + 1]
      BY <2>6, <3>1
    <3>3. Base + 1 - 1 = Base /\ Base + (WordSize + 1) - 1 = Base + WordSize
      BY <1>0
    <3>4. QED
      BY <2>3, <3>2, <3>3
  <2>8. ASSUME NEW i \in 1 .. l PROVE mem'[ElfAddr + i - 1] = elffile[i]
    <3>1. HdrSize + n + i \in 1 .. Len(image)
      BY <1>B, <2>3, <2>5
    <3>2. mem'[Base + (HdrSize + n + i) - 1] = image[HdrSize + n + i]
      BY <2>6, <3>1
    <3>3. Base + (HdrSize + n + i) - 1 = ElfAddr + i - 1
      BY <1>B, <2>5
    <3>4. QED
      BY <2>3, <3>2, <3>3
  <2>9. At(ElfAddr, elffile)'
    BY <2>2, <2>8 DEF At, l
  <2>10. QED
    BY <2>1, <2>2, <2>7, <2>9 DEF LoadInv, ImageInv, ElfInv, HeaderInv, RegInv, n
<1>4. CASE IoctlvAsync
  <2>1. pc = "ioctl" /\ pc' = "_start" /\ r1' = Base + mem[Base][2] /\ UNCHANGED <<inputs, image, mem>>
    BY <1>4 DEF IoctlvAsync
  <2>2. FilesInv' /\ S' = S /\ ElfAddr' = ElfAddr /\ elffile' = elffile
    BY <2>1, <1>A
  <2>3. /\ mem[Base] = Byte(HdrSize) /\ mem[Base + WordSize] = Byte(S.loader_size)
        /\ At(ElfAddr, elffile)
    BY <2>1 DEF LoadInv, HeaderInv, ElfInv
  <2>a. HdrSize \in Int
    BY BootAssumption DEF HdrSize
  <2>b. Byte(HdrSize)[2] = HdrSize
    BY <2>a, ByteCell
  <2>4. r1' = Base + HdrSize
    BY <2>1, <2>3, <2>b
  <2>5. QED
    BY <2>1, <2>2, <2>3, <2>4 DEF LoadInv, ImageInv, ElfInv, HeaderInv, RegInv, At
<1>5. CASE _start
  <2>1. /\ pc = "_start" /\ pc' = "got_loop" /\ r4' = r1 - HdrSize
        /\ r1' = S.got_start + r4' /\ r2' = S.got_end + r4' /\ UNCHANGED <<inputs, image, mem>>
    BY <1>5 DEF _start
  <2>2. FilesInv' /\ S' = S /\ ElfAddr' = ElfAddr /\ elffile' = elffile
    BY <2>1, <1>A
  <2>3. /\ mem[Base] = Byte(HdrSize) /\ mem[Base + WordSize] = Byte(S.loader_size)
        /\ At(ElfAddr, elffile) /\ r1 = Base + HdrSize
    BY <2>1 DEF LoadInv, HeaderInv, ElfInv, RegInv, Running
  <2>4. r4' = Base
    BY <1>0, <2>1, <2>3
  <2>5. /\ {S.got_start, S.got_end, S.bss_start, S.bss_end} \subseteq Nat
        /\ HdrSize <= S.got_start /\ S.got_start <= S.got_end /\ Whole(S.got_end - S.got_start)
        /\ S.got_end <= S.bss_start /\ S.bss_start <= S.bss_end
    BY <1>0, StubLayout DEF FilesInv, S
  <2> DEFINE from == S.got_start
             to == S.got_end
             end == S.bss_end
  <2>a. /\ from \in Nat /\ to \in Nat /\ end \in Nat /\ HdrSize <= from /\ from <= to /\ to <= end
        /\ r1' = from + Base /\ r2' = to + Base /\ S'.bss_end = end
    BY <2>1, <2>2, <2>4, <2>5
  <2> HIDE DEF from, to, end
  <2>6. /\ r1' \in Nat /\ r2' \in Nat /\ Base + HdrSize <= r1' /\ r1' <= r2'
        /\ r2' <= Base + S'.bss_end
    BY <1>B, <2>a
  <2>b. r2' - r1' = to - from
    BY <1>B, <2>a
  <2>7. r2' - r1' = S.got_end - S.got_start
    BY <2>b DEF from, to
  <2>8. RegInv'
    BY <2>1, <2>4, <2>5, <2>6, <2>7 DEF RegInv
  <2>9. QED
    BY <2>1, <2>2, <2>3, <2>8 DEF LoadInv, ImageInv, ElfInv, HeaderInv, At
<1>6. CASE got_loop
  <2>1. CASE r1 = r2
    <3>1. /\ pc = "got_loop" /\ pc' = "bss_loop" /\ r1' = S.bss_start + r4 /\ r2' = S.bss_end + r4
          /\ r4' = r4 /\ UNCHANGED <<inputs, image, mem>>
      BY <1>6, <2>1 DEF got_loop
    <3>2. FilesInv' /\ S' = S /\ ElfAddr' = ElfAddr /\ elffile' = elffile
      BY <3>1, <1>A
    <3>3. /\ mem[Base] = Byte(HdrSize) /\ mem[Base + WordSize] = Byte(S.loader_size)
          /\ At(ElfAddr, elffile) /\ r4 = Base
      BY <3>1 DEF LoadInv, HeaderInv, ElfInv, RegInv, Running
    <3>4. /\ {S.got_start, S.got_end, S.bss_start, S.bss_end} \subseteq Nat
          /\ HdrSize <= S.got_start /\ S.got_start <= S.got_end
          /\ S.got_end <= S.bss_start /\ S.bss_start <= S.bss_end /\ Whole(S.bss_end - S.bss_start)
      BY <1>0, StubLayout DEF FilesInv, S
    <3> DEFINE from == S.bss_start
               to == S.bss_end
    <3>a. /\ from \in Nat /\ to \in Nat /\ HdrSize <= from /\ from <= to
          /\ r1' = from + Base /\ r2' = to + Base /\ S'.bss_end = to
      <4>1. from \in Nat /\ to \in Nat /\ from <= to
        BY <3>4
      <4>2. PICK g \in Nat, h \in Nat : g = S.got_start /\ h = S.got_end
        BY <3>4
      <4>3. HdrSize <= g /\ g <= h /\ h <= from
        BY <3>4, <4>2
      <4>4. r1' = from + Base /\ r2' = to + Base /\ S'.bss_end = to
        BY <3>1, <3>2, <3>3
      <4> HIDE DEF from, to
      <4>5. HdrSize <= from
        BY <1>B, <4>1, <4>3
      <4>6. QED
        BY <4>1, <4>4, <4>5
    <3> HIDE DEF from, to
    <3>5. /\ r1' \in Nat /\ r2' \in Nat /\ Base + HdrSize <= r1' /\ r1' <= r2'
          /\ r2' <= Base + S'.bss_end
      BY <1>B, <3>a
    <3>b. r2' - r1' = to - from
      BY <1>B, <3>a
    <3>6. r2' - r1' = S.bss_end - S.bss_start
      BY <3>b DEF from, to
    <3>7. RegInv'
      BY <3>1, <3>3, <3>4, <3>5, <3>6 DEF RegInv
    <3>8. QED
      BY <3>1, <3>2, <3>3, <3>7 DEF LoadInv, ImageInv, ElfInv, HeaderInv, At
  <2>2. CASE r1 # r2
    <3>1. /\ pc = "got_loop" /\ StoreWord(Word(mem[r1][2] + r4)) /\ r1' = r1 + WordSize
          /\ UNCHANGED <<inputs, image, pc, r2, r4, phdr, count>>
      BY <1>6, <2>2 DEF got_loop, Relocate
    <3>2. QED
      BY <2>2, <3>1, LoopStep
  <2>3. QED
    BY <2>1, <2>2
<1>7. CASE bss_loop
  <2>1. CASE Fill("bss_loop", Zero)
    <3>1. /\ pc = "bss_loop" /\ r1 # r2 /\ StoreWord([i \in 1 .. WordSize |-> Zero]) /\ r1' = r1 + WordSize
          /\ UNCHANGED <<inputs, image, pc, r2, r4, phdr, count>>
      BY <2>1 DEF Fill
    <3>2. QED
      BY <3>1, LoopStep
  <2>2. CASE Filled("bss_loop", "loader_main", 0, 0)
    <3>1. pc = "bss_loop" /\ pc' = "loader_main" /\ UNCHANGED <<inputs, image, mem, r4>>
      BY <2>2 DEF Filled
    <3>2. FilesInv' /\ S' = S /\ ElfAddr' = ElfAddr /\ elffile' = elffile
      BY <3>1, <1>A
    <3>3. QED
      BY <3>1, <3>2 DEF LoadInv, ImageInv, ElfInv, HeaderInv, RegInv, At, Running
  <2>3. QED
    BY <1>7, <2>1, <2>2 DEF bss_loop
<1>8. CASE loader_main
  <2>1. /\ pc = "loader_main" /\ pc' = "loadelf" /\ UNCHANGED <<inputs, image>>
        /\ r1' = r4 + mem[r4][2] + mem[r4 + WordSize][2]
        /\ \A a \in 0 .. Top : a \notin WholeStack => mem'[a] = mem[a]
    BY <1>8 DEF loader_main
  <2>2. FilesInv' /\ S' = S /\ ElfAddr' = ElfAddr /\ elffile' = elffile
    BY <2>1, <1>A
  <2>3. /\ mem[Base] = Byte(HdrSize) /\ mem[Base + WordSize] = Byte(S.loader_size)
        /\ At(ElfAddr, elffile) /\ r4 = Base
    BY <2>1 DEF LoadInv, HeaderInv, ElfInv, RegInv, Running
  <2>a. HdrSize \in Int /\ S.loader_size \in Int
    BY <1>0, BootAssumption DEF HdrSize
  <2>b. Byte(HdrSize)[2] = HdrSize /\ Byte(S.loader_size)[2] = S.loader_size
    BY <2>a, ByteCell
  <2>4. r1' = ElfAddr
    BY <2>1, <2>3, <2>b DEF ElfAddr
  <2>5. \A a \in ElfAddr .. MEM2 - 1 : mem'[a] = mem[a]
    <3> DEFINE low == S.bss_end
    <3>1. low \in Nat
      BY <1>0, StubLayout DEF FilesInv, S
    <3>2. WholeStack = low + Base .. ElfAddr - 1
      <4>1. S.stack_addr = low + StackSize /\ StackSize \in Nat
        BY <1>0, StubLayout, BootAssumption DEF FilesInv, S
      <4> HIDE DEF low
      <4>2. S.stack_addr + r4 - 1 = ElfAddr - 1
        BY <1>0, <1>B, <2>3, <3>1, <4>1
      <4>3. QED
        BY <2>3, <4>2 DEF WholeStack, low
    <3> HIDE DEF low
    <3>3. \A a \in ElfAddr .. MEM2 - 1 : a \in 0 .. Top /\ a \notin WholeStack
      <4>1. \A a \in ElfAddr .. MEM2 - 1 : a \in 0 .. Top /\ a \notin low + Base .. ElfAddr - 1
        BY <1>B, <3>1
      <4>2. QED
        BY <3>2, <4>1
    <3>4. QED
      BY <2>1, <3>3
  <2>6. At(ElfAddr, elffile)'
    BY <1>0, <2>1, <2>3, <2>5, ElfKept
  <2>7. QED
    BY <2>1, <2>2, <2>4, <2>6 DEF LoadInv, ImageInv, ElfInv, HeaderInv, RegInv
<1>9. CASE loadelf
  <2>1. pc = "loadelf" /\ UNCHANGED <<inputs, image, mem, r1>>
    BY <1>9 DEF loadelf
  <2>2. FilesInv' /\ S' = S /\ ElfAddr' = ElfAddr /\ elffile' = elffile
    BY <2>1, <1>A
  <2>3. At(ElfAddr, elffile) /\ r1 = ElfAddr
    BY <2>1 DEF LoadInv, ElfInv, RegInv, Running
  <2>4. PICK ident \in BOOLEAN, phoff \in {0, 1} : elffile[1] = <<"ehdr", ident, phoff, 4, SRAM>>
    BY <1>0, ElfHeads
  <2>5. mem[r1] = <<"ehdr", ident, phoff, 4, SRAM>>
    <3>1. 1 \in 1 .. Len(elffile) /\ ElfAddr + 1 - 1 = ElfAddr
      <4>1. 5 <= Len(elffile) /\ Len(elffile) \in Nat /\ ElfAddr \in Nat
        BY <1>0, ElfHeads, ElfRoom
      <4>2. QED
        BY <4>1
    <3>2. QED
      BY <2>3, <2>4, <3>1 DEF At
  <2>6. \/ pc' = "panic"
        \/ pc' = "phdrs" /\ phoff # 0 /\ phdr' = r1 + phoff /\ count' = 4
    BY <1>9, <2>5 DEF loadelf
  <2>7. CASE pc' = "panic"
    BY <2>2, <2>7 DEF LoadInv, ImageInv, ElfInv, HeaderInv, RegInv, Running
  <2>8. CASE pc' = "phdrs" /\ phoff # 0 /\ phdr' = r1 + phoff /\ count' = 4
    <3>1. phdr' = ElfAddr + 5 - count' /\ count' \in 0 .. 4
      BY <1>0, <2>3, <2>8
    <3>2. RegInv'
      BY <2>1, <2>2, <2>3, <2>8, <3>1 DEF RegInv
    <3>3. QED
      BY <2>1, <2>2, <2>3, <2>8, <3>2 DEF LoadInv, ImageInv, ElfInv, HeaderInv, At
  <2>9. QED
    BY <2>6, <2>7, <2>8
<1>10. CASE LoadSegment
  <2>1. /\ pc = "phdrs" /\ count > 0 /\ phdr' = phdr + 1 /\ count' = count - 1
        /\ UNCHANGED <<inputs, image, pc, r1>>
        /\ IF mem[phdr][2] = "load" THEN memcpy(mem[phdr]) ELSE UNCHANGED mem
    BY <1>10 DEF LoadSegment
  <2>2. FilesInv' /\ S' = S /\ ElfAddr' = ElfAddr /\ elffile' = elffile
    BY <2>1, <1>A
  <2>3. At(ElfAddr, elffile) /\ r1 = ElfAddr /\ count \in 0 .. 4 /\ phdr = ElfAddr + 5 - count
    BY <2>1 DEF LoadInv, ElfInv, RegInv, Running
  <2>4. PICK i \in 2 .. 5 : i = 6 - count
    BY <2>1, <2>3
  <2>5. mem[phdr] = elffile[i]
    <3>1. i \in 1 .. Len(elffile) /\ ElfAddr + i - 1 = phdr
      <4>1. 5 <= Len(elffile)
        BY <1>0, ElfHeads
      <4>2. QED
        BY <1>B, <2>3, <2>4, <4>1
    <3>2. QED
      BY <2>3, <3>1 DEF At
  <2>6. \A a \in ElfAddr .. MEM2 - 1 : mem'[a] = mem[a]
    <3>1. CASE mem[phdr][2] = "load"
      <4>1. PICK to \in {SRAM, SRAM2, MEM2}, n \in Nat : mem[phdr][4] = to /\ mem[phdr][5] = n
        BY <1>0, <2>5, <3>1, ElfHeads
      <4>2. to \in Nat /\ MEM2 <= to
        BY BootAssumption
      <4>3. \A a \in 0 .. Top : a \notin to .. to + n - 1 => mem'[a] = mem[a]
        BY <2>1, <3>1, <4>1 DEF memcpy
      <4>4. QED
        BY <1>B, <4>2, <4>3
    <3>2. QED
      BY <2>1, <3>1
  <2>7. At(ElfAddr, elffile)'
    BY <1>0, <2>1, <2>3, <2>6, ElfKept
  <2>8. count' \in 0 .. 4 /\ phdr' = ElfAddr + 5 - count'
    <3>1. count' = count - 1 /\ phdr' = phdr + 1 /\ count > 0
      BY <2>1
    <3>2. QED
      BY <1>B, <2>3, <3>1
  <2>9. RegInv'
    BY <2>1, <2>2, <2>3, <2>8 DEF RegInv
  <2>10. QED
    BY <2>1, <2>2, <2>7, <2>9 DEF LoadInv, ImageInv, ElfInv, HeaderInv
<1>11. CASE Entry \/ stk_loop \/ bss1_loop \/ bss2_loop
  <2>1. UNCHANGED inputs /\ pc' \in {"stk_loop", "lost", "bss1_loop", "bss2_loop", "_main"}
    BY <1>11 DEF Entry, stk_loop, bss1_loop, bss2_loop, Fill, Filled
  <2>2. FilesInv'
    BY <2>1, <1>A
  <2>3. QED
    BY <2>1, <2>2 DEF LoadInv, ImageInv, ElfInv, HeaderInv, RegInv, Running
<1>12. CASE UNCHANGED vars
  <2>1. UNCHANGED inputs /\ UNCHANGED <<image, mem, pc, r1, r2, r4, phdr, count>>
    BY <1>12 DEF vars, inputs
  <2>2. FilesInv' /\ S' = S /\ ElfAddr' = ElfAddr /\ elffile' = elffile
    BY <2>1, <1>A
  <2>3. QED
    BY <2>1, <2>2 DEF LoadInv, ImageInv, ElfInv, HeaderInv, RegInv, At
<1>13. QED
  BY <1>1, <1>2, <1>3, <1>4, <1>5, <1>6, <1>7, <1>8, <1>9, <1>10, <1>11, <1>12 DEF Next

(* The invariant holds throughout.                                         *)
THEOREM LoadInvariant == Spec => []LoadInv
BY LoadInit, LoadStep, PTL DEF Spec

(* mini's ELF stays as it was built, right behind the loader's stack, from *)
(* the jump to the loader until mini is entered.                           *)
THEOREM ElfKeptIntact == Spec => []ElfIntact
<1>1. LoadInv => ElfIntact
  BY DEF LoadInv, ElfInv, RegInv, ElfIntact, ElfAddr
<1>2. QED
  BY LoadInvariant, <1>1, PTL
-----------------------------------------------------------------------------
(* A loader file holds the global offset table as it was linked.           *)
HasGot(f) ==
    /\ S.got_end <= Len(f)
    /\ \A k \in 0 .. GotWords - 1 : f[S.got_start + k * WordSize + 1] = Byte(GotEntry(k))

(* Word k of the table is within it.                                       *)
LEMMA GotOffset ==
    ASSUME NEW j \in Nat, NEW k \in Nat, k < j
    PROVE  /\ k * WordSize \in Nat /\ j * WordSize \in Nat
           /\ k * WordSize + WordSize <= j * WordSize
<1>1. WordSize \in Nat
  BY BootAssumption
<1>2. PICK d \in Nat : j = k + 1 + d
  <2>1. j - k - 1 \in Nat /\ j = k + 1 + (j - k - 1)
    OBVIOUS
  <2>2. QED
    BY <2>1
<1>3. j * WordSize = k * WordSize + WordSize + d * WordSize
  BY <1>1, <1>2
<1>4. k * WordSize \in Nat /\ d * WordSize \in Nat
  BY <1>1
<1>5. QED
  BY <1>1, <1>3, <1>4

(* The table's words.                                                      *)
LEMMA GotCells ==
    ASSUME NEW k \in 0 .. GotWords - 1
    PROVE  k * WordSize + 1 \in 1 .. Len(Got) /\ Got[k * WordSize + 1] = Byte(GotEntry(k))
<1>0. WordSize \in Nat \ {0} /\ GotWords \in Nat /\ k \in Nat /\ k < GotWords
  BY BootAssumption
<1> DEFINE n == GotWords * WordSize
           i == k * WordSize
<1>1. i \in Nat /\ n \in Nat /\ i + WordSize <= n
  BY <1>0, GotOffset
<1>2. i % WordSize = 0 /\ i \div WordSize = k
  BY <1>0
<1>3. Got = [x \in 1 .. n |->
                IF (x - 1) % WordSize = 0 THEN Byte(GotEntry((x - 1) \div WordSize)) ELSE Zero]
  BY DEF Got
<1>4. Len(Got) = n
  BY GotLen
<1> HIDE DEF n, i
<1>5. i + 1 \in 1 .. n /\ (i + 1) - 1 = i
  BY <1>0, <1>1
<1>6. Got[i + 1] = IF ((i + 1) - 1) % WordSize = 0 THEN Byte(GotEntry(((i + 1) - 1) \div WordSize)) ELSE Zero
  BY <1>3, <1>5, Zenon
<1>7. Got[i + 1] = Byte(GotEntry(k))
  BY <1>2, <1>5, <1>6
<1>8. QED
  BY <1>4, <1>5, <1>7 DEF i

(* The linker's file holds the table, and what makebin.py makes of a file  *)
(* that does holds it too.                                                 *)
LEMMA StubHasGot == stubsz \in StubSizes => HasGot(StubBin(stubsz))
<1> SUFFICES ASSUME stubsz \in StubSizes PROVE HasGot(StubBin(stubsz))
  OBVIOUS
<1> DEFINE f == StubBin(stubsz)
<1>1. S.got_end <= Len(f) /\ \A i \in 1 .. Len(Got) : f[S.got_start + i] = Got[i]
  BY StubGood DEF S
<1>2. ASSUME NEW k \in 0 .. GotWords - 1 PROVE f[S.got_start + k * WordSize + 1] = Byte(GotEntry(k))
  <2> DEFINE i == k * WordSize
  <2>1. i + 1 \in 1 .. Len(Got) /\ Got[i + 1] = Byte(GotEntry(k)) /\ i \in Nat
    <3>1. k \in Nat /\ WordSize \in Nat
      BY BootAssumption
    <3>2. i \in Nat
      BY <3>1
    <3>3. QED
      BY <3>2, GotCells
  <2>2. PICK g \in Nat : g = S.got_start
    BY StubLayout DEF S
  <2> HIDE DEF f, i
  <2>3. g + (i + 1) = g + i + 1
    BY <2>1, <2>2
  <2>4. f[g + (i + 1)] = Got[i + 1]
    BY <1>1, <2>1, <2>2
  <2>5. f[g + i + 1] = Byte(GotEntry(k))
    BY <2>1, <2>3, <2>4
  <2>6. QED
    BY <2>2, <2>5 DEF i
<1>3. QED
  BY <1>1, <1>2 DEF HasGot

(* makebin.py leaves the table where it was in the loader, whatever was    *)
(* behind it.                                                              *)
LEMMA NewHasGot ==
    ASSUME stubsz \in StubSizes, NEW f, GoodLoader(f, S.loader_size), HasGot(f), NEW elf \in Seq(Cell)
    PROVE  HasGot(newdata(f, elf))
<1> DEFINE n == S.loader_size
           new == newdata(f, elf)
           got == S.got_start
           end == S.got_end
<1>1. /\ n \in Nat /\ got \in Nat /\ end \in Nat /\ HdrSize \in Nat /\ HdrSize <= got
      /\ end <= HdrSize + n /\ end = got + GotWords * WordSize
  <2>1. /\ {S.got_start, S.got_end, S.bss_start, S.bss_end, S.loader_size} \subseteq Nat
        /\ HdrSize <= S.got_start /\ S.got_end <= S.bss_start /\ S.bss_start <= S.bss_end
        /\ S.stack_addr = S.bss_end + StackSize /\ S.stack_addr = HdrSize + S.loader_size
    BY StubLayout DEF S
  <2>2. S.got_end = S.got_start + GotWords * WordSize
    BY DEF S, stub
  <2>3. StackSize \in Nat /\ HdrSize \in Nat
    BY BootAssumption DEF HdrSize
  <2>4. QED
    BY <2>1, <2>2, <2>3
<1>2. /\ Len(new) = HdrSize + n + Len(elf)
      /\ \A i \in 1 .. n : HdrSize + i <= Len(f) => new[HdrSize + i] = f[HdrSize + i]
  BY <1>1, NewData
<1>3. end <= Len(f) /\ \A k \in 0 .. GotWords - 1 : f[got + k * WordSize + 1] = Byte(GotEntry(k))
  BY DEF HasGot
<1>4. Len(elf) \in Nat /\ Len(f) \in Nat
  BY DEF GoodLoader
<1> HIDE DEF n, new, got, end
<1>5. end <= Len(new)
  BY <1>1, <1>2, <1>4
<1>6. ASSUME NEW k \in 0 .. GotWords - 1 PROVE new[got + k * WordSize + 1] = Byte(GotEntry(k))
  <2> DEFINE i == k * WordSize
             m == GotWords * WordSize
  <2>1. i \in Nat /\ m \in Nat /\ i + WordSize <= m /\ WordSize \in Nat \ {0}
    BY GotOffset, BootAssumption
  <2>2. end = got + m /\ f[got + i + 1] = Byte(GotEntry(k))
    BY <1>1, <1>3
  <2> HIDE DEF i, m
  <2>3. PICK x \in 1 .. n : HdrSize + x = got + i + 1
    <3>1. (got + i + 1) - HdrSize \in 1 .. n /\ HdrSize + ((got + i + 1) - HdrSize) = got + i + 1
      BY <1>1, <2>1, <2>2
    <3>2. QED
      BY <3>1
  <2>4. got + i + 1 <= Len(f)
    BY <1>1, <1>3, <1>4, <2>1, <2>2
  <2>5. new[got + i + 1] = f[got + i + 1]
    BY <1>2, <2>3, <2>4
  <2>6. QED
    BY <2>2, <2>5 DEF i
<1>7. QED
  BY <1>5, <1>6 DEF HasGot, new, got, end
-----------------------------------------------------------------------------
(* The table in memory, with the first j of its words relocated.           *)
Table(j) ==
    \A k \in 0 .. GotWords - 1 :
        mem[Base + S.got_start + k * WordSize] = Byte(IF k < j THEN GotEntry(k) + Base ELSE GotEntry(k))

Mini == {"stk_loop", "bss1_loop", "bss2_loop", "_main"}

(* Where the table is, from the file to the end of the boot: untouched,    *)
(* relocated up to r1, or relocated entirely.                              *)
TableInv ==
    /\ HdrLen(loaderfile) < HdrSize \/ HasGot(loaderfile)
    /\ pc \in {"LoadMINI", "flush"} => HasGot(image)
    /\ pc \in {"ioctl", "_start"} => Table(0)
    /\ pc = "got_loop" =>
           /\ r2 = Base + S.got_end
           /\ \E j \in 0 .. GotWords : r1 = Base + S.got_start + j * WordSize /\ Table(j)
    /\ pc = "bss_loop" => Base + S.bss_start <= r1
    /\ pc \in {"bss_loop", "loader_main", "loadelf", "phdrs"} \cup Mini => Table(GotWords)

(* Which way the boot has gone.                                            *)
Good == elffile[1][2] /\ elffile[1][3] # 0
WayInv ==
    /\ pc \in {"makebin", "error", "LoadMINI", "waiting", "flush", "ioctl", "panic"} \cup Running \cup Mini
    /\ pc = "error" => HdrLen(loaderfile) < HdrSize
    /\ pc \notin {"makebin", "error"} => ~(HdrLen(loaderfile) < HdrSize)
    /\ pc = "waiting" => ~found
    /\ pc \in {"flush", "ioctl", "panic"} \cup Running \cup Mini => found
    /\ pc = "panic" => ~Good
    /\ pc \in {"phdrs"} \cup Mini => Good

(* The segments that have been copied.                                     *)
Text == At(SRAM, Section("text", minisz.code))
Data == At(SRAM2, Section("data", minisz.data))
Data2 == At(MEM2, Section("data2", minisz.data2))
SegInv ==
    /\ pc = "phdrs" => (count <= 2 => Text) /\ (count <= 1 => Data) /\ (count = 0 => Data2)
    /\ pc \in Mini => Text /\ Data /\ Data2

(* A loop of mini's start.S, and what those before it have filled.         *)
Filling(from, to, cell) ==
    /\ r1 \in Nat /\ r2 = to /\ from <= r1 /\ r1 <= r2 /\ Whole(r2 - r1)
    /\ All(from, r1, cell)
MiniInv ==
    /\ pc = "stk_loop" => Filling(L.stack_end, L.stack_addr, Marker)
    /\ pc = "bss1_loop" => Filling(L.bss_start, L.bss_end, Zero)
    /\ pc = "bss2_loop" => Filling(L.bss2_start, L.bss2_end, Zero)
    /\ pc \in {"bss1_loop", "bss2_loop", "_main"} => All(L.stack_end, L.stack_addr, Marker)
    /\ pc \in {"bss2_loop", "_main"} => All(L.bss_start, L.bss_end, Zero)
    /\ pc = "_main" => All(L.bss2_start, L.bss2_end, Zero)

(* The inductive invariant of the boot.                                    *)
BootInv == LoadInv /\ TableInv /\ WayInv /\ SegInv /\ MiniInv

(* What BootRight says of the states the boot may end in.                  *)
EndRight == pc \in {"error", "waiting", "panic", "lost", "_main"} => pc = Outcome /\ (pc = "_main" => Ready)
-----------------------------------------------------------------------------
(* The table stays where nothing is written between its ends, which are in *)
(* front of the ELF.                                                       *)
LEMMA GotPlace ==
    ASSUME FilesInv
    PROVE  /\ S.got_start \in Nat /\ S.got_end \in Nat /\ S.bss_start \in Nat /\ S.bss_end \in Nat
           /\ HdrSize <= S.got_start /\ S.got_end = S.got_start + GotWords * WordSize
           /\ S.got_end <= S.bss_start /\ S.bss_start <= S.bss_end
           /\ Base + S.bss_end <= ElfAddr
<1>1. stubsz \in StubSizes
  BY DEF FilesInv
<1>2. /\ {S.got_start, S.got_end, S.bss_start, S.bss_end} \subseteq Nat
      /\ HdrSize <= S.got_start /\ S.got_end <= S.bss_start /\ S.bss_start <= S.bss_end
      /\ S.stack_addr = S.bss_end + StackSize
  BY <1>1, StubLayout DEF S
<1>3. S.got_end = S.got_start + GotWords * WordSize
  BY DEF S, stub
<1>4. PICK end \in Nat : end = S.bss_end
  BY <1>2
<1>5. ElfAddr = Base + (end + StackSize) /\ StackSize \in Nat /\ Base \in Nat
  BY <1>2, <1>4, ElfRoom, BootAssumption
<1>6. Base + end <= ElfAddr
  BY <1>4, <1>5
<1>7. QED
  BY <1>2, <1>3, <1>4, <1>6

(* A step that writes nothing between the ends of the table keeps what is  *)
(* in it.                                                                  *)
LEMMA TableKept ==
    ASSUME FilesInv, UNCHANGED inputs, NEW j \in Nat, Table(j),
           \A a \in Base + S.got_start .. Base + S.got_end - 1 : mem'[a] = mem[a]
    PROVE  Table(j)'
<1>1. S' = S
  BY DEF S, inputs
<1>2. ASSUME NEW k \in 0 .. GotWords - 1
      PROVE  mem'[Base + S.got_start + k * WordSize] = mem[Base + S.got_start + k * WordSize]
  <2> DEFINE g == S.got_start
             end == S.got_end
             i == k * WordSize
             n == GotWords * WordSize
  <2>1. i \in Nat /\ n \in Nat /\ i + WordSize <= n /\ WordSize \in Nat \ {0} /\ Base \in Nat
    BY GotOffset, BootAssumption
  <2>2. g \in Nat /\ end = g + n
    BY GotPlace
  <2>3. \A a \in Base + g .. Base + end - 1 : mem'[a] = mem[a]
    OBVIOUS
  <2> HIDE DEF g, end, i, n
  <2>4. Base + g + i \in Base + g .. Base + end - 1
    BY <2>1, <2>2
  <2>5. mem'[Base + g + i] = mem[Base + g + i]
    BY <2>3, <2>4
  <2>6. QED
    BY <2>5 DEF g, i
<1>3. QED
  BY <1>1, <1>2 DEF Table

(* Each loader file that makebin.py takes has the table as it was linked.  *)
LEMMA TableInit == Init => TableInv
<1> SUFFICES ASSUME Init PROVE TableInv
  OBVIOUS
<1> DEFINE f == StubBin(stubsz)
           j == <<Junk, Junk>>
<1>1. pc = "makebin" /\ stubsz \in StubSizes /\ LoadInv
  BY LoadInit DEF Init
<1>2. HasGot(f) /\ GoodLoader(f, S.loader_size)
  BY <1>1, StubHasGot, StubGood DEF S
<1>3. loaderfile \in {f, newdata(f, j), <<Byte(0)>> \o Tail(f)}
  BY DEF Init
<1>4. j \in Seq(Cell)
  <2>1. Junk \in Cell
    BY ByteCell DEF Junk
  <2>2. QED
    BY <2>1
<1>5. ASSUME loaderfile = <<Byte(0)>> \o Tail(f) PROVE HdrLen(loaderfile) < HdrSize
  BY <1>1, <1>2, <1>5, ShortHeader
<1> HIDE DEF f, j
<1>6. HasGot(newdata(f, j))
  BY <1>1, <1>2, <1>4, NewHasGot
<1>7. HdrLen(loaderfile) < HdrSize \/ HasGot(loaderfile)
  BY <1>2, <1>3, <1>5, <1>6
<1>8. QED
  BY <1>1, <1>7 DEF TableInv, Mini

(* A step of the relocation: word j, and no other, is relocated.           *)
LEMMA RelocateStep ==
    ASSUME FilesInv, UNCHANGED inputs, r4 = Base, NEW j \in 0 .. GotWords - 1,
           r1 = Base + S.got_start + j * WordSize, Table(j), Relocate
    PROVE  Table(j + 1)'
<1> DEFINE g == Base + S.got_start
           n == j * WordSize
<1>1. S' = S
  BY DEF S, inputs
<1>2. /\ WordSize \in Nat \ {0} /\ GotWords \in Nat /\ Base \in Nat /\ j \in Nat /\ n \in Nat
      /\ Top \in Nat /\ MEM2 \in Nat /\ MEM2 < Top
  BY BootAssumption
<1>3. g \in Nat /\ g + GotWords * WordSize <= MEM2
  <2>1. PICK x \in Nat, y \in Nat, z \in Nat, e \in Nat :
           /\ x = S.got_start /\ y = S.bss_start /\ z = S.bss_end /\ e = S.got_end
           /\ e = x + GotWords * WordSize /\ e <= y /\ y <= z /\ Base + z <= ElfAddr
    BY GotPlace
  <2>2. PICK w \in Nat : w = GotWords * WordSize
    BY <1>2
  <2>3. ElfAddr \in Nat /\ ElfAddr <= MEM2
    BY ElfRoom, <1>2
  <2>4. g = Base + x
    BY <2>1
  <2> HIDE DEF g
  <2>5. QED
    BY <1>2, <2>1, <2>2, <2>3, <2>4
<1>4. r1 = g + n /\ mem[r1] = Byte(GotEntry(j))
  BY DEF Table
<1>5. /\ \A a \in 0 .. Top : a \notin r1 .. r1 + WordSize - 1 => mem'[a] = mem[a]
      /\ \A a \in 0 .. Top : a \in r1 .. r1 + WordSize - 1 => mem'[a] = Word(mem[r1][2] + r4)[a - r1 + 1]
  BY DEF Relocate, StoreWord
<1>6. GotEntry(j) \in Int
  BY <1>2 DEF GotEntry
<1>7. mem[r1][2] + r4 = GotEntry(j) + Base
  BY <1>4, <1>6, ByteCell
<1> HIDE DEF g, n
<1>8. mem'[g + n] = Byte(GotEntry(j) + Base)
  <2>1. n + WordSize <= GotWords * WordSize /\ GotWords * WordSize \in Nat
    BY <1>2, GotOffset DEF n
  <2>2. PICK w \in Nat : w = GotWords * WordSize
    BY <2>1
  <2>3. g + n \in 0 .. Top /\ g + n \in r1 .. r1 + WordSize - 1 /\ (g + n) - r1 + 1 = 1
    BY <1>2, <1>3, <1>4, <2>1, <2>2
  <2>4. mem'[g + n] = Word(GotEntry(j) + Base)[1]
    BY <1>5, <1>7, <2>3
  <2>5. GotEntry(j) + Base \in Int
    BY <1>2, <1>6
  <2>6. QED
    BY <2>4, <2>5, WordLen
<1>9. ASSUME NEW k \in 0 .. GotWords - 1, k # j
      PROVE  mem'[g + k * WordSize] = mem[g + k * WordSize]
  <2> DEFINE i == k * WordSize
  <2>1. i \in Nat /\ i + WordSize <= GotWords * WordSize /\ GotWords * WordSize \in Nat
    BY <1>2, GotOffset
  <2>2. PICK w \in Nat : w = GotWords * WordSize
    BY <2>1
  <2>3. i + WordSize <= n \/ n + WordSize <= i
    <3>1. CASE k < j
      BY <1>2, <3>1, GotOffset DEF n
    <3>2. CASE j < k
      BY <1>2, <3>2, GotOffset DEF n
    <3>3. QED
      BY <1>2, <1>9, <3>1, <3>2
  <2> HIDE DEF i
  <2>4. g + i \in 0 .. Top /\ g + i \notin r1 .. r1 + WordSize - 1
    BY <1>2, <1>3, <1>4, <2>1, <2>2, <2>3
  <2>5. mem'[g + i] = mem[g + i]
    BY <1>5, <2>4
  <2>6. QED
    BY <2>5 DEF i
<1>10. ASSUME NEW k \in 0 .. GotWords - 1
       PROVE  mem'[g + k * WordSize] = Byte(IF k < j + 1 THEN GotEntry(k) + Base ELSE GotEntry(k))
  <2>1. CASE k = j
    <3>1. k < j + 1
      BY <1>2, <2>1
    <3>2. QED
      BY <1>8, <2>1, <3>1 DEF n
  <2>2. CASE k # j
    <3>1. k < j + 1 <=> k < j
      BY <1>2, <2>2
    <3>2. mem[g + k * WordSize] = Byte(IF k < j THEN GotEntry(k) + Base ELSE GotEntry(k))
      BY DEF Table, g
    <3>3. QED
      BY <1>9, <2>2, <3>1, <3>2
  <2>3. QED
    BY <2>1, <2>2
<1>11. QED
  BY <1>1, <1>10 DEF Table, g

(* mini's regions in their order.                                          *)
LEMMA MiniPlace ==
    ASSUME minisz \in MiniSizes
    PROVE  /\ {L.bss_start, L.bss_end, L.stack_end, L.stack_addr, L.bss2_start, L.bss2_end} \subseteq Nat
           /\ {SRAM, SRAM2, MEM2, Top} \subseteq Nat
           /\ MEM2 <= L.bss2_start /\ L.bss2_start <= L.bss2_end /\ L.bss2_end <= SRAM2
           /\ SRAM2 <= L.bss_start /\ L.bss_start <= L.bss_end /\ L.bss_end <= L.stack_end
           /\ L.stack_end <= L.stack_addr /\ L.stack_addr <= SRAM /\ SRAM < Top
           /\ L.bss_start = SRAM2 + Len(Section("data", minisz.data))
           /\ L.bss2_start = MEM2 + Len(Section("data2", minisz.data2))
           /\ SRAM + Len(Section("text", minisz.code)) <= Top
           /\ L.bss_end - L.bss_start >= minisz.bss /\ L.bss2_end - L.bss2_start >= minisz.bss
           /\ Whole(L.stack_addr - L.stack_end) /\ Whole(L.bss_end - L.bss_start)
           /\ Whole(L.bss2_end - L.bss2_start)
<1> DEFINE z == ALIGN(minisz.bss, WordSize)
           d == ALIGN(minisz.data, WordSize)
           d2 == ALIGN(minisz.data2, WordSize)
           t == ALIGN(minisz.code, WordSize)
<1>1. /\ {L.bss_start, L.bss_end, L.stack_end, L.stack_addr, L.excstack_addr} \subseteq Nat
      /\ {L.bss2_start, L.bss2_end} \subseteq Nat
      /\ t \in Nat /\ d \in Nat /\ d2 \in Nat
      /\ L.bss_start = SRAM2 + d /\ L.bss2_start = MEM2 + d2
      /\ L.bss_end = L.bss_start + z /\ L.bss2_end = L.bss2_start + z
      /\ Whole(z) /\ z \in Nat /\ minisz.bss <= z /\ Whole(L.stack_addr - L.stack_end)
      /\ L.bss_end <= L.stack_end /\ L.stack_end <= L.stack_addr /\ L.stack_addr <= L.excstack_addr
      /\ {minisz.code, minisz.data, minisz.data2, minisz.bss} \subseteq Nat
  BY MiniLayout DEF L
<1>2. /\ Len(Section("data", minisz.data)) = d /\ Len(Section("data2", minisz.data2)) = d2
      /\ Len(Section("text", minisz.code)) = t
  BY <1>1, SectionLen
<1>3. L.bss2_end <= SRAM2 /\ L.excstack_addr <= SRAM /\ SRAM + t <= Top
  BY RegionAssumption DEF L
<1> HIDE DEF z, d, d2, t
<1>4. PICK a \in Nat, b \in Nat, c \in Nat, e \in Nat, f \in Nat, g \in Nat, x \in Nat, y \in Nat :
         /\ a = L.bss_start /\ b = L.bss_end /\ c = L.stack_end /\ e = L.stack_addr /\ y = L.excstack_addr
         /\ f = L.bss2_start /\ g = L.bss2_end /\ x = minisz.bss
  BY <1>1
<1>5. SRAM \in Nat /\ SRAM2 \in Nat /\ MEM2 \in Nat /\ Top \in Nat /\ SRAM < Top
  BY BootAssumption
<1>6. /\ MEM2 <= f /\ f <= g /\ SRAM2 <= a /\ a <= b /\ c <= e /\ e <= SRAM
      /\ b - a = z /\ g - f = z
  BY <1>1, <1>3, <1>4, <1>5
<1>7. Whole(e - c) /\ Whole(b - a) /\ Whole(g - f) /\ b - a >= x /\ g - f >= x
  BY <1>1, <1>4, <1>6
<1>8. QED
  BY <1>1, <1>2, <1>3, <1>4, <1>5, <1>6, <1>7

(* The words that mini's loops write are in its regions.                   *)
LEMMA MiniBounds ==
    ASSUME FilesInv, MiniInv, pc \in Mini \ {"_main"}
    PROVE  r1 \in Nat /\ MEM2 <= r1
<1>1. PICK a \in Nat, b \in Nat, c \in Nat, e \in Nat, f \in Nat :
         /\ a = L.bss_start /\ b = L.bss_end /\ c = L.stack_end /\ f = L.bss2_start /\ e = L.bss2_end
         /\ MEM2 <= f /\ f <= e /\ e <= SRAM2 /\ SRAM2 <= a /\ a <= b /\ b <= c
  BY MiniPlace DEF FilesInv
<1>2. MEM2 \in Nat /\ SRAM2 \in Nat
  BY BootAssumption
<1>3. r1 \in Nat /\ (c <= r1 \/ a <= r1 \/ f <= r1)
  BY <1>1 DEF MiniInv, Filling, Mini
<1>4. QED
  BY <1>1, <1>2, <1>3

(* A segment is copied into mini's regions only.                           *)
LEMMA SegmentAbove ==
    ASSUME LoadInv, LoadSegment
    PROVE  \A a \in 0 .. Top : a < MEM2 => mem'[a] = mem[a]
<1>1. FilesInv /\ At(ElfAddr, elffile) /\ count \in 0 .. 4 /\ count > 0 /\ phdr = ElfAddr + 5 - count
  BY DEF LoadSegment, LoadInv, ElfInv, RegInv, Running
<1>2. PICK i \in 2 .. 5 : i = 6 - count
  BY <1>1
<1>3. ElfAddr \in Nat /\ Len(elffile) \in Nat /\ 5 <= Len(elffile)
  BY <1>1, ElfRoom, ElfHeads
<1>4. i \in 1 .. Len(elffile) /\ ElfAddr + i - 1 = phdr
  BY <1>1, <1>2, <1>3
<1>5. mem[phdr] = elffile[i]
  BY <1>1, <1>4 DEF At
<1>6. CASE mem[phdr][2] = "load"
  <2>1. PICK to \in {SRAM, SRAM2, MEM2}, n \in Nat : mem[phdr][4] = to /\ mem[phdr][5] = n
    BY <1>1, <1>5, <1>6, ElfHeads
  <2>2. to \in Nat /\ MEM2 <= to /\ MEM2 \in Nat /\ Top \in Nat
    BY BootAssumption
  <2>3. \A a \in 0 .. Top : a \notin to .. to + n - 1 => mem'[a] = mem[a]
    BY <1>6, <2>1 DEF LoadSegment, memcpy
  <2>4. QED
    BY <2>2, <2>3
<1>7. CASE mem[phdr][2] # "load"
  BY <1>7 DEF LoadSegment
<1>8. QED
  BY <1>6, <1>7

(* Every step keeps the table, or relocates its next word.                 *)
LEMMA TableStep == LoadInv /\ TableInv /\ MiniInv /\ [Next]_vars => TableInv'
<1> SUFFICES ASSUME LoadInv, TableInv, MiniInv, [Next]_vars PROVE TableInv'
  OBVIOUS
<1>0. FilesInv /\ stubsz \in StubSizes /\ elffile \in Seq(Cell)
  BY ElfRoom DEF LoadInv, FilesInv
<1>B. /\ Base \in Nat /\ WordSize \in Nat \ {0} /\ GotWords \in Nat /\ MEM2 \in Nat /\ Top \in Nat
      /\ MEM2 < Top /\ ElfAddr \in Nat /\ ElfAddr <= MEM2
  <2>1. ElfAddr \in Nat /\ Len(elffile) \in Nat /\ ElfAddr + Len(elffile) <= MEM2
    BY <1>0, ElfRoom
  <2>2. QED
    BY <2>1, BootAssumption
<1>P. PICK got \in Nat, end \in Nat, bss \in Nat, bssEnd \in Nat :
         /\ got = S.got_start /\ end = S.got_end /\ bss = S.bss_start /\ bssEnd = S.bss_end
         /\ end = got + GotWords * WordSize /\ end <= bss /\ bss <= bssEnd /\ Base + bssEnd <= ElfAddr
  BY <1>0, GotPlace
<1>Q. end <= bss /\ bss <= bssEnd /\ Base + bssEnd <= ElfAddr
  BY <1>P
<1>R. got = S.got_start /\ end = S.got_end
  BY <1>P
<1>A. ASSUME UNCHANGED inputs
      PROVE  /\ S' = S /\ loaderfile' = loaderfile
             /\ (HdrLen(loaderfile) < HdrSize \/ HasGot(loaderfile))'
  BY <1>A DEF TableInv, HasGot, S, inputs
<1>K. ASSUME UNCHANGED inputs, NEW j \in Nat, Table(j), NEW x \in Int, Base + end <= x,
             \A a \in 0 .. Top : a < x => mem'[a] = mem[a]
      PROVE  Table(j)'
  <2>1. \A a \in Base + got .. Base + end - 1 : a \in 0 .. Top /\ a < x
    BY <1>B, <1>P, <1>K
  <2>2. \A a \in Base + S.got_start .. Base + S.got_end - 1 : mem'[a] = mem[a]
    BY <1>P, <1>K, <2>1
  <2>3. QED
    BY <1>0, <1>K, <2>2, TableKept
<1>1. CASE makebin
  <2>1. UNCHANGED inputs
    BY <1>1 DEF makebin
  <2>2. CASE HdrLen(loaderfile) < HdrSize
    BY <1>1, <1>A, <2>1, <2>2 DEF makebin, TableInv, Mini
  <2>3. CASE ~(HdrLen(loaderfile) < HdrSize)
    <3>1. pc' = "LoadMINI" /\ image' = newdata(loaderfile, elffile)
      BY <1>1, <2>3 DEF makebin
    <3>2. GoodLoader(loaderfile, S.loader_size) /\ HasGot(loaderfile)
      BY <1>0, <2>3 DEF FilesInv, TableInv
    <3>3. HasGot(newdata(loaderfile, elffile))
      BY <1>0, <3>2, NewHasGot
    <3>4. HasGot(image)'
      BY <1>A, <2>1, <3>1, <3>3 DEF HasGot
    <3>5. QED
      BY <1>A, <2>1, <3>1, <3>4 DEF TableInv, Mini
  <2>4. QED
    BY <2>2, <2>3
<1>2. CASE LoadMINI
  <2>1. UNCHANGED <<inputs, image>> /\ pc = "LoadMINI" /\ pc' \in {"flush", "waiting"}
    BY <1>2 DEF LoadMINI
  <2>2. HasGot(image)'
    BY <1>A, <2>1 DEF TableInv, HasGot
  <2>3. QED
    BY <1>A, <2>1, <2>2 DEF TableInv, Mini
<1>3. CASE DCFlushRange
  <2>1. UNCHANGED <<inputs, image>> /\ pc = "flush" /\ pc' = "ioctl"
    BY <1>3 DEF DCFlushRange
  <2>2. end <= Len(image) /\ \A k \in 0 .. GotWords - 1 : image[got + k * WordSize + 1] = Byte(GotEntry(k))
    BY <1>P, <2>1 DEF TableInv, HasGot
  <2>3. \A a \in 0 .. Top : a \in Base .. Base + Len(image) - 1 => mem'[a] = image[a - Base + 1]
    BY <1>3 DEF DCFlushRange
  <2>4. Len(image) \in Nat
    BY <2>1 DEF LoadInv, ImageInv, GoodLoader
  <2>5. ASSUME NEW k \in 0 .. GotWords - 1 PROVE mem'[Base + got + k * WordSize] = Byte(GotEntry(k))
    <3> DEFINE i == k * WordSize
               n == GotWords * WordSize
    <3>1. i \in Nat /\ n \in Nat /\ i + WordSize <= n
      BY <1>B, GotOffset
    <3>2. end = got + n /\ image[got + i + 1] = Byte(GotEntry(k))
      BY <1>P, <2>2
    <3> HIDE DEF i, n
    <3>3. /\ Base + got + i \in 0 .. Top /\ Base + got + i \in Base .. Base + Len(image) - 1
          /\ (Base + got + i) - Base + 1 = got + i + 1
      BY <1>B, <1>Q, <2>2, <2>4, <3>1, <3>2
    <3>4. mem'[Base + got + i] = image[got + i + 1]
      BY <2>3, <3>3
    <3>5. QED
      BY <3>2, <3>4 DEF i
  <2>6. Table(0)'
    <3>1. \A k \in 0 .. GotWords - 1 : ~(k < 0)
      BY <1>B
    <3>2. QED
      BY <1>A, <1>P, <2>1, <2>5, <3>1 DEF Table
  <2>7. QED
    BY <1>A, <2>1, <2>6 DEF TableInv, Mini
<1>4. CASE IoctlvAsync
  <2>1. UNCHANGED <<inputs, mem>> /\ pc = "ioctl" /\ pc' = "_start"
    BY <1>4 DEF IoctlvAsync
  <2>2. Table(0)'
    BY <1>A, <2>1 DEF TableInv, Table
  <2>3. QED
    BY <1>A, <2>1, <2>2 DEF TableInv, Mini
<1>5. CASE _start
  <2>1. /\ UNCHANGED <<inputs, mem>> /\ pc = "_start" /\ pc' = "got_loop"
        /\ r4' = r1 - HdrSize /\ r1' = S.got_start + r4' /\ r2' = S.got_end + r4'
    BY <1>5 DEF _start
  <2>2. Table(0)'
    BY <1>A, <2>1 DEF TableInv, Table
  <2>3. r4' = Base
    <3>1. r1 = Base + HdrSize /\ HdrSize \in Nat
      BY <2>1, BootAssumption DEF LoadInv, RegInv, HdrSize
    <3>2. QED
      BY <1>B, <2>1, <3>1
  <2>4. r1' = Base + got /\ r2' = Base + end
    <3>1. r1' = got + Base /\ r2' = end + Base
      BY <1>R, <2>1, <2>3
    <3>2. QED
      BY <1>B, <3>1
  <2>5. Base + got = Base + got + 0 * WordSize
    BY <1>B
  <2>6. r2' = Base + S'.got_end /\ r1' = Base + S'.got_start + 0 * WordSize /\ 0 \in 0 .. GotWords
    <3>1. S' = S
      BY <1>A, <2>1
    <3>2. QED
      BY <1>B, <1>R, <2>4, <2>5, <3>1
  <2>7. QED
    BY <1>A, <2>1, <2>2, <2>6 DEF TableInv, Mini
<1>6. CASE got_loop
  <2>1. UNCHANGED inputs /\ pc = "got_loop" /\ r4 = Base
    BY <1>6 DEF got_loop, LoadInv, RegInv
  <2>2. PICK j \in 0 .. GotWords : r1 = Base + S.got_start + j * WordSize /\ Table(j)
    BY <2>1 DEF TableInv
  <2>3. r2 = Base + end
    BY <1>P, <2>1 DEF TableInv
  <2>4. CASE r1 = r2
    <3>1. j = GotWords
      <4> DEFINE i == j * WordSize
                 n == GotWords * WordSize
      <4>1. i \in Nat /\ n \in Nat
        BY <1>B
      <4>2. r1 = Base + got + i /\ end = got + n
        BY <1>P, <2>2
      <4>3. j < GotWords => i + WordSize <= n
        BY <1>B, GotOffset
      <4> HIDE DEF i, n
      <4>4. i = n
        BY <1>B, <2>3, <2>4, <4>1, <4>2
      <4>5. QED
        BY <1>B, <4>1, <4>3, <4>4
    <3>2. /\ pc' = "bss_loop" /\ r1' = S.bss_start + r4 /\ UNCHANGED mem
      BY <1>6, <2>4 DEF got_loop
    <3>3. Table(GotWords)'
      BY <1>A, <2>1, <2>2, <3>1, <3>2 DEF Table
    <3>4. Base + S'.bss_start <= r1'
      BY <1>A, <1>B, <1>P, <2>1, <3>2
    <3>5. QED
      BY <1>A, <2>1, <3>2, <3>3, <3>4 DEF TableInv, Mini
  <2>5. CASE r1 # r2
    <3>1. pc' = "got_loop" /\ Relocate /\ r1' = r1 + WordSize /\ r2' = r2
      BY <1>6, <2>1, <2>5 DEF got_loop
    <3>2. j \in 0 .. GotWords - 1
      <4>1. j # GotWords
        BY <1>P, <2>2, <2>3, <2>5, <1>B
      <4>2. QED
        BY <1>B, <4>1
    <3>3. Table(j + 1)'
      BY <1>0, <2>1, <2>2, <3>1, <3>2, RelocateStep
    <3>4. r1' = Base + S'.got_start + (j + 1) * WordSize
      <4>1. (j + 1) * WordSize = j * WordSize + WordSize /\ j * WordSize \in Nat
        BY <1>B
      <4>2. PICK i \in Nat : i = j * WordSize
        BY <4>1
      <4>3. r1' = Base + got + (i + WordSize)
        BY <1>B, <1>P, <2>2, <3>1, <4>2
      <4>4. QED
        BY <1>A, <1>P, <2>1, <4>1, <4>2, <4>3
    <3>5. j + 1 \in 0 .. GotWords /\ r2' = Base + S'.got_end
      <4>1. S' = S
        BY <1>A, <2>1
      <4>2. r2' = Base + S'.got_end
        BY <1>R, <2>3, <3>1, <4>1
      <4>3. QED
        BY <1>B, <3>2, <4>2
    <3>6. QED
      BY <1>A, <2>1, <3>1, <3>3, <3>4, <3>5 DEF TableInv, Mini
  <2>6. QED
    BY <2>4, <2>5
<1>7. CASE bss_loop
  <2>1. UNCHANGED inputs /\ pc = "bss_loop" /\ r1 \in Nat /\ Base + bss <= r1 /\ Table(GotWords)
    BY <1>7, <1>P DEF bss_loop, Fill, Filled, LoadInv, RegInv, TableInv
  <2>2. CASE Fill("bss_loop", Zero)
    <3>1. pc' = "bss_loop" /\ r1' = r1 + WordSize
      BY <2>1, <2>2 DEF Fill
    <3>2. \A a \in 0 .. Top : a < r1 => mem'[a] = mem[a]
      BY <2>1, <2>2 DEF Fill, StoreWord
    <3>3. Table(GotWords)'
      BY <1>B, <1>K, <1>P, <2>1, <3>2
    <3>4. Base + S'.bss_start <= r1'
      BY <1>A, <1>B, <1>P, <2>1, <3>1
    <3>5. QED
      BY <1>A, <2>1, <3>1, <3>3, <3>4 DEF TableInv, Mini
  <2>3. CASE Filled("bss_loop", "loader_main", 0, 0)
    <3>1. pc' = "loader_main" /\ UNCHANGED mem
      BY <2>3 DEF Filled
    <3>2. Table(GotWords)'
      BY <1>A, <2>1, <3>1 DEF Table
    <3>3. QED
      BY <1>A, <2>1, <3>1, <3>2 DEF TableInv, Mini
  <2>4. QED
    BY <1>7, <2>2, <2>3 DEF bss_loop
<1>8. CASE loader_main
  <2>1. UNCHANGED inputs /\ pc = "loader_main" /\ pc' = "loadelf" /\ r4 = Base /\ Table(GotWords)
    BY <1>8 DEF loader_main, LoadInv, RegInv, TableInv
  <2>2. \A a \in 0 .. Top : a \notin WholeStack => mem'[a] = mem[a]
    BY <1>8 DEF loader_main
  <2>3. \A a \in 0 .. Top : a < bssEnd + Base => mem'[a] = mem[a]
    BY <1>B, <1>P, <2>1, <2>2 DEF WholeStack
  <2>4. Table(GotWords)'
    BY <1>B, <1>K, <1>P, <2>1, <2>3
  <2>5. QED
    BY <1>A, <2>1, <2>4 DEF TableInv, Mini
<1>9. CASE loadelf \/ Entry
  <2>1. UNCHANGED <<inputs, mem>> /\ pc \in {"loadelf", "phdrs"} /\ pc' \in {"panic", "phdrs", "stk_loop", "lost"}
    BY <1>9 DEF loadelf, Entry
  <2>2. Table(GotWords)'
    BY <1>A, <2>1 DEF Table, TableInv
  <2>3. QED
    BY <1>A, <2>1, <2>2 DEF TableInv, Mini
<1>10. CASE LoadSegment
  <2>1. UNCHANGED inputs /\ pc = "phdrs" /\ pc' = "phdrs" /\ Table(GotWords)
    BY <1>10 DEF LoadSegment, TableInv
  <2>2. \A a \in 0 .. Top : a < MEM2 => mem'[a] = mem[a]
    BY <1>10, SegmentAbove DEF LoadInv
  <2>3. Table(GotWords)'
    BY <1>B, <1>K, <1>P, <2>1, <2>2
  <2>4. QED
    BY <1>A, <2>1, <2>3 DEF TableInv, Mini
<1>11. CASE stk_loop \/ bss1_loop \/ bss2_loop
  <2>1. /\ UNCHANGED inputs /\ pc \in Mini \ {"_main"} /\ pc' \in Mini
        /\ (\E w : StoreWord(w)) \/ UNCHANGED mem
    BY <1>11 DEF stk_loop, bss1_loop, bss2_loop, Fill, Filled, Mini
  <2>2. r1 \in Nat /\ MEM2 <= r1
    BY <1>0, <2>1, MiniBounds
  <2>3. \A a \in 0 .. Top : a < MEM2 => mem'[a] = mem[a]
    BY <1>B, <2>1, <2>2 DEF StoreWord
  <2>4. Table(GotWords)
    BY <2>1 DEF TableInv, Mini
  <2>5. Table(GotWords)'
    BY <1>B, <1>K, <1>P, <2>1, <2>3, <2>4
  <2>6. QED
    BY <1>A, <2>1, <2>5 DEF TableInv, Mini
<1>12. CASE UNCHANGED vars
  <2>1. UNCHANGED inputs /\ UNCHANGED <<image, mem, pc, r1, r2>>
    BY <1>12 DEF vars, inputs
  <2>2. S' = S /\ (HdrLen(loaderfile) < HdrSize \/ HasGot(loaderfile))'
    BY <1>A, <2>1
  <2>3. QED
    BY <2>1, <2>2 DEF TableInv, HasGot, Table
<1>13. QED
  BY <1>1, <1>2, <1>3, <1>4, <1>5, <1>6, <1>7, <1>8, <1>9, <1>10, <1>11, <1>12 DEF Next
-----------------------------------------------------------------------------
(* The ELF's header in memory, where loadelf finds it.                     *)
LEMMA HeaderSeen ==
    ASSUME LoadInv, pc \in {"loadelf", "phdrs"}
    PROVE  /\ mem[r1] = elffile[1]
           /\ \E ident \in BOOLEAN, phoff \in {0, 1} : elffile[1] = <<"ehdr", ident, phoff, 4, SRAM>>
<1>1. FilesInv /\ At(ElfAddr, elffile) /\ r1 = ElfAddr
  BY DEF LoadInv, ElfInv, RegInv, Running
<1>2. ElfAddr \in Nat /\ Len(elffile) \in Nat /\ 5 <= Len(elffile)
  BY <1>1, ElfRoom, ElfHeads
<1>3. 1 \in 1 .. Len(elffile) /\ ElfAddr + 1 - 1 = ElfAddr
  BY <1>2
<1>4. mem[r1] = elffile[1]
  BY <1>1, <1>3 DEF At
<1>5. QED
  BY <1>1, <1>4, ElfHeads

(* Every step goes the way the inputs ask for.                             *)
LEMMA WayStep == LoadInv /\ WayInv /\ [Next]_vars => WayInv'
<1> SUFFICES ASSUME LoadInv, WayInv, [Next]_vars PROVE WayInv'
  OBVIOUS
<1>0. loaderfile' = loaderfile /\ found' = found /\ elffile' = elffile
  BY DEF Next, vars, inputs, makebin, LoadMINI, DCFlushRange, IoctlvAsync, _start, got_loop, bss_loop,
         loader_main, loadelf, LoadSegment, Entry, stk_loop, bss1_loop, bss2_loop, Fill, Filled
<1>1. Good' = Good /\ (HdrLen(loaderfile) < HdrSize <=> HdrLen(loaderfile') < HdrSize)
  BY <1>0 DEF Good
<1>2. CASE makebin
  BY <1>0, <1>1, <1>2 DEF makebin, WayInv, Running, Mini
<1>3. CASE LoadMINI
  BY <1>0, <1>1, <1>3 DEF LoadMINI, WayInv, Running, Mini
<1>4. CASE DCFlushRange \/ IoctlvAsync \/ _start \/ got_loop \/ bss_loop \/ loader_main
  <2>1. /\ pc \in {"flush", "ioctl", "_start", "got_loop", "bss_loop", "loader_main"}
        /\ pc' \in {"ioctl", "_start", "got_loop", "bss_loop", "loader_main", "loadelf"}
    BY <1>4 DEF DCFlushRange, IoctlvAsync, _start, got_loop, bss_loop, loader_main, Fill, Filled
  <2>2. QED
    BY <1>0, <1>1, <2>1 DEF WayInv, Running, Mini
<1>5. CASE loadelf
  <2>1. pc = "loadelf"
    BY <1>5 DEF loadelf
  <2>2. PICK ident \in BOOLEAN, phoff \in {0, 1} : elffile[1] = <<"ehdr", ident, phoff, 4, SRAM>>
    BY <2>1, HeaderSeen
  <2>3. mem[r1] = <<"ehdr", ident, phoff, 4, SRAM>>
    BY <2>1, <2>2, HeaderSeen
  <2>4. Good <=> ident /\ phoff # 0
    BY <2>2 DEF Good
  <2>5. pc' = IF ~ident \/ phoff = 0 THEN "panic" ELSE "phdrs"
    BY <1>5, <2>3 DEF loadelf
  <2>6. QED
    BY <1>0, <1>1, <2>1, <2>4, <2>5 DEF WayInv, Running, Mini
<1>6. CASE LoadSegment
  BY <1>0, <1>1, <1>6 DEF LoadSegment, WayInv, Running, Mini
<1>7. CASE Entry
  <2>1. pc = "phdrs"
    BY <1>7 DEF Entry
  <2>2. mem[r1][5] = SRAM
    BY <2>1, HeaderSeen
  <2>3. pc' = "stk_loop"
    BY <1>7, <2>2 DEF Entry
  <2>4. QED
    BY <1>0, <1>1, <2>1, <2>3 DEF WayInv, Running, Mini
<1>8. CASE stk_loop \/ bss1_loop \/ bss2_loop
  <2>1. pc \in Mini /\ pc' \in Mini
    BY <1>8 DEF stk_loop, bss1_loop, bss2_loop, Fill, Filled, Mini
  <2>2. QED
    BY <1>0, <1>1, <2>1 DEF WayInv, Running, Mini
<1>9. CASE UNCHANGED vars
  BY <1>0, <1>1, <1>9 DEF vars, WayInv
<1>10. QED
  BY <1>2, <1>3, <1>4, <1>5, <1>6, <1>7, <1>8, <1>9 DEF Next

(* Program header i describes a section and where it is in the file.       *)
Segment(i, off, paddr, s) ==
    /\ elffile[i][2] = "load" /\ elffile[i][3] = off /\ elffile[i][4] = paddr /\ elffile[i][5] = Len(s)
    /\ off \in Nat /\ Len(s) \in Nat /\ off + Len(s) <= Len(elffile)
    /\ \A x \in 1 .. Len(s) : elffile[off + x] = s[x]

(* The program headers of the ELF describe the three sections; the first   *)
(* header is skipped.                                                      *)
LEMMA ElfSegments ==
    ASSUME FilesInv
    PROVE  LET t == Section("text", minisz.code)
               d == Section("data", minisz.data)
               d2 == Section("data2", minisz.data2)
           IN /\ elffile[2][2] = "null"
              /\ Segment(3, 5, SRAM, t) /\ Segment(4, 5 + Len(t), SRAM2, d)
              /\ Segment(5, 5 + Len(t) + Len(d), MEM2, d2)
<1>1. PICK ident \in BOOLEAN, phoff \in {0, 1} : elffile = Elf(minisz, ident, phoff)
  BY DEF FilesInv
<1>2. minisz \in MiniSizes
  BY DEF FilesInv
<1> DEFINE t == Section("text", minisz.code)
           d == Section("data", minisz.data)
           d2 == Section("data2", minisz.data2)
           h == Heads(minisz, ident, phoff)
           xd == mini(minisz).excstack_addr - SRAM2
           xd2 == mini(minisz).bss2_end - MEM2
<1>3. /\ h \in Seq(Cell) /\ Len(h) = 5 /\ t \in Seq(Cell) /\ d \in Seq(Cell) /\ d2 \in Seq(Cell)
      /\ Len(t) = ALIGN(minisz.code, WordSize) /\ Len(d) = ALIGN(minisz.data, WordSize)
      /\ Len(d2) = ALIGN(minisz.data2, WordSize) /\ Parts4(elffile, h, t, d, d2)
  BY <1>1, <1>2, ElfParts
<1>4. h = <<Ehdr(ident, phoff, 4, SRAM), Phdr("null", 0, 0, 1, 1), Phdr("load", 5, SRAM, Len(t), Len(t)),
            Phdr("load", 5 + Len(t), SRAM2, Len(d), xd), Phdr("load", 5 + Len(t) + Len(d), MEM2, Len(d2), xd2)>>
  BY <1>3 DEF Heads
<1>5. t \in Seq(Cell) /\ d \in Seq(Cell) /\ d2 \in Seq(Cell)
  BY <1>3
<1>6. /\ Len(elffile) = 5 + Len(t) + Len(d) + Len(d2)
      /\ \A i \in 1 .. 5 : elffile[i] = h[i]
      /\ \A i \in 1 .. Len(t) : elffile[5 + i] = t[i]
      /\ \A i \in 1 .. Len(d) : elffile[5 + Len(t) + i] = d[i]
      /\ \A i \in 1 .. Len(d2) : elffile[5 + Len(t) + Len(d) + i] = d2[i]
  BY <1>3 DEF Parts4
<1> HIDE DEF t, d, d2, h, xd, xd2
<1>7. Len(t) \in Nat /\ Len(d) \in Nat /\ Len(d2) \in Nat
  BY <1>5
<1>8. /\ h[2] = Phdr("null", 0, 0, 1, 1) /\ h[3] = Phdr("load", 5, SRAM, Len(t), Len(t))
      /\ h[4] = Phdr("load", 5 + Len(t), SRAM2, Len(d), xd)
      /\ h[5] = Phdr("load", 5 + Len(t) + Len(d), MEM2, Len(d2), xd2)
  BY <1>4
<1>9. elffile[2][2] = "null"
  BY <1>6, <1>8 DEF Phdr
<1>10. Segment(3, 5, SRAM, t)
  <2>1. elffile[3] = Phdr("load", 5, SRAM, Len(t), Len(t))
    BY <1>6, <1>8
  <2>2. QED
    BY <1>6, <1>7, <2>1 DEF Phdr, Segment
<1>11. Segment(4, 5 + Len(t), SRAM2, d)
  <2>1. elffile[4] = Phdr("load", 5 + Len(t), SRAM2, Len(d), xd)
    BY <1>6, <1>8
  <2>2. QED
    BY <1>6, <1>7, <2>1 DEF Phdr, Segment
<1>12. Segment(5, 5 + Len(t) + Len(d), MEM2, d2)
  <2>1. elffile[5] = Phdr("load", 5 + Len(t) + Len(d), MEM2, Len(d2), xd2)
    BY <1>6, <1>8
  <2>2. QED
    BY <1>6, <1>7, <2>1 DEF Phdr, Segment
<1>13. QED
  BY <1>9, <1>10, <1>11, <1>12 DEF t, d, d2

(* What a step leaves of memory, and what it has at an address.            *)
Same(x, y) == \A a \in x .. y : mem'[a] = mem[a]
SameOutside(x, y) == \A a \in 0 .. Top : a < x \/ y <= a => mem'[a] = mem[a]
NextAt(from, s) == \A x \in 1 .. Len(s) : mem'[from + x - 1] = s[x]
Copy == IF mem[phdr][2] = "load" THEN memcpy(mem[phdr]) ELSE UNCHANGED mem

(* loadelf copies such a section to its place, and nothing else.           *)
LEMMA SegmentCopied ==
    ASSUME FilesInv, At(ElfAddr, elffile), r1 = ElfAddr,
           NEW i, NEW off, NEW paddr \in Nat, NEW s, Segment(i, off, paddr, s), paddr + Len(s) <= Top,
           mem[phdr] = elffile[i], Copy
    PROVE  NextAt(paddr, s) /\ SameOutside(paddr, paddr + Len(s))
<1>1. /\ elffile[i][2] = "load" /\ elffile[i][3] = off /\ elffile[i][4] = paddr /\ elffile[i][5] = Len(s)
      /\ off \in Nat /\ Len(s) \in Nat /\ off + Len(s) <= Len(elffile)
      /\ \A x \in 1 .. Len(s) : elffile[off + x] = s[x]
  BY DEF Segment
<1> DEFINE n == Len(s)
<1>2. /\ \A a \in 0 .. Top : a \in paddr .. paddr + n - 1 => mem'[a] = mem[ElfAddr + off + a - paddr]
      /\ \A a \in 0 .. Top : a \notin paddr .. paddr + n - 1 => mem'[a] = mem[a]
  BY <1>1 DEF memcpy, Copy
<1>3. ElfAddr \in Nat /\ Len(elffile) \in Nat /\ Top \in Nat
  BY ElfRoom, BootAssumption
<1>4. n \in Nat /\ off + n <= Len(elffile) /\ paddr + n <= Top
  BY <1>1
<1>5. \A x \in 1 .. n : elffile[off + x] = s[x]
  BY <1>1
<1> HIDE DEF n
<1>6. ASSUME NEW x \in 1 .. n PROVE mem'[paddr + x - 1] = s[x]
  <2>a. PICK ea \in Nat, o \in Nat, l \in Nat, y \in Nat, k \in Nat :
           ea = ElfAddr /\ o = off /\ l = Len(elffile) /\ y = x /\ k = n
    BY <1>1, <1>3, <1>4
  <2>b. 1 <= y /\ y <= k /\ o + k <= l /\ paddr + k <= Top /\ Top \in Nat
    BY <1>3, <1>4, <2>a
  <2>c. /\ paddr + y - 1 \in 0 .. Top /\ paddr + y - 1 \in paddr .. paddr + k - 1
        /\ ea + o + (paddr + y - 1) - paddr = ea + (o + y) - 1
        /\ o + y \in 1 .. l
    BY <2>b
  <2>1. /\ paddr + x - 1 \in 0 .. Top /\ paddr + x - 1 \in paddr .. paddr + n - 1
        /\ ElfAddr + off + (paddr + x - 1) - paddr = ElfAddr + (off + x) - 1
        /\ off + x \in 1 .. Len(elffile)
    BY <2>a, <2>c
  <2>2. mem'[paddr + x - 1] = mem[ElfAddr + (off + x) - 1]
    BY <1>2, <2>1
  <2>3. mem[ElfAddr + (off + x) - 1] = elffile[off + x]
    BY <2>1 DEF At
  <2>4. QED
    BY <1>5, <2>2, <2>3
<1>7. ASSUME NEW a \in 0 .. Top, a < paddr \/ paddr + n <= a PROVE mem'[a] = mem[a]
  BY <1>2, <1>4, <1>7
<1>8. QED
  BY <1>6, <1>7 DEF n, NextAt, SameOutside

(* A section stays where nothing is written to its addresses.              *)
LEMMA SectionKept ==
    ASSUME NEW from \in Nat, NEW s, Len(s) \in Nat, At(from, s), Same(from, from + Len(s) - 1)
    PROVE  NextAt(from, s)
<1> SUFFICES ASSUME NEW x \in 1 .. Len(s) PROVE mem'[from + x - 1] = s[x]
  BY DEF NextAt
<1>1. from + x - 1 \in from .. from + Len(s) - 1
  OBVIOUS
<1>2. QED
  BY <1>1 DEF At, Same

(* A step of a loop of mini's start.S fills a word, inside its bounds.     *)
LEMMA FillStep ==
    ASSUME NEW from \in Nat, NEW to \in Nat, NEW cell, NEW here, to <= Top,
           Filling(from, to, cell), Fill(here, cell)
    PROVE  /\ r1' \in Nat /\ r2' = to /\ from <= r1' /\ r1' <= r2' /\ Whole(r2' - r1')
           /\ \A a \in from .. r1' - 1 : mem'[a] = cell
           /\ SameOutside(from, to)
<1>1. /\ r1 \in Nat /\ r2 = to /\ from <= r1 /\ r1 <= r2 /\ Whole(r2 - r1)
      /\ \A a \in from .. r1 - 1 : mem[a] = cell
  BY DEF Filling, All
<1>2. r1 # r2 /\ r1' = r1 + WordSize /\ r2' = r2
  BY DEF Fill
<1>3. /\ \A a \in 0 .. Top : a \in r1 .. r1 + WordSize - 1 => mem'[a] = [x \in 1 .. WordSize |-> cell][a - r1 + 1]
      /\ \A a \in 0 .. Top : a \notin r1 .. r1 + WordSize - 1 => mem'[a] = mem[a]
  BY DEF Fill, StoreWord
<1>4. r1 + WordSize <= r2 /\ Whole(r2 - (r1 + WordSize))
  BY <1>1, <1>2, WordInFront
<1>5. WordSize \in Nat \ {0} /\ Top \in Nat
  BY BootAssumption
<1>6. \A a \in 0 .. Top : a \in r1 .. r1 + WordSize - 1 => mem'[a] = cell
  <2>1. \A a \in r1 .. r1 + WordSize - 1 : a - r1 + 1 \in 1 .. WordSize
    BY <1>1, <1>5
  <2>2. QED
    BY <1>3, <2>1
<1>7. ASSUME NEW a \in from .. r1' - 1 PROVE mem'[a] = cell
  <2>1. a \in 0 .. Top
    BY <1>1, <1>2, <1>4, <1>5
  <2>2. CASE a < r1
    BY <1>1, <1>3, <1>5, <2>1, <2>2
  <2>3. CASE r1 <= a
    BY <1>1, <1>2, <1>5, <1>6, <2>1, <2>3
  <2>4. QED
    BY <1>1, <2>1, <2>2, <2>3
<1>8. ASSUME NEW a \in 0 .. Top, a < from \/ to <= a PROVE mem'[a] = mem[a]
  BY <1>1, <1>3, <1>4, <1>5, <1>8
<1>9. r1' \in Nat /\ r2' = to /\ from <= r1' /\ r1' <= r2'
  BY <1>1, <1>2, <1>4, <1>5
<1>10. Whole(r2' - r1')
  BY <1>2, <1>4
<1>11. QED
  BY <1>7, <1>8, <1>9, <1>10 DEF SameOutside

(* What a step of mini's start.S writes: one BSS or the stack.             *)
LEMMA MiniWrites ==
    ASSUME FilesInv, MiniInv, stk_loop \/ bss1_loop \/ bss2_loop
    PROVE  \E from, to \in Nat :
              /\ \/ pc = "stk_loop" /\ from = L.stack_end /\ to = L.stack_addr
                 \/ pc = "bss1_loop" /\ from = L.bss_start /\ to = L.bss_end
                 \/ pc = "bss2_loop" /\ from = L.bss2_start /\ to = L.bss2_end
              /\ SameOutside(from, to)
<1>1. PICK a \in Nat, b \in Nat, c \in Nat, e \in Nat, f \in Nat, g \in Nat :
         /\ a = L.bss_start /\ b = L.bss_end /\ c = L.stack_end /\ e = L.stack_addr
         /\ f = L.bss2_start /\ g = L.bss2_end
         /\ f <= g /\ g <= SRAM2 /\ SRAM2 <= a /\ a <= b /\ b <= c /\ c <= e /\ e <= SRAM
  BY MiniPlace DEF FilesInv
<1>2. SRAM \in Nat /\ SRAM2 \in Nat /\ Top \in Nat /\ SRAM < Top
  BY BootAssumption
<1>3. e <= Top /\ b <= Top /\ g <= Top
  BY <1>1, <1>2
<1>4. CASE stk_loop
  <2>1. pc = "stk_loop" /\ Filling(c, e, Marker)
    BY <1>1, <1>4 DEF stk_loop, Fill, Filled, MiniInv
  <2>2. Fill("stk_loop", Marker) \/ UNCHANGED mem
    BY <1>4 DEF stk_loop, Filled
  <2>3. SameOutside(c, e)
    BY <1>3, <2>1, <2>2, FillStep DEF SameOutside
  <2>4. QED
    BY <1>1, <2>1, <2>3
<1>5. CASE bss1_loop
  <2>1. pc = "bss1_loop" /\ Filling(a, b, Zero)
    BY <1>1, <1>5 DEF bss1_loop, Fill, Filled, MiniInv
  <2>2. Fill("bss1_loop", Zero) \/ UNCHANGED mem
    BY <1>5 DEF bss1_loop, Filled
  <2>3. SameOutside(a, b)
    BY <1>3, <2>1, <2>2, FillStep DEF SameOutside
  <2>4. QED
    BY <1>1, <2>1, <2>3
<1>6. CASE bss2_loop
  <2>1. pc = "bss2_loop" /\ Filling(f, g, Zero)
    BY <1>1, <1>6 DEF bss2_loop, Fill, Filled, MiniInv
  <2>2. Fill("bss2_loop", Zero) \/ UNCHANGED mem
    BY <1>6 DEF bss2_loop, Filled
  <2>3. SameOutside(f, g)
    BY <1>3, <2>1, <2>2, FillStep DEF SameOutside
  <2>4. QED
    BY <1>1, <2>1, <2>3
<1>7. QED
  BY <1>4, <1>5, <1>6

(* Every step keeps the segments that were copied, or copies the next.     *)
LEMMA SegStep == LoadInv /\ SegInv /\ MiniInv /\ [Next]_vars => SegInv'
<1> SUFFICES ASSUME LoadInv, SegInv, MiniInv, [Next]_vars PROVE SegInv'
  OBVIOUS
<1>0. FilesInv
  BY DEF LoadInv
<1> DEFINE t == Section("text", minisz.code)
           d == Section("data", minisz.data)
           d2 == Section("data2", minisz.data2)
<1>1. /\ Len(t) \in Nat /\ Len(d) \in Nat /\ Len(d2) \in Nat
      /\ elffile[2][2] = "null" /\ Segment(3, 5, SRAM, t) /\ Segment(4, 5 + Len(t), SRAM2, d)
      /\ Segment(5, 5 + Len(t) + Len(d), MEM2, d2)
  BY <1>0, ElfSegments DEF Segment
<1>2. /\ SRAM + Len(t) <= Top /\ SRAM2 + Len(d) <= L.bss_start /\ MEM2 + Len(d2) <= L.bss2_start
      /\ L.bss_start \in Nat /\ L.bss_end \in Nat /\ L.stack_end \in Nat /\ L.stack_addr \in Nat
      /\ L.bss2_start \in Nat /\ L.bss2_end \in Nat
      /\ L.bss2_start <= L.bss2_end /\ L.bss2_end <= SRAM2
      /\ L.bss_start <= L.bss_end /\ L.bss_end <= L.stack_end
      /\ L.stack_end <= L.stack_addr /\ L.stack_addr <= SRAM
  <2>1. minisz \in MiniSizes
    BY <1>0 DEF FilesInv
  <2>2. /\ L.bss_start = SRAM2 + Len(Section("data", minisz.data)) /\ L.bss_start \in Nat
        /\ L.bss2_start = MEM2 + Len(Section("data2", minisz.data2)) /\ L.bss2_start \in Nat
        /\ SRAM + Len(Section("text", minisz.code)) <= Top
    BY <2>1, MiniPlace
  <2>3. SRAM + Len(t) <= Top /\ SRAM2 + Len(d) <= L.bss_start /\ MEM2 + Len(d2) <= L.bss2_start
    BY <2>2
  <2>4. QED
    BY <2>1, <2>3, MiniPlace
<1>3. SRAM \in Nat /\ SRAM2 \in Nat /\ MEM2 \in Nat /\ Top \in Nat /\ SRAM < Top /\ MEM2 < SRAM2 /\ SRAM2 < SRAM
  BY BootAssumption
<1>T. UNCHANGED inputs => t' = t /\ d' = d /\ d2' = d2
  BY DEF inputs
<1>4. UNCHANGED inputs =>
         (Text' <=> NextAt(SRAM, t)) /\ (Data' <=> NextAt(SRAM2, d)) /\ (Data2' <=> NextAt(MEM2, d2))
  BY <1>T DEF Text, Data, Data2, At, NextAt
<1>5. Text = At(SRAM, t) /\ Data = At(SRAM2, d) /\ Data2 = At(MEM2, d2)
  BY DEF Text, Data, Data2
<1> HIDE DEF t, d, d2
<1>P. PICK a \in Nat, b \in Nat, c \in Nat, e \in Nat, f \in Nat, g \in Nat :
         /\ a = L.bss_start /\ b = L.bss_end /\ c = L.stack_end /\ e = L.stack_addr
         /\ f = L.bss2_start /\ g = L.bss2_end
  BY <1>2
<1>Q. PICK lt \in Nat, ld \in Nat, ld2 \in Nat : lt = Len(t) /\ ld = Len(d) /\ ld2 = Len(d2)
  BY <1>1
<1>R. /\ SRAM + lt <= Top /\ SRAM2 + ld <= a /\ MEM2 + ld2 <= f /\ f <= g /\ g <= SRAM2
      /\ a <= b /\ b <= c /\ c <= e /\ e <= SRAM
  BY <1>2, <1>P, <1>Q
<1>6. ASSUME UNCHANGED inputs, Text, NEW x \in Nat, NEW y \in Nat, y <= SRAM \/ SRAM + lt <= x,
             SameOutside(x, y)
      PROVE  Text'
  <2>1. \A z \in SRAM .. SRAM + lt - 1 : mem'[z] = mem[z]
    BY <1>3, <1>6, <1>R DEF SameOutside
  <2>2. Same(SRAM, SRAM + Len(t) - 1) /\ At(SRAM, t) /\ Len(t) \in Nat /\ SRAM \in Nat
    BY <1>3, <1>5, <1>6, <1>Q, <2>1 DEF Same
  <2>3. NextAt(SRAM, t)
    BY <2>2, SectionKept
  <2>4. QED
    BY <1>4, <1>6, <2>3
<1>7. ASSUME UNCHANGED inputs, Data, NEW x \in Nat, NEW y \in Nat, y <= SRAM2 \/ SRAM2 + ld <= x,
             SameOutside(x, y)
      PROVE  Data'
  <2>1. \A z \in SRAM2 .. SRAM2 + ld - 1 : mem'[z] = mem[z]
    BY <1>3, <1>7, <1>R DEF SameOutside
  <2>2. Same(SRAM2, SRAM2 + Len(d) - 1) /\ At(SRAM2, d) /\ Len(d) \in Nat /\ SRAM2 \in Nat
    BY <1>3, <1>5, <1>7, <1>Q, <2>1 DEF Same
  <2>3. NextAt(SRAM2, d)
    BY <2>2, SectionKept
  <2>4. QED
    BY <1>4, <1>7, <2>3
<1>8. ASSUME UNCHANGED inputs, Data2, NEW x \in Nat, NEW y \in Nat, y <= MEM2 \/ MEM2 + ld2 <= x,
             SameOutside(x, y)
      PROVE  Data2'
  <2>1. \A z \in MEM2 .. MEM2 + ld2 - 1 : mem'[z] = mem[z]
    BY <1>3, <1>8, <1>R DEF SameOutside
  <2>2. Same(MEM2, MEM2 + Len(d2) - 1) /\ At(MEM2, d2) /\ Len(d2) \in Nat /\ MEM2 \in Nat
    BY <1>3, <1>5, <1>8, <1>Q, <2>1 DEF Same
  <2>3. NextAt(MEM2, d2)
    BY <2>2, SectionKept
  <2>4. QED
    BY <1>4, <1>8, <2>3
<1>9. CASE makebin \/ LoadMINI \/ DCFlushRange \/ IoctlvAsync \/ _start \/ got_loop \/ bss_loop \/ loader_main
  <2>1. pc' \notin {"phdrs"} \cup Mini
    BY <1>9 DEF makebin, LoadMINI, DCFlushRange, IoctlvAsync, _start, got_loop, bss_loop, loader_main,
                Fill, Filled, Mini
  <2>2. QED
    BY <2>1 DEF SegInv
<1>10. CASE loadelf
  <2>1. pc = "loadelf"
    BY <1>10 DEF loadelf
  <2>2. mem[r1][4] = 4
    BY <2>1, HeaderSeen
  <2>3. pc' = "panic" \/ (pc' = "phdrs" /\ count' = 4)
    BY <1>10, <2>2 DEF loadelf
  <2>4. QED
    BY <2>3 DEF SegInv, Mini
<1>11. CASE LoadSegment
  <2>1. /\ pc = "phdrs" /\ pc' = "phdrs" /\ count > 0 /\ count' = count - 1 /\ UNCHANGED inputs
        /\ Copy
    BY <1>11 DEF LoadSegment, Copy
  <2>2. At(ElfAddr, elffile) /\ r1 = ElfAddr /\ count \in 0 .. 4 /\ phdr = ElfAddr + 5 - count
    BY <2>1 DEF LoadInv, ElfInv, RegInv, Running
  <2>3. (count <= 2 => Text) /\ (count <= 1 => Data)
    BY <2>1 DEF SegInv
  <2>4. ElfAddr \in Nat /\ Len(elffile) \in Nat /\ 5 <= Len(elffile)
    BY <1>0, ElfRoom, ElfHeads
  <2>5. ASSUME NEW i \in 2 .. 5, count = 6 - i PROVE mem[phdr] = elffile[i]
    <3>1. i \in 1 .. Len(elffile) /\ ElfAddr + i - 1 = phdr
      BY <2>2, <2>4, <2>5
    <3>2. QED
      BY <2>2, <3>1 DEF At
  <2>6. CASE count = 4
    BY <2>1, <2>6 DEF SegInv, Mini
  <2>7. CASE count = 3
    <3>1. mem[phdr] = elffile[3] /\ SRAM + Len(t) <= Top
      BY <1>Q, <1>R, <2>5, <2>7
    <3>2. NextAt(SRAM, t)
      BY <1>0, <1>1, <1>3, <2>1, <2>2, <3>1, SegmentCopied
    <3>3. Text' /\ count' = 2
      BY <1>4, <2>1, <2>7, <3>2
    <3>4. QED
      BY <2>1, <3>3 DEF SegInv, Mini
  <2>8. CASE count = 2
    <3>1. mem[phdr] = elffile[4]
      BY <2>5, <2>8
    <3>2. SRAM2 + ld <= SRAM /\ SRAM2 + ld <= Top
      BY <1>3, <1>R
    <3>3. NextAt(SRAM2, d) /\ SameOutside(SRAM2, SRAM2 + ld)
      <4>1. SRAM2 + Len(d) <= Top
        BY <1>Q, <3>2
      <4>2. NextAt(SRAM2, d) /\ SameOutside(SRAM2, SRAM2 + Len(d))
        BY <1>0, <1>1, <1>3, <2>1, <2>2, <3>1, <4>1, SegmentCopied
      <4>3. QED
        BY <1>Q, <4>2
    <3>4. SRAM2 + ld \in Nat /\ Text
      BY <1>3, <2>3, <2>8
    <3>5. Text'
      BY <1>3, <1>6, <1>Q, <2>1, <3>2, <3>3, <3>4
    <3>6. Data' /\ count' = 1
      BY <1>4, <2>1, <2>8, <3>3
    <3>7. QED
      BY <2>1, <3>5, <3>6 DEF SegInv, Mini
  <2>9. CASE count = 1
    <3>1. mem[phdr] = elffile[5]
      BY <2>5, <2>9
    <3>2. MEM2 + ld2 <= SRAM /\ MEM2 + ld2 <= SRAM2 /\ MEM2 + ld2 <= Top
      BY <1>3, <1>R
    <3>3. NextAt(MEM2, d2) /\ SameOutside(MEM2, MEM2 + ld2)
      <4>1. MEM2 + Len(d2) <= Top
        BY <1>Q, <3>2
      <4>2. NextAt(MEM2, d2) /\ SameOutside(MEM2, MEM2 + Len(d2))
        BY <1>0, <1>1, <1>3, <2>1, <2>2, <3>1, <4>1, SegmentCopied
      <4>3. QED
        BY <1>Q, <4>2
    <3>4. MEM2 + ld2 \in Nat /\ Text /\ Data
      BY <1>3, <2>3, <2>9
    <3>5. Text' /\ Data'
      BY <1>3, <1>6, <1>7, <1>Q, <2>1, <3>2, <3>3, <3>4
    <3>6. Data2'
      BY <1>4, <2>1, <3>3
    <3>7. QED
      BY <2>1, <3>5, <3>6 DEF SegInv, Mini
  <2>10. QED
    BY <2>1, <2>2, <2>6, <2>7, <2>8, <2>9
<1>12. CASE Entry
  <2>1. pc = "phdrs" /\ count = 0 /\ UNCHANGED <<inputs, mem>> /\ pc' \in {"stk_loop", "lost"}
    BY <1>12 DEF Entry
  <2>2. Text /\ Data /\ Data2
    BY <2>1 DEF SegInv
  <2>3. Text' /\ Data' /\ Data2'
    BY <1>4, <1>5, <2>1, <2>2 DEF At, NextAt
  <2>4. QED
    BY <2>1, <2>3 DEF SegInv, Mini
<1>13. CASE stk_loop \/ bss1_loop \/ bss2_loop
  <2>1. UNCHANGED inputs /\ pc \in Mini /\ pc' \in Mini
    BY <1>13 DEF stk_loop, bss1_loop, bss2_loop, Fill, Filled, Mini
  <2>2. Text /\ Data /\ Data2
    BY <2>1 DEF SegInv
  <2>3. PICK x, y \in Nat :
           /\ (x = c /\ y = e) \/ (x = a /\ y = b) \/ (x = f /\ y = g)
           /\ SameOutside(x, y)
    BY <1>0, <1>13, <1>P, MiniWrites
  <2>4. /\ y <= SRAM /\ (y <= SRAM2 \/ SRAM2 + ld <= x) /\ MEM2 + ld2 <= x
    BY <1>3, <1>R, <2>3
  <2>5. Text' /\ Data' /\ Data2'
    BY <1>6, <1>7, <1>8, <2>1, <2>2, <2>3, <2>4
  <2>6. QED
    BY <2>1, <2>5 DEF SegInv, Mini
<1>14. CASE UNCHANGED vars
  <2>1. UNCHANGED inputs /\ UNCHANGED <<mem, pc, count>>
    BY <1>14 DEF vars, inputs
  <2>2. (Text => Text') /\ (Data => Data') /\ (Data2 => Data2')
    BY <1>4, <1>5, <2>1 DEF At, NextAt
  <2>3. QED
    BY <2>1, <2>2 DEF SegInv
<1>15. QED
  BY <1>9, <1>10, <1>11, <1>12, <1>13, <1>14 DEF Next

NextAll(from, to, cell) == \A a \in from .. to - 1 : mem'[a] = cell

(* What is filled stays so where nothing is written to it.                 *)
LEMMA AllKept ==
    ASSUME NEW from \in Nat, NEW to \in Nat, NEW cell, NEW x \in Nat, NEW y \in Nat,
           to <= Top, to <= x \/ y <= from, All(from, to, cell), SameOutside(x, y)
    PROVE  NextAll(from, to, cell)
<1> SUFFICES ASSUME NEW a \in from .. to - 1 PROVE mem'[a] = cell
  BY DEF NextAll
<1>1. Top \in Nat
  BY BootAssumption
<1>2. a \in 0 .. Top /\ (a < x \/ y <= a)
  BY <1>1
<1>3. mem'[a] = mem[a]
  BY <1>2 DEF SameOutside
<1>4. QED
  BY <1>3 DEF All

(* Every step keeps what mini's start.S has filled; a loop that ends has   *)
(* filled all of its part.                                                 *)
LEMMA MiniStep == LoadInv /\ MiniInv /\ [Next]_vars => MiniInv'
<1> SUFFICES ASSUME LoadInv, MiniInv, [Next]_vars PROVE MiniInv'
  OBVIOUS
<1>0. FilesInv /\ minisz \in MiniSizes
  BY DEF LoadInv, FilesInv
<1>1. PICK a \in Nat, b \in Nat, c \in Nat, e \in Nat, f \in Nat, g \in Nat :
         /\ a = L.bss_start /\ b = L.bss_end /\ c = L.stack_end /\ e = L.stack_addr
         /\ f = L.bss2_start /\ g = L.bss2_end
         /\ f <= g /\ g <= SRAM2 /\ SRAM2 <= a /\ a <= b /\ b <= c /\ c <= e /\ e <= SRAM
         /\ Whole(e - c) /\ Whole(b - a) /\ Whole(g - f)
  BY <1>0, MiniPlace
<1>2. SRAM \in Nat /\ SRAM2 \in Nat /\ Top \in Nat /\ SRAM < Top
  BY BootAssumption
<1>3. e <= Top /\ b <= Top /\ g <= Top /\ g <= a /\ g <= c
  BY <1>1, <1>2
<1>4. /\ pc = "stk_loop" => Filling(c, e, Marker)
      /\ pc = "bss1_loop" => Filling(a, b, Zero)
      /\ pc = "bss2_loop" => Filling(f, g, Zero)
      /\ pc \in {"bss1_loop", "bss2_loop", "_main"} => All(c, e, Marker)
      /\ pc \in {"bss2_loop", "_main"} => All(a, b, Zero)
      /\ pc = "_main" => All(f, g, Zero)
  BY <1>1 DEF MiniInv
<1> DEFINE Loop(from, to, cell) ==
             /\ r1' \in Nat /\ r2' = to /\ from <= r1' /\ r1' <= r2' /\ Whole(r2' - r1')
             /\ NextAll(from, r1', cell)
<1>5. UNCHANGED inputs =>
         /\ a = L.bss_start' /\ b = L.bss_end' /\ c = L.stack_end' /\ e = L.stack_addr'
         /\ f = L.bss2_start' /\ g = L.bss2_end'
  BY <1>1 DEF inputs, L
<1>6. ASSUME UNCHANGED inputs,
             pc' = "stk_loop" => Loop(c, e, Marker),
             pc' = "bss1_loop" => Loop(a, b, Zero),
             pc' = "bss2_loop" => Loop(f, g, Zero),
             pc' \in {"bss1_loop", "bss2_loop", "_main"} => NextAll(c, e, Marker),
             pc' \in {"bss2_loop", "_main"} => NextAll(a, b, Zero),
             pc' = "_main" => NextAll(f, g, Zero)
      PROVE  MiniInv'
  BY <1>5, <1>6 DEF MiniInv, Filling, All, NextAll
<1>7. ASSUME NEW from \in Nat, NEW to \in Nat, NEW cell, Whole(to - from), from <= to, r1' = from, r2' = to
      PROVE  Loop(from, to, cell)
  BY <1>7 DEF NextAll
<1>8. ASSUME NEW from, NEW to, NEW cell, UNCHANGED mem, All(from, to, cell)
      PROVE  NextAll(from, to, cell)
  BY <1>8 DEF All, NextAll
<1>9. ASSUME NEW from \in Nat, NEW to \in Nat, NEW cell, Filling(from, to, cell), r1 = r2
      PROVE  All(from, to, cell)
  BY <1>9 DEF Filling
<1>10. ASSUME NEW from \in Nat, NEW to \in Nat, NEW cell, NEW here, to <= Top, Filling(from, to, cell), Fill(here, cell)
       PROVE  Loop(from, to, cell) /\ SameOutside(from, to)
  BY <1>10, FillStep DEF NextAll
<1> HIDE DEF Loop
<1>11. CASE makebin \/ LoadMINI \/ DCFlushRange \/ IoctlvAsync \/ _start \/ got_loop \/ bss_loop
            \/ loader_main \/ loadelf \/ LoadSegment
  <2>1. pc' \notin Mini
    BY <1>11 DEF makebin, LoadMINI, DCFlushRange, IoctlvAsync, _start, got_loop, bss_loop, loader_main,
                 loadelf, LoadSegment, Fill, Filled, Mini
  <2>2. QED
    BY <2>1 DEF MiniInv, Mini
<1>12. CASE Entry
  <2>1. /\ UNCHANGED inputs /\ pc' \in {"stk_loop", "lost"} /\ r1' = c /\ r2' = e
    BY <1>1, <1>12 DEF Entry
  <2>2. Loop(c, e, Marker)
    BY <1>1, <1>7, <2>1
  <2>3. QED
    BY <1>6, <2>1, <2>2
<1>13. CASE Fill("stk_loop", Marker)
  <2>1. pc = "stk_loop" /\ pc' = pc /\ UNCHANGED inputs
    BY <1>13 DEF Fill
  <2>2. Loop(c, e, Marker)
    BY <1>3, <1>4, <1>10, <1>13, <2>1
  <2>3. QED
    BY <1>6, <2>1, <2>2
<1>14. CASE Filled("stk_loop", "bss1_loop", L.bss_start, L.bss_end)
  <2>1. pc = "stk_loop" /\ pc' = "bss1_loop" /\ UNCHANGED inputs /\ UNCHANGED mem /\ r1 = r2 /\ r1' = a /\ r2' = b
    BY <1>1, <1>14 DEF Filled
  <2>2. All(c, e, Marker)
    BY <1>4, <1>9, <2>1
  <2>3. NextAll(c, e, Marker) /\ Loop(a, b, Zero)
    BY <1>1, <1>7, <1>8, <2>1, <2>2
  <2>4. QED
    BY <1>6, <2>1, <2>3
<1>15. CASE Fill("bss1_loop", Zero)
  <2>1. pc = "bss1_loop" /\ pc' = pc /\ UNCHANGED inputs
    BY <1>15 DEF Fill
  <2>2. Loop(a, b, Zero) /\ SameOutside(a, b)
    BY <1>3, <1>4, <1>10, <1>15, <2>1
  <2>3. All(c, e, Marker)
    BY <1>4, <2>1
  <2>4. NextAll(c, e, Marker)
    BY <1>1, <1>3, <2>2, <2>3, AllKept
  <2>5. QED
    BY <1>6, <2>1, <2>2, <2>4
<1>16. CASE Filled("bss1_loop", "bss2_loop", L.bss2_start, L.bss2_end)
  <2>1. pc = "bss1_loop" /\ pc' = "bss2_loop" /\ UNCHANGED inputs /\ UNCHANGED mem /\ r1 = r2 /\ r1' = f /\ r2' = g
    BY <1>1, <1>16 DEF Filled
  <2>2. All(c, e, Marker) /\ All(a, b, Zero)
    BY <1>4, <1>9, <2>1
  <2>3. NextAll(c, e, Marker) /\ NextAll(a, b, Zero) /\ Loop(f, g, Zero)
    BY <1>1, <1>7, <1>8, <2>1, <2>2
  <2>4. QED
    BY <1>6, <2>1, <2>3
<1>17. CASE Fill("bss2_loop", Zero)
  <2>1. pc = "bss2_loop" /\ pc' = pc /\ UNCHANGED inputs
    BY <1>17 DEF Fill
  <2>2. Loop(f, g, Zero) /\ SameOutside(f, g)
    BY <1>3, <1>4, <1>10, <1>17, <2>1
  <2>3. All(c, e, Marker) /\ All(a, b, Zero)
    BY <1>4, <2>1
  <2>4. NextAll(c, e, Marker) /\ NextAll(a, b, Zero)
    BY <1>1, <1>3, <2>2, <2>3, AllKept
  <2>5. QED
    BY <1>6, <2>1, <2>2, <2>4
<1>18. CASE Filled("bss2_loop", "_main", 0, 0)
  <2>1. pc = "bss2_loop" /\ pc' = "_main" /\ UNCHANGED inputs /\ UNCHANGED mem /\ r1 = r2
    BY <1>18 DEF Filled
  <2>2. All(c, e, Marker) /\ All(a, b, Zero) /\ All(f, g, Zero)
    BY <1>4, <1>9, <2>1
  <2>3. NextAll(c, e, Marker) /\ NextAll(a, b, Zero) /\ NextAll(f, g, Zero)
    BY <1>8, <2>1, <2>2
  <2>4. QED
    BY <1>6, <2>1, <2>3
<1>19. CASE UNCHANGED vars
  BY <1>19 DEF vars, MiniInv, Filling, All, L
<1>20. QED
  BY <1>11, <1>12, <1>13, <1>14, <1>15, <1>16, <1>17, <1>18, <1>19 DEF Next, stk_loop, bss1_loop, bss2_loop
-----------------------------------------------------------------------------
(* No segment is copied and nothing filled at the start.                   *)
LEMMA BootInit == Init => BootInv
<1>1. Init => WayInv /\ SegInv /\ MiniInv
  BY DEF Init, WayInv, SegInv, MiniInv, Running, Mini
<1>2. QED
  BY <1>1, LoadInit, TableInit DEF BootInv

(* The inductive invariant of the whole boot: where the image, the ELF and *)
(* the table are, which way the boot has gone, which segments are in their *)
(* place and what mini's start.S has filled.                               *)
THEOREM BootInvariant == Spec => []BootInv
<1>1. BootInv /\ [Next]_vars => BootInv'
  BY LoadStep, TableStep, WayStep, SegStep, MiniStep DEF BootInv
<1>2. QED
  BY <1>1, BootInit, PTL DEF Spec

(* A section in its place has the bytes the linker gave it.                *)
LEMMA BytesThere ==
    ASSUME NEW name \in {"text", "data", "data2"}, NEW n \in Nat, NEW from, At(from, Section(name, n))
    PROVE  At(from, Bytes(name, n))
<1>1. /\ Len(Section(name, n)) = ALIGN(n, WordSize) /\ \A i \in 1 .. n : Section(name, n)[i] = <<name, i>>
  BY SectionLen
<1>2. ALIGN(n, WordSize) \in Nat /\ ALIGN(n, WordSize) >= n
  BY BootAssumption, AlignUp
<1>3. Len(Bytes(name, n)) = n /\ \A i \in 1 .. n : Bytes(name, n)[i] = <<name, i>>
  BY BytesLen DEF Bytes
<1>4. \A i \in 1 .. n : i \in 1 .. Len(Section(name, n))
  BY <1>1, <1>2
<1>5. QED
  BY <1>1, <1>3, <1>4 DEF At

(* In whatever state the boot ends, it is the one it should end in: an     *)
(* error of makebin.py, nothing started, panic, or mini's _main, and there *)
(* with every section in its place, the BSSs zero and as large as asked    *)
(* for, the stack marked and the loader's table relocated exactly once.    *)
THEOREM BootEndsRight == Spec => []EndRight
<1>1. ASSUME BootInv, pc \in {"error", "waiting", "panic", "lost", "_main"} PROVE pc = Outcome
  BY <1>1 DEF BootInv, WayInv, Outcome, Good, Running, Mini
<1>2. ASSUME BootInv, pc = "_main" PROVE Ready
  <2>1. minisz \in MiniSizes /\ minisz.code \in Nat /\ minisz.data \in Nat /\ minisz.data2 \in Nat
    BY <1>2, BootAssumption DEF BootInv, LoadInv, FilesInv, MiniSizes
  <2>2. Text /\ Data /\ Data2
    BY <1>2 DEF BootInv, SegInv, Mini
  <2>3. /\ At(SRAM, Bytes("text", minisz.code)) /\ At(SRAM2, Bytes("data", minisz.data))
        /\ At(MEM2, Bytes("data2", minisz.data2))
    BY <2>1, <2>2, BytesThere DEF Text, Data, Data2
  <2>4. /\ All(L.bss_start, L.bss_end, Zero) /\ All(L.bss2_start, L.bss2_end, Zero)
        /\ All(L.stack_end, L.stack_addr, Marker)
    BY <1>2 DEF BootInv, MiniInv
  <2>5. L.bss_end - L.bss_start >= minisz.bss /\ L.bss2_end - L.bss2_start >= minisz.bss
    BY <2>1, MiniPlace
  <2>6. Table(GotWords)
    BY <1>2 DEF BootInv, TableInv, Mini
  <2>7. \A k \in 0 .. GotWords - 1 : mem[Base + S.got_start + k * WordSize] = Byte(GotEntry(k) + Base)
    <3>1. \A k \in 0 .. GotWords - 1 : k < GotWords
      BY BootAssumption
    <3>2. TAKE k \in 0 .. GotWords - 1
    <3>3. k < GotWords
      BY <3>1
    <3>4. mem[Base + S.got_start + k * WordSize] = Byte(IF k < GotWords THEN GotEntry(k) + Base ELSE GotEntry(k))
      BY <2>6, Zenon DEF Table
    <3>5. QED
      BY <3>3, <3>4, Zenon
  <2>8. QED
    BY <2>3, <2>4, <2>5, <2>7 DEF Ready
<1>3. BootInv => EndRight
  BY <1>1, <1>2 DEF EndRight
<1>4. QED
  BY <1>3, BootInvariant, PTL
=============================================================================
