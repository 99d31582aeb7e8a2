---------------------------- MODULE FatFsProofs ----------------------------
(***************************************************************************)
(* The volume that a dump writes stays sound, for every number of          *)
(* clusters, size of a FAT sector and of a cluster, any chains of the old  *)
(* file and any number of calls, failing accesses and crashes; and what    *)
(* f_close has promised stays on the card.                                 *)
(*                                                                         *)
(* There are two volumes: the one on the card, and the one that FatFs sees *)
(* through the window.  A step leaves the first alone or makes it equal to *)
(* the second, and changes one entry of the second; so it is enough that   *)
(* each change keeps the second sound.                                     *)
(***************************************************************************)
EXTENDS FatFs, FiniteSetTheorems, WellFoundedInduction, TLAPS

(* Entries of the FAT and of the directory.                                *)
Links == {0, EOC} \cup Clusters
Ents == [start : Nat, size : Int]
FatSects == {FatSect(e) : e \in Entries}
InSect(s) == {e \in Entries : FatSect(e) = s}
FIL == [name : Files, org : Nat, curr : Nat, fptr : Nat, fsize : Nat, csect : Nat,
        written : BOOLEAN]

(* The volume through a window w.                                          *)
FatOf(w, table) == [e \in Entries |-> IF FatSect(e) = w.sect THEN w.body[e] ELSE table[e]]
DirOf(w, table) == IF w.sect = Dir THEN w.body ELSE table
Fat == FatOf(win, fat)
Root == DirOf(win, dir)

(* A window over the directory d and the FAT t: it is filled, and it       *)
(* agrees with the card when it needs no writing back.                     *)
WinOK(w, d, t) ==
    /\ w \in [sect : {w.sect}, body : {w.body}, wflag : BOOLEAN]
    /\ w.sect \in {Nowhere, Dir} \cup FatSects /\ (w.wflag => w.sect # Nowhere)
    /\ w.sect = Dir => w.body \in [Files -> Ents] /\ (~w.wflag => w.body = d)
    /\ w.sect \in FatSects => /\ w.body \in [InSect(w.sect) -> Links]
                              /\ ~w.wflag => \A e \in InSect(w.sect) : w.body[e] = t[e]

(* The clusters of s are a chain in the FAT t.                             *)
Linked(s, t) ==
    /\ \A i, j \in 1 .. Len(s) : s[i] = s[j] => i = j
    /\ \A i \in 1 .. Len(s) : t[s[i]] = IF i = Len(s) THEN EOC ELSE s[i + 1]

(* A sound volume with directory d and FAT t: cs are the chains of the     *)
(* files, own is one more that no entry leads to.                          *)
Owns(cs, f, d) ==
    IF d[f].start \in Clusters THEN cs[f] # <<>> /\ cs[f][1] = d[f].start ELSE cs[f] = <<>>
Sound(cs, own, d, t) ==
    /\ cs \in [Files -> Seq(Clusters)] /\ own \in Seq(Clusters)
    /\ \A f \in Files : Linked(cs[f], t) /\ Owns(cs, f, d)
    /\ Linked(own, t)
    /\ \A f, g \in Files : \A i \in 1 .. Len(cs[f]), j \in 1 .. Len(cs[g]) :
           cs[f][i] = cs[g][j] => f = g
    /\ \A f \in Files : \A i \in 1 .. Len(cs[f]), j \in 1 .. Len(own) : cs[f][i] # own[j]
Outside(cs, own, c) ==
    /\ \A f \in Files : \A i \in 1 .. Len(cs[f]) : cs[f][i] # c
    /\ \A j \in 1 .. Len(own) : own[j] # c

(* The first n sectors of a chain are those of the tag-th open.            *)
Kept(body, s, n, tag) ==
    /\ n <= csize * Len(s)
    /\ \A i \in 0 .. n - 1 : body[s[(i \div csize) + 1]][i % csize] = <<tag, i>>

(* A file is open for writing; its new cluster is allocated and not yet    *)
(* its current one.                                                        *)
WritePcs == {"next", "follow", "probe", "link", "got", "data"}
OpenPcs == WritePcs \cup {"open", "sync"}
Pending == pc = "got" /\ ncl \in Clusters

TypeInv ==
    /\ fat \in [Entries -> Links] /\ dir \in [Files -> Ents]
    /\ data \in [Clusters -> [0 .. csize - 1 -> Int \X Int]]
    /\ fp \in FIL /\ pc \in OpenPcs \cup {"down", "idle", "free", "back", "flush", "fsinfo"}
    /\ btw \in Nat /\ clst \in Nat /\ scl \in Nat /\ ncl \in Nat
    /\ opens \in Nat /\ faults \in Nat /\ crashes \in Nat /\ fsi_flag \in BOOLEAN
    /\ promise \in [Files -> [size : Int, open : Int]]
    /\ WinOK(win, dir, fat)
    /\ pc \in {"down", "fsinfo"} => ~win.wflag
    /\ pc = "link" => win.sect # Nowhere

(* The card alone is sound.                                                *)
CardInv == \E cs \in [Files -> Seq(Clusters)] : Sound(cs, <<>>, dir, fat)

(* The chain in the hands of a call: what remove_chain has left, or the    *)
(* chain of the open file.                                                 *)
OwnInv(own) ==
    /\ pc \notin OpenPcs \cup {"free"} => own = <<>>
    /\ pc = "free" => own # <<>> /\ own[1] = clst
    /\ pc \in OpenPcs \cup {"free", "back"} => Root[fp.name].start = 0
    /\ pc \in OpenPcs => fp.written /\ fp.fsize <= fp.fptr
    /\ pc \in WritePcs => res = "FR_OK"

(* Where the pointer of the open file is in its chain.                     *)
PlaceInv(own) == pc \in OpenPcs =>
    /\ own = <<>> => fp.fptr = 0 /\ fp.csect = 255 /\ fp.org \notin Clusters
    /\ own # <<>> /\ ~(Pending /\ clst = 0) => own[1] = fp.org
    /\ own # <<>> /\ ~Pending =>
           /\ fp.curr = own[Len(own)] /\ fp.csect \in 0 .. csize
           /\ fp.fptr = csize * (Len(own) - 1) + fp.csect
    /\ Pending => /\ own # <<>> /\ own[Len(own)] = ncl /\ fp.fptr = csize * (Len(own) - 1)
                  /\ clst = 0 => own[1] = ncl
    /\ (pc \in WritePcs \ {"data"} /\ ~Pending) \/ (pc = "open" /\ res = "FR_OK") =>
           IF own = <<>> THEN fp.org = 0 ELSE fp.fptr > 0

(* create_chain: what it was called for, and what it has found.            *)
StepInv(cs, own) ==
    /\ pc \in WritePcs \ {"next"} => btw > 0
    /\ pc \in {"follow", "probe", "link"} \/ (pc = "got" /\ ~Pending) =>
           IF own = <<>> THEN clst = 0 ELSE clst = fp.curr /\ fp.csect = csize
    /\ pc \in {"follow", "link"} => own # <<>>
    /\ pc = "probe" => ncl \in Clusters
    /\ pc = "link" => ncl \in Clusters /\ Fat[ncl] = EOC /\ Outside(cs, own, ncl)
    /\ pc = "data" => own # <<>> /\ fp.csect < csize

(* The data of the open file, and of the files that were closed.           *)
Promises(cs) ==
    \A f \in Files : promise[f].size # Unknown =>
        /\ Linked(cs[f], fat) /\ Root[f] = dir[f] /\ dir[f].size = promise[f].size
        /\ Kept(data, cs[f], promise[f].size, promise[f].open)
DataInv(cs, own) ==
    /\ Promises(cs)
    /\ pc \in OpenPcs => Kept(data, own, fp.fptr, opens)
    /\ pc \in {"flush", "fsinfo"} =>
           Root[fp.name].size = fp.fsize /\ Kept(data, cs[fp.name], fp.fsize, opens)
    /\ pc \in OpenPcs \cup {"free", "back", "flush", "fsinfo"} => promise[fp.name].size = Unknown

(* Without a failure every used cluster is in a chain, and FSInfo, or the  *)
(* flag that it is to be written, is right.                                *)
CountInv(cs, own) == faults = 0 /\ crashes = 0 =>
    /\ fat2 = fat
    /\ \A f \in Files : Root[f].start \in Clusters \cup {0}
    /\ pc \in OpenPcs => fp.org \in Clusters \cup {0}
    /\ pc = "got" => ncl \in Clusters \cup {0}
    /\ \A c \in Clusters : Outside(cs, own, c) /\ ~(pc = "link" /\ c = ncl) => Fat[c] = 0
    /\ free_clust \in {Unknown, FreeOn(Fat) + (IF pc = "link" THEN 1 ELSE 0)}
    /\ pc = "down" => fsinfo.free \in {Unknown, FreeOn(Fat)} /\ ~fsi_flag
    /\ pc # "down" /\ ~fsi_flag => fsinfo.free = free_clust
    /\ pc \in {"down", "idle"} => ~win.wflag
    /\ pc = "idle" => ~fsi_flag

(* The search: the clusters between its start and ncl are not free.        *)
Seen(c) == IF ncl > scl THEN c > scl /\ c < ncl ELSE c > scl \/ c < ncl
SearchInv ==
    /\ pc = "probe" => scl \in 1 .. max_clust - 1 /\ \A c \in Clusters : Seen(c) => Fat[c] # 0
    /\ pc = "got" /\ ncl = 0 => \A c \in Clusters : Fat[c] # 0

Vol(cs, own) ==
    /\ Sound(cs, own, Root, Fat)
    /\ OwnInv(own) /\ PlaceInv(own) /\ StepInv(cs, own)
    /\ DataInv(cs, own) /\ CountInv(cs, own)
VolInv == \E cs \in [Files -> Seq(Clusters)], own \in Seq(Clusters) : Vol(cs, own)

(* The inductive invariant.                                                *)
IInv == TypeInv /\ CardInv /\ VolInv /\ SearchInv
-----------------------------------------------------------------------------
(* What the assumptions say of the numbers.                                *)
LEMMA Numbers ==
    /\ max_clust \in Nat /\ max_clust > 2 /\ csize \in Nat /\ csize >= 1 /\ csize <= 255
    /\ EntriesPerSect \in Nat /\ EntriesPerSect > 0 /\ WriteLen \in Nat /\ WriteLen > 0
    /\ EOC \in Nat /\ DISK_ERROR \in Nat /\ EOC \notin Clusters /\ DISK_ERROR \notin Clusters
    /\ 0 \notin Clusters /\ 1 \notin Clusters /\ EOC # 0 /\ Clusters \subseteq Nat
    /\ Clusters \subseteq Entries /\ Links \subseteq Nat /\ Unknown \notin Nat /\ Unknown \in Int
    /\ DISK_ERROR # 0 /\ DISK_ERROR # EOC /\ DISK_ERROR # 1 /\ EOC # 1 /\ DISK_ERROR \notin Links
BY VolumeAssumption DEF EOC, DISK_ERROR, Clusters, Entries, Links, Unknown

(* The kinds of sectors are distinct.                                      *)
LEMMA Kinds ==
    /\ Dir # Nowhere
    /\ \A s \in FatSects : s # Dir /\ s # Nowhere
    /\ \A e \in Entries : FatSect(e) \in FatSects /\ e \in InSect(FatSect(e))
BY DEF Dir, Nowhere, FatSects, FatSect, InSect

(* The least number of a set: the induction that the lemmas on chains use. *)
LEMMA Least ==
    ASSUME NEW S \in SUBSET Nat, S # {}
    PROVE  \E n \in S : \A m \in S : n <= m
<1>1. PICK R : R = OpToRel(<, Nat)
  OBVIOUS
<1>2. IsWellFoundedOn(R, Nat)
  BY <1>1, NatLessThanWellFounded, Zenon
<1>3. \A x, y \in S : <<y, x>> \in R <=> y < x
  <2>1. R = {ss \in Nat \X Nat : ss[1] < ss[2]}
    BY <1>1, Zenon DEF OpToRel
  <2> HIDE <1>1
  <2>2. QED
    BY <2>1
<1>4. \E x \in S : \A y \in S : ~(<<y, x>> \in R)
  BY <1>2, WFMin, Zenon
<1>5. PICK n \in S : \A m \in S : ~(m < n)
  BY <1>3, <1>4, Zenon
<1>6. \A m \in S : n <= m
  BY <1>5
<1>7. QED
  BY <1>6
-----------------------------------------------------------------------------
(* The types of what is seen through a window.                             *)
LEMMA ViewTypes ==
    ASSUME NEW w, NEW d \in [Files -> Ents], NEW t \in [Entries -> Links], WinOK(w, d, t)
    PROVE  /\ FatOf(w, t) \in [Entries -> Links] /\ DirOf(w, d) \in [Files -> Ents]
           /\ ~w.wflag => FatOf(w, t) = t /\ DirOf(w, d) = d
<1>1. FatOf(w, t) \in [Entries -> Links]
  <2>1. ASSUME NEW e \in Entries PROVE (IF FatSect(e) = w.sect THEN w.body[e] ELSE t[e]) \in Links
    BY Kinds DEF WinOK, InSect
  <2>2. QED
    BY <2>1 DEF FatOf
<1>2. DirOf(w, d) \in [Files -> Ents]
  BY DEF DirOf, WinOK
<1>3. ASSUME ~w.wflag PROVE FatOf(w, t) = t
  <2>1. ASSUME NEW e \in Entries PROVE (IF FatSect(e) = w.sect THEN w.body[e] ELSE t[e]) = t[e]
    BY <1>3, Kinds DEF WinOK, InSect
  <2>2. QED
    BY <2>1 DEF FatOf
<1>4. ASSUME ~w.wflag PROVE DirOf(w, d) = d
  BY <1>4 DEF DirOf, WinOK
<1>5. QED
  BY <1>1, <1>2, <1>3, <1>4

(* The empty window.                                                       *)
LEMMA NoWindow ==
    ASSUME NEW d \in [Files -> Ents], NEW t \in [Entries -> Links]
    PROVE  /\ WinOK(EmptyWindow, d, t) /\ ~EmptyWindow.wflag
           /\ FatOf(EmptyWindow, t) = t /\ DirOf(EmptyWindow, d) = d
<1>1. WinOK(EmptyWindow, d, t) /\ ~EmptyWindow.wflag
  BY Kinds DEF EmptyWindow, WinOK
<1>2. QED
  BY <1>1, ViewTypes

(* An entry of the FAT is changed in the window, ...                       *)
LEMMA PutFat ==
    ASSUME NEW w, NEW d \in [Files -> Ents], NEW t \in [Entries -> Links], WinOK(w, d, t),
           NEW e \in Entries, w.sect = FatSect(e), NEW v \in Links
    PROVE  /\ WinOK(Put(w, e, v), d, t) /\ Put(w, e, v).sect = w.sect
           /\ FatOf(Put(w, e, v), t) = [FatOf(w, t) EXCEPT ![e] = v]
           /\ DirOf(Put(w, e, v), d) = DirOf(w, d)
<1> DEFINE p == Put(w, e, v)
<1>1. w.sect \in FatSects /\ w.sect # Dir /\ w.sect # Nowhere /\ e \in InSect(w.sect)
      /\ w.body \in [InSect(w.sect) -> Links]
  BY Kinds DEF WinOK, InSect
<1>2. w \in [sect : {w.sect}, body : {w.body}, wflag : BOOLEAN]
  BY DEF WinOK
<1>3. /\ p.sect = w.sect /\ p.body = [w.body EXCEPT ![e] = v] /\ p.wflag = TRUE
      /\ p \in [sect : {p.sect}, body : {p.body}, wflag : BOOLEAN]
  BY <1>2 DEF Put
<1> HIDE DEF p
<1>4. p.body \in [InSect(w.sect) -> Links]
  BY <1>1, <1>3
<1>5. WinOK(p, d, t)
  BY <1>1, <1>3, <1>4 DEF WinOK
<1>6. FatOf(p, t) = [FatOf(w, t) EXCEPT ![e] = v]
  <2>1. ASSUME NEW x \in Entries
        PROVE  (IF FatSect(x) = p.sect THEN p.body[x] ELSE t[x])
                 = IF x = e THEN v ELSE IF FatSect(x) = w.sect THEN w.body[x] ELSE t[x]
    BY <1>1, <1>3 DEF InSect
  <2>2. QED
    BY <2>1 DEF FatOf
<1>7. DirOf(p, d) = DirOf(w, d)
  BY <1>1, <1>3 DEF DirOf
<1>8. QED
  BY <1>3, <1>5, <1>6, <1>7 DEF p

(* ... or one of the directory, ...                                        *)
LEMMA PutDir ==
    ASSUME NEW w, NEW d \in [Files -> Ents], NEW t \in [Entries -> Links], WinOK(w, d, t),
           NEW f \in Files, w.sect = Dir, NEW v \in Ents
    PROVE  /\ WinOK(Put(w, f, v), d, t)
           /\ FatOf(Put(w, f, v), t) = FatOf(w, t)
           /\ DirOf(Put(w, f, v), d) = [DirOf(w, d) EXCEPT ![f] = v]
<1> DEFINE p == Put(w, f, v)
<1>1. w.sect \notin FatSects /\ w.sect # Nowhere /\ w.body \in [Files -> Ents]
  BY Kinds DEF WinOK
<1>2. w \in [sect : {w.sect}, body : {w.body}, wflag : BOOLEAN]
  BY DEF WinOK
<1>3. /\ p.sect = w.sect /\ p.body = [w.body EXCEPT ![f] = v] /\ p.wflag = TRUE
      /\ p \in [sect : {p.sect}, body : {p.body}, wflag : BOOLEAN]
  BY <1>2 DEF Put
<1> HIDE DEF p
<1>4. p.body \in [Files -> Ents]
  BY <1>1, <1>3
<1>5. WinOK(p, d, t)
  BY <1>1, <1>3, <1>4 DEF WinOK
<1>6. FatOf(p, t) = FatOf(w, t)
  <2>1. ASSUME NEW x \in Entries
        PROVE  (IF FatSect(x) = p.sect THEN p.body[x] ELSE t[x])
                 = IF FatSect(x) = w.sect THEN w.body[x] ELSE t[x]
    BY <1>1, <1>3, Kinds
  <2>2. QED
    BY <2>1 DEF FatOf
<1>7. DirOf(p, d) = [DirOf(w, d) EXCEPT ![f] = v]
  BY <1>1, <1>3 DEF DirOf
<1>8. QED
  BY <1>5, <1>6, <1>7 DEF p

(* ... or nothing, and the sector is to be written all the same.           *)
LEMMA Touch ==
    ASSUME NEW w, NEW d \in [Files -> Ents], NEW t \in [Entries -> Links], WinOK(w, d, t),
           w.sect # Nowhere
    PROVE  LET p == [w EXCEPT !.wflag = TRUE]
           IN  WinOK(p, d, t) /\ FatOf(p, t) = FatOf(w, t) /\ DirOf(p, d) = DirOf(w, d)
<1> DEFINE p == [w EXCEPT !.wflag = TRUE]
<1>1. w \in [sect : {w.sect}, body : {w.body}, wflag : BOOLEAN]
  BY DEF WinOK
<1>2. /\ p.sect = w.sect /\ p.body = w.body /\ p.wflag = TRUE
      /\ p \in [sect : {p.sect}, body : {p.body}, wflag : BOOLEAN]
  BY <1>1
<1> HIDE DEF p
<1>3. WinOK(p, d, t)
  BY <1>2 DEF WinOK
<1>4. QED
  BY <1>2, <1>3 DEF FatOf, DirOf, p
-----------------------------------------------------------------------------
(* What move_window does to the two volumes: the one FatFs sees stays, and *)
(* the one on the card stays or becomes the same.                          *)
LEMMA Move ==
    ASSUME fat \in [Entries -> Links], dir \in [Files -> Ents], WinOK(win, dir, fat),
           NEW s \in {Nowhere, Dir} \cup FatSects, NEW o \in Outcomes, NEW mirror \in BOOLEAN,
           WrittenBack(s, o, mirror)
    PROVE  /\ fat' \in [Entries -> Links] /\ dir' \in [Files -> Ents]
           /\ WinOK(Window(s, o), dir', fat')
           /\ FatOf(Window(s, o), fat') = Fat /\ DirOf(Window(s, o), dir') = Root
           /\ (dir' = dir /\ fat' = fat) \/ (dir' = Root /\ fat' = Fat)
           /\ o = "ok" /\ s # Nowhere => Window(s, o).sect = s
           /\ o = "ok" /\ s = Nowhere => ~Window(s, o).wflag
           /\ win.sect # Nowhere => Window(s, o).sect # Nowhere
<1> DEFINE w == Window(s, o)
<1>0. /\ win \in [sect : {win.sect}, body : {win.body}, wflag : BOOLEAN]
      /\ win.sect \in {Nowhere, Dir} \cup FatSects /\ (win.wflag => win.sect # Nowhere)
  BY DEF WinOK
<1>1. Fat \in [Entries -> Links] /\ Root \in [Files -> Ents]
  BY ViewTypes DEF Fat, Root
<1>2. win.sect \in FatSects => Patch(fat) = Fat
  <2> SUFFICES ASSUME win.sect \in FatSects PROVE Patch(fat) = Fat
    OBVIOUS
  <2>1. DOMAIN win.body = InSect(win.sect)
    BY DEF WinOK
  <2>2. QED
    BY <2>1 DEF Patch, Fat, FatOf, InSect
<1>3. win.sect \notin FatSects => Fat = fat
  <2> SUFFICES ASSUME win.sect \notin FatSects PROVE Fat = fat
    OBVIOUS
  <2>1. \A e \in Entries : FatSect(e) # win.sect
    BY Kinds
  <2>2. QED
    BY <2>1 DEF Fat, FatOf
<1>4. win.sect # Dir => Root = dir
  BY DEF Root, DirOf
<1>5. win.sect = Dir => Root = win.body
  BY DEF Root, DirOf
<1>6. CASE ~(WriteBack(s) /\ o # "wfail")
  <2>1. dir' = dir /\ fat' = fat
    BY <1>6 DEF WrittenBack
  <2>2. CASE s = win.sect \/ o \in {"wfail", "wlost"}
    <3>1. w = win
      BY <2>2 DEF Window
    <3>2. s = Nowhere => ~win.wflag \/ o # "ok"
      BY <1>0, <2>2
    <3> HIDE DEF w
    <3>3. WinOK(w, dir', fat') /\ FatOf(w, fat') = Fat /\ DirOf(w, dir') = Root
      BY <2>1, <3>1 DEF Fat, Root
    <3>4. o = "ok" => w.sect = s
      BY <3>1, <2>2
    <3>5. QED
      BY <1>1, <2>1, <3>1, <3>2, <3>3, <3>4 DEF w
  <2>3. CASE s # win.sect /\ o \in {"ok", "rfail"}
    <3>1. ~win.wflag /\ Fat = fat /\ Root = dir
      <4>1. ~win.wflag
        BY <1>0, <1>6, <2>3 DEF WriteBack
      <4>2. QED
        BY <4>1, ViewTypes DEF Fat, Root
    <3>2. CASE o = "rfail" \/ s = Nowhere
      <4>1. w = [win EXCEPT !.wflag = FALSE]
        BY <2>3, <3>2 DEF Window
      <4>2. w = win
        BY <1>0, <3>1, <4>1
      <4> HIDE DEF w
      <4>3. WinOK(w, dir', fat') /\ FatOf(w, fat') = Fat /\ DirOf(w, dir') = Root
        BY <2>1, <4>2 DEF Fat, Root
      <4>4. QED
        BY <1>1, <2>1, <3>1, <3>2, <4>2, <4>3 DEF w
    <3>3. CASE o = "ok" /\ s = Dir
      <4>1. w = [sect |-> Dir, wflag |-> FALSE, body |-> dir]
        BY <2>3, <3>3, Kinds DEF Window
      <4>2. w.sect = Dir /\ ~w.wflag /\ w.body = dir /\ w \in [sect : {w.sect}, body : {w.body}, wflag : BOOLEAN]
        BY <4>1
      <4> HIDE DEF w
      <4>3. WinOK(w, dir, fat)
        BY <4>2, Kinds DEF WinOK
      <4>4. FatOf(w, fat) = fat /\ DirOf(w, dir) = dir
        BY <4>2, <4>3, ViewTypes
      <4>5. QED
        BY <1>1, <2>1, <3>1, <3>3, <4>2, <4>3, <4>4, Kinds DEF w
    <3>4. CASE o = "ok" /\ s \in FatSects
      <4>1. w = [sect |-> s, wflag |-> FALSE, body |-> [e \in InSect(s) |-> fat[e]]]
        BY <2>3, <3>4, Kinds DEF Window, InSect
      <4>2. w.sect = s /\ ~w.wflag /\ w.body = [e \in InSect(s) |-> fat[e]]
            /\ w \in [sect : {w.sect}, body : {w.body}, wflag : BOOLEAN]
        BY <4>1
      <4> HIDE DEF w
      <4>3. WinOK(w, dir, fat)
        BY <3>4, <4>2, Kinds DEF WinOK, InSect
      <4>4. FatOf(w, fat) = fat /\ DirOf(w, dir) = dir
        BY <4>2, <4>3, ViewTypes
      <4>5. QED
        BY <1>1, <2>1, <3>1, <3>4, <4>2, <4>3, <4>4, Kinds DEF w
    <3>5. QED
      BY <2>3, <3>2, <3>3, <3>4
  <2>4. QED
    BY <2>2, <2>3 DEF Outcomes
<1>7. CASE WriteBack(s) /\ o # "wfail"
  <2>0. win.wflag /\ win.sect # s /\ win.sect # Nowhere
    BY <1>0, <1>7 DEF WriteBack
  <2>1. dir' = Root /\ fat' = Fat
    <3>1. CASE win.sect = Dir
      <4>1. win.sect \notin FatSects
        BY <3>1, Kinds
      <4>2. QED
        BY <1>3, <1>5, <1>7, <3>1, <4>1 DEF WrittenBack
    <3>2. CASE win.sect # Dir
      <4>1. win.sect \in FatSects
        BY <1>0, <2>0, <3>2
      <4>2. QED
        BY <1>2, <1>4, <1>7, <3>2, <4>1 DEF WrittenBack
    <3>3. QED
      BY <3>1, <3>2
  <2>2. FatOf(win, Fat) = Fat /\ DirOf(win, Root) = Root
    BY DEF FatOf, DirOf, Fat, Root
  <2>3. CASE o = "wlost"
    <3>1. w = win
      BY <2>3 DEF Window
    <3> HIDE DEF w
    <3>2. WinOK(w, Root, Fat)
      BY <2>0, <3>1 DEF WinOK
    <3>3. QED
      BY <1>1, <2>0, <2>1, <2>2, <2>3, <3>1, <3>2 DEF w
  <2>4. CASE o = "rfail" \/ s = Nowhere
    <3> USE <2>4
    <3>0. o # "wlost" => w = [win EXCEPT !.wflag = FALSE]
      BY <1>7, <2>0 DEF Window, Outcomes
    <3>1. CASE o # "wlost"
      <4>1. /\ w.sect = win.sect /\ w.body = win.body /\ w.wflag = FALSE
            /\ w \in [sect : {w.sect}, body : {w.body}, wflag : BOOLEAN]
        BY <1>0, <3>0, <3>1
      <4> HIDE DEF w
      <4>2. FatOf(w, Fat) = Fat /\ DirOf(w, Root) = Root
        BY <2>2, <4>1 DEF FatOf, DirOf
      <4>3. w.sect \in FatSects => \A e \in InSect(w.sect) : w.body[e] = Fat[e]
        BY <4>1 DEF Fat, FatOf, InSect
      <4>4. WinOK(w, Root, Fat)
        BY <1>5, <4>1, <4>3 DEF WinOK
      <4>5. QED
        BY <1>1, <2>0, <2>1, <4>1, <4>2, <4>4 DEF w
    <3>2. QED
      BY <2>3, <3>1
  <2>5. CASE o = "ok" /\ s = Dir
    <3>1. w = [sect |-> Dir, wflag |-> FALSE, body |-> dir]
      BY <2>0, <2>5, Kinds DEF Window
    <3>2. w.sect = Dir /\ ~w.wflag /\ w.body = dir /\ w \in [sect : {w.sect}, body : {w.body}, wflag : BOOLEAN]
      BY <3>1
    <3> HIDE DEF w
    <3>3. Root = dir
      BY <1>4, <2>0, <2>5
    <3>4. WinOK(w, Root, Fat)
      BY <3>2, <3>3, Kinds DEF WinOK
    <3>5. FatOf(w, Fat) = Fat /\ DirOf(w, Root) = Root
      BY <1>1, <3>2, <3>4, ViewTypes
    <3>6. QED
      BY <1>1, <2>1, <2>5, <3>2, <3>4, <3>5, Kinds DEF w
  <2>6. CASE o = "ok" /\ s \in FatSects
    <3>1. w = [sect |-> s, wflag |-> FALSE, body |-> [e \in InSect(s) |-> fat[e]]]
      BY <2>0, <2>6, Kinds DEF Window, InSect
    <3>2. w.sect = s /\ ~w.wflag /\ w.body = [e \in InSect(s) |-> fat[e]]
          /\ w \in [sect : {w.sect}, body : {w.body}, wflag : BOOLEAN]
      BY <3>1
    <3> HIDE DEF w
    <3>3. \A e \in InSect(s) : e \in Entries /\ Fat[e] = fat[e]
      BY <2>0 DEF InSect, Fat, FatOf
    <3>4. WinOK(w, Root, Fat)
      BY <2>6, <3>2, <3>3, Kinds DEF WinOK
    <3>5. FatOf(w, Fat) = Fat /\ DirOf(w, Root) = Root
      BY <1>1, <3>2, <3>4, ViewTypes
    <3>6. QED
      BY <1>1, <2>1, <2>6, <3>2, <3>4, <3>5, Kinds DEF w
  <2>7. QED
    BY <1>7, <2>3, <2>4, <2>5, <2>6 DEF Outcomes
<1>8. QED
  BY <1>6, <1>7

(* When no access fails, the second FAT follows the first.                 *)
LEMMA MoveMirror ==
    ASSUME faults \in Nat, NEW s, NEW o \in Outcomes, NEW mirror \in BOOLEAN,
           Possible(s, o, mirror), WrittenBack(s, o, mirror), faults' = 0
    PROVE  o = "ok" /\ faults = 0 /\ (fat2 = fat => fat2' = fat')
<1>1. o = "ok" /\ mirror /\ faults = 0
  BY DEF Possible
<1>2. QED
  BY <1>1 DEF WrittenBack
-----------------------------------------------------------------------------
(* Chains: an entry that is not in a chain may change, ...                 *)
LEMMA LinkedKeep ==
    ASSUME NEW s \in Seq(Clusters), NEW t \in [Entries -> Links], Linked(s, t),
           NEW c \in Entries, NEW v, \A i \in 1 .. Len(s) : s[i] # c
    PROVE  Linked(s, [t EXCEPT ![c] = v])
BY DEF Linked

(* ... a free cluster is in none, ...                                      *)
LEMMA LinkedFree ==
    ASSUME NEW s \in Seq(Clusters), NEW t, Linked(s, t), NEW i \in 1 .. Len(s)
    PROVE  t[s[i]] # 0
<1>1. CASE i = Len(s)
  BY <1>1, Numbers DEF Linked
<1>2. CASE i # Len(s)
  <2>1. Len(s) \in Nat /\ i + 1 \in 1 .. Len(s)
    BY <1>2
  <2>2. s[i + 1] \in Clusters
    BY <2>1
  <2>3. QED
    BY <1>2, <2>2, Numbers DEF Linked
<1>3. QED
  BY <1>1, <1>2

(* ... the first cluster may be taken off, ...                             *)
LEMMA LinkedTail ==
    ASSUME NEW s \in Seq(Clusters), NEW t \in [Entries -> Links], Linked(s, t), s # <<>>, NEW v
    PROVE  /\ Tail(s) \in Seq(Clusters) /\ Len(Tail(s)) = Len(s) - 1 /\ Len(s) >= 1
           /\ \A i \in 1 .. Len(s) - 1 : i + 1 \in 1 .. Len(s) /\ Tail(s)[i] = s[i + 1]
           /\ Linked(Tail(s), [t EXCEPT ![s[1]] = v])
<1>1. /\ Tail(s) \in Seq(Clusters) /\ Len(Tail(s)) = Len(s) - 1 /\ Len(s) >= 1 /\ Len(s) \in Nat
      /\ \A i \in 1 .. Len(s) - 1 : i + 1 \in 1 .. Len(s) /\ Tail(s)[i] = s[i + 1]
  OBVIOUS
<1> DEFINE r == Tail(s)
           n == Len(s)
           u == [t EXCEPT ![s[1]] = v]
<1> HIDE DEF r, n
<1>2. /\ r \in Seq(Clusters) /\ Len(r) = n - 1 /\ n \in Nat /\ n >= 1
      /\ \A i \in 1 .. n - 1 : i + 1 \in 1 .. n /\ r[i] = s[i + 1]
  BY <1>1 DEF r, n
<1>3. ASSUME NEW i \in 1 .. n - 1, NEW j \in 1 .. n - 1, r[i] = r[j] PROVE i = j
  <2>1. s[i + 1] = s[j + 1] /\ i + 1 \in 1 .. n /\ j + 1 \in 1 .. n
    BY <1>2, <1>3
  <2>2. i + 1 = j + 1
    BY <2>1 DEF Linked, n
  <2>3. QED
    BY <2>2
<1>4. ASSUME NEW i \in 1 .. n - 1 PROVE u[r[i]] = IF i = n - 1 THEN EOC ELSE r[i + 1]
  <2>1. r[i] = s[i + 1] /\ i + 1 \in 1 .. n /\ i + 1 # 1 /\ 1 \in 1 .. n
    BY <1>2
  <2>2. s[i + 1] # s[1] /\ s[i + 1] \in Entries
    <3>1. s[i + 1] # s[1]
      BY <2>1 DEF Linked, n
    <3>2. s[i + 1] \in Clusters
      BY <2>1 DEF n
    <3>3. QED
      BY <3>1, <3>2, Numbers
  <2>3. u[r[i]] = t[s[i + 1]]
    BY <2>1, <2>2
  <2>4. t[s[i + 1]] = IF i + 1 = n THEN EOC ELSE s[i + 2]
    BY <2>1 DEF Linked, n
  <2>5. i # n - 1 => r[i + 1] = s[i + 2]
    BY <1>2
  <2>6. QED
    BY <1>2, <2>3, <2>4, <2>5
<1>5. Linked(r, u)
  BY <1>2, <1>3, <1>4 DEF Linked
<1>6. QED
  BY <1>1, <1>5 DEF r

(* ... and one may be added at the end.                                    *)
LEMMA LinkedAppend ==
    ASSUME NEW s \in Seq(Clusters), NEW t \in [Entries -> Links], Linked(s, t), s # <<>>,
           NEW c \in Clusters, t[c] = EOC, \A i \in 1 .. Len(s) : s[i] # c
    PROVE  /\ Append(s, c) \in Seq(Clusters) /\ Len(Append(s, c)) = Len(s) + 1
           /\ \A i \in 1 .. Len(s) : Append(s, c)[i] = s[i]
           /\ Append(s, c)[Len(s) + 1] = c
           /\ Linked(Append(s, c), [t EXCEPT ![s[Len(s)]] = c])
<1> DEFINE r == Append(s, c)
           n == Len(s)
           u == [t EXCEPT ![s[n]] = c]
<1>1. /\ r \in Seq(Clusters) /\ Len(r) = n + 1 /\ n \in Nat /\ n >= 1
      /\ \A i \in 1 .. n : r[i] = s[i] /\ s[i] \in Clusters
      /\ r[n + 1] = c
  OBVIOUS
<1> HIDE DEF r, n
<1>2. ASSUME NEW i \in 1 .. n + 1, NEW j \in 1 .. n + 1, r[i] = r[j] PROVE i = j
  <2>1. CASE i = n + 1 \/ j = n + 1
    BY <1>1, <1>2, <2>1 DEF n
  <2>2. CASE i # n + 1 /\ j # n + 1
    <3>1. i \in 1 .. n /\ j \in 1 .. n
      BY <1>1, <2>2
    <3>2. QED
      BY <1>1, <1>2, <3>1 DEF Linked, n
  <2>3. QED
    BY <2>1, <2>2
<1>3. ASSUME NEW i \in 1 .. n + 1 PROVE u[r[i]] = IF i = n + 1 THEN EOC ELSE r[i + 1]
  <2>1. CASE i = n + 1
    <3>1. n \in 1 .. n /\ s[n] # c /\ c \in Entries
      BY <1>1, Numbers DEF n
    <3>2. QED
      BY <1>1, <2>1, <3>1
  <2>2. CASE i = n
    <3>1. n \in 1 .. n /\ s[n] \in Entries
      <4>1. n \in 1 .. n
        BY <1>1
      <4>2. s[n] \in Clusters
        BY <1>1, <4>1
      <4>3. QED
        BY <4>1, <4>2, Numbers
    <3>2. u[s[n]] = c
      BY <3>1
    <3>3. QED
      BY <1>1, <2>2, <3>1, <3>2
  <2>3. CASE i < n
    <3>1. i \in 1 .. n /\ n \in 1 .. n /\ i + 1 \in 1 .. n /\ i # n
      BY <1>1, <2>3
    <3>2. s[i] # s[n] /\ s[i] \in Entries
      BY <1>1, <3>1, Numbers DEF Linked, n
    <3>3. u[s[i]] = t[s[i]] /\ t[s[i]] = s[i + 1]
      BY <3>1, <3>2 DEF Linked, n
    <3>4. QED
      BY <1>1, <3>1, <3>3
  <2>4. QED
    BY <1>1, <2>1, <2>2, <2>3
<1>4. Linked(r, u)
  BY <1>1, <1>2, <1>3 DEF Linked
<1>5. QED
  BY <1>1, <1>4 DEF r, n
-----------------------------------------------------------------------------
(* Volumes: a free cluster is in no chain, ...                             *)
LEMMA SoundFree ==
    ASSUME NEW cs, NEW own, NEW d, NEW t, Sound(cs, own, d, t), NEW c, t[c] = 0
    PROVE  Outside(cs, own, c)
<1>1. ASSUME NEW f \in Files, NEW i \in 1 .. Len(cs[f]) PROVE cs[f][i] # c
  <2>1. cs[f] \in Seq(Clusters) /\ Linked(cs[f], t)
    BY DEF Sound
  <2>2. QED
    BY <2>1, LinkedFree
<1>2. ASSUME NEW j \in 1 .. Len(own) PROVE own[j] # c
  BY LinkedFree DEF Sound
<1>3. QED
  BY <1>1, <1>2 DEF Outside

(* ... a cluster outside of all chains may be marked at will, ...          *)
LEMMA SoundMark ==
    ASSUME NEW cs, NEW own, NEW d, NEW t \in [Entries -> Links], Sound(cs, own, d, t),
           NEW c \in Entries, Outside(cs, own, c), NEW v
    PROVE  Sound(cs, own, d, [t EXCEPT ![c] = v])
<1> DEFINE u == [t EXCEPT ![c] = v]
<1>1. ASSUME NEW f \in Files PROVE Linked(cs[f], u)
  BY LinkedKeep DEF Sound, Outside
<1>2. Linked(own, u)
  BY LinkedKeep DEF Sound, Outside
<1> HIDE DEF u
<1>3. Sound(cs, own, d, u)
  BY <1>1, <1>2 DEF Sound
<1>4. QED
  BY <1>3 DEF u

(* ... and may become a chain; ...                                         *)
LEMMA SoundFirst ==
    ASSUME NEW cs, NEW d, NEW t \in [Entries -> Links], Sound(cs, <<>>, d, t),
           NEW c \in Clusters, t[c] = EOC, Outside(cs, <<>>, c)
    PROVE  Sound(cs, <<c>>, d, t)
<1>1. Linked(<<c>>, t) /\ <<c>> \in Seq(Clusters) /\ Len(<<c>>) = 1 /\ <<c>>[1] = c
  BY DEF Linked
<1>2. QED
  BY <1>1 DEF Sound, Outside

(* ... remove_chain takes the first cluster off a chain, ...               *)
LEMMA SoundUnlink ==
    ASSUME NEW cs, NEW own, NEW d, NEW t \in [Entries -> Links], Sound(cs, own, d, t), own # <<>>, NEW v
    PROVE  /\ Sound(cs, Tail(own), d, [t EXCEPT ![own[1]] = v])
           /\ own[1] \in Clusters /\ Outside(cs, Tail(own), own[1])
<1> DEFINE u == [t EXCEPT ![own[1]] = v]
           r == Tail(own)
           n == Len(own)
<1>0. own \in Seq(Clusters) /\ Linked(own, t) /\ n \in Nat /\ n >= 1 /\ 1 \in 1 .. n /\ own[1] \in Entries
      /\ own[1] \in Clusters
  <2>1. own \in Seq(Clusters) /\ Linked(own, t)
    BY DEF Sound
  <2>2. n \in Nat /\ n >= 1 /\ 1 \in 1 .. n /\ own[1] \in Clusters
    BY <2>1
  <2>3. QED
    BY <2>1, <2>2, Numbers
<1>1. /\ r \in Seq(Clusters) /\ Len(r) = n - 1
      /\ \A i \in 1 .. n - 1 : i + 1 \in 1 .. n /\ r[i] = own[i + 1]
      /\ Linked(r, u)
  BY <1>0, LinkedTail
<1>2. ASSUME NEW f \in Files PROVE Linked(cs[f], u)
  <2>1. \A i \in 1 .. Len(cs[f]) : cs[f][i] # own[1]
    BY <1>0 DEF Sound
  <2>2. QED
    BY <1>0, <2>1, LinkedKeep DEF Sound
<1>3. ASSUME NEW f \in Files, NEW i \in 1 .. Len(cs[f]), NEW j \in 1 .. Len(r) PROVE cs[f][i] # r[j]
  <2>1. j \in 1 .. n - 1
    BY <1>1
  <2>2. r[j] = own[j + 1] /\ j + 1 \in 1 .. Len(own)
    BY <1>1, <2>1
  <2>3. QED
    BY <2>2 DEF Sound
<1>4. ASSUME NEW j \in 1 .. Len(r) PROVE r[j] # own[1]
  <2>1. j \in 1 .. n - 1
    BY <1>1
  <2>2. r[j] = own[j + 1] /\ j + 1 \in 1 .. Len(own) /\ 1 \in 1 .. Len(own) /\ j + 1 # 1
    BY <1>0, <1>1, <2>1
  <2>3. QED
    BY <1>0, <2>2 DEF Linked
<1> HIDE DEF u, r, n
<1>5. Sound(cs, r, d, u)
  BY <1>1, <1>2, <1>3 DEF Sound
<1>6. Outside(cs, r, own[1])
  <2>1. \A f \in Files : \A i \in 1 .. Len(cs[f]) : cs[f][i] # own[1]
    BY <1>0 DEF Sound, n
  <2>2. QED
    BY <1>4, <2>1 DEF Outside
<1>7. QED
  BY <1>0, <1>5, <1>6 DEF u, r

(* ... create_chain links one to its end, ...                              *)
LEMMA SoundLink ==
    ASSUME NEW cs, NEW own, NEW d, NEW t \in [Entries -> Links], Sound(cs, own, d, t), own # <<>>,
           NEW c \in Clusters, t[c] = EOC, Outside(cs, own, c)
    PROVE  Sound(cs, Append(own, c), d, [t EXCEPT ![own[Len(own)]] = c])
<1> DEFINE n == Len(own)
           u == [t EXCEPT ![own[n]] = c]
           r == Append(own, c)
<1>0. own \in Seq(Clusters) /\ Linked(own, t) /\ n \in Nat /\ n >= 1 /\ n \in 1 .. n /\ own[n] \in Entries
  <2>1. own \in Seq(Clusters) /\ Linked(own, t)
    BY DEF Sound
  <2>2. n \in Nat /\ n >= 1 /\ n \in 1 .. n /\ own[n] \in Clusters
    BY <2>1
  <2>3. QED
    BY <2>1, <2>2, Numbers
<1>1. /\ r \in Seq(Clusters) /\ Len(r) = n + 1
      /\ \A i \in 1 .. n : r[i] = own[i]
      /\ r[n + 1] = c
      /\ Linked(r, u)
  BY <1>0, LinkedAppend DEF Outside
<1>2. ASSUME NEW f \in Files PROVE Linked(cs[f], u)
  <2>1. \A i \in 1 .. Len(cs[f]) : cs[f][i] # own[n]
    BY <1>0 DEF Sound
  <2>2. QED
    BY <1>0, <2>1, LinkedKeep DEF Sound
<1>3. ASSUME NEW f \in Files, NEW i \in 1 .. Len(cs[f]), NEW j \in 1 .. Len(r) PROVE cs[f][i] # r[j]
  <2>1. CASE j = n + 1
    BY <1>1, <2>1 DEF Outside
  <2>2. CASE j # n + 1
    <3>1. j \in 1 .. Len(own) /\ r[j] = own[j]
      BY <1>0, <1>1, <2>2
    <3>2. QED
      BY <3>1 DEF Sound
  <2>3. QED
    BY <2>1, <2>2
<1> HIDE DEF u, r, n
<1>4. Sound(cs, r, d, u)
  BY <1>1, <1>2, <1>3 DEF Sound
<1>5. QED
  BY <1>4 DEF u, r, n

(* ... f_open takes the chain of a file out of the directory, ...          *)
LEMMA SoundDetach ==
    ASSUME NEW cs, NEW d \in [Files -> Ents], NEW t, Sound(cs, <<>>, d, t), NEW f \in Files,
           NEW e \in Ents, e.start = 0
    PROVE  Sound([cs EXCEPT ![f] = <<>>], cs[f], [d EXCEPT ![f] = e], t)
<1> DEFINE dd == [d EXCEPT ![f] = e]
           ds == [cs EXCEPT ![f] = <<>>]
<1>1. cs \in [Files -> Seq(Clusters)] /\ <<>> \in Seq(Clusters) /\ Len(<<>>) = 0
  BY DEF Sound
<1>2. /\ ds \in [Files -> Seq(Clusters)] /\ ds[f] = <<>> /\ \A g \in Files \ {f} : ds[g] = cs[g]
      /\ dd[f] = e /\ \A g \in Files \ {f} : dd[g] = d[g]
  BY <1>1
<1> HIDE DEF dd, ds
<1>3. ASSUME NEW g \in Files PROVE Linked(ds[g], t) /\ Owns(ds, g, dd)
  <2>1. CASE g = f
    BY <1>2, <2>1, Numbers DEF Linked, Owns
  <2>2. CASE g # f
    BY <1>2, <2>2 DEF Sound, Owns
  <2>3. QED
    BY <2>1, <2>2
<1>4. ASSUME NEW g \in Files, NEW h \in Files, NEW i \in 1 .. Len(ds[g]), NEW j \in 1 .. Len(ds[h]),
             ds[g][i] = ds[h][j]
      PROVE  g = h
  <2>1. g # f /\ h # f
    BY <1>2
  <2>2. QED
    BY <1>2, <1>4, <2>1 DEF Sound
<1>5. ASSUME NEW g \in Files, NEW i \in 1 .. Len(ds[g]), NEW j \in 1 .. Len(cs[f]) PROVE ds[g][i] # cs[f][j]
  <2>1. g # f
    BY <1>2
  <2>2. QED
    BY <1>2, <2>1 DEF Sound
<1>6. cs[f] \in Seq(Clusters) /\ Linked(cs[f], t)
  BY DEF Sound
<1>7. Sound(ds, cs[f], dd, t)
  BY <1>2, <1>3, <1>4, <1>5, <1>6 DEF Sound
<1>8. QED
  BY <1>7 DEF dd, ds

(* ... f_sync enters the chain of a new one, ...                           *)
LEMMA SoundAttach ==
    ASSUME NEW cs, NEW own, NEW d \in [Files -> Ents], NEW t, Sound(cs, own, d, t), NEW f \in Files,
           d[f].start = 0, NEW e \in Ents,
           IF own = <<>> THEN e.start \notin Clusters ELSE e.start = own[1]
    PROVE  Sound([cs EXCEPT ![f] = own], <<>>, [d EXCEPT ![f] = e], t)
<1> DEFINE dd == [d EXCEPT ![f] = e]
           ds == [cs EXCEPT ![f] = own]
<1>1. cs \in [Files -> Seq(Clusters)] /\ own \in Seq(Clusters) /\ <<>> \in Seq(Clusters) /\ Len(<<>>) = 0
  BY DEF Sound
<1>2. /\ ds \in [Files -> Seq(Clusters)] /\ ds[f] = own /\ \A g \in Files \ {f} : ds[g] = cs[g]
      /\ dd[f] = e /\ \A g \in Files \ {f} : dd[g] = d[g]
  BY <1>1
<1> HIDE DEF dd, ds
<1>3. ASSUME NEW g \in Files PROVE Linked(ds[g], t) /\ Owns(ds, g, dd)
  <2>1. CASE g = f
    <3>1. own # <<>> => own[1] \in Clusters
      BY <1>1
    <3>2. QED
      BY <1>2, <2>1, <3>1 DEF Sound, Owns
  <2>2. CASE g # f
    BY <1>2, <2>2 DEF Sound, Owns
  <2>3. QED
    BY <2>1, <2>2
<1>4. ASSUME NEW g \in Files, NEW h \in Files, NEW i \in 1 .. Len(ds[g]), NEW j \in 1 .. Len(ds[h]),
             ds[g][i] = ds[h][j]
      PROVE  g = h
  <2>1. CASE g = f /\ h = f
    BY <2>1
  <2>2. CASE g # f /\ h # f
    BY <1>2, <1>4, <2>2 DEF Sound
  <2>3. CASE g = f /\ h # f
    BY <1>2, <1>4, <2>3 DEF Sound
  <2>4. CASE g # f /\ h = f
    BY <1>2, <1>4, <2>4 DEF Sound
  <2>5. QED
    BY <2>1, <2>2, <2>3, <2>4
<1>5. Linked(<<>>, t)
  BY DEF Linked
<1>6. Sound(ds, <<>>, dd, t)
  BY <1>1, <1>2, <1>3, <1>4, <1>5 DEF Sound
<1>7. QED
  BY <1>6 DEF dd, ds

(* ... and an error abandons a chain.                                      *)
LEMMA SoundDrop ==
    ASSUME NEW cs, NEW own, NEW d, NEW t, Sound(cs, own, d, t)
    PROVE  Sound(cs, <<>>, d, t)
<1>1. <<>> \in Seq(Clusters) /\ Len(<<>>) = 0 /\ Linked(<<>>, t)
  BY DEF Linked
<1>2. QED
  BY <1>1 DEF Sound
-----------------------------------------------------------------------------
(* The card stays or becomes what FatFs sees.                              *)
CardMoves == (dir' = dir /\ fat' = fat) \/ (dir' = Root /\ fat' = Fat)

(* The card stays sound when what is written to it is sound.               *)
LEMMA CardStep ==
    ASSUME CardInv, NEW cs, NEW own, Sound(cs, own, Root, Fat), CardMoves
    PROVE  CardInv'
<1>1. CASE dir' = dir /\ fat' = fat
  BY <1>1 DEF CardInv
<1>2. CASE dir' = Root /\ fat' = Fat
  <2>1. Sound(cs, <<>>, dir', fat') /\ cs \in [Files -> Seq(Clusters)]
    BY <1>2, SoundDrop DEF Sound
  <2>2. QED
    BY <2>1 DEF CardInv
<1>3. QED
  BY <1>1, <1>2 DEF CardMoves

(* A promise is kept by the clusters of its file.                          *)
LEMMA PromiseStep ==
    ASSUME NEW cs, NEW own, Sound(cs, own, Root, Fat), Promises(cs), CardMoves, data' = data,
           NEW ds,
           \A f \in Files : promise'[f].size # Unknown =>
               promise'[f] = promise[f] /\ Root'[f] = Root[f] /\ ds[f] = cs[f]
    PROVE  Promises(ds)'
<1>1. SUFFICES ASSUME NEW f \in Files, promise'[f].size # Unknown
               PROVE  /\ Linked(ds[f], fat') /\ Root'[f] = dir'[f] /\ dir'[f].size = promise'[f].size
                      /\ Kept(data', ds[f], promise'[f].size, promise'[f].open)
  BY DEF Promises
<1>2. promise'[f] = promise[f] /\ Root'[f] = Root[f] /\ ds[f] = cs[f]
  BY <1>1
<1>3. /\ Linked(cs[f], fat) /\ Root[f] = dir[f] /\ dir[f].size = promise[f].size
      /\ Kept(data, cs[f], promise[f].size, promise[f].open)
  BY <1>1, <1>2 DEF Promises
<1>4. Linked(cs[f], Fat)
  BY DEF Sound
<1>5. QED
  BY <1>2, <1>3, <1>4 DEF CardMoves

(* f_write: its arguments.                                                 *)
LEMMA BeginStep ==
    ASSUME IInv, f_write
    PROVE  IInv'
<1> USE Numbers DEF f_write
<1>1. Fat' = Fat /\ Root' = Root /\ CardMoves
  BY DEF Fat, Root, diskVars, CardMoves
<1>2. TypeInv'
  BY DEF IInv, TypeInv, OpenPcs, WritePcs, diskVars, locals, fsVars
<1>3. PICK cs \in [Files -> Seq(Clusters)], own \in Seq(Clusters) : Vol(cs, own)
  BY DEF IInv, VolInv
<1>4. OwnInv(own)'
  BY <1>1, <1>3 DEF Vol, OwnInv, OpenPcs, WritePcs
<1>5. PlaceInv(own)'
  BY <1>1, <1>3 DEF Vol, PlaceInv, OpenPcs, WritePcs, Pending, locals
<1>6. StepInv(cs, own)'
  BY <1>3 DEF StepInv, WritePcs, Pending
<1>7. DataInv(cs, own)'
  <2>1. Promises(cs)'
    BY <1>1, <1>3, PromiseStep DEF Vol, DataInv, diskVars
  <2>2. QED
    BY <1>1, <1>3, <2>1 DEF Vol, DataInv, OpenPcs, WritePcs, diskVars
<1>8. CountInv(cs, own)'
  BY <1>1, <1>3 DEF Vol, CountInv, OpenPcs, WritePcs, diskVars, fsVars, Outside
<1>9. SearchInv'
  BY DEF SearchInv
<1>10. CardInv'
  BY <1>1, <1>3, CardStep DEF IInv, Vol
<1>11. Vol(cs, own)'
  BY <1>1, <1>3, <1>4, <1>5, <1>6, <1>7, <1>8 DEF Vol
<1>12. QED
  BY <1>2, <1>9, <1>10, <1>11 DEF IInv, VolInv

(* The search begins with the cluster after its start.                     *)
LEMMA SearchBegins ==
    ASSUME NEW from \in 1 .. max_clust - 1, SearchFrom(from)
    PROVE  /\ pc' = "probe" /\ scl' = from /\ ncl' \in Clusters
           /\ \A c \in Clusters : ~Seen(c)'
<1>1. CASE from + 1 < max_clust
  BY <1>1, VolumeAssumption DEF SearchFrom, NextCluster, Seen, Clusters
<1>2. CASE ~(from + 1 < max_clust)
  <2>1. from = max_clust - 1 /\ from >= 2
    BY <1>2, VolumeAssumption
  <2>2. NextCluster(from, from) = 2
    BY <2>1, VolumeAssumption DEF NextCluster
  <2>3. QED
    BY <2>1, <2>2, VolumeAssumption DEF SearchFrom, Seen, Clusters
<1>3. QED
  BY <1>1, <1>2

(* f_write: the loop head.                                                 *)
LEMMA NextStep ==
    ASSUME IInv, WriteNext
    PROVE  IInv'
<1> USE Numbers
<1>1. Fat' = Fat /\ Root' = Root /\ CardMoves
  BY DEF WriteNext, Fat, Root, diskVars, CardMoves
<1>3. PICK cs \in [Files -> Seq(Clusters)], own \in Seq(Clusters) : Vol(cs, own)
  BY DEF IInv, VolInv
<1> DEFINE from == IF last_clust \in 1 .. max_clust - 1 THEN last_clust ELSE 1
<1>2. from \in 1 .. max_clust - 1
  OBVIOUS
<1> HIDE DEF from
<1>4. /\ pc = "next" /\ fp \in FIL /\ btw \in Nat /\ ~Pending /\ pc \in OpenPcs /\ pc \in WritePcs \ {"data"}
      /\ UNCHANGED <<fat, fat2, dir, data, fsinfo, win, free_clust, last_clust, fsi_flag, btw,
                     opens, writes, faults, crashes, promise>>
  BY DEF WriteNext, IInv, TypeInv, Pending, OpenPcs, WritePcs, diskVars, fsVars, bounds
<1>5. /\ own = <<>> => fp.fptr = 0 /\ fp.csect = 255 /\ fp.org = 0
      /\ own # <<>> => /\ fp.curr = own[Len(own)] /\ fp.csect \in 0 .. csize /\ fp.fptr > 0
                       /\ own[1] = fp.org
  BY <1>3, <1>4 DEF Vol, PlaceInv
<1>6. \/ btw = 0 /\ WriteDone("FR_OK") /\ UNCHANGED <<clst, scl, ncl>>
      \/ btw # 0 /\ fp.csect < csize /\ pc' = "data" /\ UNCHANGED <<fp, res, clst, scl, ncl>>
      \/ btw # 0 /\ fp.fptr = 0 /\ fp.csect >= csize /\ clst' = 0 /\ UNCHANGED <<fp, res>> /\ SearchFrom(from)
      \/ btw # 0 /\ fp.fptr # 0 /\ fp.csect >= csize /\ pc' = "follow" /\ clst' = fp.curr
         /\ UNCHANGED <<fp, res, scl, ncl>>
  <2>1. (fp.csect \in Nat /\ fp.csect >= csize) \/ fp.csect < csize
    BY <1>4 DEF FIL
  <2>2. fp.fptr = 0 => fp.org = 0
    BY <1>5
  <2>3. QED
    BY <2>1, <2>2 DEF WriteNext, locals, from
<1>7. CardInv'
  BY <1>1, <1>3, CardStep DEF IInv, Vol
<1>8. Promises(cs)'
  BY <1>1, <1>3, <1>4, PromiseStep DEF Vol, DataInv
<1>9. CASE btw = 0 /\ WriteDone("FR_OK") /\ UNCHANGED <<clst, scl, ncl>>
  <2>0. /\ fp' \in FIL /\ fp'.fsize = fp.fptr /\ fp'.written = TRUE /\ pc' = "open" /\ res' = "FR_OK"
        /\ fp'.name = fp.name /\ fp'.org = fp.org /\ fp'.curr = fp.curr /\ fp'.csect = fp.csect
        /\ fp'.fptr = fp.fptr /\ fp'.fptr \in Nat
    BY <1>4, <1>9 DEF FIL, WriteDone, Return
  <2>1. TypeInv'
    BY <1>1, <1>4, <1>9, <2>0 DEF IInv, TypeInv, OpenPcs, WritePcs
  <2>2. OwnInv(own)'
    BY <1>1, <1>3, <1>4, <2>0 DEF Vol, OwnInv, OpenPcs, WritePcs
  <2>3. PlaceInv(own)'
    BY <1>3, <1>4, <1>5, <2>0 DEF Vol, PlaceInv, OpenPcs, WritePcs, Pending
  <2>4. StepInv(cs, own)'
    BY <2>0 DEF StepInv, WritePcs, Pending
  <2>5. DataInv(cs, own)'
    BY <1>1, <1>3, <1>4, <1>8, <2>0 DEF Vol, DataInv, OpenPcs, WritePcs
  <2>6. CountInv(cs, own)'
    BY <1>1, <1>3, <1>4, <2>0 DEF Vol, CountInv, OpenPcs, WritePcs, Outside
  <2>7. SearchInv'
    BY <2>0 DEF SearchInv
  <2>8. Vol(cs, own)'
    BY <1>1, <1>3, <2>2, <2>3, <2>4, <2>5, <2>6 DEF Vol
  <2>9. QED
    BY <1>7, <2>1, <2>7, <2>8 DEF IInv, VolInv
<1>10. CASE btw # 0 /\ fp.csect < csize /\ pc' = "data" /\ UNCHANGED <<fp, res, clst, scl, ncl>>
  <2>1. TypeInv'
    BY <1>1, <1>4, <1>10 DEF IInv, TypeInv, OpenPcs, WritePcs
  <2>2. OwnInv(own)'
    BY <1>1, <1>3, <1>4, <1>10 DEF Vol, OwnInv, OpenPcs, WritePcs
  <2>3. PlaceInv(own)'
    BY <1>3, <1>4, <1>5, <1>10 DEF Vol, PlaceInv, OpenPcs, WritePcs, Pending
  <2>4. StepInv(cs, own)'
    BY <1>4, <1>5, <1>10 DEF StepInv, WritePcs, Pending
  <2>5. DataInv(cs, own)'
    BY <1>1, <1>3, <1>4, <1>8, <1>10 DEF Vol, DataInv, OpenPcs, WritePcs
  <2>6. CountInv(cs, own)'
    BY <1>1, <1>3, <1>4, <1>10 DEF Vol, CountInv, OpenPcs, WritePcs, Outside
  <2>7. SearchInv'
    BY <1>10 DEF SearchInv
  <2>8. Vol(cs, own)'
    BY <1>1, <1>3, <2>2, <2>3, <2>4, <2>5, <2>6 DEF Vol
  <2>9. QED
    BY <1>7, <2>1, <2>7, <2>8 DEF IInv, VolInv
<1>11. CASE btw # 0 /\ fp.fptr = 0 /\ fp.csect >= csize /\ clst' = 0 /\ UNCHANGED <<fp, res>> /\ SearchFrom(from)
  <2>0. /\ pc' = "probe" /\ scl' = from /\ ncl' \in Clusters /\ own = <<>>
        /\ \A c \in Clusters : ~Seen(c)'
    BY <1>2, <1>5, <1>11, SearchBegins
  <2>1. TypeInv'
    <3>1. ncl' \in Nat /\ scl' \in Nat /\ clst' \in Nat
      BY <1>2, <1>11, <2>0
    <3>2. QED
      BY <1>1, <1>4, <1>11, <2>0, <3>1 DEF IInv, TypeInv, OpenPcs, WritePcs
  <2>2. OwnInv(own)'
    BY <1>1, <1>3, <1>4, <1>11, <2>0 DEF Vol, OwnInv, OpenPcs, WritePcs
  <2>3. PlaceInv(own)'
    BY <1>3, <1>4, <1>5, <1>11, <2>0 DEF Vol, PlaceInv, OpenPcs, WritePcs, Pending
  <2>4. StepInv(cs, own)'
    BY <1>4, <1>5, <1>11, <2>0 DEF StepInv, WritePcs, Pending
  <2>5. DataInv(cs, own)'
    BY <1>1, <1>3, <1>4, <1>8, <1>11, <2>0 DEF Vol, DataInv, OpenPcs, WritePcs
  <2>6. CountInv(cs, own)'
    BY <1>1, <1>3, <1>4, <1>11, <2>0 DEF Vol, CountInv, OpenPcs, WritePcs, Outside
  <2>7. SearchInv'
    BY <1>2, <2>0 DEF SearchInv
  <2>8. Vol(cs, own)'
    BY <1>1, <1>3, <2>2, <2>3, <2>4, <2>5, <2>6 DEF Vol
  <2>9. QED
    BY <1>7, <2>1, <2>7, <2>8 DEF IInv, VolInv
<1>12. CASE btw # 0 /\ fp.fptr # 0 /\ fp.csect >= csize /\ pc' = "follow" /\ clst' = fp.curr
            /\ UNCHANGED <<fp, res, scl, ncl>>
  <2>0. own # <<>> /\ fp.csect = csize
    BY <1>4, <1>5, <1>12
  <2>1. TypeInv'
    <3>1. clst' \in Nat
      BY <1>4, <1>12 DEF FIL
    <3>2. QED
      BY <1>1, <1>4, <1>12, <3>1 DEF IInv, TypeInv, OpenPcs, WritePcs
  <2>2. OwnInv(own)'
    BY <1>1, <1>3, <1>4, <1>12 DEF Vol, OwnInv, OpenPcs, WritePcs
  <2>3. PlaceInv(own)'
    BY <1>3, <1>4, <1>5, <1>12 DEF Vol, PlaceInv, OpenPcs, WritePcs, Pending
  <2>4. StepInv(cs, own)'
    BY <1>4, <1>5, <1>12, <2>0 DEF StepInv, WritePcs, Pending
  <2>5. DataInv(cs, own)'
    BY <1>1, <1>3, <1>4, <1>8, <1>12 DEF Vol, DataInv, OpenPcs, WritePcs
  <2>6. CountInv(cs, own)'
    BY <1>1, <1>3, <1>4, <1>12 DEF Vol, CountInv, OpenPcs, WritePcs, Outside
  <2>7. SearchInv'
    BY <1>12 DEF SearchInv
  <2>8. Vol(cs, own)'
    BY <1>1, <1>3, <2>2, <2>3, <2>4, <2>5, <2>6 DEF Vol
  <2>9. QED
    BY <1>7, <2>1, <2>7, <2>8 DEF IInv, VolInv
<1>13. QED
  BY <1>6, <1>9, <1>10, <1>11, <1>12

(* f_write with create_chain's answer.                                     *)
LEMMA GotStep ==
    ASSUME IInv, WriteGot
    PROVE  IInv'
<1> USE Numbers
<1>1. Fat' = Fat /\ Root' = Root /\ CardMoves
  BY DEF WriteGot, Fat, Root, diskVars, CardMoves
<1>2. PICK cs \in [Files -> Seq(Clusters)], own \in Seq(Clusters) : Vol(cs, own)
  BY DEF IInv, VolInv
<1>3. /\ pc = "got" /\ fp \in FIL /\ btw \in Nat /\ ncl \in Nat /\ pc \in OpenPcs /\ pc \in WritePcs \ {"data"}
      /\ UNCHANGED <<fat, fat2, dir, data, fsinfo, win, free_clust, last_clust, fsi_flag, btw,
                     clst, scl, ncl, opens, writes, faults, crashes, promise>>
  BY DEF WriteGot, IInv, TypeInv, OpenPcs, WritePcs, diskVars, fsVars, bounds, locals
<1>4. CardInv'
  BY <1>1, <1>2, CardStep DEF IInv, Vol
<1>5. Promises(cs)'
  BY <1>1, <1>2, <1>3, PromiseStep DEF Vol, DataInv
<1>6. ~Pending => /\ own = <<>> => fp.fptr = 0 /\ fp.csect = 255 /\ fp.org \notin Clusters /\ clst = 0
                  /\ own # <<>> => own[1] = fp.org /\ clst # 0
  <2>1. own # <<>> => own[Len(own)] \in Clusters
    OBVIOUS
  <2>2. QED
    BY <1>2, <1>3, <2>1 DEF Vol, PlaceInv, StepInv
<1>7. CASE ncl = 0
  <2>0. /\ fp' \in FIL /\ fp'.fsize = fp.fptr /\ fp'.written = TRUE /\ pc' = "open" /\ res' = "full"
        /\ fp'.name = fp.name /\ fp'.org = fp.org /\ fp'.curr = fp.curr /\ fp'.csect = fp.csect
        /\ fp'.fptr = fp.fptr /\ fp'.fptr \in Nat /\ ~Pending
    BY <1>3, <1>7 DEF FIL, WriteGot, Return, Pending
  <2>1. TypeInv'
    BY <1>1, <1>3, <2>0 DEF IInv, TypeInv, OpenPcs, WritePcs
  <2>2. OwnInv(own)'
    BY <1>1, <1>2, <1>3, <2>0 DEF Vol, OwnInv, OpenPcs, WritePcs
  <2>3. PlaceInv(own)'
    BY <1>2, <1>3, <1>6, <2>0 DEF Vol, PlaceInv, OpenPcs, WritePcs, Pending
  <2>4. StepInv(cs, own)'
    BY <2>0 DEF StepInv, WritePcs, Pending
  <2>5. DataInv(cs, own)'
    BY <1>1, <1>2, <1>3, <1>5, <2>0 DEF Vol, DataInv, OpenPcs, WritePcs
  <2>6. CountInv(cs, own)'
    BY <1>1, <1>2, <1>3, <2>0 DEF Vol, CountInv, OpenPcs, WritePcs, Outside
  <2>7. SearchInv'
    BY <2>0 DEF SearchInv
  <2>8. Vol(cs, own)'
    BY <1>1, <1>2, <2>2, <2>3, <2>4, <2>5, <2>6 DEF Vol
  <2>9. QED
    BY <1>4, <2>1, <2>7, <2>8 DEF IInv, VolInv
<1>8. CASE ncl # 0 /\ ncl \notin Clusters
  <2>0. /\ fp' \in FIL /\ pc' = "open" /\ res' \in {"FR_INT_ERR", "FR_DISK_ERR"}
        /\ fp'.org = IF clst = 0 THEN ncl ELSE fp.org
        /\ fp'.name = fp.name /\ fp'.curr = fp.curr /\ fp'.csect = fp.csect /\ fp'.fsize = fp.fsize
        /\ fp'.fptr = fp.fptr /\ fp'.fptr \in Nat /\ ~Pending /\ fp'.written = fp.written
    BY <1>3, <1>8 DEF FIL, WriteGot, Return, Pending
  <2>1. TypeInv'
    BY <1>1, <1>3, <2>0 DEF IInv, TypeInv, OpenPcs, WritePcs
  <2>2. OwnInv(own)'
    BY <1>1, <1>2, <1>3, <2>0 DEF Vol, OwnInv, OpenPcs, WritePcs
  <2>3. PlaceInv(own)'
    BY <1>2, <1>3, <1>6, <1>8, <2>0 DEF Vol, PlaceInv, OpenPcs, WritePcs, Pending
  <2>4. StepInv(cs, own)'
    BY <2>0 DEF StepInv, WritePcs, Pending
  <2>5. DataInv(cs, own)'
    BY <1>1, <1>2, <1>3, <1>5, <2>0 DEF Vol, DataInv, OpenPcs, WritePcs
  <2>6. CountInv(cs, own)'
    BY <1>1, <1>2, <1>3, <1>8, <2>0 DEF Vol, CountInv, OpenPcs, WritePcs, Outside
  <2>7. SearchInv'
    BY <2>0 DEF SearchInv
  <2>8. Vol(cs, own)'
    BY <1>1, <1>2, <2>2, <2>3, <2>4, <2>5, <2>6 DEF Vol
  <2>9. QED
    BY <1>4, <2>1, <2>7, <2>8 DEF IInv, VolInv
<1>9. CASE ncl \in Clusters
  <2>0. /\ fp' \in FIL /\ pc' = "data" /\ res' = res
        /\ fp'.org = (IF clst = 0 THEN ncl ELSE fp.org) /\ fp'.curr = ncl /\ fp'.csect = 0
        /\ fp'.name = fp.name /\ fp'.fsize = fp.fsize
        /\ fp'.fptr = fp.fptr /\ fp'.fptr \in Nat /\ Pending /\ fp'.written = fp.written
    <3> DEFINE org == IF clst = 0 THEN ncl ELSE fp.org
    <3>1. ncl # 0 /\ org \in Nat
      BY <1>3, <1>9 DEF FIL
    <3>2. fp' = [fp EXCEPT !.org = org, !.curr = ncl, !.csect = 0] /\ pc' = "data" /\ res' = res
      BY <1>9, <3>1 DEF WriteGot
    <3> HIDE DEF org
    <3>3. /\ fp' \in FIL /\ fp'.org = org /\ fp'.curr = ncl /\ fp'.csect = 0
          /\ fp'.name = fp.name /\ fp'.fsize = fp.fsize
          /\ fp'.fptr = fp.fptr /\ fp'.fptr \in Nat /\ fp'.written = fp.written
      BY <1>3, <3>1, <3>2 DEF FIL
    <3>4. QED
      BY <1>3, <1>9, <3>2, <3>3 DEF org, Pending
  <2>1. TypeInv'
    BY <1>1, <1>3, <2>0 DEF IInv, TypeInv, OpenPcs, WritePcs
  <2>2. OwnInv(own)'
    BY <1>1, <1>2, <1>3, <2>0 DEF Vol, OwnInv, OpenPcs, WritePcs
  <2>3. PlaceInv(own)'
    <3>1. /\ own # <<>> /\ own[Len(own)] = ncl /\ fp.fptr = csize * (Len(own) - 1)
          /\ clst = 0 => own[1] = ncl
          /\ clst # 0 => own[1] = fp.org
      BY <1>2, <1>3, <2>0 DEF Vol, PlaceInv
    <3>2. fp'.fptr = csize * (Len(own) - 1) + fp'.csect
      BY <2>0, <3>1
    <3>3. QED
      BY <2>0, <3>1, <3>2 DEF PlaceInv, OpenPcs, WritePcs, Pending
  <2>4. StepInv(cs, own)'
    <3>1. own # <<>>
      BY <1>2, <1>3, <2>0 DEF Vol, PlaceInv
    <3>2. btw > 0
      BY <1>2, <1>3 DEF Vol, StepInv
    <3>3. QED
      BY <1>3, <2>0, <3>1, <3>2 DEF StepInv, WritePcs, Pending
  <2>5. DataInv(cs, own)'
    BY <1>1, <1>2, <1>3, <1>5, <2>0 DEF Vol, DataInv, OpenPcs, WritePcs
  <2>6. CountInv(cs, own)'
    BY <1>1, <1>2, <1>3, <1>9, <2>0 DEF Vol, CountInv, OpenPcs, WritePcs, Outside
  <2>7. SearchInv'
    BY <2>0 DEF SearchInv
  <2>8. Vol(cs, own)'
    BY <1>1, <1>2, <2>2, <2>3, <2>4, <2>5, <2>6 DEF Vol
  <2>9. QED
    BY <1>4, <2>1, <2>7, <2>8 DEF IInv, VolInv
<1>10. QED
  BY <1>7, <1>8, <1>9

(* f_close.                                                                *)
LEMMA CloseStep ==
    ASSUME IInv, f_close
    PROVE  IInv'
<1> USE Numbers
<1>1. Fat' = Fat /\ Root' = Root /\ CardMoves
  BY DEF f_close, Fat, Root, diskVars, CardMoves
<1>2. PICK cs \in [Files -> Seq(Clusters)], own \in Seq(Clusters) : Vol(cs, own)
  BY DEF IInv, VolInv
<1>3. /\ pc = "open" /\ pc' = "sync" /\ pc \in OpenPcs
      /\ UNCHANGED <<fat, fat2, dir, data, fsinfo, win, free_clust, last_clust, fsi_flag, btw, fp, res,
                     clst, scl, ncl, opens, writes, faults, crashes, promise>>
  BY <1>2 DEF f_close, Vol, OwnInv, OpenPcs, diskVars, fsVars, bounds, locals
<1>4. CardInv'
  BY <1>1, <1>2, CardStep DEF IInv, Vol
<1>5. TypeInv'
  BY <1>1, <1>3 DEF IInv, TypeInv, OpenPcs, WritePcs
<1>6. OwnInv(own)'
  BY <1>1, <1>2, <1>3 DEF Vol, OwnInv, OpenPcs, WritePcs
<1>7. PlaceInv(own)'
  BY <1>2, <1>3 DEF Vol, PlaceInv, OpenPcs, WritePcs, Pending
<1>8. StepInv(cs, own)'
  BY <1>3 DEF StepInv, WritePcs, Pending
<1>9. DataInv(cs, own)'
  <2>1. Promises(cs)'
    BY <1>1, <1>2, <1>3, PromiseStep DEF Vol, DataInv
  <2>2. QED
    BY <1>1, <1>2, <1>3, <2>1 DEF Vol, DataInv, OpenPcs, WritePcs
<1>10. CountInv(cs, own)'
  BY <1>1, <1>2, <1>3 DEF Vol, CountInv, OpenPcs, WritePcs, Outside
<1>11. SearchInv'
  BY <1>3 DEF SearchInv
<1>12. Vol(cs, own)'
  BY <1>1, <1>2, <1>6, <1>7, <1>8, <1>9, <1>10 DEF Vol
<1>13. QED
  BY <1>4, <1>5, <1>11, <1>12 DEF IInv, VolInv

(* A step that changes nothing.                                            *)
LEMMA StutterStep ==
    ASSUME IInv, UNCHANGED vars
    PROVE  IInv'
<1> USE DEF vars, diskVars, fsVars, locals, bounds
<1>1. Fat' = Fat /\ Root' = Root
  BY DEF Fat, Root
<1>2. TypeInv' /\ CardInv' /\ SearchInv'
  BY <1>1 DEF IInv, TypeInv, CardInv, SearchInv, Seen, WinOK
<1>3. PICK cs \in [Files -> Seq(Clusters)], own \in Seq(Clusters) : Vol(cs, own)
  BY DEF IInv, VolInv
<1>4. OwnInv(own)' /\ PlaceInv(own)' /\ StepInv(cs, own)'
  BY <1>1, <1>3 DEF Vol, OwnInv, PlaceInv, StepInv, Pending, Outside
<1>5. DataInv(cs, own)' /\ CountInv(cs, own)'
  BY <1>1, <1>3 DEF Vol, DataInv, CountInv, Promises
<1>6. Vol(cs, own)'
  BY <1>1, <1>3, <1>4, <1>5 DEF Vol
<1>7. QED
  BY <1>2, <1>6 DEF IInv, VolInv

(* The n-th sector of a chain is in one of its clusters.                   *)
LEMMA Grow ==
    ASSUME NEW a \in Int, NEW b \in Int, a <= b
    PROVE  csize * a <= csize * b /\ csize * a \in Int /\ csize * b \in Int
BY Numbers

(* A sector of the file is a sector of one of its clusters.                *)
LEMMA Place ==
    ASSUME NEW i \in Nat
    PROVE  /\ i = csize * (i \div csize) + (i % csize)
           /\ (i % csize) \in 0 .. csize - 1 /\ (i \div csize) \in Nat
BY Numbers

(* A sector within l clusters is in one of them.                           *)
LEMMA PlaceIn ==
    ASSUME NEW l \in Nat, NEW i \in Nat, i < csize * l
    PROVE  (i \div csize) + 1 \in 1 .. l
<1> DEFINE q == i \div csize
           r == i % csize
<1>1. i = csize * q + r /\ r \in 0 .. csize - 1 /\ q \in Nat
  BY Place
<1> HIDE DEF q, r
<1>2. SUFFICES ASSUME l <= q PROVE FALSE
  BY <1>1 DEF q
<1>3. csize * l <= csize * q /\ csize * l \in Int /\ csize * q \in Int
  BY <1>1, <1>2, Grow
<1>4. r \in Int /\ r >= 0
  BY <1>1, Numbers
<1>5. QED
  BY <1>1, <1>3, <1>4

(* What a write of k sectors from sector a of cluster c leaves, where n is *)
(* the first one's number in the file.                                     *)
Filled(body, c, a, k, n, tag) ==
    [body EXCEPT ![c] = [x \in 0 .. csize - 1 |->
        IF x - a \in 0 .. k - 1 THEN <<tag, n + x - a>> ELSE @[x]]]

(* Sums.                                                                   *)
LEMMA Sums ==
    ASSUME NEW z \in Int, NEW a \in Int, NEW x \in Int, NEW n \in Int, NEW i \in Int,
           n = z + a, i = z + x
    PROVE  n + x - a = i /\ (i < n => x < a) /\ (i >= n => x >= a)
           /\ \A k \in Int : i < n + k => x - a < k
OBVIOUS

(* Sectors in all clusters of a chain but the last.                        *)
Base(s) == csize * (Len(s) - 1)

(* The sectors written behind the end of a chain's data become its data,   *)
(* ...                                                                     *)
LEMMA KeptGrow ==
    ASSUME NEW body \in [Clusters -> [0 .. csize - 1 -> Int \X Int]],
           NEW s \in Seq(Clusters), s # <<>>, \A i, j \in 1 .. Len(s) : s[i] = s[j] => i = j,
           NEW a \in Nat, NEW k \in Nat, a + k <= csize, NEW m \in 0 .. k, NEW tag \in Int,
           NEW n \in Int, n = Base(s) + a, Kept(body, s, n, tag),
           NEW b, b = Filled(body, s[Len(s)], a, k, n, tag)
    PROVE  Kept(b, s, n + m, tag)
<1> DEFINE l == Len(s)
           z == Base(s)
<1>1. l \in Nat /\ l >= 1 /\ l \in 1 .. l /\ csize \in Nat /\ m \in Int /\ m >= 0 /\ m <= k
  BY Numbers
<1>2. s[l] \in Clusters
  BY <1>1
<1>3. \A c \in Clusters \ {s[l]} : b[c] = body[c]
  BY <1>2 DEF Filled
<1>4. \A x \in 0 .. csize - 1 :
          b[s[l]][x] = IF x - a \in 0 .. k - 1 THEN <<tag, n + x - a>> ELSE body[s[l]][x]
  BY <1>2 DEF Filled
<1>5. z \in Int /\ csize * l = z + csize
  BY <1>1 DEF Base
<1> DEFINE w == csize * l
<1> HIDE DEF l, z
<1>6. PICK nm \in Int : nm = n + m
  OBVIOUS
<1>7. w = z + csize /\ w \in Int
  BY <1>1, <1>5
<1> HIDE DEF w
<1>8. z \in Int /\ n = z + a /\ n \in Int /\ nm \in Int /\ nm <= w /\ nm <= n + k
  <2>1. n = z + a
    BY DEF z
  <2>2. QED
    <3>1. nm <= n + k
      BY <1>1, <1>6
    <3>2. n + k <= w
      BY <1>1, <1>5, <1>7, <2>1
    <3>3. nm <= w
      BY <1>7, <3>1, <3>2
    <3>4. QED
      BY <1>5, <2>1, <3>1, <3>3
<1>9. ASSUME NEW i \in 0 .. nm - 1
      PROVE  b[s[(i \div csize) + 1]][i % csize] = <<tag, i>>
  <2> DEFINE q == i \div csize
             r == i % csize
  <2>1. i \in Nat /\ i < nm /\ i < w
    BY <1>7, <1>8
  <2>2. i = csize * q + r /\ r \in 0 .. csize - 1 /\ q \in Nat
    BY <2>1, Place
  <2>3. q + 1 \in 1 .. l
    BY <1>1, <2>1, PlaceIn DEF w
  <2>4. i < n => body[s[q + 1]][r] = <<tag, i>>
    <3>1. i < n => i \in 0 .. n - 1
      BY <1>8, <2>1
    <3>2. QED
      BY <3>1 DEF Kept
  <2> SUFFICES b[s[q + 1]][r] = <<tag, i>>
    OBVIOUS
  <2> HIDE DEF q, r
  <2>5. r \in Int /\ r >= 0 /\ r < csize
    BY <1>1, <2>2
  <2>6. CASE q + 1 = l
    <3>1. i = z + r
      <4>1. q = l - 1
        BY <1>1, <2>2, <2>6
      <4>2. QED
        BY <2>2, <4>1 DEF z, l, Base
    <3>2. CASE i < n
      <4>1. r < a
        BY <1>5, <1>8, <2>5, <3>1, <3>2
      <4>2. ~(r - a \in 0 .. k - 1)
        BY <2>5, <4>1
      <4>3. b[s[l]][r] = body[s[l]][r]
        BY <1>4, <2>2, <4>2
      <4>4. body[s[q + 1]][r] = <<tag, i>>
        BY <2>4, <3>2
      <4>5. QED
        BY <2>6, <4>3, <4>4, Zenon
    <3>3. CASE i >= n
      <4>1. r >= a /\ r - a < k
        <5>1. r >= a /\ \A x \in Int : i < n + x => r - a < x
          BY <1>5, <1>8, <2>1, <2>5, <3>1, <3>3, Sums
        <5>2. i < n + k
          BY <1>8, <2>1
        <5>3. QED
          BY <5>1, <5>2
      <4>2. r - a \in 0 .. k - 1
        BY <2>5, <4>1
      <4>3. n + r - a = i
        <5>1. z \in Int /\ a \in Int /\ r \in Int /\ i \in Int
          BY <1>8, <2>1, <2>5
        <5>2. n = z + a /\ i = z + r
          BY <1>8, <3>1, Zenon
        <5>3. QED
          <6> HIDE <1>1
          <6>1. PICK t \in Int : t = z
            BY <5>1
          <6>2. PICK j \in Int : j = i
            BY <5>1
          <6>3. PICK p \in Int : p = n
            OBVIOUS
          <6>4. p = t + a /\ j = t + r
            BY <5>2, <6>1, <6>2, <6>3, Zenon
          <6>5. p + r - a = j
            BY <5>1, <6>4
          <6>6. QED
            BY <6>2, <6>3, <6>5, Zenon
      <4>4. b[s[l]][r] = <<tag, n + r - a>>
        BY <1>4, <2>2, <4>2
      <4>5. QED
        BY <2>6, <4>3, <4>4, Zenon
    <3>4. i < n \/ i >= n
      BY <1>8, <2>1
    <3>5. QED
      BY <3>2, <3>3, <3>4, Zenon
  <2>7. CASE q + 1 # l
    <3>1. s[q + 1] # s[l] /\ s[q + 1] \in Clusters
      BY <1>1, <2>3, <2>7 DEF l
    <3>2. i < n
      <4>1. q + 1 <= l - 1 /\ q + 1 \in Int /\ l - 1 \in Int
        BY <1>1, <2>2, <2>3, <2>7
      <4>2. csize * (q + 1) <= z
        BY <4>1, Grow DEF z, l, Base
      <4>3. csize * (q + 1) = csize * q + csize /\ csize * q \in Int
        BY <1>1, <2>2
      <4>4. QED
        BY <1>1, <1>5, <1>8, <2>2, <2>5, <4>2, <4>3
    <3>3. QED
      BY <1>3, <2>4, <3>1, <3>2
  <2>8. QED
    BY <2>6, <2>7
<1>10. Kept(b, s, nm, tag)
  <2>1. nm <= csize * Len(s)
    BY <1>8 DEF w, l
  <2>2. QED
    BY <1>9, <2>1, Zenon DEF Kept
<1>11. QED
  BY <1>6, <1>10

(* ... and nothing changes for the others.                                 *)
LEMMA KeptOther ==
    ASSUME NEW body, NEW s \in Seq(Clusters), NEW n \in Int, NEW tag, Kept(body, s, n, tag),
           NEW c, \A i \in 1 .. Len(s) : s[i] # c,
           NEW b, \A x \in Clusters \ {c} : b[x] = body[x]
    PROVE  Kept(b, s, n, tag)
<1>1. ASSUME NEW i \in 0 .. n - 1 PROVE b[s[(i \div csize) + 1]][i % csize] = <<tag, i>>
  <2>1. i \in Nat /\ i < csize * Len(s) /\ Len(s) \in Nat
    <3>1. n <= csize * Len(s) /\ csize * Len(s) \in Int
      BY Numbers DEF Kept
    <3>2. QED
      BY <3>1
  <2> DEFINE q == (i \div csize) + 1
  <2>2. q \in 1 .. Len(s)
    BY <2>1, PlaceIn
  <2>3. body[s[q]][i % csize] = <<tag, i>>
    BY DEF Kept
  <2> HIDE DEF q
  <2>4. s[q] \in Clusters \ {c}
    BY <2>2
  <2>5. QED
    BY <2>3, <2>4 DEF q
<1>2. QED
  BY <1>1 DEF Kept

(* f_write: the sectors.                                                   *)
LEMMA DataStep ==
    ASSUME IInv, NEW k \in 0 .. csize, NEW ok \in BOOLEAN, WriteData(k, ok)
    PROVE  IInv'
<1> USE Numbers
<1>1. /\ pc = "data" /\ UNCHANGED <<fat, fat2, dir, fsinfo, win, free_clust, last_clust, fsi_flag,
                                    clst, scl, ncl, opens, writes, crashes, promise>>
      /\ pc \in OpenPcs /\ ~Pending
  BY DEF WriteData, fsVars, locals, OpenPcs, WritePcs, Pending
<1>2. Fat' = Fat /\ Root' = Root /\ CardMoves
  BY <1>1 DEF Fat, Root, CardMoves
<1>3. PICK cs \in [Files -> Seq(Clusters)], own \in Seq(Clusters) : Vol(cs, own)
  BY DEF IInv, VolInv
<1>4. /\ fp \in FIL /\ fp.csect \in Nat /\ fp.fptr \in Nat /\ btw \in Nat /\ opens \in Int /\ faults \in Nat
      /\ data \in [Clusters -> [0 .. csize - 1 -> Int \X Int]]
  <2>1. /\ fp \in FIL /\ btw \in Nat /\ opens \in Nat /\ faults \in Nat
        /\ data \in [Clusters -> [0 .. csize - 1 -> Int \X Int]]
    BY Zenon DEF IInv, TypeInv
  <2>2. fp.csect \in Nat /\ fp.fptr \in Nat
    BY <2>1, Zenon DEF FIL
  <2>3. opens \in Int
    BY <2>1
  <2>4. QED
    BY <2>1, <2>2, <2>3, Zenon
<1>5. /\ own # <<>> /\ fp.curr = own[Len(own)] /\ fp.csect < csize /\ btw > 0
      /\ fp.fptr = csize * (Len(own) - 1) + fp.csect /\ own[1] = fp.org
  BY <1>1, <1>3 DEF Vol, PlaceInv, StepInv, WritePcs
<1>6. /\ own[Len(own)] \in Clusters /\ Len(own) \in Nat /\ Len(own) \in 1 .. Len(own)
      /\ \A i, j \in 1 .. Len(own) : own[i] = own[j] => i = j
  <2>1. Linked(own, Fat)
    BY <1>3 DEF Vol, Sound
  <2>2. QED
    BY <1>5, <2>1 DEF Linked
<1> DEFINE cc == IF btw < csize - fp.csect THEN btw ELSE csize - fp.csect
<1>7. /\ k \in 0 .. cc /\ (ok => k = cc) /\ (ok \/ faults < MaxFaults)
      /\ data' = [data EXCEPT ![fp.curr] = [s \in 0 .. csize - 1 |->
                        IF s - fp.csect \in 0 .. k - 1
                        THEN <<opens, fp.fptr + s - fp.csect>> ELSE @[s]]]
      /\ ok => /\ faults' = faults /\ btw' = btw - cc /\ pc' = "next" /\ UNCHANGED res
               /\ fp' = [fp EXCEPT !.csect = @ + cc, !.fptr = @ + cc]
      /\ ~ok => faults' = faults + 1 /\ Return("FR_DISK_ERR", "open") /\ UNCHANGED <<fp, btw>>
  BY Zenon DEF WriteData
<1>8. cc \in Nat /\ cc >= 1 /\ fp.csect + cc <= csize /\ cc <= btw /\ k \in Nat /\ k <= cc
  <2>1. cc \in Nat /\ cc >= 1 /\ fp.csect + cc <= csize /\ cc <= btw
    <3>1. fp.csect \in Nat /\ btw \in Nat /\ fp.csect < csize /\ btw > 0
      BY <1>4, <1>5, Zenon
    <3>2. QED
      BY <3>1
  <2> HIDE DEF cc
  <2>2. k \in 0 .. cc
    BY <1>7
  <2>3. QED
    BY <2>1, <2>2
<1> HIDE DEF cc
<1>9. data' \in [Clusters -> [0 .. csize - 1 -> Int \X Int]]
  <2>1. fp.curr \in Clusters
    BY <1>5, <1>6
  <2>2. ASSUME NEW s \in 0 .. csize - 1
        PROVE  (IF s - fp.csect \in 0 .. k - 1 THEN <<opens, fp.fptr + s - fp.csect>> ELSE data[fp.curr][s])
                   \in Int \X Int
    <3>0. s \in Int /\ fp.fptr \in Int /\ fp.csect \in Int
      <4>1. s \in Int
        OBVIOUS
      <4>2. QED
        BY <1>4, <4>1
    <3>1. fp.fptr + s - fp.csect \in Int
      BY <3>0
    <3>2. data[fp.curr][s] \in Int \X Int
      <4>1. data[fp.curr] \in [0 .. csize - 1 -> Int \X Int]
        BY <1>4, <2>1
      <4>2. QED
        BY <4>1, Zenon
    <3>3. opens \in Int
      BY <1>4
    <3> HIDE <1>4
    <3>4. QED
      BY <3>1, <3>2, <3>3
  <2>3. QED
    BY <1>4, <1>7, <2>1, <2>2
<1>10. \A c \in Clusters \ {own[Len(own)]} : data'[c] = data[c]
  BY <1>4, <1>5, <1>7
<1>11. Kept(data, own, fp.fptr, opens)
  BY <1>1, <1>3 DEF Vol, DataInv
<1>12. ASSUME NEW m \in 0 .. k PROVE Kept(data', own, fp.fptr + m, opens)
  <2>1. fp.csect + k <= csize
    BY <1>4, <1>8
  <2>2. PICK n : n = fp.fptr
    OBVIOUS
  <2>3. PICK a : a = fp.csect
    OBVIOUS
  <2>4. PICK tag : tag = opens
    OBVIOUS
  <2>5. PICK b : b = data'
    OBVIOUS
  <2>6. PICK body : body = data
    OBVIOUS
  <2>7. b = Filled(body, own[Len(own)], a, k, n, tag)
    BY <1>5, <1>7, <2>2, <2>3, <2>4, <2>5, <2>6 DEF Filled
  <2>8. /\ n \in Int /\ n = Base(own) + a /\ Kept(body, own, n, tag) /\ a \in Nat /\ tag \in Int
        /\ a + k <= csize /\ body \in [Clusters -> [0 .. csize - 1 -> Int \X Int]]
    <3>1. n = Base(own) + a
      BY <1>5, <2>2, <2>3 DEF Base
    <3>2. n \in Int /\ a \in Nat /\ tag \in Int /\ a + k <= csize
      BY <1>4, <2>1, <2>2, <2>3, <2>4
    <3>3. Kept(body, own, n, tag) /\ body \in [Clusters -> [0 .. csize - 1 -> Int \X Int]]
      BY <1>4, <1>11, <2>2, <2>4, <2>6
    <3>4. QED
      BY <3>1, <3>2, <3>3
  <2>9. Kept(b, own, n + m, tag)
    BY <1>5, <1>6, <1>8, <2>7, <2>8, KeptGrow
  <2>10. QED
    BY <2>2, <2>4, <2>5, <2>9
<1>13. Promises(cs)'
  <2>1. SUFFICES ASSUME NEW f \in Files, promise'[f].size # Unknown
                 PROVE  /\ Linked(cs[f], fat') /\ Root'[f] = dir'[f] /\ dir'[f].size = promise'[f].size
                        /\ Kept(data', cs[f], promise'[f].size, promise'[f].open)
    BY DEF Promises
  <2>2. /\ Linked(cs[f], fat) /\ Root[f] = dir[f] /\ dir[f].size = promise[f].size
        /\ Kept(data, cs[f], promise[f].size, promise[f].open)
    BY <1>1, <1>3, <2>1 DEF Vol, DataInv, Promises
  <2>3. promise[f].size \in Int /\ cs[f] \in Seq(Clusters)
    BY DEF IInv, TypeInv
  <2>4. \A i \in 1 .. Len(cs[f]) : cs[f][i] # own[Len(own)]
    BY <1>3, <1>6 DEF Vol, Sound
  <2>5. Kept(data', cs[f], promise[f].size, promise[f].open)
    BY <1>10, <2>2, <2>3, <2>4, KeptOther
  <2>6. QED
    BY <1>1, <1>2, <2>2, <2>5
<1>14. CardInv'
  BY <1>2, <1>3, CardStep DEF IInv, Vol
<1>15. CASE ok
  <2>0. /\ fp' \in FIL /\ fp'.fsize = fp.fsize /\ fp'.written = fp.written /\ pc' = "next" /\ res' = res
        /\ fp'.name = fp.name /\ fp'.org = fp.org /\ fp'.curr = fp.curr /\ fp'.csect = fp.csect + cc
        /\ fp'.fptr = fp.fptr + cc /\ fp'.fptr \in Nat /\ fp.fsize \in Nat /\ faults' = faults
        /\ btw' \in Nat /\ k = cc
    <3>1. /\ faults' = faults /\ btw' = btw - cc /\ pc' = "next" /\ res' = res /\ k = cc
          /\ fp' = [fp EXCEPT !.csect = @ + cc, !.fptr = @ + cc]
      BY <1>7, <1>15
    <3>2. fp.csect + cc \in Nat /\ fp.fptr + cc \in Nat /\ btw - cc \in Nat
      BY <1>4, <1>8
    <3>3. QED
      BY <1>4, <3>1, <3>2 DEF FIL
  <2>1. TypeInv'
    BY <1>1, <1>9, <2>0 DEF IInv, TypeInv, OpenPcs, WritePcs
  <2>2. OwnInv(own)'
    <3>1. fp.written /\ fp.fsize <= fp.fptr /\ res = "FR_OK" /\ Root[fp.name].start = 0
      BY <1>1, <1>3 DEF Vol, OwnInv, WritePcs
    <3>2. fp'.fsize <= fp'.fptr
      BY <1>4, <1>8, <2>0, <3>1
    <3>3. QED
      BY <1>2, <2>0, <3>1, <3>2 DEF OwnInv, OpenPcs, WritePcs
  <2>3. PlaceInv(own)'
    <3>1. fp'.fptr = csize * (Len(own) - 1) + fp'.csect
      <4>1. Len(own) - 1 \in Int
        BY <1>6
      <4>2. PICK b \in Int : b = csize * (Len(own) - 1)
        BY <4>1
      <4>3. fp.fptr = b + fp.csect /\ fp'.fptr = fp.fptr + cc /\ fp'.csect = fp.csect + cc
        BY <1>5, <2>0, <4>2, Zenon
      <4>4. fp.csect \in Int /\ cc \in Int
        BY <1>4, <1>8
      <4>5. fp'.fptr = b + fp'.csect
        BY <4>3, <4>4
      <4>6. QED
        BY <4>2, <4>5, Zenon
    <3>2. fp'.csect \in 0 .. csize /\ fp'.fptr > 0
      <4>1. /\ fp'.csect = fp.csect + cc /\ fp'.fptr = fp.fptr + cc /\ fp.csect \in Nat
            /\ fp.fptr \in Nat /\ cc \in Nat /\ cc >= 1 /\ fp.csect + cc <= csize
        BY <1>4, <1>8, <2>0, Zenon
      <4>2. QED
        BY <4>1
    <3>3. QED
      BY <1>5, <2>0, <3>1, <3>2 DEF PlaceInv, OpenPcs, WritePcs, Pending
  <2>4. StepInv(cs, own)'
    BY <2>0 DEF StepInv, WritePcs, Pending
  <2>5. DataInv(cs, own)'
    <3>1. Kept(data', own, fp'.fptr, opens')
      <4>1. k \in 0 .. k
        BY <1>8
      <4>2. QED
        BY <1>1, <1>12, <2>0, <4>1
    <3>2. promise[fp.name].size = Unknown
      BY <1>1, <1>3 DEF Vol, DataInv
    <3>3. QED
      BY <1>1, <1>13, <2>0, <3>1, <3>2 DEF DataInv, OpenPcs, WritePcs
  <2>6. CountInv(cs, own)'
    BY <1>1, <1>2, <1>3, <2>0 DEF Vol, CountInv, OpenPcs, WritePcs, Outside
  <2>7. SearchInv'
    BY <2>0 DEF SearchInv
  <2>8. Vol(cs, own)'
    BY <1>2, <1>3, <2>2, <2>3, <2>4, <2>5, <2>6 DEF Vol
  <2>9. QED
    BY <1>14, <2>1, <2>7, <2>8 DEF IInv, VolInv
<1>16. CASE ~ok
  <2>0. /\ fp' = fp /\ pc' = "open" /\ res' = "FR_DISK_ERR" /\ faults' = faults + 1 /\ btw' = btw
        /\ faults' # 0 /\ faults' \in Nat
    <3>1. faults' = faults + 1 /\ Return("FR_DISK_ERR", "open") /\ UNCHANGED <<fp, btw>>
      BY <1>7, <1>16, Zenon
    <3>2. fp' = fp /\ pc' = "open" /\ res' = "FR_DISK_ERR" /\ btw' = btw
      BY <3>1, Zenon DEF Return
    <3>3. faults \in Nat
      BY <1>4, Zenon
    <3>4. faults' # 0 /\ faults' \in Nat
      BY <3>1, <3>3
    <3>5. QED
      BY <3>1, <3>2, <3>4, Zenon
  <2>1. TypeInv'
    BY <1>1, <1>9, <2>0 DEF IInv, TypeInv, OpenPcs, WritePcs
  <2>2. OwnInv(own)'
    BY <1>1, <1>2, <1>3, <2>0 DEF Vol, OwnInv, OpenPcs, WritePcs
  <2>3. PlaceInv(own)'
    BY <1>1, <1>3, <1>5, <2>0 DEF Vol, PlaceInv, OpenPcs, WritePcs, Pending
  <2>4. StepInv(cs, own)'
    BY <2>0 DEF StepInv, WritePcs, Pending
  <2>5. DataInv(cs, own)'
    <3>1. Kept(data', own, fp.fptr, opens)
      <4>1. 0 \in 0 .. k /\ fp.fptr + 0 = fp.fptr
        BY <1>4, <1>8
      <4>2. QED
        BY <1>12, <4>1
    <3>2. promise[fp.name].size = Unknown
      BY <1>1, <1>3 DEF Vol, DataInv
    <3>3. QED
      BY <1>1, <1>13, <2>0, <3>1, <3>2 DEF DataInv, OpenPcs, WritePcs
  <2>6. CountInv(cs, own)'
    BY <2>0 DEF CountInv
  <2>7. SearchInv'
    BY <2>0 DEF SearchInv
  <2>8. Vol(cs, own)'
    BY <1>2, <1>3, <2>2, <2>3, <2>4, <2>5, <2>6 DEF Vol
  <2>9. QED
    BY <1>14, <2>1, <2>7, <2>8 DEF IInv, VolInv
<1>17. QED
  BY <1>15, <1>16
-----------------------------------------------------------------------------
(* A chain is determined by its first cluster.                             *)
LEMMA ChainUnique ==
    ASSUME NEW t, NEW s \in Seq(Clusters), NEW r \in Seq(Clusters), Linked(s, t), Linked(r, t),
           s # <<>>, r # <<>>, s[1] = r[1]
    PROVE  s = r
<1>1. /\ Len(s) \in Nat /\ Len(s) >= 1 /\ Len(r) \in Nat /\ Len(r) >= 1
      /\ \A i \in 1 .. Len(s) : s[i] \in Clusters
      /\ \A i \in 1 .. Len(r) : r[i] \in Clusters
  OBVIOUS
<1>2. \A i \in 1 .. Len(s) : i \in 1 .. Len(r) => s[i] = r[i]
  <2> DEFINE S == {i \in 1 .. Len(s) : i \in 1 .. Len(r) /\ s[i] # r[i]}
  <2>1. SUFFICES ASSUME S # {} PROVE FALSE
    OBVIOUS
  <2>2. PICK n \in S : \A m \in S : n <= m
    <3>1. S \in SUBSET Nat
      OBVIOUS
    <3> HIDE DEF S
    <3>2. QED
      BY <2>1, <3>1, Least
  <2>3. /\ n \in 1 .. Len(s) /\ n \in 1 .. Len(r) /\ s[n] # r[n] /\ n # 1
        /\ n - 1 \in 1 .. Len(s) /\ n - 1 \in 1 .. Len(r) /\ n - 1 # Len(s) /\ n - 1 # Len(r)
        /\ n - 1 + 1 = n
    BY <1>1
  <2>4. s[n - 1] = r[n - 1]
    <3>1. n - 1 \notin S
      BY <2>2, <2>3
    <3>2. QED
      BY <2>3, <3>1
  <2>5. t[s[n - 1]] = s[n] /\ t[r[n - 1]] = r[n]
    BY <2>3 DEF Linked
  <2>6. QED
    BY <2>3, <2>4, <2>5
<1>3. Len(s) = Len(r)
  <2>1. ASSUME Len(s) < Len(r) PROVE FALSE
    <3>1. Len(s) \in 1 .. Len(s) /\ Len(s) \in 1 .. Len(r) /\ Len(s) + 1 \in 1 .. Len(r) /\ Len(s) # Len(r)
      BY <1>1, <2>1
    <3>2. t[s[Len(s)]] = EOC /\ t[r[Len(s)]] = r[Len(s) + 1]
      BY <3>1 DEF Linked
    <3>3. QED
      BY <1>1, <1>2, <3>1, <3>2, Numbers
  <2>2. ASSUME Len(r) < Len(s) PROVE FALSE
    <3>1. Len(r) \in 1 .. Len(r) /\ Len(r) \in 1 .. Len(s) /\ Len(r) + 1 \in 1 .. Len(s) /\ Len(s) # Len(r)
      BY <1>1, <2>2
    <3>2. t[r[Len(r)]] = EOC /\ t[s[Len(r)]] = s[Len(r) + 1]
      BY <3>1 DEF Linked
    <3>3. QED
      BY <1>1, <1>2, <3>1, <3>2, Numbers
  <2>3. QED
    BY <1>1, <2>1, <2>2
<1>4. QED
  BY <1>1, <1>2, <1>3

(* Fewer sectors of a chain are kept as well.                              *)
LEMMA KeptLess ==
    ASSUME NEW body, NEW s \in Seq(Clusters), NEW n \in Int, NEW m \in Int, m <= n, NEW tag,
           Kept(body, s, n, tag)
    PROVE  Kept(body, s, m, tag)
<1>1. n <= csize * Len(s) /\ csize * Len(s) \in Int
  BY Numbers DEF Kept
<1>2. m <= csize * Len(s)
  BY <1>1
<1>3. 0 .. m - 1 \subseteq 0 .. n - 1
  OBVIOUS
<1>4. \A i \in 0 .. n - 1 : body[s[(i \div csize) + 1]][i % csize] = <<tag, i>>
  BY DEF Kept
<1>5. QED
  BY <1>2, <1>3, <1>4, Zenon DEF Kept

(* The count of free clusters follows an entry that is cleared or set.     *)
LEMMA Free ==
    ASSUME NEW t \in [Entries -> Links], NEW c \in Clusters, NEW v
    PROVE  /\ FreeOn(t) \in Nat
           /\ t[c] # 0 /\ v = 0 => FreeOn([t EXCEPT ![c] = v]) = FreeOn(t) + 1
           /\ t[c] = 0 /\ v # 0 => FreeOn([t EXCEPT ![c] = v]) = FreeOn(t) - 1
           /\ t[c] # 0 /\ v # 0 => FreeOn([t EXCEPT ![c] = v]) = FreeOn(t)
<1> DEFINE u == [t EXCEPT ![c] = v]
           S == {x \in Clusters : t[x] = 0}
           U == {x \in Clusters : u[x] = 0}
<1>1. IsFiniteSet(Clusters)
  BY FS_Interval, Numbers DEF Clusters
<1>2. IsFiniteSet(S) /\ IsFiniteSet(U)
  BY <1>1, FS_Subset
<1>3. FreeOn(t) = Cardinality(S) /\ FreeOn(u) = Cardinality(U)
  BY DEF FreeOn
<1>4. u[c] = v /\ \A x \in Clusters \ {c} : u[x] = t[x]
  BY Numbers
<1> HIDE DEF u
<1>5. Cardinality(S) \in Nat
  BY <1>2, FS_CardinalityType
<1>6. ASSUME t[c] # 0, v = 0 PROVE FreeOn(u) = FreeOn(t) + 1
  <2>1. U = S \cup {c} /\ c \notin S
    BY <1>4, <1>6
  <2> HIDE DEF S, U
  <2>2. QED
    BY <1>2, <1>3, <2>1, FS_AddElement
<1>7. ASSUME t[c] = 0, v # 0 PROVE FreeOn(u) = FreeOn(t) - 1
  <2>1. U = S \ {c} /\ c \in S
    BY <1>4, <1>7
  <2> HIDE DEF S, U
  <2>2. QED
    BY <1>2, <1>3, <2>1, FS_RemoveElement
<1>8. ASSUME t[c] # 0, v # 0 PROVE FreeOn(u) = FreeOn(t)
  <2>1. U = S
    BY <1>4, <1>8
  <2>2. QED
    BY <1>3, <2>1
<1>9. QED
  BY <1>3, <1>5, <1>6, <1>7, <1>8 DEF u

(* Taking a free cluster leaves one free cluster fewer.                    *)
LEMMA FreeLess ==
    ASSUME NEW t \in [Entries -> Links], NEW c \in Clusters, t[c] = 0, NEW v, v # 0
    PROVE  FreeOn(t) \in Nat /\ FreeOn([t EXCEPT ![c] = v]) = FreeOn(t) - 1
BY Free

(* Relinking a cluster in use leaves the free clusters as they are.        *)
LEMMA FreeSame ==
    ASSUME NEW t \in [Entries -> Links], NEW c \in Clusters, t[c] # 0, NEW v, v # 0
    PROVE  FreeOn(t) \in Nat /\ FreeOn([t EXCEPT ![c] = v]) = FreeOn(t)
BY Free

(* The number of free clusters is a natural number.                        *)
LEMMA FreeType ==
    ASSUME NEW t \in [Entries -> Links]
    PROVE  FreeOn(t) \in Nat /\ FreeOn(t) + 0 = FreeOn(t)
<1>1. 2 \in Clusters
  BY Numbers DEF Clusters
<1>2. FreeOn(t) \in Nat
  BY <1>1, Free
<1>3. QED
  BY <1>2

(* move_window in a state of the invariant.                                *)
LEMMA Moved ==
    ASSUME TypeInv, NEW s \in {Nowhere, Dir} \cup FatSects, NEW o \in Outcomes, NEW mirror \in BOOLEAN,
           Possible(s, o, mirror), WrittenBack(s, o, mirror)
    PROVE  /\ fat' \in [Entries -> Links] /\ dir' \in [Files -> Ents]
           /\ WinOK(Window(s, o), dir', fat')
           /\ FatOf(Window(s, o), fat') = Fat /\ DirOf(Window(s, o), dir') = Root
           /\ CardMoves
           /\ o = "ok" /\ s # Nowhere => Window(s, o).sect = s
           /\ o = "ok" /\ s = Nowhere => ~Window(s, o).wflag
           /\ win.sect # Nowhere => Window(s, o).sect # Nowhere
           /\ faults' \in Nat /\ (o # "ok" => faults' # 0)
           /\ faults' = 0 => o = "ok" /\ faults = 0 /\ (fat2 = fat => fat2' = fat')
           /\ Fat \in [Entries -> Links] /\ Root \in [Files -> Ents]
<1>1. faults \in Nat /\ fat \in [Entries -> Links] /\ dir \in [Files -> Ents] /\ WinOK(win, dir, fat)
  BY DEF TypeInv
<1>2. faults' \in Nat /\ (o # "ok" => faults' # 0)
  BY <1>1 DEF Possible
<1>3. faults' = 0 => o = "ok" /\ faults = 0 /\ (fat2 = fat => fat2' = fat')
  BY <1>1, MoveMirror
<1>4. Fat \in [Entries -> Links] /\ Root \in [Files -> Ents]
  BY <1>1, ViewTypes DEF Fat, Root
<1>5. QED
  BY <1>1, <1>2, <1>3, <1>4, Move DEF CardMoves

(* get_cluster reads the FAT that FatFs sees, or fails.                    *)
LEMMA GetCluster ==
    ASSUME NEW c \in Clusters, NEW o \in Outcomes, NEW t,
           FatOf(Window(FatSect(c), o), t) = Fat, o = "ok" => Window(FatSect(c), o).sect = FatSect(c)
    PROVE  get_cluster(c, o) = IF o = "ok" THEN Fat[c] ELSE DISK_ERROR
<1>1. c \in Entries
  BY Numbers
<1>2. CASE o = "ok"
  <2> DEFINE w == Window(FatSect(c), o)
  <2>1. get_cluster(c, o) = w.body[c]
    BY <1>2 DEF get_cluster
  <2>2. w.sect = FatSect(c) /\ FatOf(w, t) = Fat
    BY <1>2
  <2> HIDE DEF w
  <2>3. FatOf(w, t)[c] = w.body[c]
    BY <1>1, <2>2 DEF FatOf
  <2>4. QED
    BY <1>2, <2>1, <2>2, <2>3
<1>3. CASE o # "ok"
  BY <1>3 DEF get_cluster
<1>4. QED
  BY <1>2, <1>3

(* A call gives up after a failed access: what it had is abandoned.        *)
LEMMA FailStep ==
    ASSUME IInv, TypeInv', CardMoves, Fat' = Fat, Root' = Root, data' = data, promise' = promise,
           pc' = "idle", faults' # 0
    PROVE  IInv'
<1>1. PICK cs \in [Files -> Seq(Clusters)], own \in Seq(Clusters) : Vol(cs, own)
  BY DEF IInv, VolInv
<1>2. CardInv'
  BY <1>1, CardStep DEF IInv, Vol
<1>3. Sound(cs, <<>>, Root', Fat') /\ <<>> \in Seq(Clusters)
  BY <1>1, SoundDrop DEF Vol
<1>4. OwnInv(<<>>)' /\ PlaceInv(<<>>)' /\ StepInv(cs, <<>>)'
  BY DEF OwnInv, PlaceInv, StepInv, OpenPcs, WritePcs, Pending
<1>5. DataInv(cs, <<>>)'
  <2>1. Promises(cs)'
    BY <1>1, PromiseStep DEF Vol, DataInv
  <2>2. QED
    BY <2>1 DEF DataInv, OpenPcs, WritePcs
<1>6. CountInv(cs, <<>>)' /\ SearchInv'
  BY DEF CountInv, SearchInv
<1>7. Vol(cs, <<>>)'
  BY <1>3, <1>4, <1>5, <1>6 DEF Vol
<1>8. QED
  BY <1>2, <1>3, <1>6, <1>7 DEF IInv, VolInv

(* The same changes of the window, as steps.                               *)
LEMMA PutDirStep ==
    ASSUME NEW w, dir' \in [Files -> Ents], fat' \in [Entries -> Links], WinOK(w, dir', fat'),
           w.sect = Dir, NEW f \in Files, NEW v \in Ents, win' = Put(w, f, v)
    PROVE  /\ WinOK(win', dir', fat') /\ Fat' = FatOf(w, fat')
           /\ Root' = [DirOf(w, dir') EXCEPT ![f] = v]
<1>1. /\ WinOK(Put(w, f, v), dir', fat')
      /\ FatOf(Put(w, f, v), fat') = FatOf(w, fat')
      /\ DirOf(Put(w, f, v), dir') = [DirOf(w, dir') EXCEPT ![f] = v]
  BY PutDir
<1>2. QED
  BY <1>1 DEF Fat, Root

(* put_fat through the window that is left after move_window.              *)
LEMMA PutFatStep ==
    ASSUME NEW w, dir' \in [Files -> Ents], fat' \in [Entries -> Links], WinOK(w, dir', fat'),
           NEW e \in Entries, w.sect = FatSect(e), NEW v \in Links, win' = Put(w, e, v)
    PROVE  /\ WinOK(win', dir', fat') /\ Root' = DirOf(w, dir') /\ win'.sect # Nowhere
           /\ Fat' = [FatOf(w, fat') EXCEPT ![e] = v]
<1>1. /\ WinOK(Put(w, e, v), dir', fat') /\ Put(w, e, v).sect = w.sect
      /\ FatOf(Put(w, e, v), fat') = [FatOf(w, fat') EXCEPT ![e] = v]
      /\ DirOf(Put(w, e, v), dir') = DirOf(w, dir')
  BY PutFat
<1>2. QED
  BY <1>1, Kinds DEF Fat, Root

(* Setting wflag alone changes nothing that is seen through the window.    *)
LEMMA TouchStep ==
    ASSUME NEW w, dir' \in [Files -> Ents], fat' \in [Entries -> Links], WinOK(w, dir', fat'),
           w.sect # Nowhere, win' = [w EXCEPT !.wflag = TRUE]
    PROVE  WinOK(win', dir', fat') /\ Fat' = FatOf(w, fat') /\ Root' = DirOf(w, dir')
<1> DEFINE p == [w EXCEPT !.wflag = TRUE]
<1>1. WinOK(p, dir', fat') /\ FatOf(p, fat') = FatOf(w, fat') /\ DirOf(p, dir') = DirOf(w, dir')
  BY Touch
<1>2. win' = p
  OBVIOUS
<1> HIDE DEF p
<1>3. QED
  BY <1>1, <1>2 DEF Fat, Root

(* The FIL object of a file that f_open has just opened.                   *)
NewFil(f) == [NoFile EXCEPT !.name = f, !.written = TRUE]

(* It is a FIL object ...                                                  *)
LEMMA NewFile ==
    ASSUME NEW f \in Files
    PROVE  NewFil(f) \in FIL /\ NewFil(f).name = f /\ NewFil(f).written = TRUE
<1>1. PICK n \in Nat : n = 255
  OBVIOUS
<1>2. NoFile = [name |-> OldFile, org |-> 0, curr |-> 0, fptr |-> 0, fsize |-> 0, csect |-> n,
                written |-> FALSE]
  BY <1>1, Zenon DEF NoFile
<1> HIDE <1>1
<1>3. NewFil(f) = [name |-> f, org |-> 0, curr |-> 0, fptr |-> 0, fsize |-> 0, csect |-> n,
                   written |-> TRUE]
  <2>1. NewFil(f) = [NoFile EXCEPT !.name = f, !.written = TRUE]
    BY DEF NewFil
  <2>2. QED
    BY <1>2, <2>1
<1>4. QED
  BY <1>3 DEF FIL

(* ... at the start of an empty file.                                      *)
LEMMA NewFilePlace ==
    ASSUME NEW f \in Files
    PROVE  /\ NewFil(f).org = 0 /\ NewFil(f).fptr = 0 /\ NewFil(f).fsize = 0
           /\ NewFil(f).csect = 255
<1>1. PICK n \in Nat : n = 255
  OBVIOUS
<1>2. NoFile = [name |-> OldFile, org |-> 0, curr |-> 0, fptr |-> 0, fsize |-> 0, csect |-> n,
                written |-> FALSE]
  BY <1>1, Zenon DEF NoFile
<1>3. NewFil(f).org = 0 /\ NewFil(f).fptr = 0 /\ NewFil(f).fsize = 0 /\ NewFil(f).csect = n
  <2> HIDE <1>1
  <2>1. QED
    BY <1>2 DEF NewFil
<1>4. QED
  BY <1>1, <1>3

(* f_open: the directory.                                                  *)
LEMMA OpenStep ==
    ASSUME IInv, NEW f \in Files, NEW o \in Outcomes, NEW mirror \in BOOLEAN, f_open(f, o, mirror)
    PROVE  IInv'
<1> USE Numbers
<1> DEFINE w == Window(Dir, o)
           e == [start |-> 0, size |-> 0]
           none == [size |-> Unknown, open |-> 0]
           cl == w.body[f].start
<1>1. /\ pc = "idle" /\ opens' = opens + 1 /\ TypeInv
      /\ Possible(Dir, o, mirror) /\ WrittenBack(Dir, o, mirror)
      /\ UNCHANGED <<data, fsinfo, free_clust, last_clust, fsi_flag, btw, ncl, crashes>>
  BY DEF f_open, fsVars, IInv
<1>2. /\ o # "ok" => win' = w /\ pc' = "idle" /\ UNCHANGED <<fp, clst, scl, promise>>
      /\ o = "ok" => /\ win' = Put(w, f, e) /\ promise' = [promise EXCEPT ![f] = none]
                     /\ \/ cl = 0 /\ Opened(f) /\ UNCHANGED <<clst, scl>>
                        \/ cl # 0 /\ cl \notin Clusters /\ pc' = "idle" /\ UNCHANGED <<fp, clst, scl>>
                        \/ /\ cl \in Clusters /\ clst' = cl /\ scl' = cl /\ fp' = [NoFile EXCEPT !.name = f]
                           /\ pc' = "free"
  BY DEF f_open, Return
<1>3. /\ fat' \in [Entries -> Links] /\ dir' \in [Files -> Ents] /\ WinOK(w, dir', fat')
      /\ FatOf(w, fat') = Fat /\ DirOf(w, dir') = Root /\ CardMoves /\ (o = "ok" => w.sect = Dir)
      /\ faults' \in Nat /\ (o # "ok" => faults' # 0)
      /\ faults' = 0 => o = "ok" /\ faults = 0 /\ (fat2 = fat => fat2' = fat')
      /\ Root \in [Files -> Ents] /\ Fat \in [Entries -> Links]
  BY <1>1, Moved, Kinds
<1> HIDE DEF w
<1>4. PICK cs \in [Files -> Seq(Clusters)], own \in Seq(Clusters) : Vol(cs, own)
  BY DEF IInv, VolInv
<1>5. CardInv'
  BY <1>3, <1>4, CardStep DEF IInv, Vol
<1>6. opens' \in Nat
  BY <1>1 DEF TypeInv
<1>7. CASE o # "ok"
  <2>1. Fat' = Fat /\ Root' = Root
    BY <1>2, <1>3, <1>7 DEF Fat, Root
  <2>2. TypeInv'
    BY <1>1, <1>2, <1>3, <1>6, <1>7 DEF TypeInv
  <2>3. QED
    BY <1>1, <1>2, <1>3, <1>7, <2>1, <2>2, FailStep
<1>8. CASE o = "ok"
  <2> DEFINE ds == [cs EXCEPT ![f] = <<>>]
  <2>1. own = <<>> /\ Sound(cs, <<>>, Root, Fat)
    BY <1>1, <1>4 DEF Vol, OwnInv, OpenPcs, WritePcs
  <2>2. e \in Ents /\ e.start = 0
    BY DEF Ents
  <2> HIDE DEF e
  <2>3. WinOK(win', dir', fat') /\ Fat' = Fat /\ Root' = [Root EXCEPT ![f] = e]
    <3>1. win' = Put(w, f, e) /\ w.sect = Dir
      BY <1>2, <1>3, <1>8
    <3>2. QED
      BY <1>3, <2>2, <3>1, PutDirStep
  <2>4. Sound(ds, cs[f], Root', Fat') /\ cs[f] \in Seq(Clusters)
    BY <1>3, <2>1, <2>2, <2>3, SoundDetach
  <2>5. /\ ds \in [Files -> Seq(Clusters)] /\ ds[f] = <<>> /\ \A g \in Files \ {f} : ds[g] = cs[g]
    OBVIOUS
  <2> HIDE DEF ds
  <2>6. cl = Root[f].start
    BY <1>3, <1>8 DEF DirOf
  <2>7. IF cl \in Clusters THEN cs[f] # <<>> /\ cs[f][1] = cl ELSE cs[f] = <<>>
    BY <2>1, <2>6 DEF Sound, Owns
  <2> HIDE DEF cl
  <2>8. /\ promise' \in [Files -> [size : Int, open : Int]] /\ promise'[f].size = Unknown
        /\ \A g \in Files \ {f} : promise'[g] = promise[g]
    <3>1. promise \in [Files -> [size : Int, open : Int]] /\ promise' = [promise EXCEPT ![f] = none]
      BY <1>1, <1>2, <1>8 DEF TypeInv
    <3>2. none \in [size : Int, open : Int] /\ none.size = Unknown
      OBVIOUS
    <3> HIDE DEF none
    <3>3. QED
      BY <3>1, <3>2
  <2>9. Promises(ds)'
    <3>1. \A g \in Files : promise'[g].size # Unknown =>
               promise'[g] = promise[g] /\ Root'[g] = Root[g] /\ ds[g] = cs[g]
      BY <1>3, <2>3, <2>5, <2>8
    <3>2. QED
      BY <1>1, <1>3, <1>4, <3>1, PromiseStep DEF Vol, DataInv
  <2>10. Root'[f].start = 0
    BY <1>3, <2>2, <2>3
  <2>11. faults' = 0 /\ crashes' = 0 =>
           /\ fat2' = fat' /\ cl \in Clusters \cup {0}
           /\ \A g \in Files : Root'[g].start \in Clusters \cup {0}
           /\ \A c \in Clusters : Outside(ds, cs[f], c) => Fat'[c] = 0
           /\ free_clust' \in {Unknown, FreeOn(Fat')}
           /\ ~fsi_flag' /\ fsinfo'.free = free_clust'
    <3> SUFFICES ASSUME faults' = 0, crashes' = 0 PROVE
           /\ fat2' = fat' /\ cl \in Clusters \cup {0}
           /\ \A g \in Files : Root'[g].start \in Clusters \cup {0}
           /\ \A c \in Clusters : Outside(ds, cs[f], c) => Fat'[c] = 0
           /\ free_clust' \in {Unknown, FreeOn(Fat')}
           /\ ~fsi_flag' /\ fsinfo'.free = free_clust'
      OBVIOUS
    <3>1. faults = 0 /\ crashes = 0
      BY <1>1, <1>3
    <3>2. /\ fat2 = fat /\ \A g \in Files : Root[g].start \in Clusters \cup {0}
          /\ \A c \in Clusters : Outside(cs, <<>>, c) => Fat[c] = 0
          /\ free_clust \in {Unknown, FreeOn(Fat) + 0}
          /\ ~fsi_flag /\ fsinfo.free = free_clust
      BY <1>1, <1>4, <2>1, <3>1 DEF Vol, CountInv
    <3>3. ASSUME NEW c \in Clusters, Outside(ds, cs[f], c) PROVE Fat'[c] = 0
      <4>1. Outside(cs, <<>>, c)
        <5>1. ASSUME NEW g \in Files, NEW i \in 1 .. Len(cs[g]) PROVE cs[g][i] # c
          BY <2>5, <3>3 DEF Outside
        <5>2. QED
          BY <5>1 DEF Outside
      <4>2. QED
        BY <2>3, <3>2, <4>1
    <3>4. FreeOn(Fat) \in Nat
      BY <1>3, FreeType
    <3>5. free_clust' \in {Unknown, FreeOn(Fat')}
      BY <1>1, <2>3, <3>2, <3>4
    <3>6. \A g \in Files : Root'[g].start \in Clusters \cup {0}
      BY <1>3, <2>2, <2>3, <3>2
    <3>7. fat2' = fat'
      BY <1>3, <3>2
    <3>8. QED
      BY <1>1, <2>6, <3>2, <3>3, <3>5, <3>6, <3>7
  <2>12. CASE cl = 0 /\ Opened(f) /\ UNCHANGED <<clst, scl>>
    <3>1. /\ fp' \in FIL /\ fp'.name = f /\ fp'.org = 0 /\ fp'.fptr = 0 /\ fp'.fsize = 0
          /\ fp'.csect = 255 /\ fp'.written = TRUE /\ pc' = "open" /\ res' = "FR_OK" /\ cs[f] = <<>>
      <4>1. fp' = NewFil(f) /\ pc' = "open" /\ res' = "FR_OK"
        BY <2>12, Zenon DEF Opened, Return, NewFil
      <4>2. cs[f] = <<>>
        BY <2>7, <2>12, Numbers, Zenon
      <4>3. fp' \in FIL /\ fp'.name = f /\ fp'.written = TRUE
        <5> HIDE Numbers
        <5>1. QED
          BY <4>1, NewFile, Zenon
      <4>4. fp'.org = 0 /\ fp'.fptr = 0 /\ fp'.fsize = 0 /\ fp'.csect = 255
        BY <4>1, NewFilePlace
      <4>5. QED
        BY <4>1, <4>2, <4>3, <4>4
    <3>2. TypeInv'
      BY <1>1, <1>3, <1>6, <2>3, <2>8, <2>12, <3>1 DEF TypeInv, OpenPcs
    <3>3. OwnInv(<<>>)'
      BY <2>10, <3>1 DEF OwnInv, OpenPcs, WritePcs
    <3>4. PlaceInv(<<>>)' /\ StepInv(ds, <<>>)'
      BY <3>1 DEF PlaceInv, StepInv, OpenPcs, WritePcs, Pending
    <3>5. Kept(data', <<>>, 0, opens')
      BY DEF Kept
    <3>6. DataInv(ds, <<>>)'
      BY <2>8, <2>9, <3>1, <3>5 DEF DataInv, OpenPcs, WritePcs
    <3>7. CountInv(ds, <<>>)'
      <4>1. FreeOn(Fat') + 0 = FreeOn(Fat')
        BY <1>3, <2>3, FreeType
      <4>2. QED
        BY <2>11, <3>1, <4>1 DEF CountInv, OpenPcs, WritePcs
    <3>8. SearchInv'
      BY <3>1 DEF SearchInv
    <3>9. Vol(ds, <<>>)'
      BY <2>4, <3>1, <3>3, <3>4, <3>6, <3>7 DEF Vol
    <3>10. <<>> \in Seq(Clusters)
      BY <2>4, <3>1
    <3>11. QED
      BY <1>5, <2>5, <3>2, <3>8, <3>9, <3>10 DEF IInv, VolInv
  <2>13. CASE cl # 0 /\ cl \notin Clusters /\ pc' = "idle" /\ UNCHANGED <<fp, clst, scl>>
    <3>1. cs[f] = <<>> /\ ~(faults' = 0 /\ crashes' = 0)
      BY <2>7, <2>11, <2>13
    <3>2. TypeInv'
      BY <1>1, <1>3, <1>6, <2>3, <2>8, <2>13 DEF TypeInv, OpenPcs
    <3>3. OwnInv(<<>>)'
      BY <2>13 DEF OwnInv, OpenPcs, WritePcs
    <3>4. PlaceInv(<<>>)' /\ StepInv(ds, <<>>)'
      BY <2>13 DEF PlaceInv, StepInv, OpenPcs, WritePcs, Pending
    <3>6. DataInv(ds, <<>>)'
      BY <2>9, <2>13 DEF DataInv, OpenPcs, WritePcs
    <3>7. CountInv(ds, <<>>)'
      BY <3>1 DEF CountInv
    <3>8. SearchInv'
      BY <2>13 DEF SearchInv
    <3>9. Vol(ds, <<>>)'
      BY <2>4, <3>1, <3>3, <3>4, <3>6, <3>7 DEF Vol
    <3>10. <<>> \in Seq(Clusters)
      BY <2>4, <3>1
    <3>11. QED
      BY <1>5, <2>5, <3>2, <3>8, <3>9, <3>10 DEF IInv, VolInv
  <2>14. CASE /\ cl \in Clusters /\ clst' = cl /\ scl' = cl /\ fp' = [NoFile EXCEPT !.name = f]
              /\ pc' = "free"
    <3>1. fp' \in FIL /\ fp'.name = f /\ clst' \in Nat /\ scl' \in Nat
      <4>1. clst' \in Nat /\ scl' \in Nat
        BY <2>14
      <4>2. NoFile \in FIL
        BY VolumeAssumption DEF NoFile, FIL
      <4>3. QED
        BY <2>14, <4>1, <4>2 DEF FIL
    <3>2. TypeInv'
      BY <1>1, <1>3, <1>6, <2>3, <2>8, <2>14, <3>1 DEF TypeInv, OpenPcs
    <3>3. OwnInv(cs[f])'
      BY <2>7, <2>10, <2>14, <3>1 DEF OwnInv, OpenPcs, WritePcs
    <3>4. PlaceInv(cs[f])' /\ StepInv(ds, cs[f])'
      BY <2>14 DEF PlaceInv, StepInv, OpenPcs, WritePcs, Pending
    <3>6. DataInv(ds, cs[f])'
      BY <2>8, <2>9, <2>14, <3>1 DEF DataInv, OpenPcs, WritePcs
    <3>7. CountInv(ds, cs[f])'
      <4>1. FreeOn(Fat') + 0 = FreeOn(Fat')
        BY <1>3, <2>3, FreeType
      <4>2. QED
        BY <2>11, <2>14, <4>1 DEF CountInv, OpenPcs, WritePcs
    <3>8. SearchInv'
      BY <2>14 DEF SearchInv
    <3>9. Vol(ds, cs[f])'
      BY <2>4, <3>3, <3>4, <3>6, <3>7 DEF Vol
    <3>10. QED
      BY <1>5, <2>4, <2>5, <3>2, <3>8, <3>9 DEF IInv, VolInv
  <2>15. QED
    BY <1>2, <1>8, <2>12, <2>13, <2>14
<1>9. QED
  BY <1>7, <1>8

(* f_open: the old chain.                                                  *)
LEMMA RemoveStep ==
    ASSUME IInv, NEW o \in Outcomes, NEW mirror \in BOOLEAN, remove_chain(o, mirror)
    PROVE  IInv'
<1> DEFINE w == Window(FatSect(clst), o)
           nxt == get_cluster(clst, o)
<1>1. PICK cs \in [Files -> Seq(Clusters)], own \in Seq(Clusters) : Vol(cs, own)
  BY DEF IInv, VolInv
<1>2. /\ pc = "free" /\ TypeInv /\ Possible(FatSect(clst), o, mirror)
      /\ WrittenBack(FatSect(clst), o, mirror)
      /\ UNCHANGED <<data, opens, crashes, fsinfo, fp, btw, scl, ncl, promise>>
  BY DEF remove_chain, move_window, IInv
<1>3. own # <<>> /\ own[1] = clst /\ Sound(cs, own, Root, Fat)
  BY <1>1, <1>2 DEF Vol, OwnInv
<1>4. clst \in Clusters
  BY <1>3
<1>5. clst \in Entries /\ FatSect(clst) \in FatSects
  BY <1>4, Numbers, Kinds
<1>6. /\ fat' \in [Entries -> Links] /\ dir' \in [Files -> Ents] /\ WinOK(w, dir', fat')
      /\ FatOf(w, fat') = Fat /\ DirOf(w, dir') = Root /\ CardMoves
      /\ (o = "ok" => w.sect = FatSect(clst))
      /\ faults' \in Nat /\ (o # "ok" => faults' # 0)
      /\ faults' = 0 => o = "ok" /\ faults = 0 /\ (fat2 = fat => fat2' = fat')
      /\ Root \in [Files -> Ents] /\ Fat \in [Entries -> Links]
  BY <1>2, <1>5, Moved, Kinds
<1>7. nxt = IF o = "ok" THEN Fat[clst] ELSE DISK_ERROR
  BY <1>4, <1>6, GetCluster
<1>8. /\ nxt = DISK_ERROR => win' = w /\ pc' = "idle" /\ UNCHANGED <<free_clust, fsi_flag, clst>>
      /\ nxt \notin {DISK_ERROR, 1, 0} =>
             /\ win' = Put(w, clst, 0)
             /\ free_clust' = IF free_clust = Unknown THEN free_clust ELSE free_clust + 1
             /\ fsi_flag' = (fsi_flag \/ free_clust # Unknown)
             /\ \/ nxt \in Clusters /\ clst' = nxt /\ pc' = pc
                \/ nxt \notin Clusters /\ pc' = "back" /\ clst' = clst
             /\ res' = res
  BY DEF remove_chain, Return, fsVars
<1> HIDE DEF w, nxt
<1>9. CardInv'
  BY <1>1, <1>6, CardStep DEF IInv, Vol
<1>10. CASE o # "ok"
  <2>1. win' = w /\ pc' = "idle" /\ UNCHANGED <<free_clust, fsi_flag, clst>>
    BY <1>7, <1>8, <1>10
  <2>2. Fat' = Fat /\ Root' = Root
    BY <1>6, <2>1 DEF Fat, Root
  <2>3. TypeInv'
    BY <1>2, <1>6, <2>1 DEF TypeInv
  <2>4. QED
    BY <1>2, <1>6, <1>10, <2>1, <2>2, <2>3, FailStep
<1>11. CASE o = "ok"
  <2> DEFINE r == Tail(own)
  <2>1. Linked(own, Fat) /\ Len(own) \in Nat /\ 1 \in 1 .. Len(own)
    BY <1>3 DEF Sound
  <2>2. Fat[clst] # 0 /\ nxt = Fat[clst] /\ nxt \in Links
    <3>1. Fat[clst] # 0
      BY <1>3, <2>1, LinkedFree
    <3>2. QED
      BY <1>5, <1>6, <1>7, <1>11, <3>1
  <2>3. nxt \notin {DISK_ERROR, 1, 0}
    BY <2>2, Numbers DEF Links
  <2>4. WinOK(win', dir', fat') /\ Root' = Root /\ Fat' = [Fat EXCEPT ![clst] = 0]
    <3>1. 0 \in Links /\ win' = Put(w, clst, 0)
      BY <1>8, <2>3 DEF Links
    <3>2. PICK c : c = clst
      OBVIOUS
    <3>3. QED
      BY <1>5, <1>6, <1>11, <3>1, <3>2, PutFatStep
  <2>5. /\ r \in Seq(Clusters) /\ Len(r) = Len(own) - 1
        /\ \A i \in 1 .. Len(own) - 1 : r[i] = own[i + 1]
    BY <1>6, <1>3, <2>1, LinkedTail
  <2>6. Sound(cs, r, Root', Fat')
    BY <1>3, <1>6, <2>4, SoundUnlink
  <2> HIDE DEF r
  <2>7. \/ r # <<>> /\ pc' = "free" /\ clst' = r[1] /\ clst' \in Clusters
        \/ r = <<>> /\ pc' = "back" /\ clst' = clst
    <3>1. Fat[own[1]] = IF 1 = Len(own) THEN EOC ELSE own[1 + 1]
      BY <2>1 DEF Linked
    <3>2. CASE Len(own) = 1
      <4>1. r = <<>>
        BY <2>5, <3>2
      <4>2. nxt \notin Clusters
        BY <1>3, <2>2, <3>1, <3>2, Numbers
      <4>3. QED
        BY <1>8, <2>3, <4>1, <4>2
    <3>3. CASE Len(own) # 1
      <4>1. r # <<>> /\ r[1] = own[1 + 1] /\ 1 \in 1 .. Len(r)
        BY <2>1, <2>5, <3>3
      <4>2. nxt = r[1] /\ r[1] \in Clusters
        BY <1>3, <2>2, <2>5, <3>1, <3>3, <4>1
      <4>3. QED
        BY <1>2, <1>8, <2>3, <4>1, <4>2
    <3>4. QED
      BY <3>2, <3>3
  <2>8. TypeInv'
    <3>1. clst' \in Nat /\ fsi_flag' \in BOOLEAN
      <4>1. clst' \in Clusters
        BY <1>4, <2>7
      <4>2. clst' \in Nat
        BY <4>1, Numbers
      <4>3. QED
        BY <1>8, <2>3, <4>2
    <3>2. QED
      BY <1>2, <1>6, <2>4, <2>7, <3>1 DEF TypeInv
  <2>9. OwnInv(r)'
    <3>1. Root[fp.name].start = 0
      BY <1>1, <1>2 DEF Vol, OwnInv
    <3>2. QED
      BY <1>2, <2>4, <2>7, <3>1 DEF OwnInv, OpenPcs, WritePcs
  <2>10. PlaceInv(r)' /\ StepInv(cs, r)'
    BY <2>7 DEF PlaceInv, StepInv, OpenPcs, WritePcs, Pending
  <2>11. DataInv(cs, r)'
    <3>1. Promises(cs)'
      BY <1>1, <1>2, <1>6, <2>4, PromiseStep DEF Vol, DataInv
    <3>2. promise[fp.name].size = Unknown
      BY <1>1, <1>2 DEF Vol, DataInv
    <3>3. QED
      BY <1>2, <2>7, <3>1, <3>2 DEF DataInv, OpenPcs, WritePcs
  <2>12. CountInv(cs, r)'
    <3> SUFFICES ASSUME faults' = 0, crashes' = 0 PROVE
           /\ fat2' = fat' /\ \A g \in Files : Root'[g].start \in Clusters \cup {0}
           /\ \A c \in Clusters : Outside(cs, r, c) => Fat'[c] = 0
           /\ free_clust' \in {Unknown, FreeOn(Fat')}
           /\ ~fsi_flag' => fsinfo'.free = free_clust'
      <4>1. FreeOn(Fat') + 0 = FreeOn(Fat')
        BY <1>6, <2>4, FreeType DEF Links
      <4>2. QED
        BY <2>7, <4>1 DEF CountInv, OpenPcs, WritePcs
    <3>1. faults = 0 /\ crashes = 0
      BY <1>2, <1>6
    <3>2. /\ fat2 = fat /\ \A g \in Files : Root[g].start \in Clusters \cup {0}
          /\ \A c \in Clusters : Outside(cs, own, c) => Fat[c] = 0
          /\ free_clust \in {Unknown, FreeOn(Fat) + 0}
          /\ ~fsi_flag => fsinfo.free = free_clust
      BY <1>1, <1>2, <3>1 DEF Vol, CountInv
    <3>3. ASSUME NEW c \in Clusters, Outside(cs, r, c) PROVE Fat'[c] = 0
      <4>1. CASE c = clst
        BY <1>5, <1>6, <2>4, <4>1
      <4>2. CASE c # clst
        <5>1. ASSUME NEW j \in 1 .. Len(own) PROVE own[j] # c
          <6>1. CASE j = 1
            BY <1>3, <4>2, <6>1
          <6>2. CASE j # 1
            <7>1. j - 1 \in 1 .. Len(own) - 1 /\ j - 1 \in 1 .. Len(r) /\ j - 1 + 1 = j
              BY <2>1, <2>5, <6>2
            <7>2. r[j - 1] = own[j]
              BY <2>5, <7>1
            <7>3. QED
              BY <3>3, <7>1, <7>2 DEF Outside
          <6>3. QED
            BY <6>1, <6>2
        <5>2. Outside(cs, own, c)
          BY <3>3, <5>1 DEF Outside
        <5>3. c \in Entries
          BY Numbers
        <5>4. QED
          BY <1>6, <2>4, <3>2, <4>2, <5>2, <5>3
      <4>3. QED
        BY <4>1, <4>2
    <3>4. FreeOn(Fat) \in Nat /\ FreeOn(Fat') = FreeOn(Fat) + 1
      BY <1>4, <1>6, <2>2, <2>4, Free
    <3>5. free_clust' \in {Unknown, FreeOn(Fat')} /\ (~fsi_flag' => fsinfo'.free = free_clust')
      <4>1. /\ free_clust' = (IF free_clust = Unknown THEN free_clust ELSE free_clust + 1)
            /\ fsi_flag' = (fsi_flag \/ free_clust # Unknown) /\ fsinfo' = fsinfo
        BY <1>2, <1>8, <2>3
      <4>2. CASE free_clust = Unknown
        BY <3>2, <4>1, <4>2
      <4>3. CASE free_clust # Unknown
        <5>1. free_clust = FreeOn(Fat)
          BY <3>2, <3>4, <4>3
        <5>2. QED
          BY <3>4, <4>1, <4>3, <5>1
      <4>4. QED
        BY <4>2, <4>3
    <3>6. QED
      BY <1>6, <2>4, <3>2, <3>3, <3>5
  <2>13. SearchInv'
    BY <2>7 DEF SearchInv
  <2>14. Vol(cs, r)'
    BY <2>6, <2>9, <2>10, <2>11, <2>12 DEF Vol
  <2>15. QED
    BY <1>9, <2>5, <2>8, <2>13, <2>14 DEF IInv, VolInv
<1>12. QED
  BY <1>10, <1>11

(* f_open: back to the directory.                                          *)
LEMMA BackStep ==
    ASSUME IInv, NEW o \in Outcomes, NEW mirror \in BOOLEAN, OpenBack(o, mirror)
    PROVE  IInv'
<1> DEFINE w == Window(Dir, o)
<1>1. PICK cs \in [Files -> Seq(Clusters)], own \in Seq(Clusters) : Vol(cs, own)
  BY DEF IInv, VolInv
<1>2. /\ pc = "back" /\ TypeInv /\ Possible(Dir, o, mirror) /\ WrittenBack(Dir, o, mirror)
      /\ UNCHANGED <<data, opens, crashes, fsinfo, free_clust, last_clust, fsi_flag, btw, clst, scl, ncl, promise>>
  BY DEF OpenBack, move_window, IInv, fsVars, locals
<1>3. own = <<>> /\ Sound(cs, <<>>, Root, Fat) /\ Root[fp.name].start = 0 /\ fp.name \in Files
  BY <1>1, <1>2 DEF Vol, OwnInv, OpenPcs, WritePcs, TypeInv, FIL
<1>4. /\ fat' \in [Entries -> Links] /\ dir' \in [Files -> Ents] /\ WinOK(w, dir', fat')
      /\ FatOf(w, fat') = Fat /\ DirOf(w, dir') = Root /\ CardMoves /\ (o = "ok" => w.sect = Dir)
      /\ faults' \in Nat /\ (o # "ok" => faults' # 0)
      /\ faults' = 0 => o = "ok" /\ faults = 0 /\ (fat2 = fat => fat2' = fat')
      /\ Fat \in [Entries -> Links]
  BY <1>2, Moved, Kinds
<1>5. /\ o # "ok" => win' = w /\ pc' = "idle" /\ fp' = fp
      /\ o = "ok" => win' = [w EXCEPT !.wflag = TRUE] /\ Opened(fp.name)
  BY DEF OpenBack, Return
<1> HIDE DEF w
<1>6. CardInv'
  BY <1>1, <1>4, CardStep DEF IInv, Vol
<1>7. CASE o # "ok"
  <2>1. Fat' = Fat /\ Root' = Root
    BY <1>4, <1>5, <1>7 DEF Fat, Root
  <2>2. TypeInv'
    BY <1>2, <1>4, <1>5, <1>7 DEF TypeInv
  <2>3. QED
    BY <1>2, <1>4, <1>5, <1>7, <2>1, <2>2, FailStep
<1>8. CASE o = "ok"
  <2>1. WinOK(win', dir', fat') /\ Fat' = Fat /\ Root' = Root
    BY <1>4, <1>5, <1>8, Kinds, TouchStep
  <2>3. /\ fp' \in FIL /\ fp'.name = fp.name /\ fp'.org = 0 /\ fp'.fptr = 0 /\ fp'.fsize = 0
        /\ fp'.csect = 255 /\ fp'.written = TRUE /\ pc' = "open" /\ res' = "FR_OK"
    <3>1. PICK f \in Files : f = fp.name
      BY <1>3
    <3>2. fp' = NewFil(f) /\ pc' = "open" /\ res' = "FR_OK"
      BY <1>5, <1>8, <3>1, Zenon DEF Opened, Return, NewFil
    <3>3. fp' \in FIL /\ fp'.name = fp.name /\ fp'.written = TRUE
      BY <3>1, <3>2, NewFile, Zenon
    <3>4. fp'.org = 0 /\ fp'.fptr = 0 /\ fp'.fsize = 0 /\ fp'.csect = 255
      BY <3>2, NewFilePlace
    <3>5. QED
      BY <3>2, <3>3, <3>4
  <2>4. TypeInv'
    BY <1>2, <1>4, <2>1, <2>3 DEF TypeInv, OpenPcs
  <2>5. OwnInv(<<>>)'
    BY <1>3, <2>1, <2>3 DEF OwnInv, OpenPcs, WritePcs
  <2>6. PlaceInv(<<>>)' /\ StepInv(cs, <<>>)'
    BY <2>3, Numbers DEF PlaceInv, StepInv, OpenPcs, WritePcs, Pending
  <2>7. DataInv(cs, <<>>)'
    <3>1. Promises(cs)'
      BY <1>1, <1>2, <1>4, <2>1, PromiseStep DEF Vol, DataInv
    <3>2. promise[fp.name].size = Unknown
      BY <1>1, <1>2 DEF Vol, DataInv
    <3>3. Kept(data', <<>>, 0, opens')
      BY Numbers DEF Kept
    <3>4. QED
      BY <1>2, <2>3, <3>1, <3>2, <3>3 DEF DataInv, OpenPcs, WritePcs
  <2>8. CountInv(cs, <<>>)'
    BY <1>1, <1>2, <1>3, <1>4, <2>1, <2>3 DEF Vol, CountInv, OpenPcs, WritePcs, Outside
  <2>9. SearchInv'
    BY <2>3 DEF SearchInv
  <2>10. Vol(cs, <<>>)'
    BY <1>3, <2>1, <2>5, <2>6, <2>7, <2>8 DEF Vol
  <2>11. QED
    BY <1>3, <1>6, <2>4, <2>9, <2>10 DEF IInv, VolInv
<1>9. QED
  BY <1>7, <1>8
-----------------------------------------------------------------------------
(* A longer chain keeps what it has.                                       *)
LEMMA KeptAppend ==
    ASSUME NEW body, NEW s \in Seq(Clusters), NEW n \in Int, NEW tag, Kept(body, s, n, tag),
           NEW r \in Seq(Clusters), Len(r) = Len(s) + 1, \A i \in 1 .. Len(s) : r[i] = s[i]
    PROVE  Kept(body, r, n, tag)
<1>1. n <= csize * Len(s) /\ csize * Len(s) \in Int /\ Len(s) \in Nat
  BY Numbers DEF Kept
<1>2. n <= csize * Len(r)
  <2>1. csize * Len(s) <= csize * Len(r) /\ csize * Len(r) \in Int
    BY Grow
  <2>2. QED
    BY <1>1, <2>1
<1>3. ASSUME NEW i \in 0 .. n - 1 PROVE body[r[(i \div csize) + 1]][i % csize] = <<tag, i>>
  <2>1. i \in Nat /\ i < csize * Len(s)
    BY <1>1
  <2> DEFINE q == (i \div csize) + 1
  <2>2. q \in 1 .. Len(s)
    BY <1>1, <2>1, PlaceIn
  <2>3. body[s[q]][i % csize] = <<tag, i>>
    BY DEF Kept
  <2> HIDE DEF q
  <2>4. r[q] = s[q]
    BY <2>2
  <2>5. QED
    BY <2>3, <2>4 DEF q
<1>4. QED
  BY <1>2, <1>3 DEF Kept

(* The search goes on, or has seen every cluster.                          *)
LEMMA SearchGoes ==
    ASSUME NEW n \in Clusters, NEW from \in 1 .. max_clust - 1, NEW t, t[n] # 0,
           \A c \in Clusters : (IF n > from THEN c > from /\ c < n ELSE c > from \/ c < n) => t[c] # 0
    PROVE  IF n = from \/ NextCluster(n, from) = 0 THEN \A c \in Clusters : t[c] # 0
           ELSE LET m == NextCluster(n, from)
                IN  /\ m \in Clusters
                    /\ \A c \in Clusters :
                         (IF m > from THEN c > from /\ c < m ELSE c > from \/ c < m) => t[c] # 0
<1>0. max_clust \in Nat /\ max_clust > 2 /\ n \in Int /\ from \in Int /\ n >= 2 /\ n < max_clust
      /\ from >= 1 /\ from < max_clust
      /\ \A c \in Clusters : c \in Int /\ c >= 2 /\ c < max_clust
  BY Numbers DEF Clusters
<1>1. CASE n + 1 < max_clust
  <2>1. NextCluster(n, from) = n + 1 /\ n + 1 \in Clusters
    BY <1>0, <1>1 DEF NextCluster, Clusters
  <2>2. QED
    BY <1>0, <1>1, <2>1
<1>2. CASE ~(n + 1 < max_clust)
  <2>1. n = max_clust - 1 /\ NextCluster(n, from) = (IF 2 > from THEN 0 ELSE 2) /\ 2 \in Clusters
    BY <1>0, <1>2 DEF NextCluster, Clusters
  <2>2. CASE 2 > from
    BY <1>0, <2>1, <2>2
  <2>3. CASE ~(2 > from)
    BY <1>0, <2>1, <2>3
  <2>4. QED
    BY <2>2, <2>3
<1>3. QED
  BY <1>1, <1>2

(* create_chain: what follows the current cluster.                         *)
LEMMA FollowStep ==
    ASSUME IInv, NEW o \in Outcomes, NEW mirror \in BOOLEAN, ChainFollow(o, mirror)
    PROVE  IInv'
<1> DEFINE w == Window(FatSect(clst), o)
<1>1. PICK cs \in [Files -> Seq(Clusters)], own \in Seq(Clusters) : Vol(cs, own)
  BY DEF IInv, VolInv
<1>2. /\ pc = "follow" /\ TypeInv /\ Possible(FatSect(clst), o, mirror)
      /\ WrittenBack(FatSect(clst), o, mirror) /\ pc \in OpenPcs /\ ~Pending /\ win' = w
      /\ UNCHANGED <<data, opens, crashes, fsinfo, free_clust, last_clust, fsi_flag, fp, btw, clst, res, promise>>
  BY DEF ChainFollow, move_window, IInv, OpenPcs, WritePcs, Pending, fsVars
<1>3. own # <<>> /\ clst = own[Len(own)] /\ Sound(cs, own, Root, Fat)
  BY <1>1, <1>2 DEF Vol, PlaceInv, StepInv
<1>4. Len(own) \in Nat /\ Len(own) \in 1 .. Len(own) /\ clst \in Clusters /\ Fat[clst] = EOC
  <2>1. Linked(own, Fat)
    BY <1>3 DEF Sound
  <2>2. QED
    BY <1>3, <2>1 DEF Linked
<1>5. clst \in Entries /\ FatSect(clst) \in FatSects
  BY <1>4, Numbers, Kinds
<1>6. /\ fat' \in [Entries -> Links] /\ dir' \in [Files -> Ents] /\ WinOK(w, dir', fat')
      /\ FatOf(w, fat') = Fat /\ DirOf(w, dir') = Root /\ CardMoves
      /\ (o = "ok" => w.sect = FatSect(clst))
      /\ faults' \in Nat
      /\ faults' = 0 => o = "ok" /\ faults = 0 /\ (fat2 = fat => fat2' = fat')
  BY <1>2, <1>5, Moved, Kinds
<1>7. get_cluster(clst, o) = IF o = "ok" THEN Fat[clst] ELSE DISK_ERROR
  BY <1>4, <1>6, GetCluster
<1>8. SearchFrom(clst) /\ clst \in 1 .. max_clust - 1
  <2>1. ~(EOC < 2) /\ ~(EOC < max_clust) /\ ~(DISK_ERROR < 2) /\ ~(DISK_ERROR < max_clust)
    BY Numbers DEF EOC, DISK_ERROR
  <2>2. clst \in 1 .. max_clust - 1
    BY <1>4, Numbers DEF Clusters
  <2>3. get_cluster(clst, o) \in {EOC, DISK_ERROR}
    BY <1>4, <1>7
  <2>4. QED
    BY <2>1, <2>2, <2>3 DEF ChainFollow
<1>9. pc' = "probe" /\ scl' = clst /\ ncl' \in Clusters /\ \A c \in Clusters : ~Seen(c)'
  <2>1. PICK from \in 1 .. max_clust - 1 : from = clst
    BY <1>8
  <2>2. SearchFrom(from)
    BY <1>8, <2>1
  <2>3. QED
    BY <2>1, <2>2, SearchBegins
<1> HIDE DEF w
<1>10. CardInv'
  BY <1>1, <1>6, CardStep DEF IInv, Vol
<1>11. Fat' = Fat /\ Root' = Root
  BY <1>2, <1>6 DEF Fat, Root
<1>12. TypeInv'
  <2>1. ncl' \in Nat /\ scl' \in Nat
    BY <1>4, <1>9, Numbers
  <2>2. QED
    BY <1>2, <1>6, <1>9, <2>1 DEF TypeInv, OpenPcs, WritePcs
<1>13. OwnInv(own)'
  BY <1>1, <1>2, <1>9, <1>11 DEF Vol, OwnInv, OpenPcs, WritePcs
<1>14. PlaceInv(own)'
  BY <1>1, <1>2, <1>9 DEF Vol, PlaceInv, OpenPcs, WritePcs, Pending
<1>15. StepInv(cs, own)'
  BY <1>1, <1>2, <1>9 DEF Vol, StepInv, WritePcs, Pending
<1>16. DataInv(cs, own)'
  <2>1. Promises(cs)'
    BY <1>1, <1>2, <1>6, <1>11, PromiseStep DEF Vol, DataInv
  <2>2. QED
    BY <1>1, <1>2, <1>9, <2>1 DEF Vol, DataInv, OpenPcs, WritePcs
<1>17. CountInv(cs, own)'
  BY <1>1, <1>2, <1>6, <1>9, <1>11 DEF Vol, CountInv, OpenPcs, WritePcs, Outside
<1>18. SearchInv'
  BY <1>8, <1>9 DEF SearchInv
<1>19. Vol(cs, own)'
  BY <1>3, <1>11, <1>13, <1>14, <1>15, <1>16, <1>17 DEF Vol
<1>20. QED
  BY <1>10, <1>12, <1>18, <1>19 DEF IInv, VolInv

(* create_chain: the search.                                               *)
LEMMA ProbeStep ==
    ASSUME IInv, NEW o \in Outcomes, NEW mirror \in BOOLEAN, ChainProbe(o, mirror)
    PROVE  IInv'
<1> DEFINE w == Window(FatSect(ncl), o)
           cl == get_cluster(ncl, o)
<1>1. PICK cs \in [Files -> Seq(Clusters)], own \in Seq(Clusters) : Vol(cs, own)
  BY DEF IInv, VolInv
<1>2. /\ pc = "probe" /\ TypeInv /\ Possible(FatSect(ncl), o, mirror)
      /\ WrittenBack(FatSect(ncl), o, mirror) /\ pc \in OpenPcs /\ ~Pending
      /\ UNCHANGED <<data, opens, crashes, fsinfo, fp, btw, clst, scl, res, promise>>
  BY DEF ChainProbe, move_window, IInv, OpenPcs, WritePcs, Pending
<1>3. ncl \in Clusters /\ Sound(cs, own, Root, Fat) /\ btw > 0
  BY <1>1, <1>2 DEF Vol, StepInv, WritePcs
<1>4. IF own = <<>> THEN clst = 0 ELSE clst \in Clusters /\ clst # 0
  <2>1. IF own = <<>> THEN clst = 0 ELSE clst = own[Len(own)]
    BY <1>1, <1>2 DEF Vol, PlaceInv, StepInv
  <2>2. own # <<>> => own[Len(own)] \in Clusters
    OBVIOUS
  <2>3. QED
    BY <2>1, <2>2, Numbers
<1>5. ncl \in Entries /\ FatSect(ncl) \in FatSects
  BY <1>3, Numbers, Kinds
<1>6. /\ fat' \in [Entries -> Links] /\ dir' \in [Files -> Ents] /\ WinOK(w, dir', fat')
      /\ FatOf(w, fat') = Fat /\ DirOf(w, dir') = Root /\ CardMoves
      /\ (o = "ok" => w.sect = FatSect(ncl))
      /\ faults' \in Nat /\ (o # "ok" => faults' # 0)
      /\ faults' = 0 => o = "ok" /\ faults = 0 /\ (fat2 = fat => fat2' = fat')
      /\ Fat \in [Entries -> Links]
  BY <1>2, <1>5, Moved, Kinds
<1>7. cl = IF o = "ok" THEN Fat[ncl] ELSE DISK_ERROR
  BY <1>3, <1>6, GetCluster
<1>8. \/ /\ cl = 0 /\ win' = Put(w, ncl, EOC)
         /\ IF clst = 0 THEN Allocated
            ELSE pc' = "link" /\ UNCHANGED <<free_clust, last_clust, fsi_flag, ncl>>
      \/ /\ cl # 0 /\ win' = w /\ UNCHANGED <<free_clust, last_clust, fsi_flag>>
         /\ \/ cl \in {1, DISK_ERROR} /\ pc' = "got" /\ ncl' = cl
            \/ /\ cl \notin {1, DISK_ERROR}
               /\ IF ncl = scl \/ NextCluster(ncl, scl) = 0 THEN pc' = "got" /\ ncl' = 0
                  ELSE ncl' = NextCluster(ncl, scl) /\ pc' = pc
  BY DEF ChainProbe, fsVars
<1> HIDE DEF w, cl
<1>9. CardInv'
  BY <1>1, <1>6, CardStep DEF IInv, Vol
<1>10. CASE cl # 0
  <2>1. win' = w /\ UNCHANGED <<free_clust, last_clust, fsi_flag>>
    BY <1>8, <1>10
  <2>2. Fat' = Fat /\ Root' = Root
    BY <1>6, <2>1 DEF Fat, Root
  <2>3. /\ pc' \in {"got", "probe"} /\ ncl' \in Nat /\ ~Pending' /\ SearchInv'
        /\ pc' = "probe" => ncl' \in Clusters
        /\ pc' = "got" /\ faults' = 0 => ncl' = 0
    <3>1. CASE o # "ok"
      <4>1. cl = DISK_ERROR /\ pc' = "got" /\ ncl' = cl
        BY <1>7, <1>8, <1>10, <3>1
      <4>2. QED
        BY <1>6, <3>1, <4>1, Numbers DEF Pending, SearchInv
    <3>2. CASE o = "ok"
      <4>1. cl = Fat[ncl] /\ cl \in Links /\ cl \notin {1, DISK_ERROR}
        <5>1. cl = Fat[ncl] /\ cl \in Links
          BY <1>5, <1>6, <1>7, <3>2
        <5>2. QED
          BY <5>1, Numbers DEF Links
      <4>2. scl \in 1 .. max_clust - 1 /\ \A c \in Clusters : Seen(c) => Fat[c] # 0
        BY <1>2 DEF IInv, SearchInv
      <4>3. PICK n, from, t : /\ n = ncl /\ from = scl /\ t = Fat
                                 /\ n \in Clusters /\ from \in 1 .. max_clust - 1
        BY <1>3, <4>2
      <4>4. \A c \in Clusters : (IF n > from THEN c > from /\ c < n ELSE c > from \/ c < n) => t[c] # 0
        BY <4>2, <4>3 DEF Seen
      <4>5. t[n] # 0
        BY <1>10, <4>1, <4>3
      <4>6. CASE n = from \/ NextCluster(n, from) = 0
        <5>1. \A c \in Clusters : t[c] # 0
          BY <4>3, <4>4, <4>5, <4>6, SearchGoes
        <5>2. pc' = "got" /\ ncl' = 0
          BY <1>8, <1>10, <4>1, <4>3, <4>6
        <5>3. QED
          BY <2>2, <4>3, <5>1, <5>2, Numbers DEF Pending, SearchInv
      <4>7. CASE ~(n = from \/ NextCluster(n, from) = 0)
        <5> DEFINE m == NextCluster(n, from)
        <5>1. /\ m \in Clusters
              /\ \A c \in Clusters :
                   (IF m > from THEN c > from /\ c < m ELSE c > from \/ c < m) => t[c] # 0
          BY <4>3, <4>4, <4>5, <4>7, SearchGoes
        <5>2. pc' = "probe" /\ ncl' = m /\ scl' = from
          BY <1>2, <1>8, <1>10, <4>1, <4>3, <4>7
        <5> HIDE DEF m
        <5>3. SearchInv'
          BY <2>2, <4>3, <5>1, <5>2 DEF SearchInv, Seen
        <5>4. ncl' \in Nat
          BY <5>1, <5>2, Numbers
        <5>5. QED
          BY <5>1, <5>2, <5>3, <5>4 DEF Pending
      <4>8. QED
        BY <4>6, <4>7
    <3>3. QED
      BY <3>1, <3>2
  <2>4. TypeInv'
    BY <1>2, <1>6, <2>1, <2>3 DEF TypeInv, OpenPcs, WritePcs
  <2>5. OwnInv(own)'
    BY <1>1, <1>2, <2>2, <2>3 DEF Vol, OwnInv, OpenPcs, WritePcs
  <2>6. PlaceInv(own)'
    BY <1>1, <1>2, <2>3 DEF Vol, PlaceInv, OpenPcs, WritePcs
  <2>7. StepInv(cs, own)'
    BY <1>1, <1>2, <2>3 DEF Vol, StepInv, WritePcs
  <2>8. DataInv(cs, own)'
    <3>1. Promises(cs)'
      BY <1>1, <1>2, <1>6, <2>2, PromiseStep DEF Vol, DataInv
    <3>2. QED
      BY <1>1, <1>2, <2>3, <3>1 DEF Vol, DataInv, OpenPcs, WritePcs
  <2>9. CountInv(cs, own)'
    BY <1>1, <1>2, <1>6, <2>1, <2>2, <2>3 DEF Vol, CountInv, OpenPcs, WritePcs, Outside
  <2>10. Vol(cs, own)'
    BY <1>3, <2>2, <2>5, <2>6, <2>7, <2>8, <2>9 DEF Vol
  <2>11. QED
    BY <1>9, <2>3, <2>4, <2>10 DEF IInv, VolInv
<1>11. CASE cl = 0
  <2>0. o = "ok" /\ Fat[ncl] = 0
    BY <1>7, <1>11, Numbers
  <2>1. WinOK(win', dir', fat') /\ Root' = Root /\ win'.sect # Nowhere /\ Fat' = [Fat EXCEPT ![ncl] = EOC]
    <3>1. EOC \in Links /\ win' = Put(w, ncl, EOC)
      BY <1>8, <1>11 DEF Links
    <3>2. QED
      BY <1>5, <1>6, <2>0, <3>1, PutFatStep
  <2>2. Outside(cs, own, ncl) /\ Sound(cs, own, Root', Fat')
    <3>1. Outside(cs, own, ncl)
      BY <1>3, <2>0, SoundFree
    <3>2. QED
      BY <1>3, <1>5, <1>6, <2>1, <3>1, SoundMark
  <2>3. /\ Fat'[ncl] = EOC /\ \A c \in Clusters \ {ncl} : Fat'[c] = Fat[c]
        /\ FreeOn(Fat) \in Nat /\ FreeOn(Fat') = FreeOn(Fat) - 1
    <3>1. Fat'[ncl] = EOC /\ \A c \in Clusters \ {ncl} : Fat'[c] = Fat[c]
      BY <1>5, <1>6, <2>1, Numbers
    <3>2. FreeOn(Fat) \in Nat /\ FreeOn(Fat') = FreeOn(Fat) - 1
      <4>1. PICK c, v, t : c = ncl /\ v = EOC /\ t = Fat /\ c \in Clusters /\ t \in [Entries -> Links]
        BY <1>3, <1>6
      <4>2. t[c] = 0 /\ v # 0 /\ Fat' = [t EXCEPT ![c] = v]
        BY <2>0, <2>1, <4>1, Numbers
      <4>3. FreeOn(t) \in Nat /\ FreeOn([t EXCEPT ![c] = v]) = FreeOn(t) - 1
        BY <4>1, <4>2, FreeLess
      <4>4. QED
        BY <4>1, <4>2, <4>3
    <3>3. QED
      BY <3>1, <3>2
  <2>4. ncl' = ncl /\ ncl \in Nat
    BY <1>3, <1>8, <1>11, Numbers DEF Allocated
  <2>5. Promises(cs)'
    BY <1>1, <1>2, <1>6, <2>1, PromiseStep DEF Vol, DataInv
  <2>6. faults' = 0 /\ crashes' = 0 =>
           /\ fat2' = fat' /\ \A g \in Files : Root'[g].start \in Clusters \cup {0}
           /\ \A c \in Clusters : Outside(cs, own, c) => Fat[c] = 0
           /\ free_clust \in {Unknown, FreeOn(Fat)}
           /\ ~fsi_flag => fsinfo'.free = free_clust
           /\ fp'.org \in Clusters \cup {0}
    <3> SUFFICES ASSUME faults' = 0, crashes' = 0 PROVE
           /\ fat2' = fat' /\ \A g \in Files : Root'[g].start \in Clusters \cup {0}
           /\ \A c \in Clusters : Outside(cs, own, c) => Fat[c] = 0
           /\ free_clust \in {Unknown, FreeOn(Fat)}
           /\ ~fsi_flag => fsinfo'.free = free_clust
           /\ fp'.org \in Clusters \cup {0}
      OBVIOUS
    <3>1. faults = 0 /\ crashes = 0
      BY <1>2, <1>6
    <3>2. /\ fat2 = fat /\ \A g \in Files : Root[g].start \in Clusters \cup {0}
          /\ \A c \in Clusters : Outside(cs, own, c) => Fat[c] = 0
          /\ free_clust \in {Unknown, FreeOn(Fat) + 0}
          /\ ~fsi_flag => fsinfo.free = free_clust
          /\ fp.org \in Clusters \cup {0}
      BY <1>1, <1>2, <3>1 DEF Vol, CountInv
    <3>3. FreeOn(Fat) + 0 = FreeOn(Fat)
      BY <2>3
    <3>4. QED
      BY <1>2, <1>6, <2>1, <3>2, <3>3
  <2>7. CASE clst = 0
    <3>0. /\ own = <<>> /\ fp.fptr = 0 /\ fp.csect = 255 /\ Allocated
          /\ pc' = "got" /\ Pending'
          /\ free_clust' = (IF free_clust = Unknown THEN Unknown ELSE free_clust - 1)
          /\ fsi_flag' = (fsi_flag \/ free_clust # Unknown)
      <4>1. own = <<>> /\ Allocated
        BY <1>4, <1>8, <1>11, <2>7
      <4>2. fp.fptr = 0 /\ fp.csect = 255
        BY <1>1, <1>2, <4>1 DEF Vol, PlaceInv
      <4>3. QED
        BY <1>3, <2>4, <4>1, <4>2 DEF Allocated, Pending
    <3> DEFINE r == <<ncl>>
    <3>1. r \in Seq(Clusters) /\ Len(r) = 1 /\ r[1] = ncl /\ r # <<>>
      BY <1>3
    <3>2. Sound(cs, r, Root', Fat')
      <4>1. PICK c, t, d : c = ncl /\ t = Fat' /\ d = Root' /\ c \in Clusters
        BY <1>3
      <4>2. Sound(cs, <<>>, d, t) /\ t[c] = EOC /\ Outside(cs, <<>>, c) /\ t \in [Entries -> Links]
        BY <1>6, <2>1, <2>2, <2>3, <3>0, <4>1 DEF Links
      <4>3. Sound(cs, <<c>>, d, t)
        BY <4>1, <4>2, SoundFirst
      <4>4. QED
        BY <4>1, <4>3
    <3>3. PICK q : q = r
      OBVIOUS
    <3> HIDE DEF r
    <3>4. TypeInv'
      <4>1. fsi_flag' \in BOOLEAN
        BY <3>0
      <4>2. QED
        BY <1>2, <1>6, <2>1, <2>4, <3>0, <4>1 DEF TypeInv, OpenPcs, WritePcs
    <3>5. OwnInv(q)'
      BY <1>1, <1>2, <2>1, <3>0 DEF Vol, OwnInv, OpenPcs, WritePcs
    <3>6. PlaceInv(q)'
      <4>1. fp'.fptr = csize * (Len(q) - 1)
        <5>1. Len(q) - 1 = 0 /\ csize * 0 = 0
          BY <3>1, <3>3, Numbers
        <5>2. fp'.fptr = 0
          BY <1>2, <3>0
        <5>3. QED
          BY <5>1, <5>2, Zenon
      <4>2. clst' = 0
        BY <1>2, <2>7
      <4>3. QED
        BY <2>4, <3>0, <3>1, <3>3, <4>1, <4>2 DEF PlaceInv, OpenPcs, WritePcs
    <3>7. StepInv(cs, q)'
      BY <1>2, <1>3, <3>0 DEF StepInv, WritePcs
    <3>8. DataInv(cs, q)'
      <4>1. Kept(data', q, 0, opens')
        <5>1. 0 <= csize * Len(q)
          BY <3>1, <3>3, Numbers
        <5>2. QED
          BY <5>1 DEF Kept
      <4>2. promise[fp.name].size = Unknown
        BY <1>1, <1>2 DEF Vol, DataInv
      <4>3. QED
        BY <1>2, <2>5, <3>0, <4>1, <4>2 DEF DataInv, OpenPcs, WritePcs
    <3>9. CountInv(cs, q)'
      <4> SUFFICES ASSUME faults' = 0, crashes' = 0 PROVE
           /\ fat2' = fat' /\ \A g \in Files : Root'[g].start \in Clusters \cup {0}
           /\ \A c \in Clusters : Outside(cs, q, c) => Fat'[c] = 0
           /\ free_clust' \in {Unknown, FreeOn(Fat') + 0}
           /\ ~fsi_flag' => fsinfo'.free = free_clust'
           /\ fp'.org \in Clusters \cup {0}
        BY <1>3, <2>4, <3>0 DEF CountInv, OpenPcs, WritePcs
      <4>1. ASSUME NEW c \in Clusters, Outside(cs, q, c) PROVE Fat'[c] = 0
        <5>1. c # ncl /\ Outside(cs, own, c)
          BY <3>0, <3>1, <3>3, <4>1 DEF Outside
        <5>2. QED
          BY <2>3, <2>6, <5>1
      <4>2. free_clust' \in {Unknown, FreeOn(Fat') + 0}
        BY <2>3, <2>6, <3>0
      <4>3. ~fsi_flag' => fsinfo'.free = free_clust'
        BY <2>6, <3>0
      <4>4. QED
        BY <2>6, <4>1, <4>2, <4>3
    <3>10. SearchInv'
      BY <1>3, <2>4, <3>0, Numbers DEF SearchInv
    <3>11. Vol(cs, q)'
      BY <3>2, <3>3, <3>5, <3>6, <3>7, <3>8, <3>9 DEF Vol
    <3>12. QED
      BY <1>9, <3>1, <3>3, <3>4, <3>10, <3>11 DEF IInv, VolInv
  <2>8. CASE clst # 0
    <3>0. own # <<>> /\ pc' = "link" /\ UNCHANGED <<free_clust, last_clust, fsi_flag>>
      BY <1>4, <1>8, <1>11, <2>8
    <3>1. TypeInv'
      BY <1>2, <1>6, <2>1, <2>4, <3>0 DEF TypeInv, OpenPcs, WritePcs
    <3>2. OwnInv(own)'
      BY <1>1, <1>2, <2>1, <3>0 DEF Vol, OwnInv, OpenPcs, WritePcs
    <3>3. PlaceInv(own)'
      BY <1>1, <1>2, <3>0 DEF Vol, PlaceInv, OpenPcs, WritePcs, Pending
    <3>4. StepInv(cs, own)'
      <4>1. clst = fp.curr /\ fp.csect = csize
        BY <1>1, <1>2, <3>0 DEF Vol, StepInv
      <4>2. QED
        BY <1>2, <1>3, <2>2, <2>3, <2>4, <3>0, <4>1 DEF StepInv, WritePcs, Pending
    <3>5. DataInv(cs, own)'
      BY <1>1, <1>2, <2>5, <3>0 DEF Vol, DataInv, OpenPcs, WritePcs
    <3>6. CountInv(cs, own)'
      <4>1. FreeOn(Fat) = FreeOn(Fat') + 1
        BY <2>3
      <4>2. QED
        BY <2>3, <2>4, <2>6, <3>0, <4>1 DEF CountInv, OpenPcs, WritePcs
    <3>7. SearchInv'
      BY <3>0 DEF SearchInv
    <3>8. Vol(cs, own)'
      BY <2>2, <3>2, <3>3, <3>4, <3>5, <3>6 DEF Vol
    <3>9. QED
      BY <1>9, <3>1, <3>7, <3>8 DEF IInv, VolInv
  <2>9. QED
    BY <2>7, <2>8
<1>12. QED
  BY <1>10, <1>11

(* create_chain: the new cluster is linked.                                *)
LEMMA LinkStep ==
    ASSUME IInv, NEW o \in Outcomes, NEW mirror \in BOOLEAN, ChainLink(o, mirror)
    PROVE  IInv'
<1> DEFINE w == Window(FatSect(clst), o)
<1>1. PICK cs \in [Files -> Seq(Clusters)], own \in Seq(Clusters) : Vol(cs, own)
  BY DEF IInv, VolInv
<1>2. /\ pc = "link" /\ TypeInv /\ Possible(FatSect(clst), o, mirror)
      /\ WrittenBack(FatSect(clst), o, mirror) /\ pc \in OpenPcs /\ ~Pending
      /\ UNCHANGED <<data, opens, crashes, fsinfo, fp, btw, clst, scl, res, promise>>
  BY DEF ChainLink, move_window, IInv, OpenPcs, WritePcs, Pending
<1>3. /\ ncl \in Clusters /\ Sound(cs, own, Root, Fat) /\ btw > 0 /\ own # <<>> /\ clst = fp.curr
      /\ fp.csect = csize /\ Fat[ncl] = EOC /\ Outside(cs, own, ncl)
  BY <1>1, <1>2 DEF Vol, StepInv, WritePcs
<1>4. /\ clst = own[Len(own)] /\ own[1] = fp.org /\ fp.fptr = csize * (Len(own) - 1) + csize
      /\ Len(own) \in Nat /\ Len(own) \in 1 .. Len(own) /\ clst \in Clusters /\ Fat[clst] = EOC
      /\ 1 \in 1 .. Len(own)
  <2>1. clst = own[Len(own)] /\ own[1] = fp.org /\ fp.fptr = csize * (Len(own) - 1) + csize
    BY <1>1, <1>2, <1>3 DEF Vol, PlaceInv
  <2>2. Linked(own, Fat)
    BY <1>3 DEF Sound
  <2>3. /\ Len(own) \in Nat /\ Len(own) \in 1 .. Len(own) /\ own[Len(own)] \in Clusters
        /\ 1 \in 1 .. Len(own)
    BY <1>3
  <2>4. Fat[own[Len(own)]] = EOC
    BY <2>2, <2>3 DEF Linked
  <2>5. QED
    BY <2>1, <2>3, <2>4
<1>5. clst \in Entries /\ FatSect(clst) \in FatSects /\ win.sect # Nowhere
  BY <1>2, <1>4, Numbers, Kinds DEF TypeInv
<1>6. /\ fat' \in [Entries -> Links] /\ dir' \in [Files -> Ents] /\ WinOK(w, dir', fat')
      /\ FatOf(w, fat') = Fat /\ DirOf(w, dir') = Root /\ CardMoves
      /\ (o = "ok" => w.sect = FatSect(clst)) /\ w.sect # Nowhere
      /\ faults' \in Nat /\ (o # "ok" => faults' # 0)
      /\ faults' = 0 => o = "ok" /\ faults = 0 /\ (fat2 = fat => fat2' = fat')
      /\ Fat \in [Entries -> Links]
  BY <1>2, <1>5, Moved, Kinds
<1>7. /\ o = "ok" => win' = Put(w, clst, ncl) /\ Allocated
      /\ o # "ok" => /\ win' = [w EXCEPT !.wflag = TRUE] /\ pc' = "got" /\ ncl' = DISK_ERROR
                     /\ UNCHANGED <<free_clust, last_clust, fsi_flag>>
  BY DEF ChainLink, fsVars
<1> HIDE DEF w
<1>8. CardInv'
  BY <1>1, <1>6, CardStep DEF IInv, Vol
<1>9. CASE o # "ok"
  <2>1. WinOK(win', dir', fat') /\ Fat' = Fat /\ Root' = Root
    BY <1>6, <1>7, <1>9, TouchStep
  <2>2. pc' = "got" /\ ncl' = DISK_ERROR /\ ncl' \in Nat /\ ncl' # 0 /\ ~Pending' /\ faults' # 0
        /\ UNCHANGED <<free_clust, last_clust, fsi_flag>>
    BY <1>6, <1>7, <1>9, Numbers DEF Pending
  <2>4. TypeInv'
    BY <1>2, <1>6, <2>1, <2>2 DEF TypeInv, OpenPcs, WritePcs
  <2>5. OwnInv(own)'
    BY <1>1, <1>2, <2>1, <2>2 DEF Vol, OwnInv, OpenPcs, WritePcs
  <2>6. PlaceInv(own)'
    BY <1>1, <1>2, <2>2 DEF Vol, PlaceInv, OpenPcs, WritePcs
  <2>7. StepInv(cs, own)'
    BY <1>2, <1>3, <2>2 DEF StepInv, WritePcs
  <2>8. DataInv(cs, own)'
    <3>1. Promises(cs)'
      BY <1>1, <1>2, <1>6, <2>1, PromiseStep DEF Vol, DataInv
    <3>2. QED
      BY <1>1, <1>2, <2>2, <3>1 DEF Vol, DataInv, OpenPcs, WritePcs
  <2>9. CountInv(cs, own)' /\ SearchInv'
    BY <2>2 DEF CountInv, SearchInv
  <2>10. Vol(cs, own)'
    BY <1>3, <2>1, <2>5, <2>6, <2>7, <2>8, <2>9 DEF Vol
  <2>11. QED
    BY <1>8, <2>4, <2>9, <2>10 DEF IInv, VolInv
<1>10. CASE o = "ok"
  <2>0. PICK c, t, p : c = ncl /\ t = Fat /\ p = clst
    OBVIOUS
  <2> DEFINE r == Append(own, c)
  <2>1. WinOK(win', dir', fat') /\ Root' = Root /\ Fat' = [t EXCEPT ![p] = c]
    <3>1. c \in Links /\ win' = Put(w, p, c) /\ p \in Entries /\ w.sect = FatSect(p)
      BY <1>3, <1>5, <1>6, <1>7, <1>10, <2>0 DEF Links
    <3>2. WinOK(win', dir', fat') /\ Root' = DirOf(w, dir') /\ Fat' = [FatOf(w, fat') EXCEPT ![p] = c]
      BY <1>6, <3>1, PutFatStep
    <3>3. QED
      BY <1>6, <2>0, <3>2
  <2>2. /\ c \in Clusters /\ t \in [Entries -> Links] /\ t[c] = EOC /\ Outside(cs, own, c)
        /\ p = own[Len(own)] /\ p \in Clusters /\ t[p] = EOC /\ Sound(cs, own, Root, t)
    BY <1>3, <1>4, <1>6, <2>0
  <2>3. Sound(cs, r, Root', Fat')
    <3>1. PICK d : d = Root
      OBVIOUS
    <3>2. Sound(cs, Append(own, c), d, [t EXCEPT ![own[Len(own)]] = c])
      BY <1>3, <2>2, <3>1, SoundLink
    <3>3. QED
      BY <2>1, <2>2, <3>1, <3>2
  <2>4. /\ r \in Seq(Clusters) /\ Len(r) = Len(own) + 1 /\ \A i \in 1 .. Len(own) : r[i] = own[i]
        /\ r[Len(own) + 1] = c /\ r # <<>>
    BY <2>2
  <2> HIDE DEF r
  <2>5. FreeOn(t) \in Nat /\ FreeOn(Fat') = FreeOn(t)
    <3>1. t[p] # 0 /\ c # 0
      BY <2>2, Numbers
    <3>2. QED
      BY <2>1, <2>2, <3>1, FreeSame
  <2>6. /\ pc' = "got" /\ ncl' = ncl /\ Pending' /\ ncl' \in Nat
        /\ free_clust' = (IF free_clust = Unknown THEN Unknown ELSE free_clust - 1)
        /\ fsi_flag' = (fsi_flag \/ free_clust # Unknown)
    BY <1>3, <1>7, <1>10, Numbers DEF Allocated, Pending
  <2>7. TypeInv'
    <3>1. fsi_flag' \in BOOLEAN
      BY <2>6
    <3>2. QED
      BY <1>2, <1>6, <2>1, <2>6, <3>1 DEF TypeInv, OpenPcs, WritePcs
  <2>8. OwnInv(r)'
    BY <1>1, <1>2, <2>1, <2>6 DEF Vol, OwnInv, OpenPcs, WritePcs
  <2>9. PlaceInv(r)'
    <3>1. fp'.fptr = csize * (Len(r) - 1)
      <4>1. csize * (Len(own) - 1) + csize = csize * Len(own) /\ Len(r) - 1 = Len(own)
        BY <1>4, <2>4, Numbers
      <4>2. QED
        BY <1>2, <1>4, <4>1
    <3>2. clst' # 0 /\ r[1] = fp'.org /\ r[Len(r)] = ncl'
      <4>1. clst' # 0
        BY <1>2, <1>4, Numbers
      <4>2. r[1] = fp'.org
        BY <1>2, <1>4, <2>4
      <4>3. QED
        BY <2>0, <2>4, <2>6, <4>1, <4>2
    <3>3. QED
      BY <2>4, <2>6, <3>1, <3>2 DEF PlaceInv, OpenPcs, WritePcs
  <2>10. StepInv(cs, r)'
    BY <1>2, <1>3, <2>6 DEF StepInv, WritePcs
  <2>11. DataInv(cs, r)'
    <3>1. Promises(cs)'
      BY <1>1, <1>2, <1>6, <2>1, PromiseStep DEF Vol, DataInv
    <3>2. promise[fp.name].size = Unknown /\ Kept(data, own, fp.fptr, opens)
      BY <1>1, <1>2 DEF Vol, DataInv
    <3>3. Kept(data', r, fp'.fptr, opens')
      <4>1. PICK b, n, tag : b = data /\ n = fp.fptr /\ tag = opens
        OBVIOUS
      <4>2. n \in Int /\ Kept(b, own, n, tag)
        BY <1>2, <3>2, <4>1 DEF TypeInv, FIL
      <4>3. Kept(b, r, n, tag)
        BY <2>4, <4>2, KeptAppend
      <4>4. QED
        BY <1>2, <4>1, <4>3
    <3>4. QED
      BY <1>2, <2>6, <3>1, <3>2, <3>3 DEF DataInv, OpenPcs, WritePcs
  <2>12. CountInv(cs, r)'
    <3> SUFFICES ASSUME faults' = 0, crashes' = 0 PROVE
           /\ fat2' = fat' /\ \A g \in Files : Root'[g].start \in Clusters \cup {0}
           /\ \A x \in Clusters : Outside(cs, r, x) => Fat'[x] = 0
           /\ free_clust' \in {Unknown, FreeOn(Fat') + 0}
           /\ ~fsi_flag' => fsinfo'.free = free_clust'
           /\ fp'.org \in Clusters \cup {0}
      BY <1>3, <2>6 DEF CountInv, OpenPcs, WritePcs
    <3>1. faults = 0 /\ crashes = 0
      BY <1>2, <1>6
    <3>2. /\ fat2 = fat /\ \A g \in Files : Root[g].start \in Clusters \cup {0}
          /\ \A x \in Clusters : Outside(cs, own, x) /\ x # ncl => Fat[x] = 0
          /\ free_clust \in {Unknown, FreeOn(Fat) + 1}
          /\ ~fsi_flag => fsinfo.free = free_clust
          /\ fp.org \in Clusters \cup {0}
      BY <1>1, <1>2, <3>1 DEF Vol, CountInv
    <3>3. ASSUME NEW x \in Clusters, Outside(cs, r, x) PROVE Fat'[x] = 0
      <4>1. x # c
        <5>1. Len(own) + 1 \in 1 .. Len(r)
          BY <1>4, <2>4
        <5>2. QED
          BY <2>4, <3>3, <5>1 DEF Outside
      <4>2. \A i \in 1 .. Len(own) : i \in 1 .. Len(r) /\ own[i] # x
        <5>1. \A i \in 1 .. Len(own) : i \in 1 .. Len(r)
          BY <1>4, <2>4
        <5>2. QED
          BY <2>4, <3>3, <5>1 DEF Outside
      <4>3. Outside(cs, own, x) /\ x # p
        BY <1>4, <2>2, <3>3, <4>2 DEF Outside
      <4>4. t[x] = 0 /\ x \in Entries
        BY <2>0, <3>2, <4>1, <4>3, Numbers
      <4>5. QED
        BY <2>1, <2>2, <4>3, <4>4
    <3>4. free_clust' \in {Unknown, FreeOn(Fat') + 0}
      <4>1. free_clust \in {Unknown, FreeOn(t) + 1}
        BY <2>0, <3>2
      <4>2. QED
        BY <2>5, <2>6, <4>1
    <3>5. ~fsi_flag' => fsinfo'.free = free_clust'
      BY <1>2, <2>6, <3>2
    <3>6. QED
      BY <1>2, <1>6, <2>1, <3>2, <3>3, <3>4, <3>5
  <2>13. SearchInv'
    BY <1>3, <2>6, Numbers DEF SearchInv
  <2>14. Vol(cs, r)'
    BY <2>3, <2>8, <2>9, <2>10, <2>11, <2>12 DEF Vol
  <2>15. QED
    BY <1>8, <2>4, <2>7, <2>13, <2>14 DEF IInv, VolInv
<1>11. QED
  BY <1>9, <1>10
-----------------------------------------------------------------------------
(* f_sync.                                                                 *)
LEMMA SyncStep ==
    ASSUME IInv, NEW o \in Outcomes, NEW mirror \in BOOLEAN, f_sync(o, mirror)
    PROVE  IInv'
<1> DEFINE w == Window(Dir, o)
           e == [start |-> fp.org, size |-> fp.fsize]
<1>1. PICK cs \in [Files -> Seq(Clusters)], own \in Seq(Clusters) : Vol(cs, own)
  BY DEF IInv, VolInv
<1>2. /\ pc = "sync" /\ TypeInv /\ Possible(Dir, o, mirror) /\ WrittenBack(Dir, o, mirror)
      /\ pc \in OpenPcs /\ ~Pending
      /\ UNCHANGED <<data, opens, crashes, fsinfo, free_clust, last_clust, fsi_flag, btw, clst, scl, ncl, promise>>
  BY DEF f_sync, move_window, IInv, fsVars, locals, OpenPcs, Pending
<1>3. Sound(cs, own, Root, Fat) /\ Root[fp.name].start = 0 /\ fp \in FIL /\ fp.fsize <= fp.fptr
  BY <1>1, <1>2 DEF Vol, OwnInv, TypeInv
<1>4. IF own = <<>> THEN fp.org \notin Clusters ELSE fp.org = own[1]
  BY <1>1, <1>2 DEF Vol, PlaceInv
<1>5. /\ fat' \in [Entries -> Links] /\ dir' \in [Files -> Ents] /\ WinOK(w, dir', fat')
      /\ FatOf(w, fat') = Fat /\ DirOf(w, dir') = Root /\ CardMoves /\ (o = "ok" => w.sect = Dir)
      /\ faults' \in Nat /\ (o # "ok" => faults' # 0)
      /\ faults' = 0 => o = "ok" /\ faults = 0 /\ (fat2 = fat => fat2' = fat')
      /\ Fat \in [Entries -> Links] /\ Root \in [Files -> Ents]
  BY <1>2, Moved, Kinds
<1>6. /\ o # "ok" => win' = w /\ pc' = "idle" /\ fp' = fp
      /\ o = "ok" => win' = Put(w, fp.name, e) /\ fp' = [fp EXCEPT !.written = FALSE] /\ pc' = "flush"
  BY DEF f_sync, Return
<1> HIDE DEF w
<1>7. CardInv'
  BY <1>1, <1>5, CardStep DEF IInv, Vol
<1>8. CASE o # "ok"
  <2>1. Fat' = Fat /\ Root' = Root
    BY <1>5, <1>6, <1>8 DEF Fat, Root
  <2>2. TypeInv'
    BY <1>2, <1>5, <1>6, <1>8 DEF TypeInv
  <2>3. QED
    BY <1>2, <1>5, <1>6, <1>8, <2>1, <2>2, FailStep
<1>9. CASE o = "ok"
  <2>0. PICK f, v, d : f = fp.name /\ v = e /\ d = Root
    OBVIOUS
  <2>1. f \in Files /\ v \in Ents /\ v.start = fp.org /\ v.size = fp.fsize /\ fp.fsize \in Nat /\ fp.fptr \in Nat
    BY <1>3, <2>0 DEF FIL, Ents
  <2> HIDE DEF e
  <2> DEFINE ds == [cs EXCEPT ![f] = own]
  <2>2. WinOK(win', dir', fat') /\ Fat' = Fat /\ Root' = [d EXCEPT ![f] = v]
    <3>1. win' = Put(w, f, v) /\ w.sect = Dir
      BY <1>5, <1>6, <1>9, <2>0
    <3>2. WinOK(win', dir', fat') /\ Fat' = FatOf(w, fat') /\ Root' = [DirOf(w, dir') EXCEPT ![f] = v]
      BY <1>5, <2>1, <3>1, PutDirStep
    <3>3. QED
      BY <1>5, <2>0, <3>2
  <2>3. Sound(ds, <<>>, Root', Fat')
    <3>1. PICK t : t = Fat
      OBVIOUS
    <3>2. /\ d \in [Files -> Ents] /\ Sound(cs, own, d, t) /\ d[f].start = 0
          /\ IF own = <<>> THEN v.start \notin Clusters ELSE v.start = own[1]
      BY <1>3, <1>4, <1>5, <2>0, <2>1, <3>1
    <3>3. Sound(ds, <<>>, [d EXCEPT ![f] = v], t)
      BY <2>1, <3>2, SoundAttach
    <3>4. QED
      BY <2>2, <3>1, <3>3
  <2>4. ds \in [Files -> Seq(Clusters)] /\ ds[f] = own /\ \A g \in Files \ {f} : ds[g] = cs[g]
    BY <2>1
  <2> HIDE DEF ds
  <2>5. Root'[f] = v /\ \A g \in Files \ {f} : Root'[g] = Root[g]
    BY <1>5, <2>0, <2>1, <2>2
  <2>6. pc' = "flush" /\ fp' \in FIL /\ fp'.name = f /\ fp'.fsize = fp.fsize
    <3>1. pc' = "flush" /\ fp' = [fp EXCEPT !.written = FALSE]
      BY <1>6, <1>9
    <3>2. QED
      BY <1>3, <2>0, <3>1 DEF FIL
  <2>7. TypeInv'
    BY <1>2, <1>5, <2>2, <2>6 DEF TypeInv
  <2>8. OwnInv(<<>>)' /\ PlaceInv(<<>>)' /\ StepInv(ds, <<>>)'
    BY <2>6 DEF OwnInv, PlaceInv, StepInv, OpenPcs, WritePcs, Pending
  <2>9. DataInv(ds, <<>>)'
    <3>1. promise[f].size = Unknown /\ Kept(data, own, fp.fptr, opens) /\ Promises(cs)
      BY <1>1, <1>2, <2>0 DEF Vol, DataInv
    <3>2. Promises(ds)'
      <4>1. \A g \in Files : promise'[g].size # Unknown =>
               promise'[g] = promise[g] /\ Root'[g] = Root[g] /\ ds[g] = cs[g]
        BY <1>2, <2>4, <2>5, <3>1
      <4>2. QED
        BY <1>2, <1>3, <1>5, <3>1, <4>1, PromiseStep
    <3>3. Kept(data', ds[f], fp'.fsize, opens')
      <4>1. PICK b, n, m, tag : b = data /\ n = fp.fptr /\ m = fp.fsize /\ tag = opens
        OBVIOUS
      <4>2. n \in Int /\ m \in Int /\ m <= n /\ Kept(b, own, n, tag)
        BY <1>3, <2>1, <3>1, <4>1
      <4>3. Kept(b, own, m, tag)
        BY <4>2, KeptLess
      <4>4. QED
        BY <1>2, <2>4, <2>6, <4>1, <4>3
    <3>4. QED
      BY <1>2, <2>1, <2>5, <2>6, <3>1, <3>2, <3>3 DEF DataInv, OpenPcs, WritePcs
  <2>10. CountInv(ds, <<>>)'
    <3> SUFFICES ASSUME faults' = 0, crashes' = 0 PROVE
           /\ fat2' = fat' /\ \A g \in Files : Root'[g].start \in Clusters \cup {0}
           /\ \A x \in Clusters : Outside(ds, <<>>, x) => Fat'[x] = 0
           /\ free_clust' \in {Unknown, FreeOn(Fat') + 0}
           /\ ~fsi_flag' => fsinfo'.free = free_clust'
      BY <2>6 DEF CountInv, OpenPcs, WritePcs
    <3>1. faults = 0 /\ crashes = 0
      BY <1>2, <1>5
    <3>2. /\ fat2 = fat /\ \A g \in Files : Root[g].start \in Clusters \cup {0}
          /\ \A x \in Clusters : Outside(cs, own, x) => Fat[x] = 0
          /\ free_clust \in {Unknown, FreeOn(Fat) + 0}
          /\ ~fsi_flag => fsinfo.free = free_clust
          /\ fp.org \in Clusters \cup {0}
      BY <1>1, <1>2, <3>1 DEF Vol, CountInv
    <3>3. ASSUME NEW x \in Clusters, Outside(ds, <<>>, x) PROVE Fat'[x] = 0
      <4>1. cs[f] = <<>>
        <5>1. Owns(cs, f, Root) /\ Root[f].start = 0
          BY <1>3, <2>0, <2>1 DEF Sound
        <5>2. QED
          BY <5>1, Numbers DEF Owns
      <4>2. ASSUME NEW g \in Files, NEW i \in 1 .. Len(cs[g]) PROVE cs[g][i] # x
        <5>1. g # f
          BY <4>1
        <5>2. QED
          BY <2>4, <3>3, <5>1 DEF Outside
      <4>3. Outside(cs, own, x)
        BY <2>1, <2>4, <3>3, <4>2 DEF Outside
      <4>4. QED
        BY <2>2, <3>2, <4>3
    <3>4. \A g \in Files : Root'[g].start \in Clusters \cup {0}
      BY <2>1, <2>5, <3>2
    <3>5. QED
      BY <1>2, <1>5, <2>2, <3>2, <3>3, <3>4
  <2>11. SearchInv'
    BY <2>6 DEF SearchInv
  <2>12. Vol(ds, <<>>)' /\ <<>> \in Seq(Clusters)
    BY <2>3, <2>8, <2>9, <2>10 DEF Vol
  <2>13. QED
    BY <1>7, <2>4, <2>7, <2>11, <2>12 DEF IInv, VolInv
<1>10. QED
  BY <1>8, <1>9

(* f_close promises the file, which is then on the card.                   *)
LEMMA PromisedStep ==
    ASSUME TypeInv, NEW cs, NEW own, Sound(cs, own, Root, Fat), Promises(cs), CardMoves, data' = data,
           Promised, Root' = Root, dir' = Root, fat' = Fat,
           Root[fp.name].size = fp.fsize, Kept(data, cs[fp.name], fp.fsize, opens)
    PROVE  Promises(cs)' /\ promise' \in [Files -> [size : Int, open : Int]]
<1>1. PICK f, p : f = fp.name /\ p = [size |-> fp.fsize, open |-> opens]
  OBVIOUS
<1>2. f \in Files /\ p \in [size : Int, open : Int] /\ p.size = fp.fsize /\ p.open = opens
  BY <1>1 DEF TypeInv, FIL
<1>3. promise \in [Files -> [size : Int, open : Int]] /\ promise' = [promise EXCEPT ![f] = p]
  BY <1>1 DEF TypeInv, Promised
<1>4. /\ promise' \in [Files -> [size : Int, open : Int]] /\ promise'[f] = p
      /\ \A g \in Files \ {f} : promise'[g] = promise[g]
  BY <1>2, <1>3
<1>5. SUFFICES ASSUME NEW g \in Files, promise'[g].size # Unknown
               PROVE  /\ Linked(cs[g], fat') /\ Root'[g] = dir'[g] /\ dir'[g].size = promise'[g].size
                      /\ Kept(data', cs[g], promise'[g].size, promise'[g].open)
  BY <1>4 DEF Promises
<1>6. Linked(cs[g], Fat)
  BY DEF Sound
<1>7. CASE g = f
  BY <1>1, <1>2, <1>4, <1>6, <1>7
<1>8. CASE g # f
  <2>1. /\ Root[g] = dir[g] /\ dir[g].size = promise[g].size
        /\ Kept(data, cs[g], promise[g].size, promise[g].open) /\ promise'[g] = promise[g]
    BY <1>4, <1>5, <1>8 DEF Promises
  <2>2. QED
    BY <1>6, <2>1
<1>9. QED
  BY <1>7, <1>8

(* sync.                                                                   *)
LEMMA FlushStep ==
    ASSUME IInv, NEW o \in Outcomes, NEW mirror \in BOOLEAN, sync(o, mirror)
    PROVE  IInv'
<1> DEFINE w == Window(Nowhere, o)
<1>1. PICK cs \in [Files -> Seq(Clusters)], own \in Seq(Clusters) : Vol(cs, own)
  BY DEF IInv, VolInv
<1>2. /\ pc = "flush" /\ TypeInv /\ Possible(Nowhere, o, mirror) /\ WrittenBack(Nowhere, o, mirror) /\ win' = w
      /\ UNCHANGED <<data, opens, crashes, fsinfo, free_clust, last_clust, fsi_flag, fp, btw, clst, scl, ncl>>
  BY DEF sync, move_window, IInv, fsVars, locals
<1>3. own = <<>> /\ Sound(cs, <<>>, Root, Fat)
  BY <1>1, <1>2 DEF Vol, OwnInv, OpenPcs, WritePcs
<1>4. /\ Root[fp.name].size = fp.fsize /\ Kept(data, cs[fp.name], fp.fsize, opens) /\ Promises(cs)
      /\ promise[fp.name].size = Unknown
  BY <1>1, <1>2 DEF Vol, DataInv
<1>5. /\ fat' \in [Entries -> Links] /\ dir' \in [Files -> Ents] /\ WinOK(w, dir', fat')
      /\ FatOf(w, fat') = Fat /\ DirOf(w, dir') = Root /\ CardMoves /\ (o = "ok" => ~w.wflag)
      /\ faults' \in Nat /\ (o # "ok" => faults' # 0)
      /\ faults' = 0 => o = "ok" /\ faults = 0 /\ (fat2 = fat => fat2' = fat')
      /\ Fat \in [Entries -> Links] /\ Root \in [Files -> Ents]
  BY <1>2, Moved, Kinds
<1>6. \/ o # "ok" /\ pc' = "idle" /\ promise' = promise
      \/ o = "ok" /\ fsi_flag /\ pc' = "fsinfo" /\ promise' = promise
      \/ o = "ok" /\ ~fsi_flag /\ pc' = "idle" /\ Promised
  BY DEF sync, Return
<1> HIDE DEF w
<1>7. CardInv'
  BY <1>1, <1>5, CardStep DEF IInv, Vol
<1>8. Fat' = Fat /\ Root' = Root
  BY <1>2, <1>5 DEF Fat, Root
<1>9. CASE o # "ok"
  <2>1. TypeInv'
    BY <1>2, <1>5, <1>6, <1>9 DEF TypeInv
  <2>2. QED
    BY <1>2, <1>5, <1>6, <1>8, <1>9, <2>1, FailStep
<1>10. CASE o = "ok"
  <2>1. ~win'.wflag /\ fat' = Fat /\ dir' = Root
    <3>1. FatOf(w, fat') = fat' /\ DirOf(w, dir') = dir' /\ ~w.wflag
      BY <1>5, <1>10, ViewTypes
    <3>2. QED
      BY <1>2, <1>5, <3>1
  <2>2. CASE fsi_flag /\ pc' = "fsinfo" /\ promise' = promise
    <3>1. TypeInv'
      BY <1>2, <1>5, <2>1, <2>2 DEF TypeInv
    <3>2. OwnInv(<<>>)' /\ PlaceInv(<<>>)' /\ StepInv(cs, <<>>)' /\ SearchInv'
      BY <2>2 DEF OwnInv, PlaceInv, StepInv, OpenPcs, WritePcs, Pending, SearchInv
    <3>3. DataInv(cs, <<>>)'
      <4>1. Promises(cs)'
        BY <1>2, <1>3, <1>4, <1>5, <1>8, <2>2, PromiseStep
      <4>2. QED
        BY <1>2, <1>4, <1>8, <2>2, <4>1 DEF DataInv, OpenPcs, WritePcs
    <3>4. CountInv(cs, <<>>)'
      BY <1>1, <1>2, <1>3, <1>5, <1>8, <2>2 DEF Vol, CountInv, OpenPcs, WritePcs, Outside
    <3>5. Vol(cs, <<>>)'
      BY <1>3, <1>8, <3>2, <3>3, <3>4 DEF Vol
    <3>6. QED
      BY <1>3, <1>7, <3>1, <3>2, <3>5 DEF IInv, VolInv
  <2>3. CASE ~fsi_flag /\ pc' = "idle" /\ Promised
    <3>0. Promises(cs)' /\ promise' \in [Files -> [size : Int, open : Int]]
      BY <1>2, <1>3, <1>4, <1>5, <1>8, <2>1, <2>3, PromisedStep
    <3>1. TypeInv'
      BY <1>2, <1>5, <2>1, <2>3, <3>0 DEF TypeInv
    <3>2. OwnInv(<<>>)' /\ PlaceInv(<<>>)' /\ StepInv(cs, <<>>)' /\ SearchInv'
      BY <2>3 DEF OwnInv, PlaceInv, StepInv, OpenPcs, WritePcs, Pending, SearchInv
    <3>3. DataInv(cs, <<>>)'
      BY <2>3, <3>0 DEF DataInv, OpenPcs, WritePcs
    <3>4. CountInv(cs, <<>>)'
      BY <1>1, <1>2, <1>3, <1>5, <1>8, <2>1, <2>3 DEF Vol, CountInv, OpenPcs, WritePcs, Outside
    <3>5. Vol(cs, <<>>)'
      BY <1>3, <1>8, <3>2, <3>3, <3>4 DEF Vol
    <3>6. QED
      BY <1>3, <1>7, <3>1, <3>2, <3>5 DEF IInv, VolInv
  <2>4. QED
    BY <1>6, <1>10, <2>2, <2>3
<1>11. QED
  BY <1>9, <1>10

(* sync: FSInfo.                                                           *)
LEMMA InfoStep ==
    ASSUME IInv, NEW ok \in BOOLEAN, SyncFsInfo(ok)
    PROVE  IInv'
<1>1. PICK cs \in [Files -> Seq(Clusters)], own \in Seq(Clusters) : Vol(cs, own)
  BY DEF IInv, VolInv
<1>2. /\ pc = "fsinfo" /\ TypeInv /\ Promised /\ pc' = "idle" /\ win' = EmptyWindow /\ fsi_flag' = FALSE
      /\ faults' = (IF ok THEN faults ELSE faults + 1)
      /\ fsinfo' = (IF ok THEN [free |-> free_clust, next |-> last_clust] ELSE fsinfo)
      /\ UNCHANGED <<fat, fat2, dir, data, free_clust, last_clust, fp, btw, clst, scl, ncl, opens, crashes>>
  BY DEF SyncFsInfo, IInv, locals, Return
<1>3. own = <<>> /\ Sound(cs, <<>>, Root, Fat)
  BY <1>1, <1>2 DEF Vol, OwnInv, OpenPcs, WritePcs
<1>4. /\ Root[fp.name].size = fp.fsize /\ Kept(data, cs[fp.name], fp.fsize, opens) /\ Promises(cs)
  BY <1>1, <1>2 DEF Vol, DataInv
<1>5. /\ fat \in [Entries -> Links] /\ dir \in [Files -> Ents] /\ WinOK(win, dir, fat) /\ faults \in Nat
      /\ ~win.wflag
  BY <1>2 DEF TypeInv
<1>6. Fat = fat /\ Root = dir
  BY <1>5, ViewTypes DEF Fat, Root
<1>7. WinOK(win', dir', fat') /\ ~win'.wflag /\ Fat' = Fat /\ Root' = Root
  <2>1. /\ WinOK(EmptyWindow, dir, fat) /\ ~EmptyWindow.wflag
        /\ FatOf(EmptyWindow, fat) = fat /\ DirOf(EmptyWindow, dir) = dir
    BY <1>5, NoWindow
  <2>2. FatOf(win', fat') = fat /\ DirOf(win', dir') = dir
    BY <1>2, <2>1
  <2>3. QED
    BY <1>2, <1>6, <2>1, <2>2 DEF Fat, Root
<1>8. CardMoves
  BY <1>2 DEF CardMoves
<1>9. CardInv'
  BY <1>1, <1>8, CardStep DEF IInv, Vol
<1>10. Promises(cs)' /\ promise' \in [Files -> [size : Int, open : Int]]
  BY <1>2, <1>3, <1>4, <1>6, <1>7, <1>8, PromisedStep
<1>11. TypeInv'
  <2>1. faults' \in Nat
    BY <1>2, <1>5
  <2>2. QED
    BY <1>2, <1>5, <1>7, <1>10, <2>1 DEF TypeInv
<1>12. OwnInv(<<>>)' /\ PlaceInv(<<>>)' /\ StepInv(cs, <<>>)' /\ SearchInv'
  BY <1>2 DEF OwnInv, PlaceInv, StepInv, OpenPcs, WritePcs, Pending, SearchInv
<1>13. DataInv(cs, <<>>)'
  BY <1>2, <1>10 DEF DataInv, OpenPcs, WritePcs
<1>14. CountInv(cs, <<>>)'
  <2>1. faults' = 0 => ok /\ faults = 0
    BY <1>2, <1>5
  <2>2. ok => fsinfo'.free = free_clust
    BY <1>2
  <2>3. QED
    BY <1>1, <1>2, <1>3, <1>7, <2>1, <2>2 DEF Vol, CountInv, OpenPcs, WritePcs, Outside
<1>15. Vol(cs, <<>>)'
  BY <1>3, <1>7, <1>12, <1>13, <1>14 DEF Vol
<1>16. QED
  BY <1>3, <1>9, <1>11, <1>12, <1>15 DEF IInv, VolInv

(* A mount that fails leaves the volume and memory as they are.            *)
LEMMA MountFailsStep ==
    ASSUME IInv, NEW r, MountFails(r)
    PROVE  IInv'
<1>1. /\ pc = "down" /\ pc' = "down" /\ opens' = opens + 1 /\ faults' = faults + 1
      /\ UNCHANGED <<fat, fat2, dir, data, fsinfo, win, free_clust, last_clust, fsi_flag, fp, btw, clst,
                     scl, ncl, crashes, promise>>
  BY DEF MountFails, Return, diskVars, fsVars, locals
<1>2. Fat' = Fat /\ Root' = Root
  BY <1>1 DEF Fat, Root
<1>3. opens' \in Nat /\ faults' \in Nat /\ faults' # 0
  BY <1>1 DEF IInv, TypeInv
<1>4. TypeInv' /\ CardInv' /\ SearchInv'
  BY <1>1, <1>2, <1>3 DEF IInv, TypeInv, CardInv, SearchInv, WinOK
<1>5. PICK cs \in [Files -> Seq(Clusters)], own \in Seq(Clusters) : Vol(cs, own)
  BY DEF IInv, VolInv
<1>6. OwnInv(own)' /\ PlaceInv(own)' /\ StepInv(cs, own)'
  BY <1>1, <1>2, <1>5 DEF Vol, OwnInv, PlaceInv, StepInv, OpenPcs, WritePcs, Pending
<1>7. DataInv(cs, own)' /\ CountInv(cs, own)'
  BY <1>1, <1>2, <1>3, <1>5 DEF Vol, DataInv, CountInv, Promises, OpenPcs, WritePcs
<1>8. Vol(cs, own)'
  BY <1>1, <1>2, <1>5, <1>6, <1>7 DEF Vol
<1>9. QED
  BY <1>4, <1>8 DEF IInv, VolInv

(* auto_mount.                                                             *)
LEMMA MountStep ==
    ASSUME IInv, NEW ok \in BOOLEAN, auto_mount(ok)
    PROVE  IInv'
<1>1. PICK cs \in [Files -> Seq(Clusters)], own \in Seq(Clusters) : Vol(cs, own)
  BY DEF IInv, VolInv
<1>2. /\ pc = "down" /\ TypeInv /\ pc' = "idle" /\ win' = EmptyWindow /\ fsi_flag' = FALSE
      /\ faults' = (IF ok THEN faults ELSE faults + 1)
      /\ free_clust' = (IF ok THEN fsinfo.free ELSE Unknown)
      /\ UNCHANGED <<fat, fat2, dir, data, fsinfo, fp, btw, clst, scl, ncl, opens, crashes, promise>>
  BY DEF auto_mount, IInv, locals, diskVars
<1>3. own = <<>> /\ Sound(cs, <<>>, Root, Fat)
  BY <1>1, <1>2 DEF Vol, OwnInv, OpenPcs, WritePcs
<1>5. /\ fat \in [Entries -> Links] /\ dir \in [Files -> Ents] /\ WinOK(win, dir, fat) /\ faults \in Nat
      /\ ~win.wflag
  BY <1>2 DEF TypeInv
<1>6. Fat = fat /\ Root = dir
  BY <1>5, ViewTypes DEF Fat, Root
<1>7. WinOK(win', dir', fat') /\ ~win'.wflag /\ Fat' = Fat /\ Root' = Root
  <2>1. /\ WinOK(EmptyWindow, dir, fat) /\ ~EmptyWindow.wflag
        /\ FatOf(EmptyWindow, fat) = fat /\ DirOf(EmptyWindow, dir) = dir
    BY <1>5, NoWindow
  <2>2. FatOf(win', fat') = fat /\ DirOf(win', dir') = dir
    BY <1>2, <2>1
  <2>3. QED
    BY <1>2, <1>6, <2>1, <2>2 DEF Fat, Root
<1>8. CardMoves
  BY <1>2 DEF CardMoves
<1>9. CardInv'
  BY <1>1, <1>8, CardStep DEF IInv, Vol
<1>10. Promises(cs)'
  BY <1>1, <1>2, <1>7, <1>8, PromiseStep DEF Vol, DataInv
<1>11. TypeInv'
  <2>1. faults' \in Nat
    BY <1>2, <1>5
  <2>2. QED
    BY <1>2, <1>5, <1>7, <2>1 DEF TypeInv
<1>12. OwnInv(<<>>)' /\ PlaceInv(<<>>)' /\ StepInv(cs, <<>>)' /\ SearchInv'
  BY <1>2 DEF OwnInv, PlaceInv, StepInv, OpenPcs, WritePcs, Pending, SearchInv
<1>13. DataInv(cs, <<>>)'
  BY <1>2, <1>10 DEF DataInv, OpenPcs, WritePcs
<1>14. CountInv(cs, <<>>)'
  <2> SUFFICES ASSUME faults' = 0, crashes' = 0 PROVE
         /\ fat2' = fat' /\ \A g \in Files : Root'[g].start \in Clusters \cup {0}
         /\ \A x \in Clusters : Outside(cs, <<>>, x) => Fat'[x] = 0
         /\ free_clust' \in {Unknown, FreeOn(Fat') + 0}
         /\ fsinfo'.free = free_clust'
    BY <1>2, <1>7 DEF CountInv, OpenPcs, WritePcs
  <2>1. faults = 0 /\ crashes = 0 /\ ok
    BY <1>2, <1>5
  <2>2. /\ fat2 = fat /\ \A g \in Files : Root[g].start \in Clusters \cup {0}
        /\ \A x \in Clusters : Outside(cs, <<>>, x) => Fat[x] = 0
        /\ fsinfo.free \in {Unknown, FreeOn(Fat)}
    BY <1>1, <1>2, <1>3, <2>1 DEF Vol, CountInv
  <2>3. FreeOn(Fat) + 0 = FreeOn(Fat)
    BY <1>5, <1>6, FreeType
  <2>4. QED
    BY <1>2, <1>7, <2>1, <2>2, <2>3
<1>15. Vol(cs, <<>>)'
  BY <1>3, <1>7, <1>12, <1>13, <1>14 DEF Vol
<1>16. QED
  BY <1>3, <1>9, <1>11, <1>12, <1>15 DEF IInv, VolInv

(* A crash leaves the card.  The chain of a file that was closed is the    *)
(* same there.                                                             *)
LEMMA CrashStep ==
    ASSUME IInv, Crash
    PROVE  IInv'
<1>1. PICK cs \in [Files -> Seq(Clusters)], own \in Seq(Clusters) : Vol(cs, own)
  BY DEF IInv, VolInv
<1>2. /\ TypeInv /\ pc' = "down" /\ win' = EmptyWindow /\ fsi_flag' = FALSE
      /\ crashes' = crashes + 1 /\ fp' = NoFile /\ btw' = 0 /\ clst' = 0 /\ scl' = 0 /\ ncl' = 0
      /\ UNCHANGED <<fat, fat2, dir, data, fsinfo, opens, faults, promise>>
  BY DEF Crash, IInv, diskVars, Return
<1>3. PICK ks \in [Files -> Seq(Clusters)] : Sound(ks, <<>>, dir, fat)
  BY DEF IInv, CardInv
<1>4. fat \in [Entries -> Links] /\ dir \in [Files -> Ents] /\ crashes \in Nat
  BY <1>2 DEF TypeInv
<1>5. WinOK(win', dir', fat') /\ ~win'.wflag /\ Fat' = fat /\ Root' = dir
  <2>1. /\ WinOK(EmptyWindow, dir, fat) /\ ~EmptyWindow.wflag
        /\ FatOf(EmptyWindow, fat) = fat /\ DirOf(EmptyWindow, dir) = dir
    BY <1>4, NoWindow
  <2>2. FatOf(win', fat') = fat /\ DirOf(win', dir') = dir
    BY <1>2, <2>1
  <2>3. QED
    BY <1>2, <2>1, <2>2 DEF Fat, Root
<1>6. CardInv'
  BY <1>2, <1>3 DEF CardInv
<1>7. Promises(ks)'
  <2>1. SUFFICES ASSUME NEW f \in Files, promise'[f].size # Unknown
                 PROVE  /\ Linked(ks[f], fat') /\ Root'[f] = dir'[f] /\ dir'[f].size = promise'[f].size
                        /\ Kept(data', ks[f], promise'[f].size, promise'[f].open)
    BY DEF Promises
  <2>2. /\ Linked(cs[f], fat) /\ Root[f] = dir[f] /\ dir[f].size = promise[f].size
        /\ Kept(data, cs[f], promise[f].size, promise[f].open)
    BY <1>1, <1>2, <2>1 DEF Vol, DataInv, Promises
  <2>3. Owns(cs, f, Root) /\ Owns(ks, f, dir) /\ Linked(ks[f], fat)
    BY <1>1, <1>3 DEF Vol, Sound
  <2>4. ks[f] = cs[f]
    <3>1. CASE dir[f].start \in Clusters
      <4>1. ks[f] # <<>> /\ cs[f] # <<>> /\ ks[f][1] = cs[f][1]
        BY <2>2, <2>3, <3>1 DEF Owns
      <4>2. QED
        BY <2>2, <2>3, <4>1, ChainUnique
    <3>2. CASE dir[f].start \notin Clusters
      BY <2>2, <2>3, <3>2 DEF Owns
    <3>3. QED
      BY <3>1, <3>2
  <2>5. QED
    BY <1>2, <1>5, <2>2, <2>4
<1>8. TypeInv'
  <2>1. crashes' \in Nat /\ NoFile \in FIL
    BY <1>2, <1>4, VolumeAssumption DEF NoFile, FIL
  <2>2. QED
    BY <1>2, <1>4, <1>5, <2>1 DEF TypeInv
<1>9. OwnInv(<<>>)' /\ PlaceInv(<<>>)' /\ StepInv(ks, <<>>)' /\ SearchInv'
  BY <1>2 DEF OwnInv, PlaceInv, StepInv, OpenPcs, WritePcs, Pending, SearchInv
<1>10. DataInv(ks, <<>>)'
  BY <1>2, <1>7 DEF DataInv, OpenPcs, WritePcs
<1>11. CountInv(ks, <<>>)'
  <2>1. crashes' # 0
    BY <1>2, <1>4
  <2>2. QED
    BY <2>1 DEF CountInv
<1>12. Vol(ks, <<>>)' /\ <<>> \in Seq(Clusters)
  BY <1>3, <1>5, <1>9, <1>10, <1>11 DEF Vol
<1>13. QED
  BY <1>6, <1>8, <1>9, <1>12 DEF IInv, VolInv

(* What a chain of the old file leaves in its FAT entries.                 *)
LEMMA IsLink ==
    ASSUME NEW x, x = EOC \/ x \in Clusters
    PROVE  x \in Links
BY DEF Links

(* A place of a sequence that is not its last has a next one.              *)
LEMMA NotLast ==
    ASSUME NEW n \in Nat, NEW i \in 1 .. n, i # n
    PROVE  i + 1 \in 1 .. n
OBVIOUS

(* The volume before the first call.                                       *)
LEMMA InitInv == Init => IInv
<1> USE Numbers
<1>1. SUFFICES ASSUME Init PROVE IInv
  OBVIOUS
<1> DEFINE linked(chain) == [e \in Entries |->
                    IF e < 2 THEN EOC
                    ELSE IF \E i \in DOMAIN chain : chain[i] = e
                    THEN LET i == CHOOSE j \in DOMAIN chain : chain[j] = e
                         IN IF i = Len(chain) THEN EOC ELSE chain[i + 1]
                    ELSE 0]
           entry(chain) == [f \in Files |->
                    IF f = OldFile /\ chain # <<>>
                    THEN [start |-> chain[1], size |-> csize * Len(chain)] ELSE Absent]
<1>2. PICK chain \in OldChains : fat = linked(chain) /\ dir = entry(chain)
  BY <1>1, Zenon DEF Init
<1>3. /\ chain \in Seq(Clusters) /\ Len(chain) \in Nat /\ DOMAIN chain = 1 .. Len(chain) /\ OldFile \in Files
      /\ \A i, j \in 1 .. Len(chain) : chain[i] = chain[j] => i = j
      /\ \A i \in 1 .. Len(chain) : chain[i] \in Clusters
  BY VolumeAssumption
<1>4. \A i \in 1 .. Len(chain) : fat[chain[i]] = IF i = Len(chain) THEN EOC ELSE chain[i + 1]
  <2> SUFFICES ASSUME NEW i \in 1 .. Len(chain)
               PROVE  fat[chain[i]] = IF i = Len(chain) THEN EOC ELSE chain[i + 1]
    OBVIOUS
  <2> DEFINE j == CHOOSE k \in DOMAIN chain : chain[k] = chain[i]
  <2>1. j \in DOMAIN chain /\ chain[j] = chain[i]
    BY <1>3
  <2>2. j = i
    BY <1>3, <2>1
  <2>3. chain[i] \in Clusters
    BY <1>3
  <2>4. chain[i] \in Entries /\ ~(chain[i] < 2)
    BY <2>3 DEF Clusters
  <2>5. fat[chain[i]] = IF j = Len(chain) THEN EOC ELSE chain[j + 1]
    BY <1>2, <1>3, <2>4
  <2> HIDE DEF j
  <2>6. QED
    BY <2>2, <2>5
<1>5. \A e \in Entries : e >= 2 /\ (\A i \in 1 .. Len(chain) : chain[i] # e) => fat[e] = 0
  <2>1. \A e \in Entries : e \in Int /\ (e >= 2 => ~(e < 2))
    BY DEF Entries
  <2>2. QED
    BY <1>2, <1>3, <2>1
<1>6. \A e \in Entries : e < 2 => fat[e] = EOC
  BY <1>2
<1>7. fat \in [Entries -> Links]
  <2>1. fat = [e \in Entries |-> fat[e]]
    BY <1>2
  <2>2. ASSUME NEW e \in Entries PROVE fat[e] \in Links
    <3>1. e \in Int
      BY DEF Entries
    <3>2. CASE e < 2
      BY <1>6, <3>2 DEF Links
    <3>3. CASE e >= 2 /\ \A i \in 1 .. Len(chain) : chain[i] # e
      BY <1>5, <3>3 DEF Links
    <3>4. ASSUME NEW i \in 1 .. Len(chain), chain[i] = e PROVE fat[e] \in Links
      <4>1. i # Len(chain) => chain[i + 1] \in Clusters
        <5>1. Len(chain) \in Nat
          BY <1>3
        <5>2. i # Len(chain) => i + 1 \in 1 .. Len(chain)
          BY <5>1, NotLast, Zenon
        <5>3. QED
          BY <1>3, <5>2
      <4>2. fat[e] = IF i = Len(chain) THEN EOC ELSE chain[i + 1]
        BY <1>4, <3>4, Zenon
      <4>3. fat[e] = EOC \/ fat[e] \in Clusters
        BY <4>1, <4>2, Zenon
      <4>4. QED
        <5>1. PICK v : v = fat[e]
          OBVIOUS
        <5>2. v \in Links
          <6>1. v = EOC \/ v \in Clusters
            BY <4>3, <5>1, Zenon
          <6>2. QED
            BY <6>1, IsLink, SMT
        <5>3. QED
          BY <5>1, <5>2, Zenon
    <3>5. QED
      BY <3>1, <3>2, <3>3, <3>4
  <2>3. QED
    BY <2>1, <2>2
<1>8. /\ chain # <<>> => dir[OldFile].start = chain[1] /\ 1 \in 1 .. Len(chain)
      /\ chain = <<>> => dir[OldFile].start = 0
      /\ \A f \in Files \ {OldFile} : dir[f].start = 0
      /\ dir \in [Files -> Ents]
  <2>1. chain # <<>> => 1 \in 1 .. Len(chain) /\ chain[1] \in Nat /\ csize * Len(chain) \in Int
    <3>1. chain # <<>> => 1 \in 1 .. Len(chain)
      BY <1>3
    <3>2. 1 \in 1 .. Len(chain) => chain[1] \in Nat
      BY <1>3
    <3>3. csize * Len(chain) \in Int
      BY <1>3
    <3>4. QED
      BY <3>1, <3>2, <3>3
  <2>2. Absent \in Ents /\ Absent.start = 0
    BY DEF Absent, Ents
  <2>3. chain # <<>> => [start |-> chain[1], size |-> csize * Len(chain)] \in Ents
    BY <2>1 DEF Ents
  <2>4. QED
    BY <1>2, <1>3, <2>1, <2>2, <2>3
<1> HIDE DEF linked, entry
<1> HIDE <1>2
<1> DEFINE cs == [f \in Files |-> IF f = OldFile THEN chain ELSE <<>>]
<1>9. /\ cs \in [Files -> Seq(Clusters)] /\ cs[OldFile] = chain /\ <<>> \in Seq(Clusters) /\ Len(<<>>) = 0
      /\ \A f \in Files \ {OldFile} : cs[f] = <<>>
  BY <1>3
<1> HIDE DEF cs
<1>10. Sound(cs, <<>>, dir, fat)
  <2>1. Linked(chain, fat)
    BY <1>3, <1>4, Zenon DEF Linked
  <2>2. Linked(<<>>, fat)
    BY DEF Linked
  <2>3. ASSUME NEW f \in Files PROVE Linked(cs[f], fat) /\ Owns(cs, f, dir)
    <3>1. CASE f = OldFile
      BY <1>3, <1>8, <1>9, <2>1, <3>1 DEF Owns
    <3>2. CASE f # OldFile
      BY <1>8, <1>9, <2>2, <3>2 DEF Owns
    <3>3. QED
      BY <3>1, <3>2
  <2>4. \A f \in Files : \A i \in 1 .. Len(cs[f]) : f = OldFile
    BY <1>9
  <2>5. QED
    BY <1>9, <2>2, <2>3, <2>4 DEF Sound
<1>11. /\ fat2 = fat /\ data = [c \in Clusters |-> [s \in 0 .. csize - 1 |-> <<0, 0>>]]
       /\ fsinfo.free \in {Unknown, FreeOn(fat)} /\ win = EmptyWindow /\ free_clust = Unknown
       /\ fsi_flag = FALSE /\ fp = NoFile /\ pc = "down" /\ btw = 0 /\ clst = 0 /\ scl = 0 /\ ncl = 0
       /\ opens = 0 /\ faults = 0 /\ crashes = 0
       /\ promise = [f \in Files |-> [size |-> Unknown, open |-> 0]]
  BY <1>1 DEF Init
<1>12. WinOK(win, dir, fat) /\ ~win.wflag /\ Fat = fat /\ Root = dir
  BY <1>7, <1>8, <1>11, NoWindow DEF Fat, Root
<1>13. TypeInv
  <2>1. NoFile \in FIL
    BY <1>3 DEF NoFile, FIL
  <2>2. promise \in [Files -> [size : Int, open : Int]]
    BY <1>11
  <2>3. data \in [Clusters -> [0 .. csize - 1 -> Int \X Int]]
    BY <1>11
  <2>4. QED
    BY <1>7, <1>8, <1>11, <1>12, <2>1, <2>2, <2>3 DEF TypeInv
<1>14. CardInv
  BY <1>9, <1>10 DEF CardInv
<1>15. OwnInv(<<>>) /\ PlaceInv(<<>>) /\ StepInv(cs, <<>>) /\ SearchInv
  BY <1>11 DEF OwnInv, PlaceInv, StepInv, OpenPcs, WritePcs, Pending, SearchInv
<1>16. DataInv(cs, <<>>)
  BY <1>11 DEF DataInv, Promises, OpenPcs, WritePcs
<1>17. CountInv(cs, <<>>)
  <2>1. \A f \in Files : Root[f].start \in Clusters \cup {0}
    BY <1>3, <1>8, <1>12
  <2>2. ASSUME NEW c \in Clusters, Outside(cs, <<>>, c) PROVE Fat[c] = 0
    <3>1. c \in Entries /\ c >= 2
      BY DEF Clusters
    <3>2. \A i \in 1 .. Len(chain) : chain[i] # c
      BY <1>3, <1>9, <2>2 DEF Outside
    <3>3. QED
      BY <1>5, <1>12, <3>1, <3>2
  <2>3. QED
    BY <1>11, <1>12, <2>1, <2>2 DEF CountInv, OpenPcs, WritePcs
<1>18. Vol(cs, <<>>)
  BY <1>10, <1>12, <1>15, <1>16, <1>17 DEF Vol
<1>19. QED
  BY <1>9, <1>13, <1>14, <1>15, <1>18 DEF IInv, VolInv

(* The invariant is inductive: one case per action.                        *)
LEMMA NextInv == IInv /\ [Next]_vars => IInv'
<1>1. SUFFICES ASSUME IInv, [Next]_vars PROVE IInv'
  OBVIOUS
<1>2. CASE \E ok \in BOOLEAN : auto_mount(ok) \/ SyncFsInfo(ok)
  BY <1>1, <1>2, MountStep, InfoStep
<1>3. CASE \E o \in Outcomes, mirror \in BOOLEAN :
        \/ \E f \in Files : f_open(f, o, mirror)
        \/ remove_chain(o, mirror) \/ OpenBack(o, mirror)
        \/ ChainFollow(o, mirror) \/ ChainProbe(o, mirror) \/ ChainLink(o, mirror)
        \/ f_sync(o, mirror) \/ sync(o, mirror)
  <2>1. PICK o \in Outcomes, mirror \in BOOLEAN :
        \/ \E f \in Files : f_open(f, o, mirror)
        \/ remove_chain(o, mirror) \/ OpenBack(o, mirror)
        \/ ChainFollow(o, mirror) \/ ChainProbe(o, mirror) \/ ChainLink(o, mirror)
        \/ f_sync(o, mirror) \/ sync(o, mirror)
    BY <1>3
  <2>2. CASE \E f \in Files : f_open(f, o, mirror)
    BY <1>1, <2>2, OpenStep
  <2>3. CASE remove_chain(o, mirror)
    BY <1>1, <2>3, RemoveStep
  <2>4. CASE OpenBack(o, mirror)
    BY <1>1, <2>4, BackStep
  <2>5. CASE ChainFollow(o, mirror)
    BY <1>1, <2>5, FollowStep
  <2>6. CASE ChainProbe(o, mirror)
    BY <1>1, <2>6, ProbeStep
  <2>7. CASE ChainLink(o, mirror)
    BY <1>1, <2>7, LinkStep
  <2>8. CASE f_sync(o, mirror)
    BY <1>1, <2>8, SyncStep
  <2>9. CASE sync(o, mirror)
    BY <1>1, <2>9, FlushStep
  <2>10. QED
    BY <2>1, <2>2, <2>3, <2>4, <2>5, <2>6, <2>7, <2>8, <2>9
<1>4. CASE f_write
  BY <1>1, <1>4, BeginStep
<1>5. CASE WriteNext
  BY <1>1, <1>5, NextStep
<1>6. CASE WriteGot
  BY <1>1, <1>6, GotStep
<1>7. CASE \E k \in 0 .. csize, ok \in BOOLEAN : WriteData(k, ok)
  BY <1>1, <1>7, DataStep
<1>8. CASE f_close
  BY <1>1, <1>8, CloseStep
<1>9. CASE Crash
  BY <1>1, <1>9, CrashStep
<1>10. CASE UNCHANGED vars
  BY <1>1, <1>10, StutterStep
<1>11. CASE \E r \in {"FR_NOT_READY", "FR_DISK_ERR"} : MountFails(r)
  BY <1>1, <1>11, MountFailsStep
<1>12. QED
  BY <1>1, <1>2, <1>3, <1>4, <1>5, <1>6, <1>7, <1>8, <1>9, <1>10, <1>11, Zenon DEF Next

(* The invariant holds in every state of every behaviour of the driver.    *)
THEOREM VolumeInvariant == Spec => []IInv
BY InitInv, NextInv, PTL DEF Spec
-----------------------------------------------------------------------------
(* The numbers from 1 to n are n numbers.                                  *)
LEMMA CardUpTo ==
    ASSUME NEW n \in Nat
    PROVE  IsFiniteSet(1 .. n) /\ Cardinality(1 .. n) = n
<1>1. 1 \in Int /\ n \in Int
  OBVIOUS
<1>2. Cardinality(1 .. n) = (IF 1 > n THEN 0 ELSE n - 1 + 1) /\ IsFiniteSet(1 .. n)
  BY <1>1, FS_Interval, Zenon
<1>3. QED
  BY <1>2

(* A chain is shorter than the volume.                                     *)
LEMMA ChainFits ==
    ASSUME NEW s \in Seq(Clusters), \A i, j \in 1 .. Len(s) : s[i] = s[j] => i = j
    PROVE  Len(s) < max_clust
<1>1. Len(s) \in Nat /\ s \in [1 .. Len(s) -> Clusters]
  OBVIOUS
<1>2. IsFiniteSet(Clusters) /\ Cardinality(Clusters) = max_clust - 2
  <2>1. 2 \in Int /\ max_clust - 1 \in Int /\ ~(2 > max_clust - 1)
    BY Numbers
  <2>2. IsFiniteSet(Clusters) /\ Cardinality(Clusters) = (max_clust - 1) - 2 + 1
    <3>1. PICK m \in Int : m = max_clust - 1 /\ ~(2 > m)
      BY <2>1
    <3>2. IsFiniteSet(2 .. m) /\ Cardinality(2 .. m) = IF 2 > m THEN 0 ELSE m - 2 + 1
      BY <2>1, <3>1, FS_Interval, Zenon
    <3>3. QED
      BY <3>1, <3>2, Zenon DEF Clusters
  <2>3. QED
    BY <2>2, Numbers
<1>3. IsFiniteSet(1 .. Len(s)) /\ Cardinality(1 .. Len(s)) = Len(s)
  BY <1>1, CardUpTo, Zenon
<1>4. ASSUME max_clust - 2 < Len(s) PROVE FALSE
  <2>1. Cardinality(Clusters) < Cardinality(1 .. Len(s))
    BY <1>2, <1>3, <1>4
  <2>2. PICK x \in 1 .. Len(s), y \in 1 .. Len(s) : x # y /\ s[x] = s[y]
    BY <1>1, <1>2, <1>3, <2>1, FS_PigeonHole
  <2>3. QED
    BY <2>2
<1>5. QED
  BY <1>1, <1>4, Numbers

(* What is read along the FAT from the first cluster of a chain.           *)
LEMMA ChainReads ==
    ASSUME NEW c, NEW s \in Seq(Clusters), Linked(s, fat),
           IF c \in Clusters THEN s # <<>> /\ s[1] = c ELSE s = <<>>
    PROVE  \A n \in 0 .. max_clust :
               Chain(c)[n] = IF n = 0 THEN c ELSE IF n < Len(s) THEN s[n + 1] ELSE EOC
<1> DEFINE N == 0 .. max_clust
           Reads(h) == h = [n \in N |-> IF n = 0 THEN c
                                        ELSE IF h[n - 1] \in Clusters THEN fat[h[n - 1]] ELSE EOC]
           g == [n \in N |-> IF n = 0 THEN c ELSE IF n < Len(s) THEN s[n + 1] ELSE EOC]
<1>1. Chain(c) = CHOOSE h : Reads(h)
  BY DEF Chain
<1>2. Len(s) \in Nat /\ max_clust \in Nat /\ \A i \in 1 .. Len(s) : s[i] \in Clusters
  BY Numbers
<1>3. Reads(g)
  <2>1. ASSUME NEW n \in N
        PROVE  g[n] = IF n = 0 THEN c ELSE IF g[n - 1] \in Clusters THEN fat[g[n - 1]] ELSE EOC
    <3>1. CASE n = 0
      BY <3>1
    <3>2. CASE n # 0
      <4>1. n - 1 \in N /\ n \in Nat /\ n - 1 + 1 = n /\ n \in N
        BY <1>2, <3>2
      <4>2. g[n - 1] = IF n - 1 = 0 THEN c ELSE IF n - 1 < Len(s) THEN s[n] ELSE EOC
        BY <4>1
      <4>3. g[n] = IF n < Len(s) THEN s[n + 1] ELSE EOC
        BY <3>2
      <4> HIDE DEF g
      <4>4. CASE n <= Len(s)
        <5>1. n \in 1 .. Len(s) /\ g[n - 1] = s[n] /\ s[n] \in Clusters
          <6>1. n \in 1 .. Len(s)
            BY <1>2, <3>2, <4>1, <4>4
          <6>2. n - 1 = 0 => c = s[n]
            BY <4>1, <6>1
          <6>3. n - 1 < Len(s)
            BY <1>2, <4>1, <4>4
          <6>4. QED
            BY <1>2, <4>2, <6>1, <6>2, <6>3
        <5>2. fat[s[n]] = IF n = Len(s) THEN EOC ELSE s[n + 1]
          BY <5>1 DEF Linked
        <5>3. g[n] = fat[s[n]]
          BY <1>2, <4>1, <4>3, <4>4, <5>2
        <5>4. QED
          BY <3>2, <5>1, <5>3
      <4>5. CASE ~(n <= Len(s))
        <5>1. g[n] = EOC
          BY <1>2, <4>1, <4>3, <4>5
        <5>2. g[n - 1] \notin Clusters
          <6>1. CASE n - 1 = 0
            <7>1. s = <<>>
              BY <1>2, <4>1, <4>5, <6>1
            <7>2. QED
              BY <4>2, <6>1, <7>1
          <6>2. CASE n - 1 # 0
            BY <1>2, <4>1, <4>2, <4>5, <6>2, Numbers
          <6>3. QED
            BY <6>1, <6>2
        <5>3. QED
          BY <3>2, <5>1, <5>2
      <4>6. QED
        BY <4>4, <4>5
    <3>3. QED
      BY <3>1, <3>2
  <2>2. g = [n \in N |-> g[n]]
    OBVIOUS
  <2> HIDE DEF g
  <2>3. QED
    BY <2>1, <2>2, Zenon
<1>4. PICK h : h = Chain(c)
  OBVIOUS
<1>5. Reads(h)
  BY <1>1, <1>3, <1>4, Zenon
<1>6. ASSUME NEW h1, NEW h2, Reads(h1), Reads(h2) PROVE \A n \in N : h1[n] = h2[n]
  <2> DEFINE S == {n \in N : h1[n] # h2[n]}
  <2>1. SUFFICES ASSUME S # {} PROVE FALSE
    OBVIOUS
  <2>2. PICK n \in S : \A m \in S : n <= m
    <3>1. S \in SUBSET Nat
      BY <1>2
    <3> HIDE DEF S
    <3>2. QED
      BY <2>1, <3>1, Least
  <2>3. /\ h1[n] = IF n = 0 THEN c ELSE IF h1[n - 1] \in Clusters THEN fat[h1[n - 1]] ELSE EOC
        /\ h2[n] = IF n = 0 THEN c ELSE IF h2[n - 1] \in Clusters THEN fat[h2[n - 1]] ELSE EOC
    <3>1. n \in N
      OBVIOUS
    <3> HIDE DEF S, N
    <3>2. h1[n] = IF n = 0 THEN c ELSE IF h1[n - 1] \in Clusters THEN fat[h1[n - 1]] ELSE EOC
      BY <1>6, <3>1, Zenon
    <3>3. h2[n] = IF n = 0 THEN c ELSE IF h2[n - 1] \in Clusters THEN fat[h2[n - 1]] ELSE EOC
      BY <1>6, <3>1, Zenon
    <3>4. QED
      BY <3>2, <3>3
  <2>4. n # 0 => h1[n - 1] = h2[n - 1]
    <3>1. n # 0 => n - 1 \in N /\ n - 1 < n
      BY <1>2
    <3>2. n # 0 => n - 1 \notin S
      BY <1>2, <2>2, <3>1
    <3>3. QED
      BY <3>1, <3>2
  <2>5. h1[n] # h2[n]
    OBVIOUS
  <2> HIDE DEF S
  <2>6. QED
    BY <2>3, <2>4, <2>5
<1>7. \A n \in N : g[n] = IF n = 0 THEN c ELSE IF n < Len(s) THEN s[n + 1] ELSE EOC
  OBVIOUS
<1> HIDE DEF g, Reads
<1>8. \A n \in N : h[n] = g[n]
  BY <1>3, <1>5, <1>6, Zenon
<1>9. QED
  BY <1>4, <1>7, <1>8

(* The clusters of a file.                                                 *)
LEMMA UsedChain ==
    ASSUME NEW f, NEW s \in Seq(Clusters), Linked(s, fat),
           IF dir[f].start \in Clusters THEN s # <<>> /\ s[1] = dir[f].start ELSE s = <<>>
    PROVE  Used(f) = {s[i] : i \in 1 .. Len(s)}
<1>1. PICK c : c = dir[f].start
  OBVIOUS
<1>2. \A n \in 0 .. max_clust :
          Chain(c)[n] = IF n = 0 THEN c ELSE IF n < Len(s) THEN s[n + 1] ELSE EOC
  BY <1>1, ChainReads
<1>3. PICK h : h = Chain(c)
  OBVIOUS
<1>4. Used(f) = {h[n] : n \in 0 .. max_clust} \cap Clusters
  BY <1>1, <1>3 DEF Used
<1>5. Len(s) \in Nat /\ Len(s) < max_clust /\ max_clust \in Nat
  BY ChainFits, Numbers DEF Linked
<1>6. ASSUME NEW n \in 0 .. max_clust, h[n] \in Clusters PROVE \E i \in 1 .. Len(s) : s[i] = h[n]
  <2>1. h[n] = IF n = 0 THEN c ELSE IF n < Len(s) THEN s[n + 1] ELSE EOC
    BY <1>2, <1>3
  <2>2. CASE n = 0
    <3>1. h[n] = c /\ s # <<>> /\ s[1] = c
      BY <1>1, <1>6, <2>1, <2>2
    <3>2. 1 \in 1 .. Len(s)
      BY <1>5, <3>1
    <3>3. QED
      BY <3>1, <3>2
  <2>3. CASE n # 0
    <3>1. n < Len(s) /\ h[n] = s[n + 1]
      BY <1>6, <2>1, <2>3, Numbers
    <3>2. n + 1 \in 1 .. Len(s)
      BY <1>5, <3>1
    <3>3. QED
      BY <3>1, <3>2
  <2>4. QED
    BY <2>2, <2>3
<1>7. ASSUME NEW i \in 1 .. Len(s) PROVE s[i] \in Clusters /\ \E n \in 0 .. max_clust : h[n] = s[i]
  <2>1. s[i] \in Clusters
    OBVIOUS
  <2>2. i - 1 \in 0 .. max_clust /\ i - 1 < Len(s) /\ i - 1 + 1 = i
    BY <1>5
  <2>3. h[i - 1] = IF i - 1 = 0 THEN c ELSE IF i - 1 < Len(s) THEN s[i] ELSE EOC
    BY <1>2, <1>3, <2>2
  <2>4. i - 1 = 0 => c = s[i]
    <3>1. i - 1 = 0 => i = 1
      BY <2>2
    <3>2. s # <<>>
      BY <1>5
    <3>3. QED
      BY <1>1, <3>1, <3>2
  <2>5. h[i - 1] = s[i]
    BY <2>2, <2>3, <2>4
  <2>6. QED
    BY <2>1, <2>2, <2>5
<1>8. \A x \in Used(f) : x \in {s[i] : i \in 1 .. Len(s)}
  <2> SUFFICES ASSUME NEW x \in Used(f) PROVE \E i \in 1 .. Len(s) : x = s[i]
    OBVIOUS
  <2>1. PICK n \in 0 .. max_clust : x = h[n]
    BY <1>4
  <2>2. h[n] \in Clusters
    BY <1>4, <2>1
  <2>3. QED
    BY <1>6, <2>1, <2>2
<1>9. \A x \in {s[i] : i \in 1 .. Len(s)} : x \in Used(f)
  <2> SUFFICES ASSUME NEW i \in 1 .. Len(s) PROVE s[i] \in Used(f)
    OBVIOUS
  <2>1. QED
    BY <1>4, <1>7
<1>10. QED
  BY <1>8, <1>9, Zenon

(* The volume on the card is sound at every moment: chains end, lead       *)
(* through allocated clusters and share none (remove_chain, create_chain,  *)
(* f_sync, with any write-back lost and a crash anywhere).                 *)
THEOREM ChainsAreIntact == Spec => []ChainsIntact
<1>1. ASSUME IInv PROVE ChainsIntact
  <2>1. PICK cs \in [Files -> Seq(Clusters)] : Sound(cs, <<>>, dir, fat)
    BY <1>1 DEF IInv, CardInv
  <2>2. ASSUME NEW f \in Files
        PROVE  /\ cs[f] \in Seq(Clusters) /\ Linked(cs[f], fat)
               /\ Used(f) = {cs[f][i] : i \in 1 .. Len(cs[f])}
               /\ dir[f].start \in Clusters => Chain(dir[f].start)[max_clust] = EOC
    <3>1. cs[f] \in Seq(Clusters) /\ Linked(cs[f], fat)
          /\ IF dir[f].start \in Clusters THEN cs[f] # <<>> /\ cs[f][1] = dir[f].start ELSE cs[f] = <<>>
      BY <2>1 DEF Sound, Owns
    <3>2. Used(f) = {cs[f][i] : i \in 1 .. Len(cs[f])}
      BY <3>1, UsedChain
    <3>3. Len(cs[f]) < max_clust /\ Len(cs[f]) \in Nat
      BY <3>1, ChainFits DEF Linked
    <3>4. max_clust \in 0 .. max_clust /\ max_clust # 0 /\ ~(max_clust < Len(cs[f]))
      BY <3>3, Numbers
    <3>5. PICK c : c = dir[f].start
      OBVIOUS
    <3>6. Chain(c)[max_clust] = EOC
      BY <3>1, <3>4, <3>5, ChainReads
    <3>7. QED
      BY <3>1, <3>2, <3>5, <3>6
  <2>3. ASSUME NEW f \in Files, NEW c \in Used(f) PROVE fat[c] # 0
    BY <2>2, LinkedFree
  <2>4. ASSUME NEW f \in Files, NEW g \in Files, f # g PROVE Used(f) \cap Used(g) = {}
    <3>1. \A i \in 1 .. Len(cs[f]), j \in 1 .. Len(cs[g]) : cs[f][i] # cs[g][j]
      BY <2>1, <2>4 DEF Sound
    <3>2. QED
      BY <2>2, <3>1
  <2>5. QED
    BY <2>2, <2>3, <2>4 DEF ChainsIntact
<1>2. QED
  BY <1>1, VolumeInvariant, PTL

(* What f_close has answered FR_OK for is read back from the card, through *)
(* later calls, failures and crashes, until the file is opened again.      *)
THEOREM ClosesAreDurable == Spec => []CloseIsDurable
<1>1. ASSUME IInv PROVE CloseIsDurable
  <2>1. PICK cs \in [Files -> Seq(Clusters)], own \in Seq(Clusters) : Vol(cs, own)
    BY <1>1 DEF IInv, VolInv
  <2>2. SUFFICES ASSUME NEW f \in Files, promise[f].size # Unknown
                 PROVE  /\ dir[f].size = promise[f].size
                        /\ \A i \in 0 .. promise[f].size - 1 :
                             LET c == Chain(dir[f].start)[i \div csize]
                             IN c \in Clusters /\ data[c][i % csize] = <<promise[f].open, i>>
    BY DEF CloseIsDurable
  <2>3. PICK n, tag, s, b : n = promise[f].size /\ tag = promise[f].open /\ s = cs[f] /\ b = data
    OBVIOUS
  <2>4. /\ Linked(s, fat) /\ Root[f] = dir[f] /\ dir[f].size = n
        /\ Kept(b, s, n, tag) /\ n \in Int /\ s \in Seq(Clusters)
    BY <1>1, <2>1, <2>2, <2>3 DEF IInv, TypeInv, Vol, DataInv, Promises
  <2>5. PICK c : c = dir[f].start
    OBVIOUS
  <2>6. IF c \in Clusters THEN s # <<>> /\ s[1] = c ELSE s = <<>>
    BY <2>1, <2>3, <2>4, <2>5 DEF Vol, Sound, Owns
  <2>7. \A k \in 0 .. max_clust : Chain(c)[k] = IF k = 0 THEN c ELSE IF k < Len(s) THEN s[k + 1] ELSE EOC
    BY <2>4, <2>6, ChainReads
  <2>8. Len(s) < max_clust /\ Len(s) \in Nat /\ max_clust \in Nat
    BY <2>4, ChainFits, Numbers DEF Linked
  <2>9. n <= csize * Len(s) /\ csize * Len(s) \in Int
    BY <2>4, <2>8, Numbers DEF Kept
  <2>10. ASSUME NEW i \in 0 .. n - 1
         PROVE  Chain(c)[i \div csize] \in Clusters /\ b[Chain(c)[i \div csize]][i % csize] = <<tag, i>>
    <3> DEFINE q == i \div csize
               r == i % csize
    <3>1. i \in Nat /\ i < csize * Len(s)
      BY <2>4, <2>9
    <3>2. q + 1 \in 1 .. Len(s) /\ q \in Nat
      BY <2>8, <3>1, PlaceIn, Place
    <3>3. b[s[q + 1]][r] = <<tag, i>>
      BY <2>4 DEF Kept
    <3> SUFFICES Chain(c)[q] \in Clusters /\ b[Chain(c)[q]][r] = <<tag, i>>
      OBVIOUS
    <3> HIDE DEF q, r
    <3>4. q \in 0 .. max_clust /\ q < Len(s)
      BY <2>8, <3>2
    <3>5. Chain(c)[q] = IF q = 0 THEN c ELSE s[q + 1]
      BY <2>7, <3>4
    <3>6. q = 0 => c = s[q + 1]
      <4>1. s # <<>> /\ 0 + 1 = 1
        BY <2>8, <3>2
      <4>2. QED
        BY <2>6, <4>1
    <3>7. Chain(c)[q] = s[q + 1]
      BY <3>5, <3>6
    <3>8. s[q + 1] \in Clusters
      BY <2>4, <3>2
    <3>9. QED
      BY <3>3, <3>7, <3>8, Zenon
  <2>11. QED
    BY <2>3, <2>4, <2>5, <2>10
<1>2. QED
  BY <1>1, VolumeInvariant, PTL

(* create_chain answers that the volume is full only when no cluster is    *)
(* free, wherever the search began and however it went round.              *)
THEOREM FullsAreFull == Spec => []FullIsFull
<1>1. ASSUME IInv PROVE FullIsFull
  <2>1. SUFFICES ASSUME pc = "got", ncl = 0, NEW c \in Clusters
                 PROVE  (IF FatSect(c) = win.sect THEN win.body[c] ELSE fat[c]) # 0
    BY DEF FullIsFull
  <2>2. Fat[c] # 0
    BY <1>1, <2>1 DEF IInv, SearchInv
  <2>3. c \in Entries
    BY Numbers
  <2>4. QED
    BY <2>2, <2>3 DEF Fat, FatOf
<1>2. QED
  BY <1>1, VolumeInvariant, PTL

(* Between calls, without a failure or a crash, no cluster is lost and     *)
(* FSInfo and the second FAT are right.                                    *)
THEOREM SpaceIsAccounted == Spec => []SpaceAccounted
<1>1. ASSUME IInv PROVE SpaceAccounted
  <2>1. SUFFICES ASSUME pc = "idle", faults = 0, crashes = 0
                 PROVE  /\ {c \in Clusters : fat[c] # 0} = UNION {Used(f) : f \in Files}
                        /\ fsinfo.free \in {Unknown, FreeOn(fat)}
                        /\ fat2 = fat
    BY DEF SpaceAccounted
  <2>2. PICK cs \in [Files -> Seq(Clusters)], own \in Seq(Clusters) : Vol(cs, own)
    BY <1>1 DEF IInv, VolInv
  <2>3. own = <<>>
    BY <2>1, <2>2 DEF Vol, OwnInv, OpenPcs, WritePcs
  <2>4. /\ fat2 = fat /\ \A c \in Clusters : Outside(cs, <<>>, c) => Fat[c] = 0
        /\ free_clust \in {Unknown, FreeOn(Fat) + 0} /\ fsinfo.free = free_clust /\ ~win.wflag
    BY <2>1, <2>2, <2>3 DEF Vol, CountInv
  <2>5. fat \in [Entries -> Links] /\ dir \in [Files -> Ents] /\ WinOK(win, dir, fat)
    BY <1>1 DEF IInv, TypeInv
  <2>6. Fat = fat /\ Root = dir
    BY <2>4, <2>5, ViewTypes DEF Fat, Root
  <2>7. FreeOn(fat) + 0 = FreeOn(fat)
    BY <2>5, FreeType
  <2>8. ASSUME NEW f \in Files
        PROVE  /\ cs[f] \in Seq(Clusters) /\ Linked(cs[f], fat)
               /\ Used(f) = {cs[f][i] : i \in 1 .. Len(cs[f])}
    <3>1. cs[f] \in Seq(Clusters) /\ Linked(cs[f], fat)
          /\ IF dir[f].start \in Clusters THEN cs[f] # <<>> /\ cs[f][1] = dir[f].start ELSE cs[f] = <<>>
      BY <2>2, <2>6 DEF Vol, Sound, Owns
    <3>2. QED
      BY <3>1, UsedChain
  <2>9. ASSUME NEW c \in Clusters, fat[c] # 0 PROVE \E f \in Files : c \in Used(f)
    <3>1. ~Outside(cs, <<>>, c)
      BY <2>4, <2>6, <2>9
    <3>2. PICK f \in Files : \E i \in 1 .. Len(cs[f]) : cs[f][i] = c
      BY <3>1 DEF Outside
    <3>3. QED
      BY <2>8, <3>2
  <2>10. ASSUME NEW f \in Files, NEW c \in Used(f) PROVE c \in Clusters /\ fat[c] # 0
    <3>1. PICK i \in 1 .. Len(cs[f]) : c = cs[f][i]
      BY <2>8
    <3>2. QED
      BY <2>8, <3>1, LinkedFree
  <2>11. {c \in Clusters : fat[c] # 0} = UNION {Used(f) : f \in Files}
    BY <2>9, <2>10
  <2>12. QED
    BY <2>4, <2>6, <2>7, <2>11
<1>2. QED
  BY <1>1, VolumeInvariant, PTL
=============================================================================
