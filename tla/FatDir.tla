------------------------------- MODULE FatDir -------------------------------
(***************************************************************************)
(* The directories of FatFs (storage/ff.c): names in 8.3 form, a path      *)
(* followed through sub-directories, the search of a table, the entry that *)
(* f_open registers and the table that dir_next stretches, on a FAT16      *)
(* volume (a root table of fixed size) and on a FAT32 one (a chain).  A    *)
(* path is the sequence of its segments and a segment a sequence of        *)
(* characters.  One step is one move_window with the computation after it; *)
(* the FAT is one sector (module FatFs has a FAT of several, its copy and  *)
(* the free count).  Every sector access may fail, a failed write may have *)
(* reached the card, and the machine may be reset at any point.            *)
(***************************************************************************)
EXTENDS Integers, Sequences, FiniteSets

CONSTANTS
    Volumes,        \* the volumes to begin with: [root, fat, tab]
    Paths,          \* the paths f_open is called with
    Modes,          \* its modes: sets of FA_* flags
    Body, Ext,      \* characters of a name and of its extension (8 and 3)
    Slots,          \* directory entries in a sector (16)
    csize,          \* sectors in a cluster
    n_rootdir,      \* entries of the fixed root table of FAT12 and FAT16
    max_clust,      \* last cluster number + 1
    MaxIndex,       \* the last index of a table (65535)
    MaxOpens, MaxFaults, MaxCrashes   \* bounds: f_open calls, failing accesses, resets

Clusters == 2 .. max_clust - 1
EOC == max_clust + 1

ASSUME GeometryAssumption ==
    /\ {Body, Ext, Slots, csize, n_rootdir, MaxIndex} \subseteq Nat \ {0}
    /\ {max_clust, MaxOpens, MaxFaults, MaxCrashes} \subseteq Nat
    /\ n_rootdir % Slots = 0

(* A sector of a table: sector s of cluster c, the fixed root being c = 0. *)
FatSector == <<1, 0>>
Nowhere == <<-1, 0>>    \* winsect = 0
TableSectors == (Clusters \X (0 .. csize - 1)) \cup ({0} \X (0 .. n_rootdir \div Slots - 1))
-----------------------------------------------------------------------------
(***************************************************************************)
(* Names.  "5" is the byte 0x05, "L" the byte 0xE5: in code page 932 the   *)
(* first half of a two-byte character, and as the first byte of an entry   *)
(* the mark of a deleted one.  "0" is the mark of the end of a table.      *)
(***************************************************************************)
Illegal == {"*", " "}
UpperOf == [a |-> "A", b |-> "B", d |-> "D"]
Up(c) == IF c \in DOMAIN UpperOf THEN UpperOf[c] ELSE c
Blank == [k \in 1 .. Body + Ext |-> " "]
IsDBCS1(c) == c = "L"
IsDBCS2(c) == c \notin Illegal \cup {".", ""}
Invalid == <<>>

KeepsE5(fn) == fn

(* A name may not begin with the mark of a deleted entry.                  *)
NotDeleted(fn) == [fn EXCEPT ![1] = IF @ = "L" THEN "5" ELSE @]

(* create_name: the segment in directory form, or Invalid.  State k of the *)
(* scan is what its loop has after k rounds.                               *)
create_name(seg) ==
    LET at(k) == IF k \in DOMAIN seg THEN seg[k] ELSE ""
        Put(s, n, c) == [s EXCEPT !.i = @ + n, !.si = @ + n,
                            !.fn = [k \in DOMAIN @ |-> IF k - s.i \in 1 .. n THEN c[k - s.i] ELSE @[k]]]
        Round(s) ==
            LET c == at(s.si)
                d == at(s.si + 1)
            IN IF s.st # "scan" THEN s
               ELSE IF c = "" THEN [s EXCEPT !.st = IF s.i = 0 THEN "bad" ELSE "end"]
               ELSE IF c = "." /\ s.ni = Body
               THEN [s EXCEPT !.si = @ + 1, !.i = Body, !.ni = Body + Ext]
               ELSE IF c = "." \/ s.i >= s.ni THEN [s EXCEPT !.st = "bad"]
               ELSE IF IsDBCS1(c)
               THEN IF IsDBCS2(d) /\ s.i < s.ni - 1 THEN Put(s, 2, <<c, d>>) ELSE [s EXCEPT !.st = "bad"]
               ELSE IF c \in Illegal THEN [s EXCEPT !.st = "bad"]
               ELSE Put(s, 1, <<Up(c)>>)
        scan[k \in 0 .. Len(seg) + 1] ==
            IF k = 0 THEN [si |-> 1, i |-> 0, ni |-> Body, fn |-> Blank, st |-> "scan"]
            ELSE Round(scan[k - 1])
        s == scan[Len(seg) + 1]
    IN IF s.st = "bad" THEN Invalid ELSE NotDeleted(s.fn)

Entry(name, attr, start) == [name |-> name, attr |-> attr, start |-> start]
EndMark == Entry([Blank EXCEPT ![1] = "0"], {}, 0)
Empty == [k \in 0 .. Slots - 1 |-> EndMark]
IsEnd(e) == e.name[1] = "0"
Usable(e) == e.name[1] \in {"0", "L"}                       \* dir_register's test
Live(e) == e.name[1] \notin {"0", "L", "."} /\ "vol" \notin e.attr   \* dir_find's
-----------------------------------------------------------------------------
VARIABLES
    root,           \* fs->dirbase as a start cluster: 0 for FAT12 and FAT16
    fat, tab,       \* on the card: the FAT and the sectors of the clusters
    win,            \* the window: sect, body, wflag
    dj,             \* the DIR object, with the segments that are left
    mode, path,     \* the arguments of f_open
    ps,             \* f_open's locals: sector and slot of the old entry, its chain
    fp,             \* the FIL object: sector, slot and start cluster, written
    pc, res,
    opens, faults, crashes,
    known           \* history: the places of entries that somebody registered

cardVars == <<root, fat, tab>>
bounds == <<opens, faults, crashes>>
vars == <<cardVars, win, dj, mode, path, ps, fp, pc, res, bounds, known>>

EmptyWindow == [sect |-> Nowhere, body |-> <<>>, wflag |-> FALSE]
NoDir == [sclust |-> 0, clust |-> 0, index |-> 0, sect |-> Nowhere, fn |-> Blank, rest |-> <<>>]
NoFile == [sect |-> Nowhere, slot |-> 0, start |-> 0, written |-> FALSE]

(* What the FAT and a table sector hold, the window before the card.       *)
FatNow == IF win.sect = FatSector THEN win.body ELSE fat
SectorNow(s) == IF win.sect = s THEN win.body ELSE tab[s]

(* The clusters of a table by a FAT f, and its entry n on a card <<f, t>>.  *)
ChainOf(f, c) ==
    LET nth[n \in 0 .. MaxIndex] ==
            IF n = 0 THEN c ELSE IF nth[n - 1] \in Clusters THEN f[nth[n - 1]] ELSE EOC
    IN nth
Place(f, d, n) ==
    IF d = 0 THEN <<0, n \div Slots>>
    ELSE <<ChainOf(f, d)[n \div (Slots * csize)], (n \div Slots) % csize>>

(* The places of the entries that a search of the table d can come to.     *)
Reached(f, t, d) ==
    LET ends == {n \in 0 .. MaxIndex : LET s == Place(f, d, n) IN
                    s \notin DOMAIN t \/ (s \in DOMAIN t /\ IsEnd(t[s][n % Slots]))}
    IN {n \in 0 .. MaxIndex : \A m \in ends : n < m}
Visible(f, t, d) ==
    {<<Place(f, d, n), n % Slots>> : n \in {m \in Reached(f, t, d) : Live(t[Place(f, d, m)][m % Slots])}}
TabNow == [s \in DOMAIN tab |-> SectorNow(s)]

(* dir_seek's check of a start cluster.  FAT32 has no fixed table.         *)
CanSeek(d) == IF d = 0 THEN root = 0 ELSE d \in Clusters

Tables(f, t) ==
    {d \in {root} \cup {t[x[1]][x[2]].start : x \in {y \in Visible(f, t, root) : "dir" \in t[y[1]][y[2]].attr}} :
        CanSeek(d)}
AllVisible(f, t) == UNION {Visible(f, t, d) : d \in Tables(f, t)}

Init ==
    /\ \E v \in Volumes : root = v.root /\ fat = v.fat /\ tab = v.tab
    /\ known = AllVisible(fat, tab)
    /\ win = EmptyWindow /\ dj = NoDir /\ mode = {} /\ path = <<>> /\ fp = NoFile
    /\ ps = <<Nowhere, 0, 0>> /\ pc = "idle" /\ res = "FR_OK"
    /\ opens = 0 /\ faults = 0 /\ crashes = 0
-----------------------------------------------------------------------------
(***************************************************************************)
(* move_window(s) with the outcome o: "ok"; the write-back fails, or fails *)
(* after the sector has been written ("wlost"); the read fails.            *)
(***************************************************************************)
Outcomes == {"ok", "wfail", "wlost", "rfail"}
WriteBack(s) == win.wflag /\ win.sect # s

Possible(s, o) ==
    /\ o \in {"wfail", "wlost"} => WriteBack(s)
    /\ o = "rfail" => s \notin {Nowhere, win.sect}
    /\ o # "ok" => faults < MaxFaults
    /\ faults' = IF o = "ok" THEN faults ELSE faults + 1

move_window(s, o) ==
    /\ Possible(s, o)
    /\ LET w == WriteBack(s) /\ o # "wfail"
       IN /\ fat' = IF w /\ win.sect = FatSector THEN win.body ELSE fat
          /\ tab' = IF w /\ win.sect # FatSector THEN [tab EXCEPT ![win.sect] = win.body] ELSE tab
    /\ UNCHANGED root

Window(s, o) ==
    IF s = win.sect \/ o \in {"wfail", "wlost"} THEN win
    ELSE IF o = "rfail" \/ s = Nowhere THEN [win EXCEPT !.wflag = FALSE]
    ELSE [sect |-> s, wflag |-> FALSE, body |-> IF s = FatSector THEN fat ELSE tab[s]]

Put(w, k, e) == [w EXCEPT !.body[k] = e, !.wflag = TRUE]

(* f_open returns r.                                                       *)
Fail(r) == pc' = "idle" /\ res' = r /\ UNCHANGED <<dj, fp, ps>>

(* dir_seek(dj, 0), where it does not return FR_INT_ERR.                   *)
dir_seek(d, name, rest) ==
    [sclust |-> d, clust |-> d, index |-> 0, sect |-> <<d, 0>>, fn |-> name, rest |-> rest]

(* follow_path takes a segment of the path, in the directory d.            *)
Segment(d, segs) ==
    LET name == create_name(segs[1])
    IN IF name = Invalid THEN Fail("FR_INVALID_NAME")
       ELSE IF ~CanSeek(d) THEN Fail("FR_INT_ERR")
       ELSE /\ dj' = dir_seek(d, name, Tail(segs))
            /\ pc' = "find" /\ UNCHANGED <<res, fp, ps>>

Creates == mode \cap {"CREATE_ALWAYS", "OPEN_ALWAYS", "CREATE_NEW"} # {}

(* f_open.  The null path is the root directory, which cannot be opened.   *)
f_open(p, m) ==
    /\ pc = "idle" /\ opens < MaxOpens
    /\ opens' = opens + 1 /\ path' = p /\ mode' = m
    /\ IF p # <<>> THEN Segment(root, p)
       ELSE IF ~CanSeek(root) THEN Fail("FR_INT_ERR")
       ELSE Fail(IF "CREATE_NEW" \in m THEN "FR_EXIST"
                 ELSE IF m \cap {"CREATE_ALWAYS", "OPEN_ALWAYS"} # {} THEN "FR_DENIED"
                 ELSE "FR_NO_FILE")
    /\ UNCHANGED <<cardVars, win, faults, crashes, known>>

(* The entry e in slot k of the sector s is opened.                        *)
Opened(s, k, e, written) ==
    /\ fp' = [sect |-> s, slot |-> k, start |-> e.start, written |-> written]
    /\ pc' = "open" /\ res' = "FR_OK" /\ UNCHANGED <<dj, ps>>

(* dir_find has found no entry of that name: dir_register's search.        *)
NotFound ==
    IF dj.rest # <<>> THEN Fail("FR_NO_PATH")
    ELSE IF ~Creates THEN Fail("FR_NO_FILE")
    ELSE dj' = dir_seek(dj.sclust, dj.fn, <<>>) /\ pc' = "register" /\ UNCHANGED <<res, fp, ps>>

RegistersAnyway ==
    IF dj.rest # <<>> \/ ~Creates THEN Fail("FR_DISK_ERR")
    ELSE dj' = dir_seek(dj.sclust, dj.fn, <<>>) /\ pc' = "register" /\ UNCHANGED <<res, fp, ps>>

(* A disk error ends the search, and nothing is registered.                *)
SearchFails == Fail("FR_DISK_ERR")

EndOfTable == IF pc = "find" THEN NotFound ELSE Fail("FR_NO_FILE")

NoIndexLimit ==
    LET i == dj.index + 1
        next == [dj EXCEPT !.index = i % (MaxIndex + 1), !.sect = <<@[1], @[2] + 1>>]
    IN IF i % Slots # 0 THEN dj' = [dj EXCEPT !.index = i % (MaxIndex + 1)] /\ UNCHANGED <<pc, res, fp, ps>>
       ELSE IF dj.sclust = 0
       THEN IF i >= n_rootdir THEN EndOfTable ELSE dj' = next /\ UNCHANGED <<pc, res, fp, ps>>
       ELSE IF (i \div Slots) % csize # 0 THEN dj' = next /\ UNCHANGED <<pc, res, fp, ps>>
       ELSE /\ pc' = (IF pc = "find" THEN "findNext" ELSE "registerNext")
            /\ UNCHANGED <<dj, res, fp, ps>>

(* dir_next, as far as it needs no FAT.                                    *)
dir_next ==
    LET i == dj.index + 1
        next == [dj EXCEPT !.index = i, !.sect = <<@[1], @[2] + 1>>]
    IN IF i > MaxIndex THEN EndOfTable
       ELSE IF i % Slots # 0 THEN dj' = [dj EXCEPT !.index = i] /\ UNCHANGED <<pc, res, fp, ps>>
       ELSE IF dj.sclust = 0
       THEN IF i >= n_rootdir THEN EndOfTable ELSE dj' = next /\ UNCHANGED <<pc, res, fp, ps>>
       ELSE IF (i \div Slots) % csize # 0 THEN dj' = next /\ UNCHANGED <<pc, res, fp, ps>>
       ELSE /\ pc' = (IF pc = "find" THEN "findNext" ELSE "registerNext")
            /\ UNCHANGED <<dj, res, fp, ps>>

(* f_open with the entry e of the path, in slot k of the window w.         *)
Existing(w, k, e) ==
    IF Creates /\ "CREATE_NEW" \in mode THEN win' = w /\ Fail("FR_EXIST")
    ELSE IF Creates /\ e.attr \cap {"rdo", "dir"} # {} THEN win' = w /\ Fail("FR_DENIED")
    ELSE IF "CREATE_ALWAYS" \in mode /\ e.start = 0
    THEN /\ win' = Put(w, k, [e EXCEPT !.attr = {}])
         /\ Opened(w.sect, k, [e EXCEPT !.attr = {}], TRUE)
    ELSE IF "CREATE_ALWAYS" \in mode
    THEN /\ win' = Put(w, k, [e EXCEPT !.start = 0])
         /\ ps' = <<w.sect, k, e.start>> /\ pc' = "free" /\ UNCHANGED <<dj, res, fp>>
    ELSE IF ~Creates /\ "dir" \in e.attr THEN win' = w /\ Fail("FR_NO_FILE")
    ELSE IF ~Creates /\ "WRITE" \in mode /\ "rdo" \in e.attr THEN win' = w /\ Fail("FR_DENIED")
    ELSE win' = w /\ Opened(w.sect, k, e, FALSE)

(* dir_find at an entry, and what follow_path does with what it finds.     *)
dir_find(o) ==
    /\ pc = "find"
    /\ move_window(dj.sect, o)
    /\ LET w == Window(dj.sect, o)
           k == dj.index % Slots
           e == w.body[k]
       IN IF o # "ok" THEN win' = w /\ SearchFails
          ELSE IF IsEnd(e) THEN win' = w /\ NotFound
          ELSE IF ~Live(e) \/ e.name # dj.fn THEN win' = w /\ dir_next
          ELSE IF dj.rest = <<>> THEN Existing(w, k, e)
          ELSE /\ win' = w
               /\ IF "dir" \in e.attr THEN Segment(e.start, dj.rest) ELSE Fail("FR_NO_PATH")
    /\ UNCHANGED <<mode, path, opens, crashes, known>>

(* dir_register at an entry: the first one that is free takes the name.    *)
dir_register(o) ==
    /\ pc = "register"
    /\ move_window(dj.sect, o)
    /\ LET w == Window(dj.sect, o)
           k == dj.index % Slots
           e == Entry(dj.fn, {}, 0)
       IN IF o # "ok" THEN win' = w /\ Fail("FR_DISK_ERR") /\ UNCHANGED known
          ELSE IF Usable(w.body[k])
          THEN /\ win' = Put(w, k, e) /\ Opened(dj.sect, k, e, TRUE)
               /\ known' = known \cup {<<dj.sect, k>>}
          ELSE win' = w /\ dir_next /\ UNCHANGED known
    /\ UNCHANGED <<mode, path, opens, crashes>>
-----------------------------------------------------------------------------
(* create_chain(clst) in the FAT f: the first free cluster after clst, 0   *)
(* if there is none.                                                       *)
FreeAfter(f, c) ==
    LET free == {x \in Clusters : f[x] = 0}
        Least(S) == CHOOSE x \in S : \A y \in S : x <= y
    IN IF free = {} THEN 0
       ELSE IF \E x \in free : x > c THEN Least({x \in free : x > c}) ELSE Least(free)

Continue(c) ==
    /\ dj' = [dj EXCEPT !.index = @ + 1, !.clust = c, !.sect = <<c, 0>>]
    /\ UNCHANGED <<res, fp, ps>>

(* dir_next at the end of a cluster: the next one, the end of the table,   *)
(* or, when registering, a new cluster at the end of the chain.            *)
NextCluster(o) ==
    /\ pc \in {"findNext", "registerNext"}
    /\ move_window(FatSector, o)
    /\ LET w == Window(FatSector, o)
           c == w.body[dj.clust]
           n == FreeAfter(w.body, dj.clust)
       IN IF o # "ok" THEN win' = w /\ Fail("FR_DISK_ERR")
          ELSE IF c <= 1 THEN win' = w /\ Fail("FR_INT_ERR")
          ELSE IF c \in Clusters
          THEN win' = w /\ Continue(c) /\ pc' = (IF pc = "findNext" THEN "find" ELSE "register")
          ELSE IF pc = "findNext" THEN win' = w /\ NotFound
          ELSE IF n = 0 THEN win' = w /\ Fail("FR_DENIED")
          ELSE /\ win' = [w EXCEPT !.body[n] = EOC, !.body[dj.clust] = n, !.wflag = TRUE]
               /\ ps' = <<Nowhere, 0, n>> /\ pc' = "flush" /\ UNCHANGED <<dj, res, fp>>
    /\ UNCHANGED <<mode, path, opens, crashes, known>>

ClearsOld(o) ==
    /\ pc = "flush"
    /\ move_window(Nowhere, o)
    /\ IF o # "ok" THEN win' = Window(Nowhere, o) /\ Fail("FR_DISK_ERR")
       ELSE /\ win' = [sect |-> <<dj.clust, 0>>, body |-> Empty, wflag |-> TRUE]
            /\ pc' = "clear" /\ UNCHANGED <<dj, res, fp, ps>>
    /\ UNCHANGED <<mode, path, opens, crashes, known>>

(* dir_next writes the window back - the link is on the card from here on  *)
(* - and moves a window of zeros over the new cluster, ...                 *)
StretchFlush(o) ==
    /\ pc = "flush"
    /\ move_window(Nowhere, o)
    /\ IF o # "ok" THEN win' = Window(Nowhere, o) /\ Fail("FR_DISK_ERR")
       ELSE /\ win' = [sect |-> <<ps[3], 0>>, body |-> Empty, wflag |-> TRUE]
            /\ pc' = "clear" /\ UNCHANGED <<dj, res, fp, ps>>
    /\ UNCHANGED <<mode, path, opens, crashes, known>>

ClearsOne(o) ==
    /\ pc = "clear"
    /\ move_window(Nowhere, o)
    /\ IF o # "ok" THEN win' = win /\ Fail("FR_DISK_ERR")
       ELSE win' = [win EXCEPT !.wflag = FALSE] /\ Continue(ps[3]) /\ pc' = "register"
    /\ UNCHANGED <<mode, path, opens, crashes, known>>

(* ... sector by sector, then back to its first.                           *)
StretchClear(o) ==
    /\ pc = "clear"
    /\ move_window(Nowhere, o)
    /\ IF o # "ok" THEN win' = win /\ Fail("FR_DISK_ERR")
       ELSE IF win.sect[2] < csize - 1
       THEN win' = [win EXCEPT !.sect[2] = @ + 1] /\ UNCHANGED <<dj, pc, res, fp, ps>>
       ELSE /\ win' = [win EXCEPT !.sect[2] = 0, !.wflag = FALSE]
            /\ Continue(ps[3]) /\ pc' = "register"
    /\ UNCHANGED <<mode, path, opens, crashes, known>>

(* remove_chain, in a FAT of one sector.                                   *)
Freed(f, c) ==
    LET chain == {ChainOf(f, c)[n] : n \in 0 .. MaxIndex}
    IN [x \in DOMAIN f |-> IF x \in chain THEN 0 ELSE f[x]]

Truncate(o) ==
    /\ pc = "free"
    /\ IF ps[3] \notin Clusters
       THEN Fail("FR_INT_ERR") /\ UNCHANGED <<cardVars, win, faults>>
       ELSE /\ move_window(FatSector, o)
            /\ LET w == Window(FatSector, o)
               IN IF o # "ok" THEN win' = w /\ Fail("FR_DISK_ERR")
                  ELSE /\ win' = [w EXCEPT !.body = Freed(@, ps[3]), !.wflag = TRUE]
                       /\ pc' = "back" /\ UNCHANGED <<dj, res, fp, ps>>
    /\ UNCHANGED <<mode, path, opens, crashes, known>>

(* f_open, back at the entry whose chain it has removed.                   *)
OpenBack(o) ==
    /\ pc = "back"
    /\ move_window(ps[1], o)
    /\ LET w == Window(ps[1], o)
           e == [w.body[ps[2]] EXCEPT !.attr = {}]
       IN IF o # "ok" THEN win' = w /\ Fail("FR_DISK_ERR")
          ELSE win' = Put(w, ps[2], e) /\ Opened(ps[1], ps[2], e, TRUE)
    /\ UNCHANGED <<mode, path, opens, crashes, known>>

(* f_close, with nothing written to the file: f_sync of a new entry.       *)
f_close ==
    /\ pc = "open"
    /\ pc' = IF fp.written THEN "sync" ELSE "idle"
    /\ UNCHANGED <<cardVars, win, dj, mode, path, ps, fp, res, bounds, known>>

f_sync(o) ==
    /\ pc = "sync"
    /\ move_window(fp.sect, o)
    /\ LET w == Window(fp.sect, o)
       IN IF o # "ok" THEN win' = w /\ Fail("FR_DISK_ERR")
          ELSE /\ win' = Put(w, fp.slot, [w.body[fp.slot] EXCEPT !.attr = @ \cup {"arc"}, !.start = fp.start])
               /\ fp' = [fp EXCEPT !.written = FALSE]
               /\ pc' = "sync2" /\ UNCHANGED <<dj, res, ps>>
    /\ UNCHANGED <<mode, path, opens, crashes, known>>

sync(o) ==
    /\ pc = "sync2"
    /\ move_window(Nowhere, o)
    /\ win' = Window(Nowhere, o)
    /\ Fail(IF o = "ok" THEN "FR_OK" ELSE "FR_DISK_ERR")
    /\ UNCHANGED <<mode, path, opens, crashes, known>>

(* Reset or power loss: what is in memory is gone.                         *)
Crash ==
    /\ crashes < MaxCrashes /\ crashes' = crashes + 1
    /\ win' = EmptyWindow /\ dj' = NoDir /\ mode' = {} /\ path' = <<>> /\ fp' = NoFile
    /\ ps' = <<Nowhere, 0, 0>> /\ pc' = "idle" /\ res' = "FR_OK"
    /\ known' = known \cap AllVisible(fat, tab)
    /\ UNCHANGED <<cardVars, opens, faults>>

Step ==
    \/ \E o \in Outcomes :
        \/ dir_find(o) \/ dir_register(o) \/ NextCluster(o)
        \/ StretchFlush(o) \/ StretchClear(o) \/ Truncate(o) \/ OpenBack(o)
        \/ f_sync(o) \/ sync(o)
    \/ f_close

Next == Step \/ (\E p \in Paths, m \in Modes : f_open(p, m)) \/ Crash

Spec == Init /\ [][Next]_vars
FairSpec == Spec /\ WF_vars(Step)
-----------------------------------------------------------------------------
(***************************************************************************)
(* The reference for a lookup.  NameOf is the 8.3 name of a segment: its   *)
(* part before the dot and the one after it, each padded, letters but the  *)
(* second halves of two-byte characters in upper case.                     *)
(***************************************************************************)
NameOf(seg) ==
    LET dots == {k \in DOMAIN seg : seg[k] = "."}
        dot == IF dots = {} THEN Len(seg) + 1 ELSE CHOOSE k \in dots : TRUE
        Leads(k) == {j \in 1 .. k - 1 : \A i \in j .. k - 1 : IsDBCS1(seg[i])}
        Half(k) == Cardinality(Leads(k)) % 2 = 1
        Char(k) == IF Half(k) THEN seg[k] ELSE Up(seg[k])
    IN [k \in 1 .. Body + Ext |->
            IF k = 1 /\ dot > 1 /\ IsDBCS1(seg[1]) THEN "5"
            ELSE IF k <= Body THEN IF k < dot THEN Char(k) ELSE " "
            ELSE IF k - Body + dot \in DOMAIN seg THEN Char(k - Body + dot) ELSE " "]

(* The first entry of that name in the table d, as a set of at most one.   *)
First(d, name) ==
    LET named == {n \in Reached(FatNow, TabNow, d) :
                    LET e == TabNow[Place(FatNow, d, n)][n % Slots] IN Live(e) /\ e.name = name}
    IN {<<Place(FatNow, d, n), n % Slots>> : n \in {m \in named : \A x \in named : m <= x}}
EntryAt(x) == TabNow[x[1]][x[2]]

Resolve(p) ==
    LET table[k \in 1 .. Len(p)] ==
            IF k = 1 THEN {root}
            ELSE {EntryAt(x).start : x \in {y \in UNION {First(d, NameOf(p[k - 1])) : d \in {c \in table[k - 1] : CanSeek(c)}} :
                                            "dir" \in EntryAt(y).attr}}
    IN UNION {First(d, NameOf(p[Len(p)])) : d \in {c \in table[Len(p)] : CanSeek(c)}}

(* f_open opens the entry its path names, the path read by the rules for   *)
(* short names, and says that there is no such file, or begins to register *)
(* one, only when no entry has that name: whatever is deleted, hidden,     *)
(* stretched, still in the window or unreadable in between.                *)
LookupRight ==
    /\ pc = "open" => <<fp.sect, fp.slot>> \in Resolve(path)
    /\ pc = "register" => Resolve(path) = {}
    /\ pc = "idle" /\ path # <<>> /\ res \in {"FR_NO_FILE", "FR_NO_PATH"} =>
        \A x \in Resolve(path) : "dir" \in EntryAt(x).attr

(* No two registered entries of a table have the same name, with failing   *)
(* accesses and resets as well: a name that could not be looked up is not  *)
(* registered again.                                                       *)
NamesUnique ==
    \A d \in Tables(FatNow, TabNow) : \A x, y \in known \cap Visible(FatNow, TabNow, d) :
        x # y => EntryAt(x).name # EntryAt(y).name

(* A registered entry that can be found on the card can be found there for *)
(* ever, under its name: there is no f_unlink, and neither a registration  *)
(* nor a stretched table, nor a reset in the middle of one, hides or       *)
(* overwrites an entry.                                                    *)
EntriesKept ==
    [][\A x \in known \cap AllVisible(fat, tab) :
        x \in AllVisible(fat', tab') /\ tab'[x[1]][x[2]].name = tab[x[1]][x[2]].name]_vars

(* As long as no access fails and the machine is not reset, a table shows  *)
(* between calls only what was registered: the old content of the clusters *)
(* a table is stretched by never appears as entries.                       *)
NoGhosts ==
    faults = 0 /\ crashes = 0 /\ pc \in {"idle", "open"} => AllVisible(FatNow, TabNow) \subseteq known

(* Every call returns, on a table whose chain is a cycle too.              *)
CallsEnd == pc # "idle" ~> pc = "idle"
=============================================================================
