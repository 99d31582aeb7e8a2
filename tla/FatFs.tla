------------------------------- MODULE FatFs -------------------------------
(***************************************************************************)
(* The part of FatFs (storage/ff.c) that a dump runs through: f_open with  *)
(* FA_CREATE_ALWAYS, f_write of whole sectors, f_close, and below them the *)
(* one-sector window, the FAT functions and FSInfo, on a FAT32 volume with *)
(* two FAT copies.  One step is one move_window or one disk_write with the *)
(* computation that follows it; in between the machine may be reset or     *)
(* lose power.  Every sector access may fail, and a failed write may have  *)
(* reached the card.                                                       *)
(***************************************************************************)
EXTENDS Integers, Sequences, FiniteSets

CONSTANTS
    Files,          \* names in the root directory
    OldFile,        \* the file that may exist before the first call
    OldChains,      \* the cluster chains it may have, <<>> for no file
    max_clust,      \* last cluster number + 1
    EntriesPerSect, \* FAT entries in a sector (FAT32: 128)
    csize,          \* sectors per cluster
    WriteLen,       \* sectors of one f_write (dump.c: 66)
    MaxOpens, MaxWrites,   \* bounds: f_open calls, f_write calls per file
    MaxFaults, MaxCrashes  \* bounds: failing sector accesses, crashes

Clusters == 2 .. max_clust - 1

(* A volume has a cluster, csize is a byte, and a chain has no cluster     *)
(* twice.                                                                  *)
ASSUME VolumeAssumption ==
    /\ max_clust \in Nat /\ max_clust > 2 /\ csize \in 1 .. 255
    /\ {EntriesPerSect, WriteLen} \subseteq Nat \ {0}
    /\ OldFile \in Files /\ OldChains \subseteq Seq(Clusters)
    /\ \A chain \in OldChains : \A i, j \in 1 .. Len(chain) : chain[i] = chain[j] => i = j
    /\ {MaxOpens, MaxWrites, MaxFaults, MaxCrashes} \subseteq Nat

EOC == max_clust + 1         \* 0x0FFFFFFF
DISK_ERROR == max_clust + 2  \* 0xFFFFFFFF, from get_cluster and create_chain
Unknown == -1                \* free_clust when FSInfo is not usable

Entries == 0 .. max_clust - 1
Absent == [start |-> 0, size |-> -1]
Dir == <<"dir", 0>>
Nowhere == <<"none", 0>>     \* winsect = 0
FatSect(c) == <<"fat", c \div EntriesPerSect>>

VARIABLES
    fat, fat2, dir, data, fsinfo,   \* on the card
    win,                            \* fs->win, winsect, wflag
    free_clust, last_clust, fsi_flag,
    fp,                             \* the FIL object
    pc, btw,
    clst, scl, ncl,                 \* locals of remove_chain and create_chain
    res,                            \* the result of the last call of the API
    opens, writes, faults, crashes,
    promise                         \* history: what f_close has promised

diskVars == <<fat, fat2, dir, data, fsinfo>>
fsVars == <<free_clust, last_clust, fsi_flag>>
locals == <<clst, scl, ncl>>
bounds == <<opens, writes, faults, crashes>>
vars == <<diskVars, win, fsVars, fp, pc, btw, locals, res, bounds, promise>>

Results == {"FR_OK", "FR_DISK_ERR", "FR_INT_ERR", "FR_NOT_READY", "full"}

TypeOK ==
    /\ pc \in {"down", "idle", "open", "free", "back", "next", "follow", "probe", "link",
               "got", "data", "sync", "flush", "fsinfo"}
    /\ \A e \in Entries : {fat[e], fat2[e]} \subseteq {0, 1, EOC} \cup Clusters
    /\ \A f \in Files : dir[f].start \in {0, 1, DISK_ERROR} \cup Clusters
    /\ win.sect \in {Nowhere, Dir} \cup {FatSect(c) : c \in Entries}
    /\ win.wflag => win.sect # Nowhere
    /\ free_clust \in {Unknown} \cup Nat /\ last_clust \in Entries
    /\ fp.curr \in Clusters \cup {0} /\ fp.fsize <= fp.fptr
    /\ fp.csect \in 0 .. csize \cup {255} /\ btw \in 0 .. WriteLen
    /\ clst \in Entries \cup {EOC, DISK_ERROR} /\ scl \in Entries /\ ncl \in Entries \cup {DISK_ERROR}
    /\ res \in Results

FreeOn(table) == Cardinality({c \in Clusters : table[c] = 0})

NoFile == [name |-> OldFile, org |-> 0, curr |-> 0, fptr |-> 0, fsize |-> 0, csect |-> 255,
           written |-> FALSE]
EmptyWindow == [sect |-> Nowhere, body |-> <<>>, wflag |-> FALSE]

(* A sound volume, mounted by nobody.                                      *)
Init ==
    /\ \E chain \in OldChains :
        /\ fat = [e \in Entries |->
                    IF e < 2 THEN EOC
                    ELSE IF \E i \in DOMAIN chain : chain[i] = e
                    THEN LET i == CHOOSE j \in DOMAIN chain : chain[j] = e
                         IN IF i = Len(chain) THEN EOC ELSE chain[i + 1]
                    ELSE 0]
        /\ dir = [f \in Files |->
                    IF f = OldFile /\ chain # <<>>
                    THEN [start |-> chain[1], size |-> csize * Len(chain)] ELSE Absent]
    /\ fat2 = fat
    /\ data = [c \in Clusters |-> [s \in 0 .. csize - 1 |-> <<0, 0>>]]
    /\ fsinfo \in [free : {Unknown, FreeOn(fat)}, next : {0, max_clust - 1}]
    /\ win = EmptyWindow /\ free_clust = Unknown /\ last_clust = 0 /\ fsi_flag = FALSE
    /\ fp = NoFile /\ pc = "down" /\ btw = 0 /\ clst = 0 /\ scl = 0 /\ ncl = 0
    /\ res = "FR_OK" /\ opens = 0 /\ writes = 0 /\ faults = 0 /\ crashes = 0
    /\ promise = [f \in Files |-> [size |-> Unknown, open |-> 0]]
-----------------------------------------------------------------------------
(***************************************************************************)
(* move_window(s) with the outcome o: "ok"; the write-back fails, or fails *)
(* after the sector has been written ("lost"); the read fails.  The write  *)
(* to the second FAT may fail too (mirror = FALSE), and nobody looks.      *)
(***************************************************************************)
WriteBack(s) == win.wflag /\ win.sect # s
Outcomes == {"ok", "wfail", "wlost", "rfail"}

Possible(s, o, mirror) ==
    /\ o \in {"wfail", "wlost"} => WriteBack(s)
    /\ o = "rfail" => s \notin {Nowhere, win.sect}
    /\ ~mirror => WriteBack(s) /\ win.sect # Dir /\ o \in {"ok", "rfail"}
    /\ LET n == (IF o = "ok" THEN 0 ELSE 1) + (IF mirror THEN 0 ELSE 1)
       IN faults + n <= MaxFaults /\ faults' = faults + n

Patch(table) == [e \in Entries |-> IF e \in DOMAIN win.body THEN win.body[e] ELSE table[e]]

(* What is on the card after it ...                                        *)
WrittenBack(s, o, mirror) ==
    LET w == WriteBack(s) /\ o # "wfail"
    IN /\ fat' = IF w /\ win.sect # Dir THEN Patch(fat) ELSE fat
       /\ dir' = IF w /\ win.sect = Dir THEN win.body ELSE dir
       /\ fat2' = IF w /\ win.sect # Dir /\ o # "wlost" /\ mirror THEN Patch(fat2) ELSE fat2

(* ... and what is in the window.                                          *)
Window(s, o) ==
    IF s = win.sect \/ o \in {"wfail", "wlost"} THEN win
    ELSE IF o = "rfail" \/ s = Nowhere THEN [win EXCEPT !.wflag = FALSE]
    ELSE [sect |-> s, wflag |-> FALSE,
          body |-> IF s = Dir THEN dir ELSE [e \in {x \in Entries : FatSect(x) = s} |-> fat[e]]]

move_window(s, o, mirror) ==
    /\ Possible(s, o, mirror)
    /\ WrittenBack(s, o, mirror)
    /\ UNCHANGED <<data, opens, crashes>>

Put(w, k, v) == [w EXCEPT !.body[k] = v, !.wflag = TRUE]

(* get_cluster(c) through the window.                                      *)
get_cluster(c, o) == IF c \notin Clusters THEN 1
                     ELSE IF o = "ok" THEN Window(FatSect(c), o).body[c] ELSE DISK_ERROR

Return(r, l) == res' = r /\ pc' = l
-----------------------------------------------------------------------------
(* auto_mount, in the first f_open: the drive is not ready, or a boot      *)
(* record cannot be read.  fs_type stays 0, so the next f_open tries again.*)
MountFails(r) ==
    /\ pc = "down" /\ opens < MaxOpens /\ faults < MaxFaults
    /\ opens' = opens + 1 /\ faults' = faults + 1
    /\ Return(r, "down")
    /\ UNCHANGED <<diskVars, win, fsVars, fp, btw, locals, writes, crashes, promise>>

(* Else FSInfo gives the free count and the last cluster, if it can be     *)
(* read.                                                                   *)
auto_mount(ok) ==
    /\ pc = "down"
    /\ ok \/ faults < MaxFaults
    /\ faults' = IF ok THEN faults ELSE faults + 1
    /\ free_clust' = IF ok THEN fsinfo.free ELSE Unknown
    /\ last_clust' = IF ok THEN fsinfo.next ELSE last_clust
    /\ fsi_flag' = FALSE /\ win' = EmptyWindow
    /\ pc' = "idle"
    /\ UNCHANGED <<diskVars, fp, btw, locals, res, opens, writes, crashes, promise>>

Opened(f) ==
    /\ fp' = [NoFile EXCEPT !.name = f, !.written = TRUE]
    /\ writes' = 0
    /\ Return("FR_OK", "open")

(* f_open: dir_find; a new entry, or the old one with start and size 0.    *)
f_open(f, o, mirror) ==
    /\ pc = "idle" /\ opens < MaxOpens
    /\ Possible(Dir, o, mirror) /\ WrittenBack(Dir, o, mirror)
    /\ opens' = opens + 1
    /\ LET w == Window(Dir, o)
           cl == w.body[f].start
       IN IF o # "ok"
          THEN /\ win' = w /\ Return("FR_DISK_ERR", "idle")
               /\ UNCHANGED <<fp, clst, scl, writes, promise>>
          ELSE /\ win' = Put(w, f, [start |-> 0, size |-> 0])
               /\ promise' = [promise EXCEPT ![f] = [size |-> Unknown, open |-> 0]]
               /\ IF cl = 0 THEN Opened(f) /\ UNCHANGED <<clst, scl>>
                  ELSE IF cl \notin Clusters
                  THEN Return("FR_INT_ERR", "idle") /\ UNCHANGED <<fp, clst, scl, writes>>
                  ELSE /\ clst' = cl /\ scl' = cl /\ fp' = [NoFile EXCEPT !.name = f]
                       /\ pc' = "free" /\ UNCHANGED <<res, writes>>
    /\ UNCHANGED <<data, fsinfo, fsVars, btw, ncl, crashes>>

(* remove_chain: one cluster is marked empty.                              *)
remove_chain(o, mirror) ==
    /\ pc = "free"
    /\ move_window(FatSect(clst), o, mirror)
    /\ LET w == Window(FatSect(clst), o)
           nxt == get_cluster(clst, o)
       IN IF nxt = DISK_ERROR
          THEN win' = w /\ Return("FR_DISK_ERR", "idle") /\ UNCHANGED <<fsVars, clst>>
          ELSE IF nxt = 1
          THEN win' = w /\ Return("FR_INT_ERR", "idle") /\ UNCHANGED <<fsVars, clst>>
          ELSE /\ win' = IF nxt = 0 THEN w ELSE Put(w, clst, 0)
               /\ free_clust' = IF free_clust = Unknown \/ nxt = 0 THEN free_clust
                                ELSE free_clust + 1
               /\ fsi_flag' = (fsi_flag \/ (free_clust # Unknown /\ nxt # 0))
               /\ IF nxt \in Clusters
                  THEN clst' = nxt /\ UNCHANGED <<pc, last_clust>>
                  ELSE pc' = "back" /\ last_clust' = scl - 1 /\ UNCHANGED clst
               /\ UNCHANGED res
    /\ UNCHANGED <<fsinfo, fp, btw, scl, ncl, writes, promise>>

(* f_open, after remove_chain: back to the directory entry.                *)
OpenBack(o, mirror) ==
    /\ pc = "back"
    /\ move_window(Dir, o, mirror)
    /\ LET w == Window(Dir, o)
       IN IF o # "ok" THEN win' = w /\ Return("FR_DISK_ERR", "idle") /\ UNCHANGED <<fp, writes>>
          ELSE win' = [w EXCEPT !.wflag = TRUE] /\ Opened(fp.name)
    /\ UNCHANGED <<fsinfo, fsVars, btw, locals, promise>>
-----------------------------------------------------------------------------
(* f_write.  Its caller does not write again after an error.               *)
f_write ==
    /\ pc = "open" /\ res = "FR_OK" /\ writes < MaxWrites
    /\ writes' = writes + 1 /\ btw' = WriteLen
    /\ pc' = "next"
    /\ UNCHANGED <<diskVars, win, fsVars, fp, locals, res, opens, faults, crashes, promise>>

(* The end of f_write, with everything written or the volume full.         *)
WriteDone(r) ==
    /\ fp' = [fp EXCEPT !.fsize = fp.fptr, !.written = TRUE]
    /\ Return(r, "open")

OneLap(n, from) == IF n + 1 < max_clust THEN n + 1 ELSE 0

(* create_chain's search: the cluster after n, 0 when it has come round.   *)
NextCluster(n, from) == IF n + 1 < max_clust THEN n + 1 ELSE IF 2 > from THEN 0 ELSE 2

SearchFrom(from) ==
    LET n == NextCluster(from, from)
    IN /\ scl' = from
       /\ IF n = 0 THEN pc' = "got" /\ ncl' = 0 ELSE pc' = "probe" /\ ncl' = n

(* The loop head: done, within a cluster, or on a cluster boundary.        *)
WriteNext ==
    /\ pc = "next"
    /\ IF btw = 0 THEN WriteDone("FR_OK") /\ UNCHANGED locals
       ELSE IF fp.csect < csize THEN pc' = "data" /\ UNCHANGED <<fp, res, locals>>
       ELSE IF fp.fptr = 0
       THEN /\ clst' = 0 /\ UNCHANGED <<fp, res>>
            /\ IF fp.org # 0 THEN pc' = "got" /\ ncl' = fp.org /\ UNCHANGED scl
               ELSE SearchFrom(IF last_clust \in 1 .. max_clust - 1 THEN last_clust ELSE 1)
       ELSE pc' = "follow" /\ clst' = fp.curr /\ UNCHANGED <<fp, res, scl, ncl>>
    /\ UNCHANGED <<diskVars, win, fsVars, btw, bounds, promise>>

(* create_chain(curr_clust): a cluster that follows, or a search.  A disk  *)
(* error here reads like the end of the chain.                             *)
ChainFollow(o, mirror) ==
    /\ pc = "follow"
    /\ move_window(FatSect(clst), o, mirror)
    /\ win' = Window(FatSect(clst), o)
    /\ LET cs == get_cluster(clst, o)
       IN IF cs < 2 THEN pc' = "got" /\ ncl' = 1 /\ UNCHANGED scl
          ELSE IF cs < max_clust THEN pc' = "got" /\ ncl' = cs /\ UNCHANGED scl
          ELSE SearchFrom(clst)
    /\ UNCHANGED <<fsinfo, fsVars, fp, btw, clst, res, writes, promise>>

NotCounted ==
    /\ last_clust' = ncl
    /\ UNCHANGED <<free_clust, fsi_flag>>
    /\ pc' = "got" /\ UNCHANGED ncl

(* The new cluster is in the chain: the bookkeeping.                       *)
Allocated ==
    /\ last_clust' = ncl
    /\ free_clust' = IF free_clust = Unknown THEN Unknown ELSE free_clust - 1
    /\ fsi_flag' = (fsi_flag \/ free_clust # Unknown)
    /\ pc' = "got" /\ UNCHANGED ncl

(* One round of the search; a free cluster is marked "in use".  At "got",  *)
(* ncl is create_chain's answer.                                           *)
ChainProbe(o, mirror) ==
    /\ pc = "probe"
    /\ move_window(FatSect(ncl), o, mirror)
    /\ LET w == Window(FatSect(ncl), o)
           cs == get_cluster(ncl, o)
       IN IF cs = 0
          THEN /\ win' = Put(w, ncl, EOC)
               /\ IF clst = 0 THEN Allocated ELSE pc' = "link" /\ UNCHANGED <<fsVars, ncl>>
          ELSE /\ win' = w /\ UNCHANGED fsVars
               /\ IF cs \in {1, DISK_ERROR} THEN pc' = "got" /\ ncl' = cs
                  ELSE IF ncl = scl \/ NextCluster(ncl, scl) = 0 THEN pc' = "got" /\ ncl' = 0
                  ELSE ncl' = NextCluster(ncl, scl) /\ UNCHANGED pc
    /\ UNCHANGED <<fsinfo, fp, btw, clst, scl, res, writes, promise>>

(* put_cluster(clst, ncl): the new cluster is linked to the previous one.  *)
(* put_cluster sets wflag even when move_window has failed.                *)
ChainLink(o, mirror) ==
    /\ pc = "link"
    /\ move_window(FatSect(clst), o, mirror)
    /\ LET w == Window(FatSect(clst), o)
       IN IF o = "ok" THEN win' = Put(w, clst, ncl) /\ Allocated
          ELSE win' = [w EXCEPT !.wflag = TRUE] /\ pc' = "got" /\ ncl' = DISK_ERROR
               /\ UNCHANGED fsVars
    /\ UNCHANGED <<fsinfo, fp, btw, clst, scl, res, writes, promise>>

(* f_write with create_chain's answer.  The first cluster, or the error,   *)
(* is stored in org_clust before the answer is looked at.                  *)
WriteGot ==
    /\ pc = "got"
    /\ LET org == IF clst = 0 THEN ncl ELSE fp.org
       IN IF ncl = 0
          THEN fp' = [fp EXCEPT !.fsize = fp.fptr, !.written = TRUE] /\ Return("full", "open")
          ELSE IF ncl \notin Clusters
          THEN /\ fp' = [fp EXCEPT !.org = org]
               /\ Return(IF ncl = 1 THEN "FR_INT_ERR" ELSE "FR_DISK_ERR", "open")
          ELSE /\ fp' = [fp EXCEPT !.org = org, !.curr = ncl, !.csect = 0]
               /\ pc' = "data" /\ UNCHANGED res
    /\ UNCHANGED <<diskVars, win, fsVars, btw, locals, bounds, promise>>

ErrorIgnored(k, ok) ==
    /\ pc = "data"
    /\ LET cc == IF btw < csize - fp.csect THEN btw ELSE csize - fp.csect
       IN /\ k \in 0 .. cc /\ (ok => k = cc) /\ (ok \/ faults < MaxFaults)
          /\ data' = [data EXCEPT ![fp.curr] = [s \in 0 .. csize - 1 |->
                        IF s - fp.csect \in 0 .. k - 1
                        THEN <<opens, fp.fptr + s - fp.csect>> ELSE @[s]]]
          /\ faults' = IF ok THEN faults ELSE faults + 1
          /\ btw' = btw - cc /\ pc' = "next" /\ UNCHANGED res
          /\ fp' = [fp EXCEPT !.csect = @ + cc, !.fptr = @ + cc]
    /\ UNCHANGED <<fat, fat2, dir, fsinfo, win, fsVars, locals, opens, writes, crashes, promise>>

(* The direct disk_write, clipped at the cluster boundary.  On an error k  *)
(* sectors have been written; the file object is left as it was.           *)
WriteData(k, ok) ==
    /\ pc = "data"
    /\ LET cc == IF btw < csize - fp.csect THEN btw ELSE csize - fp.csect
       IN /\ k \in 0 .. cc /\ (ok => k = cc) /\ (ok \/ faults < MaxFaults)
          /\ data' = [data EXCEPT ![fp.curr] = [s \in 0 .. csize - 1 |->
                        IF s - fp.csect \in 0 .. k - 1
                        THEN <<opens, fp.fptr + s - fp.csect>> ELSE @[s]]]
          /\ IF ok
             THEN /\ faults' = faults /\ btw' = btw - cc /\ pc' = "next" /\ UNCHANGED res
                  /\ fp' = [fp EXCEPT !.csect = @ + cc, !.fptr = @ + cc]
             ELSE faults' = faults + 1 /\ Return("FR_DISK_ERR", "open") /\ UNCHANGED <<fp, btw>>
    /\ UNCHANGED <<fat, fat2, dir, fsinfo, win, fsVars, locals, opens, writes, crashes, promise>>
-----------------------------------------------------------------------------
(* f_close: f_sync, which does nothing for a file that is not changed.     *)
f_close ==
    /\ pc = "open"
    /\ IF fp.written THEN pc' = "sync" ELSE pc' = "idle"
    /\ UNCHANGED <<diskVars, win, fsVars, fp, btw, locals, res, bounds, promise>>

SyncWithoutWindow(o, mirror) ==
    /\ pc = "sync"
    /\ Possible(Dir, "ok", TRUE) /\ o = "ok" /\ mirror
    /\ dir' = [dir EXCEPT ![fp.name] = [start |-> fp.org, size |-> fp.fsize]]
    /\ fp' = [fp EXCEPT !.written = FALSE] /\ pc' = "flush"
    /\ UNCHANGED <<fat, fat2, data, fsinfo, win, fsVars, btw, locals, res, opens, writes, crashes,
                   promise>>

(* f_sync: the directory entry is updated in the window ...                *)
f_sync(o, mirror) ==
    /\ pc = "sync"
    /\ move_window(Dir, o, mirror)
    /\ LET w == Window(Dir, o)
       IN IF o # "ok" THEN win' = w /\ Return("FR_DISK_ERR", "idle") /\ UNCHANGED fp
          ELSE /\ win' = Put(w, fp.name, [start |-> fp.org, size |-> fp.fsize])
               /\ fp' = [fp EXCEPT !.written = FALSE]
               /\ pc' = "flush" /\ UNCHANGED res
    /\ UNCHANGED <<fsinfo, fsVars, btw, locals, writes, promise>>

Promised == promise' = [promise EXCEPT ![fp.name] = [size |-> fp.fsize, open |-> opens]]

(* ... and sync writes it back,                                            *)
sync(o, mirror) ==
    /\ pc = "flush"
    /\ move_window(Nowhere, o, mirror)
    /\ win' = Window(Nowhere, o)
    /\ IF o # "ok" THEN Return("FR_DISK_ERR", "idle") /\ UNCHANGED promise
       ELSE IF fsi_flag THEN pc' = "fsinfo" /\ UNCHANGED <<res, promise>>
       ELSE Return("FR_OK", "idle") /\ Promised
    /\ UNCHANGED <<fsinfo, fsVars, fp, btw, locals, writes>>

(* then FSInfo, through the window and without a look at the result.       *)
SyncFsInfo(ok) ==
    /\ pc = "fsinfo"
    /\ ok \/ faults < MaxFaults
    /\ faults' = IF ok THEN faults ELSE faults + 1
    /\ fsinfo' = IF ok THEN [free |-> free_clust, next |-> last_clust] ELSE fsinfo
    /\ fsi_flag' = FALSE /\ win' = EmptyWindow
    /\ Return("FR_OK", "idle") /\ Promised
    /\ UNCHANGED <<fat, fat2, dir, data, free_clust, last_clust, fp, btw, locals, opens, writes,
                   crashes>>

(* Reset or power loss: what is in memory is gone.                         *)
Crash ==
    /\ crashes < MaxCrashes /\ pc # "down"
    /\ crashes' = crashes + 1
    /\ win' = EmptyWindow /\ free_clust' = Unknown /\ last_clust' = 0 /\ fsi_flag' = FALSE
    /\ fp' = NoFile /\ btw' = 0 /\ clst' = 0 /\ scl' = 0 /\ ncl' = 0
    /\ Return("FR_OK", "down")
    /\ UNCHANGED <<diskVars, opens, writes, faults, promise>>

Next ==
    \/ \E r \in {"FR_NOT_READY", "FR_DISK_ERR"} : MountFails(r)
    \/ \E ok \in BOOLEAN : auto_mount(ok) \/ SyncFsInfo(ok)
    \/ \E o \in Outcomes, mirror \in BOOLEAN :
        \/ \E f \in Files : f_open(f, o, mirror)
        \/ remove_chain(o, mirror) \/ OpenBack(o, mirror)
        \/ ChainFollow(o, mirror) \/ ChainProbe(o, mirror) \/ ChainLink(o, mirror)
        \/ f_sync(o, mirror) \/ sync(o, mirror)
    \/ f_write \/ WriteNext \/ WriteGot
    \/ \E k \in 0 .. csize, ok \in BOOLEAN : WriteData(k, ok)
    \/ f_close \/ Crash

Spec == Init /\ [][Next]_vars
-----------------------------------------------------------------------------
(* The n-th cluster of the chain that starts at c, by the FAT on the card. *)
Chain(c) ==
    LET nth[n \in 0 .. max_clust] ==
            IF n = 0 THEN c ELSE IF nth[n - 1] \in Clusters THEN fat[nth[n - 1]] ELSE EOC
    IN nth

Used(f) == {Chain(dir[f].start)[n] : n \in 0 .. max_clust} \cap Clusters

(* At every moment, and so after a crash at any moment, the volume on the  *)
(* card is sound: a directory entry leads to a chain of allocated clusters *)
(* that ends, and no two files share a cluster.                            *)
ChainsIntact ==
    /\ \A f \in Files : dir[f].start \in Clusters =>
        /\ Chain(dir[f].start)[max_clust] = EOC
        /\ \A c \in Used(f) : fat[c] # 0
    /\ \A f, g \in Files : f # g => Used(f) \cap Used(g) = {}

(* What f_close has answered FR_OK for stays readable from the card until  *)
(* the file is opened again: the size, and every sector in its place.      *)
CloseIsDurable ==
    \A f \in Files : promise[f].size # Unknown =>
        /\ dir[f].size = promise[f].size
        /\ \A i \in 0 .. promise[f].size - 1 :
            LET c == Chain(dir[f].start)[i \div csize]
            IN c \in Clusters /\ data[c][i % csize] = <<promise[f].open, i>>

(* f_write reports a full volume only when no cluster is free, counting    *)
(* what is still in the window.                                            *)
FullIsFull ==
    pc = "got" /\ ncl = 0 =>
        \A c \in Clusters : (IF FatSect(c) = win.sect THEN win.body[c] ELSE fat[c]) # 0

(* Between calls, with no file open and no access failed, every used       *)
(* cluster belongs to a file, FSInfo has the number of the others and,     *)
(* after an f_close that answered FR_OK, the second FAT is a copy of the   *)
(* first (its write is not checked, so a failure would go unnoticed).      *)
SpaceAccounted ==
    pc = "idle" /\ faults = 0 /\ crashes = 0 =>
        /\ {c \in Clusters : fat[c] # 0} = UNION {Used(f) : f \in Files}
        /\ fsinfo.free \in {Unknown, FreeOn(fat)}
        /\ res = "FR_OK" => fat2 = fat

(* The start cluster in a directory entry on the card is a cluster, or 0.  *)
StartIsCluster == \A f \in Files : dir[f].start \in Clusters \cup {0}
=============================================================================
