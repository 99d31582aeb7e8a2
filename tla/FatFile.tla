------------------------------ MODULE FatFile ------------------------------
(***************************************************************************)
(* An open file of FatFs (storage/ff.c): f_read, f_write, f_lseek and      *)
(* f_sync with any length and offset.  With _FS_TINY, a part of a sector   *)
(* goes through the window that the FAT and the directory use too, while   *)
(* whole sectors bypass it.  The FAT itself is in FatFs: here a cluster    *)
(* is its place in the file's chain, and a FAT access moves the window.    *)
(* A byte is the call that wrote it and its offset in the file.            *)
(***************************************************************************)
EXTENDS Integers, Sequences, FiniteSetsExt

CONSTANTS
    SS, csize,      \* bytes of a sector, sectors of a cluster (powers of two)
    NClusters,      \* clusters that the volume has for this file
    SizeLimit,      \* values of the 32-bit fptr, fsize and btw
    OldSizes,       \* sizes of the file when it is opened
    Lengths,        \* btr and btw
    MaxCalls, MaxFaults   \* bounds

bcs == SS * csize
MaxBytes == NClusters * bcs

ASSUME FileAssumption ==
    /\ {SS, csize, NClusters, MaxCalls, MaxFaults} \subseteq Nat
    /\ SS > 0 /\ csize \in 1 .. 254
    /\ SizeLimit \in Nat /\ SizeLimit % bcs = 0
    /\ OldSizes \subseteq 0 .. Min({MaxBytes, SizeLimit - 1})
    /\ Lengths \subseteq 0 .. SizeLimit - 1

VARIABLES
    data,      \* the file's sectors on the card
    len, room, \* clusters of its chain (org_clust is 0 when there are none), and
               \* of the chain once the volume is full
    win,       \* fs->win, winsect, wflag
    fp,        \* the FIL object
    pc, bt,    \* the call in progress, and its btr, btw or ofs
    from,      \* fptr when f_read was called, ofs of f_lseek
    got,       \* what f_read has put into the caller's buffer
    calls, faults,
    content    \* history: the bytes of the file by what the calls promise

vars == <<data, len, room, win, fp, pc, bt, from, got, calls, faults, content>>

Junk == <<0 - 1, 0>>          \* a byte that nobody has written
Elsewhere == 0 - 1            \* a sector of the FAT or the directory
Offsets == 0 .. MaxBytes - 1
InSector == 0 .. SS - 1
Garbage == [b \in InSector |-> Junk]
Sectors == 1 .. NClusters * csize

(* clust2sect of the c-th cluster, plus k.                                 *)
Sect(c, k) == (c - 1) * csize + k + 1

TypeOK ==
    /\ room \in 0 .. NClusters /\ len \in 0 .. room
    /\ win.sect \in {Elsewhere} \cup Sectors
    /\ win.wflag => win.sect \in Sectors
    /\ fp.fptr \in 0 .. SizeLimit - 1 /\ fp.fsize \in 0 .. SizeLimit - 1
    /\ fp.curr \in 0 .. len /\ fp.csect \in (0 .. csize) \cup {255}
    /\ fp.dsect \in {0} \cup Sectors
    /\ pc \in {"idle", "read", "write", "seek"} /\ bt \in 0 .. SizeLimit - 1

Init ==
    /\ \E size \in OldSizes, writable \in BOOLEAN :
        /\ len = (size + bcs - 1) \div bcs /\ room \in len .. NClusters
        /\ content = [o \in Offsets |-> IF o < size THEN <<0, o>> ELSE Junk]
        /\ fp = [fptr |-> 0, fsize |-> size, csect |-> 255, curr |-> 0, dsect |-> 0,
                 writable |-> writable, written |-> FALSE, err |-> FALSE]
    /\ data = [s \in Sectors |-> [b \in InSector |-> content[(s - 1) * SS + b]]]
    /\ win = [sect |-> Elsewhere, body |-> Garbage, wflag |-> FALSE]
    /\ pc = "idle" /\ bt = 0 /\ from = 0 /\ got = <<>> /\ calls = 0 /\ faults = 0
-----------------------------------------------------------------------------
(* move_window(s): the card and the window after it; 0 only writes back.   *)
Flushed(s) == IF win.wflag /\ win.sect # s THEN [data EXCEPT ![win.sect] = win.body] ELSE data

Moved(s) ==
    IF s = win.sect THEN win
    ELSE IF s = 0 THEN [win EXCEPT !.wflag = FALSE]
    ELSE [sect |-> s, wflag |-> FALSE,
          body |-> IF s = Elsewhere THEN Garbage ELSE data[s]]

MoveWindow(s) == data' = Flushed(s) /\ win' = Moved(s)

(* create_chain after the c-th cluster: the next one, or 0 on a full volume*)
CreateChain(c) == IF c < room THEN c + 1 ELSE 0

AtSector == fp.fptr % SS = 0
AtCluster == AtSector /\ fp.csect >= csize
Whole == Min({bt \div SS, csize - fp.csect})         \* cc, clipped
Part == Min({SS - (fp.fptr % SS), bt})                 \* rcnt, wcnt
Here == IF AtSector THEN Sect(fp.curr, fp.csect) ELSE fp.dsect

Call(op) == /\ pc = "idle" /\ ~fp.err /\ calls < MaxCalls
            /\ pc' = op /\ calls' = calls + 1
            /\ UNCHANGED <<data, len, room, win, faults, content>>

(* The card and the window once the current sector's window is written     *)
(* back, before a direct write.                                            *)
Card == IF win.sect = fp.dsect THEN Flushed(0) ELSE data
Window == IF win.sect = fp.dsect THEN Moved(0) ELSE win

(* move_window fails: in its write, which leaves the sector in any state,  *)
(* or in its read.  disk_read copies a sector only once it has it all.     *)
MoveFails ==
    \/ /\ win.wflag
       /\ data' = [data EXCEPT ![win.sect] = Garbage]
       /\ UNCHANGED win
    \/ data' = Flushed(0) /\ win' = Moved(0)

(* disk_write fails on the last of the n + 1 sectors it tries.             *)
DirectFails ==
    /\ pc = "write" /\ AtSector /\ ~AtCluster
    /\ \E n \in 0 .. Whole - 1 :
          data' = [s \in Sectors |-> IF s - Here \in 0 .. n THEN Garbage ELSE Card[s]]
    /\ win' = Window

(* A disk access of the step fails: ABORT, and every later call but f_sync *)
(* is refused.                                                             *)
Abort ==
    /\ faults < MaxFaults
    /\ \/ pc = "seek" /\ (bt > bcs \/ (bt > 0 /\ fp.curr = 0))
       \/ pc \in {"read", "write"} /\ bt > 0 /\ (AtSector \/ win.sect # Here)
    /\ MoveFails \/ DirectFails \/ UNCHANGED <<data, win>>
    /\ content' = [o \in Offsets |->
                     IF pc = "write" /\ o - fp.fptr \in 0 .. bt - 1 THEN Junk ELSE content[o]]
    /\ fp' = [fp EXCEPT !.err = TRUE]
    /\ pc' = "idle" /\ faults' = faults + 1
    /\ UNCHANGED <<len, room, bt, from, got, calls>>
-----------------------------------------------------------------------------
f_read(btr) ==
    /\ Call("read")
    /\ bt' = Min({btr, fp.fsize - fp.fptr})
    /\ from' = fp.fptr /\ got' = <<>>
    /\ UNCHANGED fp

(* On the cluster boundary: the origin, or get_cluster.                    *)
ReadCluster ==
    /\ pc = "read" /\ bt > 0 /\ AtCluster
    /\ fp' = [fp EXCEPT !.curr = IF fp.fptr = 0 THEN 1 ELSE @ + 1, !.csect = 0]
    /\ IF fp.fptr = 0 THEN UNCHANGED <<data, win>> ELSE MoveWindow(Elsewhere)
    /\ UNCHANGED <<len, room, pc, bt, from, got, calls, faults, content>>

(* Whole sectors, straight from the card.                                  *)
ReadDirect ==
    /\ pc = "read" /\ AtSector /\ ~AtCluster /\ bt \div SS > 0
    /\ got' = got \o [i \in 1 .. Whole * SS |->
                        data[Here + (i - 1) \div SS][(i - 1) % SS]]
    /\ fp' = [fp EXCEPT !.csect = @ + Whole, !.fptr = @ + Whole * SS]
    /\ bt' = bt - Whole * SS
    /\ UNCHANGED <<data, len, room, win, pc, from, calls, faults, content>>

NoMove ==
    /\ pc = "read" /\ bt > 0 /\ ~AtCluster /\ (AtSector => bt < SS)
    /\ UNCHANGED <<data, win>>
    /\ got' = got \o [i \in 1 .. Part |-> win.body[(fp.fptr % SS) + i - 1]]
    /\ fp' = [fp EXCEPT !.dsect = Here, !.fptr = @ + Part,
                        !.csect = IF AtSector THEN @ + 1 ELSE @]
    /\ bt' = bt - Part
    /\ UNCHANGED <<len, room, pc, from, calls, faults, content>>

(* Part of a sector, from the window.                                      *)
ReadPart ==
    /\ pc = "read" /\ bt > 0 /\ ~AtCluster /\ (AtSector => bt < SS)
    /\ MoveWindow(Here)
    /\ got' = got \o [i \in 1 .. Part |-> Moved(Here).body[(fp.fptr % SS) + i - 1]]
    /\ fp' = [fp EXCEPT !.dsect = Here, !.fptr = @ + Part,
                        !.csect = IF AtSector THEN @ + 1 ELSE @]
    /\ bt' = bt - Part
    /\ UNCHANGED <<len, room, pc, from, calls, faults, content>>

ReadEnd ==
    /\ pc = "read" /\ bt = 0
    /\ pc' = "idle"
    /\ UNCHANGED <<data, len, room, win, fp, bt, from, got, calls, faults, content>>
-----------------------------------------------------------------------------
(* f_write; a size beyond 32 bits makes it write nothing.                  *)
f_write(btw) ==
    /\ fp.writable /\ Call("write")
    /\ bt' = IF (fp.fsize + btw) % SizeLimit < fp.fsize THEN 0 ELSE btw
    /\ UNCHANGED <<fp, from, got>>

(* Leaving the loop: the size, and FA__WRITTEN.                            *)
Done == [fp EXCEPT !.fsize = Max({fp.fsize, fp.fptr}), !.written = TRUE]

(* On the cluster boundary: the origin, or create_chain, which follows or  *)
(* stretches the chain; a full volume ends the loop.                       *)
WriteCluster ==
    /\ pc = "write" /\ bt > 0 /\ AtCluster
    /\ LET clst == IF fp.fptr = 0 THEN (IF len > 0 THEN 1 ELSE CreateChain(0))
                   ELSE CreateChain(fp.curr)
       IN /\ IF clst = 0
             THEN fp' = Done /\ pc' = "idle" /\ UNCHANGED len
             ELSE /\ fp' = [fp EXCEPT !.curr = clst, !.csect = 0]
                  /\ len' = Max({len, clst}) /\ UNCHANGED pc
          /\ IF fp.fptr = 0 /\ len > 0 THEN UNCHANGED <<data, win>>
                                        ELSE MoveWindow(Elsewhere)
    /\ UNCHANGED <<room, bt, from, got, calls, faults, content>>

(* The caller's bytes at the offsets from fptr on.                         *)
Written(n) == [o \in Offsets |-> IF o - fp.fptr \in 0 .. n - 1 THEN <<calls, o>> ELSE content[o]]
Chunk(s) == [b \in InSector |-> <<calls, fp.fptr + (s - Here) * SS + b>>]

NoRefill ==
    /\ pc = "write" /\ AtSector /\ ~AtCluster /\ bt \div SS > 0
    /\ data' = [s \in Sectors |-> IF s - Here \in 0 .. Whole - 1 THEN Chunk(s) ELSE Card[s]]
    /\ win' = Window
    /\ fp' = [fp EXCEPT !.csect = @ + Whole, !.fptr = @ + Whole * SS]
    /\ content' = Written(Whole * SS) /\ bt' = bt - Whole * SS
    /\ UNCHANGED <<len, room, pc, from, got, calls, faults>>

(* Whole sectors, straight to the card.  The window is written back first  *)
(* if it has the file's current sector, and refilled if it has one of the  *)
(* sectors written.                                                        *)
WriteDirect ==
    /\ pc = "write" /\ AtSector /\ ~AtCluster /\ bt \div SS > 0
    /\ data' = [s \in Sectors |-> IF s - Here \in 0 .. Whole - 1 THEN Chunk(s) ELSE Card[s]]
    /\ win' = IF win.sect - Here \in 0 .. Whole - 1
              THEN [win EXCEPT !.body = Chunk(win.sect), !.wflag = FALSE] ELSE Window
    /\ fp' = [fp EXCEPT !.csect = @ + Whole, !.fptr = @ + Whole * SS]
    /\ content' = Written(Whole * SS) /\ bt' = bt - Whole * SS
    /\ UNCHANGED <<len, room, pc, from, got, calls, faults>>

(* Part of a sector, into the window.  At the growing edge the sector is   *)
(* not read: the window is written back and takes its number.              *)
WritePart ==
    /\ pc = "write" /\ bt > 0 /\ ~AtCluster /\ (AtSector => bt < SS)
    /\ LET grow == AtSector /\ fp.fptr >= fp.fsize
           base == IF grow THEN win.body ELSE Moved(Here).body
       IN /\ data' = IF grow \/ (AtSector /\ win.sect = fp.dsect) THEN Flushed(0) ELSE Flushed(Here)
          /\ win' = [sect |-> Here, wflag |-> TRUE,
                     body |-> [b \in InSector |->
                                 IF b - (fp.fptr % SS) \in 0 .. Part - 1
                                 THEN <<calls, fp.fptr - (fp.fptr % SS) + b>> ELSE base[b]]]
    /\ fp' = [fp EXCEPT !.dsect = Here, !.fptr = @ + Part,
                        !.csect = IF AtSector THEN @ + 1 ELSE @]
    /\ content' = Written(Part) /\ bt' = bt - Part
    /\ UNCHANGED <<len, room, pc, from, got, calls, faults>>

WriteEnd ==
    /\ pc = "write" /\ bt = 0
    /\ fp' = Done /\ pc' = "idle"
    /\ UNCHANGED <<data, len, room, win, bt, from, got, calls, faults, content>>
-----------------------------------------------------------------------------
(* A read-only file is not left.                                           *)
Clipped(ofs) == IF ofs > fp.fsize /\ ~fp.writable THEN fp.fsize ELSE ofs

NoMinusOne(ofs) == fp.fptr > 0 /\ ofs \div bcs >= fp.fptr \div bcs

(* The offset is in the same or a following cluster as the last byte.      *)
Ahead(ofs) == fp.fptr > 0 /\ (ofs - 1) \div bcs >= (fp.fptr - 1) \div bcs

(* f_lseek, up to its loop: from the current cluster when that is possible,*)
(* else from the origin.                                                   *)
f_lseek(ofs) ==
    /\ Call("seek")
    /\ LET to == Clipped(ofs)
           start == IF to > 0 /\ Ahead(to) THEN bcs * ((fp.fptr - 1) \div bcs) ELSE 0
       IN /\ bt' = to - start
          /\ fp' = [fp EXCEPT !.fptr = start, !.csect = 255,
                              !.curr = IF to = 0 \/ Ahead(to) THEN @ ELSE Min({len, 1})]
    /\ from' = ofs
    /\ UNCHANGED got

(* No chain yet: create_chain(0).  On a full volume there is no more to do.*)
SeekCreate ==
    /\ pc = "seek" /\ bt > 0 /\ fp.curr = 0
    /\ fp' = [fp EXCEPT !.curr = CreateChain(0)]
    /\ len' = CreateChain(0)
    /\ bt' = IF CreateChain(0) = 0 THEN 0 ELSE bt
    /\ MoveWindow(Elsewhere)
    /\ UNCHANGED <<room, pc, from, got, calls, faults, content>>

NoClip ==
    /\ pc = "seek" /\ bt > bcs /\ fp.curr # 0
    /\ LET clst == IF fp.writable THEN CreateChain(fp.curr) ELSE fp.curr + 1
       IN IF clst = 0
          THEN UNCHANGED <<fp, bt, len>>
          ELSE /\ fp' = [fp EXCEPT !.curr = clst, !.fptr = @ + bcs]
               /\ bt' = bt - bcs /\ len' = Max({len, clst})
    /\ MoveWindow(Elsewhere)
    /\ UNCHANGED <<room, pc, from, got, calls, faults, content>>

(* One turn of the cluster following loop; a full volume clips the offset. *)
SeekStep ==
    /\ pc = "seek" /\ bt > bcs /\ fp.curr # 0
    /\ LET clst == IF fp.writable THEN CreateChain(fp.curr) ELSE fp.curr + 1
       IN IF clst = 0
          THEN bt' = bcs /\ UNCHANGED <<fp, len>>
          ELSE /\ fp' = [fp EXCEPT !.curr = clst, !.fptr = @ + bcs]
               /\ bt' = bt - bcs /\ len' = Max({len, clst})
    /\ MoveWindow(Elsewhere)
    /\ UNCHANGED <<room, pc, from, got, calls, faults, content>>

(* After the loop: the sector, and the size when the file is extended.     *)
SeekEnd ==
    /\ pc = "seek" /\ bt <= bcs /\ (bt > 0 => fp.curr # 0)
    /\ LET fptr == fp.fptr + bt
           part == IF bt % SS = 0 THEN 0 ELSE 1
       IN fp' = [fp EXCEPT !.fptr = fptr,
                           !.csect = IF bt = 0 THEN 255 ELSE bt \div SS + part,
                           !.dsect = IF part = 1 THEN Sect(fp.curr, bt \div SS) ELSE @,
                           !.fsize = Max({@, fptr}),
                           !.written = @ \/ fptr > fp.fsize]
    /\ pc' = "idle"
    /\ UNCHANGED <<data, len, room, win, bt, from, got, calls, faults, content>>
-----------------------------------------------------------------------------
KeepsWindow ==
    /\ pc = "idle" /\ fp.written
    /\ fp' = [fp EXCEPT !.written = FALSE]
    /\ UNCHANGED <<data, win, len, room, pc, bt, from, got, calls, faults, content>>

(* f_sync: the window moves to the directory entry, and so out of the file.*)
(* It does not look at FA__ERROR.  (What sync does next is in FatFs.)      *)
f_sync ==
    /\ pc = "idle" /\ fp.written
    /\ fp' = [fp EXCEPT !.written = FALSE]
    /\ MoveWindow(Elsewhere)
    /\ UNCHANGED <<len, room, pc, bt, from, got, calls, faults, content>>

(* That move fails: f_sync may be called again, and so may the others.     *)
SyncFails ==
    /\ pc = "idle" /\ fp.written /\ win.sect # Elsewhere /\ faults < MaxFaults
    /\ MoveFails /\ faults' = faults + 1
    /\ UNCHANGED <<fp, len, room, pc, bt, from, got, calls, content>>

Transfer == \/ ReadCluster \/ ReadDirect \/ ReadPart \/ ReadEnd
            \/ WriteCluster \/ WriteDirect \/ WritePart \/ WriteEnd
            \/ SeekCreate \/ SeekStep \/ SeekEnd

Next == \/ \E n \in Lengths : f_read(n) \/ f_write(n)
        \/ \E ofs \in 0 .. Min({MaxBytes + 1, SizeLimit - 1}) : f_lseek(ofs)
        \/ Transfer \/ f_sync \/ SyncFails \/ Abort

Spec == Init /\ [][Next]_vars
FairSpec == Spec /\ WF_vars(Transfer)
-----------------------------------------------------------------------------
Known(o) == o < fp.fsize /\ content[o] # Junk
OnCard(o) == data[o \div SS + 1][o % SS]
InWindow(o) == win.sect = o \div SS + 1

(* Between calls, each byte that a call has written is in the window, when *)
(* it has the byte's sector, and else on the card: the sectors that bypass *)
(* the window and the ones that go through it never diverge.  A failed     *)
(* call loses no byte but its own.                                         *)
FileIntact ==
    pc = "idle" =>
        \A o \in Offsets : Known(o) =>
            content[o] = IF InWindow(o) THEN win.body[o % SS] ELSE OnCard(o)

(* curr_clust, csect and dsect say the same as fptr whatever calls led     *)
(* there, and the cluster is one of the file's.                            *)
PointerInStep ==
    pc = "idle" /\ ~fp.err /\ fp.fptr > 0 =>
        LET last == fp.fptr - 1
        IN /\ fp.curr = last \div bcs + 1 /\ fp.curr <= len
           /\ fp.csect = (last % bcs) \div SS + 1
           /\ fp.fptr % SS # 0 => fp.dsect = last \div SS + 1

(* After f_sync the card alone has the file.                               *)
SyncIsDurable ==
    pc = "idle" /\ ~fp.written /\ ~fp.err =>
        \A o \in Offsets : Known(o) => content[o] = OnCard(o)

(* A file that was not written since f_sync reads back as written: f_read  *)
(* delivers all the bytes there are, in order, by whichever of the two     *)
(* ways.  (Without f_sync it need not: whole sectors come from the card    *)
(* while the window has a newer one.)                                      *)
ReadAfterSync ==
    [][pc = "read" /\ pc' = "idle" /\ ~fp'.err /\ ~fp.written =>
         /\ from + Len(got) = fp.fptr
         /\ \A i \in 1 .. Len(got) :
              content[from + i - 1] \in {Junk, got[i]}]_vars

(* Every call ends, at full volumes and after failures too.                *)
CallsEnd == []<>(pc = "idle")
=============================================================================
