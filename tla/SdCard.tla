------------------------------- MODULE SdCard -------------------------------
(***************************************************************************)
(* The SD card layer: discovery and the block commands of storage/sdmmc.c, *)
(* and the disk functions of storage/diskio.c that FatFs calls.  A command *)
(* is one step: the card executes it and answers, executes it and the      *)
(* answer is lost, or does not execute it; SdHost has what happens within. *)
(* Cards come and go between any two commands.  A sector's content is the  *)
(* card and number it belongs to, or the job and index that wrote it.      *)
(***************************************************************************)
EXTENDS Integers, FiniteSets

CONSTANTS
    Cards, NoCard,   \* cards that may be in the slot; an empty slot
    HighCapacity,    \* the cards that take block numbers, not byte addresses
    Sectors,         \* sectors of a card
    BlockLen,        \* SDMMC_DEFAULT_BLOCKLEN
    AddressSpace,    \* values of the 32-bit command argument
    MaxTries,        \* attempts to power the card up (sdmmc.c: 100)
    MaxCount,        \* sectors of one disk_read or disk_write
    MaxJobs,         \* bound: calls of disk_read and disk_write
    MaxSwaps         \* bound: cards taken out or put in

ASSUME CardAssumption ==
    /\ NoCard \notin Cards /\ HighCapacity \subseteq Cards
    /\ {BlockLen, AddressSpace, MaxTries, MaxCount, MaxJobs, MaxSwaps} \subseteq Nat
    /\ BlockLen > 0 /\ MaxTries > 0

(* A byte-addressed card has at most 2^32 bytes.                           *)
ASSUME SizeAssumption ==
    /\ Sectors \subseteq Nat /\ Sectors # {}
    /\ Cards \ HighCapacity # {} => \A s \in Sectors : s * BlockLen < AddressSpace

VARIABLES
    pc,                            \* main thread
    inserted, selected, new_card,  \* struct sdmmc_card
    sdhc_blockmode,
    cap,                           \* SD_OCR_SDHC_CAP in discovery's ocr
    tries,                         \* discovery's loop counter
    power, clock,                  \* SDHC_POWER_CTL, SDHC_CLOCK_CTL
    slot, cstate,                  \* the card in the slot and its state
    disk,                          \* contents of every card
    swaps,
    job,                           \* the disk_read or disk_write call
    jobs,
    buff,                          \* what disk_read has copied out
    result,                        \* its DRESULT, DSTATUS of disk_initialize
    known, before                  \* history: the card discovery addressed;
                                   \* the disks at the start of the job

cardVars == <<inserted, selected, new_card, sdhc_blockmode>>
hostVars == <<power, clock>>
envVars == <<slot, swaps>>
jobVars == <<job, jobs, buff, result, before>>
vars == <<pc, cardVars, cap, tries, hostVars, envVars, cstate, disk, jobVars, known>>

Discovery == {"discover", "power", "clock", "GO_IDLE", "IF_COND", "APP_CMD", "OP_COND",
              "CID", "RCA", "CSD", "SELECT", "BLOCKLEN"}
Contents == (Cards \X Sectors) \cup ((1 .. MaxJobs) \X (0 .. MaxCount - 1))
Jobs == [op : {"read", "write"}, first : Sectors, count : 0 .. MaxCount, done : 0 .. MaxCount]

TypeOK ==
    /\ pc \in Discovery \cup {"attach", "run", "select", "data"}
    /\ {inserted, selected, new_card, sdhc_blockmode, cap, power, clock} \subseteq BOOLEAN
    /\ tries \in 0 .. MaxTries
    /\ {slot, known} \subseteq Cards \cup {NoCard}
    /\ cstate \in {"off", "idle", "ready", "ident", "stby", "tran"}
    /\ disk \in [Cards -> [Sectors -> Contents]] /\ before \in [Cards -> [Sectors -> Contents]]
    /\ swaps \in 0 .. MaxSwaps /\ jobs \in 0 .. MaxJobs
    /\ job \in Jobs /\ job.done <= job.count
    /\ DOMAIN buff \subseteq 0 .. MaxCount - 1 /\ \A k \in DOMAIN buff : buff[k] \in Contents
    /\ result \in {"none", "RES_OK", "RES_ERROR", "STA_OK", "STA_NOINIT", "STA_NODISK"}

Init ==
    /\ pc = "attach"
    /\ inserted = FALSE /\ selected = FALSE /\ new_card = FALSE /\ sdhc_blockmode = FALSE
    /\ cap = FALSE /\ tries = 0 /\ power \in BOOLEAN /\ clock = power
    /\ slot \in Cards \cup {NoCard}
    /\ cstate \in (IF power THEN {"idle", "tran"} ELSE {"off"})
    /\ disk = [c \in Cards |-> [s \in Sectors |-> <<c, s>>]] /\ before = disk
    /\ swaps = 0 /\ jobs = 0
    /\ job \in [op : {"read"}, first : {CHOOSE s \in Sectors : TRUE}, count : {0}, done : {0}]
    /\ buff = [k \in {} |-> <<>>] /\ result = "none" /\ known = NoCard
-----------------------------------------------------------------------------
(* The card (external): the states in which it takes a command, and the    *)
(* state it is in afterwards.                                              *)
Accepts(op) ==
    CASE op \in {"IF_COND", "APP_CMD", "OP_COND"} -> {"idle"}
      [] op = "GO_IDLE" -> {"idle", "ready", "ident", "stby", "tran"}
      [] op = "CID" -> {"ready"}
      [] op = "RCA" -> {"ident"}
      [] op \in {"CSD", "SELECT"} -> {"stby"}
      [] op \in {"BLOCKLEN", "READ", "WRITE"} -> {"tran"}

After(op) ==
    CASE op = "GO_IDLE" -> "idle" [] op = "CID" -> "ident" [] op = "RCA" -> "stby"
      [] op = "SELECT" -> "tran" [] OTHER -> cstate

Hears(op) == slot # NoCard /\ power /\ clock /\ cstate \in Accepts(op)

(* sdhc_exec_command: c_error stays 0 in the outcome "ok" only.            *)
Exec(op, o) ==
    /\ o \in {"ok", "lost"} => Hears(op)
    /\ cstate' = IF o = "fail" THEN cstate ELSE After(op)

(* sdhc_host_reset, sdhc_bus_power(0): the bus loses clock and power.      *)
PowerOff == power' = FALSE /\ clock' = FALSE /\ cstate' = "off"

Outcomes == {"ok", "lost", "fail"}
-----------------------------------------------------------------------------
(* sdmmc_attach: host reset, and discovery if a card is detected.          *)
sdmmc_attach ==
    /\ pc = "attach"
    /\ inserted' = FALSE /\ selected' = FALSE /\ new_card' = FALSE /\ sdhc_blockmode' = FALSE
    /\ PowerOff
    /\ pc' = IF slot # NoCard THEN "discover" ELSE "run"
    /\ UNCHANGED <<cap, tries, envVars, disk, jobVars, known>>

(* sdmmc_needs_discover up to the power-up: reset, new_card, card detect.  *)
NeedsDiscover ==
    /\ pc = "discover"
    /\ PowerOff
    /\ new_card' = TRUE
    /\ IF slot = NoCard THEN inserted' = FALSE /\ pc' = "run"
                        ELSE UNCHANGED inserted /\ pc' = "power"
    /\ UNCHANGED <<selected, sdhc_blockmode, cap, tries, envVars, disk, jobVars, known>>

(* sdhc_bus_power(1): the host may refuse to power the bus.                *)
BusPower(ok) ==
    /\ pc = "power"
    /\ power' = ok /\ pc' = IF ok THEN "clock" ELSE "run"
    /\ cstate' = IF ok THEN "idle" ELSE "off"
    /\ UNCHANGED <<cardVars, cap, tries, clock, envVars, disk, jobVars, known>>

(* sdhc_bus_clock: the internal clock may never stabilize.                 *)
BusClock(ok) ==
    /\ pc = "clock"
    /\ IF ok THEN clock' = TRUE /\ pc' = "GO_IDLE" /\ UNCHANGED <<power, cstate>>
             ELSE PowerOff /\ pc' = "run"
    /\ UNCHANGED <<cardVars, cap, tries, envVars, disk, jobVars, known>>

(* GO_IDLE_STATE has no answer: the host cannot tell whether a card        *)
(* executed it.                                                            *)
GoIdle(ok) ==
    /\ pc = "GO_IDLE"
    /\ IF ok THEN /\ cstate' = IF Hears("GO_IDLE") THEN "idle" ELSE cstate
                  /\ pc' = "IF_COND" /\ UNCHANGED hostVars
             ELSE PowerOff /\ pc' = "run"
    /\ UNCHANGED <<cardVars, cap, tries, envVars, disk, jobVars, known>>

(* A command of the discovery whose failure ends it: out_clock, out_power. *)
Essential(op, next, o) ==
    /\ pc = op
    /\ IF o = "ok" THEN Exec(op, o) /\ pc' = next /\ UNCHANGED hostVars
       ELSE (o = "lost" => Hears(op)) /\ PowerOff /\ pc' = "run"

(* SEND_IF_COND only decides whether the host offers high capacity.        *)
SendIfCond(o) ==
    /\ pc = "IF_COND"
    /\ Exec("IF_COND", o)
    /\ cap' = (o = "ok") /\ tries' = MaxTries
    /\ pc' = "APP_CMD"
    /\ UNCHANGED <<cardVars, hostVars, envVars, disk, jobVars, known>>

(* One round of the power-up loop is over without the ready bit.           *)
Retry ==
    /\ tries' = tries - 1
    /\ IF tries' > 0 THEN pc' = "APP_CMD" /\ UNCHANGED <<power, clock>>
       ELSE pc' = "run" /\ power' = FALSE /\ clock' = FALSE

AppCmd(o) ==
    /\ pc = "APP_CMD"
    /\ IF o = "ok" THEN Exec("APP_CMD", o) /\ pc' = "OP_COND" /\ UNCHANGED <<tries, hostVars>>
       ELSE /\ o = "lost" => Hears("APP_CMD")
            /\ Retry
            /\ cstate' = IF power' THEN cstate ELSE "off"
    /\ UNCHANGED <<cardVars, cap, envVars, disk, jobVars, known>>

(* SD_APP_OP_COND: the card reports ready and its addressing.  A high      *)
(* capacity card stays busy when it is not offered high capacity.          *)
OpCondReady ==
    /\ pc = "OP_COND" /\ Hears("OP_COND") /\ (slot \in HighCapacity => cap)
    /\ cstate' = "ready"
    /\ sdhc_blockmode' = (slot \in HighCapacity)
    /\ pc' = "CID"
    /\ UNCHANGED <<inserted, selected, new_card, cap, tries, hostVars, envVars, disk, jobVars,
                   known>>

(* ... or it is still busy, or the answer is lost, or there is none.       *)
OpCondRetry(o) ==
    /\ pc = "OP_COND"
    /\ o \in {"ok", "lost"} => Hears("OP_COND")
    /\ Retry
    /\ cstate' = IF ~power' THEN "off"
                 ELSE IF o = "lost" /\ (slot \in HighCapacity => cap) THEN "ready" ELSE cstate
    /\ UNCHANGED <<cardVars, cap, envVars, disk, jobVars, known>>

AllSendCid(o) ==
    /\ Essential("CID", "RCA", o)
    /\ UNCHANGED <<cardVars, cap, tries, envVars, disk, jobVars, known>>

(* SEND_RELATIVE_ADDR: with the address, the card counts as inserted.      *)
SendRca(o) ==
    /\ Essential("RCA", "CSD", o)
    /\ IF o = "ok" THEN selected' = FALSE /\ inserted' = TRUE /\ known' = slot
       ELSE UNCHANGED <<selected, inserted, known>>
    /\ UNCHANGED <<new_card, sdhc_blockmode, cap, tries, envVars, disk, jobVars>>

(* SEND_CSD: a failure powers the bus down and leaves `inserted' at 1.     *)
SendCsd(o) ==
    /\ Essential("CSD", "SELECT", o)
    /\ UNCHANGED <<cardVars, cap, tries, envVars, disk, jobVars, known>>

(* sdmmc_select from discovery, its result ignored.                        *)
DiscoverSelect(o) ==
    /\ pc = "SELECT"
    /\ Exec("SELECT", o)
    /\ selected' = (o = "ok" \/ selected)
    /\ pc' = "BLOCKLEN"
    /\ UNCHANGED <<inserted, new_card, sdhc_blockmode, cap, tries, hostVars, envVars, disk,
                   jobVars, known>>

SetBlocklen(o) ==
    /\ Essential("BLOCKLEN", "run", o)
    /\ IF o = "ok" THEN UNCHANGED <<inserted, selected>>
       ELSE inserted' = FALSE /\ selected' = FALSE
    /\ UNCHANGED <<new_card, sdhc_blockmode, cap, tries, envVars, disk, jobVars, known>>
-----------------------------------------------------------------------------
(* sdmmc_check_card and disk_status.                                       *)
disk_status == IF inserted /\ ~new_card THEN "STA_OK" ELSE "STA_NODISK"

(* disk_initialize: no card, or sdmmc_ack_card and the status.             *)
disk_initialize ==
    /\ pc = "run"
    /\ new_card' = (new_card /\ ~inserted)
    /\ result' = IF inserted THEN "STA_OK" ELSE "STA_NOINIT"
    /\ UNCHANGED <<pc, inserted, selected, sdhc_blockmode, cap, tries, hostVars, envVars,
                   cstate, disk, job, jobs, buff, before, known>>

(* disk_read and disk_write start a loop over their sectors.               *)
DiskJob(op, s, n) ==
    /\ pc = "run" /\ jobs < MaxJobs
    /\ \A k \in 0 .. n - 1 : s + k \in Sectors
    /\ jobs' = jobs + 1 /\ before' = disk
    /\ job' = [op |-> op, first |-> s, count |-> n, done |-> 0]
    /\ buff' = [k \in {} |-> <<>>] /\ result' = "none"
    /\ pc' = "select"
    /\ UNCHANGED <<cardVars, cap, tries, hostVars, envVars, cstate, disk, known>>

JobFails == pc' = "run" /\ result' = "RES_ERROR"

(* sdmmc_read and sdmmc_write before their command: inserted, selected,    *)
(* new_card, in this order.                                                *)
JobSelect(o) ==
    /\ pc = "select"
    /\ \/ ~inserted /\ o = "fail" /\ JobFails /\ UNCHANGED <<selected, cstate>>
       \/ inserted /\ ~selected /\ o # "ok" /\ Exec("SELECT", o) /\ JobFails
          /\ UNCHANGED selected
       \/ /\ inserted
          /\ IF selected THEN o = "ok" /\ UNCHANGED <<selected, cstate>>
             ELSE o = "ok" /\ Exec("SELECT", o) /\ selected' = TRUE
          /\ IF new_card THEN JobFails ELSE pc' = "data" /\ UNCHANGED result
    /\ UNCHANGED <<inserted, new_card, sdhc_blockmode, cap, tries, hostVars, envVars, disk,
                   job, jobs, buff, before, known>>

(* The command argument, and the sector the card takes it for.             *)
Argument == LET blk == job.first + job.done
            IN IF sdhc_blockmode THEN blk ELSE (blk * BlockLen) % AddressSpace
Target == IF slot \in HighCapacity THEN Argument ELSE Argument \div BlockLen

(* One sector done: the next one, or RES_OK.                               *)
JobNext ==
    /\ job' = [job EXCEPT !.done = @ + 1]
    /\ IF job.done + 1 = job.count THEN pc' = "run" /\ result' = "RES_OK"
       ELSE pc' = "select" /\ UNCHANGED result

ErrorForgotten(o) ==
    /\ pc = "data" /\ job.op = "read"
    /\ o # "fail" => Hears("READ") /\ Target \in Sectors
    /\ IF o = "ok"
       THEN buff' = [k \in DOMAIN buff \cup {job.done} |->
                        IF k = job.done THEN disk[slot][Target] ELSE buff[k]]
       ELSE UNCHANGED buff
    /\ JobNext
    /\ UNCHANGED <<cardVars, cap, tries, hostVars, envVars, cstate, disk, jobs, before, known>>

(* MMC_READ_BLOCK_MULTIPLE into the bounce buffer, copied to the caller's. *)
ReadSector(o) ==
    /\ pc = "data" /\ job.op = "read"
    /\ o # "fail" => Hears("READ") /\ Target \in Sectors
    /\ IF o = "ok"
       THEN /\ buff' = [k \in DOMAIN buff \cup {job.done} |->
                           IF k = job.done THEN disk[slot][Target] ELSE buff[k]]
            /\ JobNext
       ELSE JobFails /\ UNCHANGED <<job, buff>>
    /\ UNCHANGED <<cardVars, cap, tries, hostVars, envVars, cstate, disk, jobs, before, known>>

CountEveryTime(o) ==
    /\ pc = "data" /\ job.op = "write"
    /\ o # "fail" => Hears("WRITE") /\ Target \in Sectors
    /\ disk' = IF o = "fail" THEN disk
               ELSE [disk EXCEPT ![slot] = [s \in Sectors |->
                        IF s - Target \in 0 .. job.count - job.done - 1
                        THEN <<jobs, job.done + s - Target>> ELSE @[s]]]
    /\ IF o = "ok" THEN JobNext ELSE JobFails /\ UNCHANGED job
    /\ UNCHANGED <<cardVars, cap, tries, hostVars, envVars, cstate, jobs, buff, before, known>>

GoesOnAfterError(o) ==
    /\ pc = "data" /\ job.op = "write"
    /\ o # "fail" => Hears("WRITE") /\ Target \in Sectors
    /\ disk' = IF o = "fail" THEN disk
               ELSE [disk EXCEPT ![slot][Target] = <<jobs, job.done>>]
    /\ JobNext
    /\ UNCHANGED <<cardVars, cap, tries, hostVars, envVars, cstate, jobs, buff, before, known>>

(* The caller's sector into the bounce buffer, MMC_WRITE_BLOCK_MULTIPLE.   *)
WriteSector(o) ==
    /\ pc = "data" /\ job.op = "write"
    /\ o # "fail" => Hears("WRITE") /\ Target \in Sectors
    /\ disk' = IF o = "fail" THEN disk
               ELSE [disk EXCEPT ![slot][Target] = <<jobs, job.done>>]
    /\ IF o = "ok" THEN JobNext ELSE JobFails /\ UNCHANGED job
    /\ UNCHANGED <<cardVars, cap, tries, hostVars, envVars, cstate, jobs, buff, before, known>>
-----------------------------------------------------------------------------
(* The slot (external).  A card that is put in has no power-up behind it.  *)
Remove ==
    /\ swaps < MaxSwaps /\ slot # NoCard
    /\ slot' = NoCard /\ swaps' = swaps + 1 /\ cstate' = "off"
    /\ UNCHANGED <<pc, cardVars, cap, tries, hostVars, disk, jobVars, known>>

Insert(c) ==
    /\ swaps < MaxSwaps /\ slot = NoCard
    /\ slot' = c /\ swaps' = swaps + 1 /\ cstate' = IF power THEN "idle" ELSE "off"
    /\ UNCHANGED <<pc, cardVars, cap, tries, hostVars, disk, jobVars, known>>

Discover ==
    \/ sdmmc_attach \/ NeedsDiscover
    \/ \E ok \in BOOLEAN : BusPower(ok) \/ BusClock(ok) \/ GoIdle(ok)
    \/ \E o \in Outcomes :
        \/ SendIfCond(o) \/ AppCmd(o) \/ OpCondRetry(o) \/ AllSendCid(o)
        \/ SendRca(o) \/ SendCsd(o) \/ DiscoverSelect(o) \/ SetBlocklen(o)
    \/ OpCondReady

Disk ==
    \/ disk_initialize
    \/ \E op \in {"read", "write"}, s \in Sectors, n \in 1 .. MaxCount : DiskJob(op, s, n)
    \/ \E o \in Outcomes : JobSelect(o) \/ ReadSector(o) \/ WriteSector(o)

Next == Discover \/ Disk \/ Remove \/ \E c \in Cards : Insert(c)

Spec == Init /\ [][Next]_vars
-----------------------------------------------------------------------------
(* A disk_write that answers RES_OK has put every sector of the call, and  *)
(* in its place, on the card that discovery addressed.                     *)
WriteHonest ==
    pc = "run" /\ job.op = "write" /\ result = "RES_OK" =>
        \A k \in 0 .. job.count - 1 : disk[known][job.first + k] = <<jobs, k>>

(* A disk_read that answers RES_OK has returned the sectors asked for, all *)
(* of them from the card that discovery addressed.                         *)
ReadHonest ==
    pc = "run" /\ job.op = "read" /\ result = "RES_OK" =>
        \A k \in 0 .. job.count - 1 : k \in DOMAIN buff /\ buff[k] = disk[known][job.first + k]

(* Whatever fails and whatever card is put in, a write touches nothing     *)
(* beyond the sector it has got to, and no card but the one that discovery *)
(* addressed.                                                              *)
WriteConfined ==
    \A c \in Cards : \A s \in Sectors :
        disk[c][s] # before[c][s] =>
            c = known /\ job.op = "write" /\ s \in job.first .. job.first + job.done

=============================================================================
