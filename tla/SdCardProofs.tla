---------------------------- MODULE SdCardProofs ----------------------------
(***************************************************************************)
(* A success of disk_read and disk_write is true and a write stays in its  *)
(* place, for every set of cards, every size, any number of calls, swaps   *)
(* and retries, and with every command failing or losing its answer.       *)
(***************************************************************************)
EXTENDS SdCard, TLAPS

(* The addressing the driver has stored is that of the card in the slot.   *)
ModeRight == sdhc_blockmode = (slot \in HighCapacity)

(* A card that has a relative address is the one discovery gave it to, and *)
(* the driver addresses its sectors the way it takes them.  A card that is *)
(* put in later has none, and takes no read or write.                      *)
AddressInv ==
    /\ pc = "CID" /\ cstate = "ready" => ModeRight
    /\ pc # "attach" /\ cstate = "ident" => pc = "RCA" /\ ModeRight
    /\ pc # "attach" /\ cstate \in {"stby", "tran"} =>
           ModeRight /\ slot = known /\ slot \in Cards

(* The loop of disk_read and disk_write, and that none ran before run.     *)
JobInv ==
    /\ pc \in {"select", "data"} => job.done < job.count /\ jobs > 0 /\ result # "RES_OK"
    /\ \A k \in 0 .. job.count - 1 : job.first + k \in Sectors
    /\ pc \in Discovery \cup {"attach"} => job.count = 0 /\ before = disk
    /\ result = "RES_OK" => job.done = job.count

(* What the sectors done so far amount to.                                 *)
DoneInv ==
    /\ job.op = "write" =>
           \A k \in 0 .. job.done - 1 : disk[known][job.first + k] = <<jobs, k>>
    /\ job.op = "read" =>
           \A k \in 0 .. job.done - 1 :
               k \in DOMAIN buff /\ buff[k] = disk[known][job.first + k]

(* TypeOK in three parts, the provers' share of it each, and that the loop *)
(* of the power-up has a round left.                                       *)
Flags == {inserted, selected, new_card, sdhc_blockmode, cap, power, clock} \subseteq BOOLEAN

DriverTypes ==
    /\ pc \in Discovery \cup {"attach", "run", "select", "data"}
    /\ tries \in 0 .. MaxTries /\ swaps \in 0 .. MaxSwaps
    /\ {slot, known} \subseteq Cards \cup {NoCard}
    /\ cstate \in {"off", "idle", "ready", "ident", "stby", "tran"}
    /\ pc \in {"APP_CMD", "OP_COND"} => tries > 0

JobTypes ==
    /\ disk \in [Cards -> [Sectors -> Contents]] /\ before \in [Cards -> [Sectors -> Contents]]
    /\ jobs \in 0 .. MaxJobs
    /\ job \in Jobs /\ job.done <= job.count
    /\ DOMAIN buff \subseteq 0 .. MaxCount - 1 /\ \A k \in DOMAIN buff : buff[k] \in Contents
    /\ result \in {"none", "RES_OK", "RES_ERROR", "STA_OK", "STA_NOINIT", "STA_NODISK"}

IInv ==
    /\ Flags /\ DriverTypes /\ JobTypes
    /\ AddressInv /\ JobInv /\ DoneInv /\ WriteConfined
-----------------------------------------------------------------------------
(* The bounds are naturals.                                                *)
LEMMA BoundTypes ==
    /\ BlockLen \in Nat /\ AddressSpace \in Nat /\ MaxTries \in Nat
    /\ MaxCount \in Nat /\ MaxJobs \in Nat /\ MaxSwaps \in Nat
    /\ Sectors \subseteq Nat
BY CardAssumption, SizeAssumption

(* The sector a card takes the command's argument for is the one of the    *)
(* job, when driver and card agree on the addressing: the byte address     *)
(* does not wrap around, and the division undoes the multiplication.       *)
LEMMA TargetRight ==
    ASSUME JobTypes, JobInv, ModeRight, pc = "data", slot \in Cards
    PROVE  Target = job.first + job.done /\ Target \in Sectors
<1> DEFINE blk == job.first + job.done
<1>1. job.first \in Nat /\ job.done \in Nat /\ job.count \in Nat /\ blk \in Sectors /\ blk \in Nat
  <2>1. job \in Jobs
    BY DEF JobTypes
  <2>2. job.first \in Sectors /\ job.done \in 0 .. MaxCount /\ job.count \in 0 .. MaxCount
    BY <2>1 DEF Jobs
  <2>3. job.done \in 0 .. job.count - 1
    BY <2>2, BoundTypes DEF JobInv
  <2>4. blk \in Sectors
    BY <2>3 DEF JobInv
  <2>5. Sectors \subseteq Nat /\ MaxCount \in Nat
    BY BoundTypes
  <2>6. job.first \in Nat /\ blk \in Nat
    BY <2>2, <2>4, <2>5
  <2>7. job.done \in Nat /\ job.count \in Nat
    BY <2>2, <2>5
  <2>8. QED
    BY <2>4, <2>6, <2>7
<1>2. CASE slot \in HighCapacity
  BY <1>1, <1>2 DEF ModeRight, Target, Argument
<1>3. CASE slot \notin HighCapacity
  <2>1. blk * BlockLen \in Nat /\ blk * BlockLen < AddressSpace /\ BlockLen \in Nat
    BY <1>1, <1>3, CardAssumption, SizeAssumption
  <2>2. (blk * BlockLen) % AddressSpace = blk * BlockLen
    BY <2>1, CardAssumption
  <2>3. (blk * BlockLen) \div BlockLen = blk
    BY <1>1, <2>1, CardAssumption
  <2>4. QED
    BY <1>1, <1>3, <2>2, <2>3 DEF ModeRight, Target, Argument
<1>4. QED
  BY <1>2, <1>3

(* Init establishes the invariant.                                         *)
LEMMA InitInv == Init => IInv
<1> SUFFICES ASSUME Init PROVE IInv
  OBVIOUS
<1>1. PICK s \in Sectors : job = [op |-> "read", first |-> s, count |-> 0, done |-> 0]
  BY SizeAssumption DEF Init
<1>2. Flags /\ DriverTypes /\ JobTypes
  <2>1. disk \in [Cards -> [Sectors -> Contents]]
    BY DEF Init, Contents
  <2>2. job \in Jobs /\ job.done <= job.count
    BY <1>1, CardAssumption DEF Jobs
  <2>3. /\ pc \in Discovery \cup {"attach", "run", "select", "data"}
        /\ tries \in 0 .. MaxTries /\ swaps \in 0 .. MaxSwaps /\ jobs \in 0 .. MaxJobs
    BY BoundTypes DEF Init
  <2>4. {inserted, selected, new_card, sdhc_blockmode, cap, power, clock} \subseteq BOOLEAN
    BY DEF Init
  <2>5. {slot, known} \subseteq Cards \cup {NoCard}
    BY DEF Init
  <2>6. cstate \in {"off", "idle", "ready", "ident", "stby", "tran"}
    BY DEF Init
  <2>7. QED
    BY <2>1, <2>2, <2>3, <2>4, <2>5, <2>6 DEF Init, Flags, DriverTypes, JobTypes
<1>3. AddressInv /\ JobInv /\ DoneInv /\ WriteConfined
  BY <1>1 DEF Init, AddressInv, JobInv, DoneInv, WriteConfined, Discovery
<1>4. QED
  BY <1>2, <1>3 DEF IInv

(* The addressed card stays the addressed one until it is taken out.       *)
LEMMA AddressStep == DriverTypes /\ AddressInv /\ [Next]_vars => AddressInv'
<1> SUFFICES ASSUME DriverTypes, AddressInv, [Next]_vars PROVE AddressInv'
  OBVIOUS
<1> USE DEF AddressInv, ModeRight
<1>1. CASE sdmmc_attach \/ NeedsDiscover
  BY <1>1 DEF sdmmc_attach, NeedsDiscover, PowerOff
<1>2. ASSUME NEW ok \in BOOLEAN, BusPower(ok) \/ BusClock(ok) \/ GoIdle(ok) PROVE AddressInv'
  <2>1. CASE BusPower(ok)
    BY <2>1 DEF BusPower, cardVars, envVars
  <2>2. CASE BusClock(ok)
    BY <2>2 DEF BusClock, PowerOff, cardVars, envVars
  <2>3. CASE GoIdle(ok)
    BY <2>3 DEF GoIdle, Hears, Accepts, PowerOff, cardVars, envVars
  <2>4. QED
    BY <1>2, <2>1, <2>2, <2>3
<1>3. ASSUME NEW o \in Outcomes, SendIfCond(o) \/ AppCmd(o) \/ OpCondRetry(o) PROVE AddressInv'
  BY <1>3 DEF SendIfCond, AppCmd, OpCondRetry, Retry, Exec, Hears, After, Accepts, cardVars, envVars
<1>4. ASSUME NEW o \in Outcomes, AllSendCid(o) \/ SendRca(o) \/ SendCsd(o) PROVE AddressInv'
  BY <1>4 DEF DriverTypes, AllSendCid, SendRca, SendCsd, Essential, Exec, Hears, After, Accepts, PowerOff,
              cardVars, envVars
<1>5. ASSUME NEW o \in Outcomes, DiscoverSelect(o) \/ SetBlocklen(o) PROVE AddressInv'
  <2>1. CASE DiscoverSelect(o)
    <3>1. /\ pc = "SELECT" /\ pc' = "BLOCKLEN" /\ UNCHANGED <<sdhc_blockmode, slot, known>>
          /\ Exec("SELECT", o)
      BY <2>1 DEF DiscoverSelect, envVars
    <3>2. QED
      BY <3>1 DEF Exec, Hears, After, Accepts, Outcomes
  <2>2. CASE SetBlocklen(o)
    BY <2>2 DEF SetBlocklen, Essential, Exec, Hears, After, Accepts, PowerOff, envVars
  <2>3. QED
    BY <1>5, <2>1, <2>2
<1>6. CASE OpCondReady
  BY <1>6 DEF OpCondReady, envVars
<1>7. CASE disk_initialize
  BY <1>7 DEF disk_initialize, envVars
<1>8. ASSUME NEW op, NEW s, NEW n, DiskJob(op, s, n) PROVE AddressInv'
  BY <1>8 DEF DiskJob, cardVars, envVars
<1>9. ASSUME NEW o \in Outcomes, JobSelect(o) PROVE AddressInv'
  <2>1. /\ UNCHANGED <<sdhc_blockmode, slot, known>> /\ pc = "select" /\ pc' \in {"run", "data"}
        /\ Exec("SELECT", o) \/ UNCHANGED cstate
    BY <1>9 DEF JobSelect, JobFails, envVars
  <2>2. QED
    BY <2>1 DEF Exec, Hears, After, Accepts, Outcomes
<1>10. ASSUME NEW o \in Outcomes, ReadSector(o) \/ WriteSector(o) PROVE AddressInv'
  BY <1>10 DEF ReadSector, WriteSector, JobNext, JobFails, cardVars, envVars
<1>11. CASE Remove \/ \E c \in Cards : Insert(c)
  BY <1>11 DEF Remove, Insert, cardVars
<1>12. CASE UNCHANGED vars
  BY <1>12 DEF vars, cardVars, envVars
<1>13. QED
  BY <1>1, <1>2, <1>3, <1>4, <1>5, <1>6, <1>7, <1>8, <1>9, <1>10, <1>11, <1>12
     DEF Next, Discover, Disk

(* Discovery runs before the first disk_read or disk_write and touches     *)
(* nothing of theirs.                                                      *)
LEMMA DiscoverQuiet ==
    ASSUME Discover
    PROVE  /\ pc \in Discovery \cup {"attach"} /\ pc' \in Discovery \cup {"run"}
           /\ UNCHANGED <<disk, job, jobs, buff, result, before, swaps, slot>>
<1> USE DEF Discovery, jobVars, envVars
<1>1. CASE sdmmc_attach \/ NeedsDiscover
  BY <1>1 DEF sdmmc_attach, NeedsDiscover
<1>2. CASE \E ok \in BOOLEAN : BusPower(ok) \/ BusClock(ok) \/ GoIdle(ok)
  BY <1>2 DEF BusPower, BusClock, GoIdle
<1>3. CASE \E o \in Outcomes : SendIfCond(o) \/ AppCmd(o) \/ OpCondRetry(o)
  BY <1>3 DEF SendIfCond, AppCmd, OpCondRetry, Retry
<1>4. CASE \E o \in Outcomes : AllSendCid(o) \/ SendRca(o) \/ SendCsd(o) \/ SetBlocklen(o)
  BY <1>4 DEF AllSendCid, SendRca, SendCsd, SetBlocklen, Essential
<1>5. CASE \E o \in Outcomes : DiscoverSelect(o)
  BY <1>5 DEF DiscoverSelect
<1>6. CASE OpCondReady
  BY <1>6 DEF OpCondReady
<1>7. QED
  BY <1>1, <1>2, <1>3, <1>4, <1>5, <1>6 DEF Discover

(* The types of driver and card are preserved.                             *)
LEMMA DriverTypeStep == DriverTypes /\ [Next]_vars => DriverTypes'
<1> SUFFICES ASSUME DriverTypes, [Next]_vars PROVE DriverTypes'
  OBVIOUS
<1>0. MaxTries \in Nat /\ MaxTries > 0 /\ MaxSwaps \in Nat
  BY CardAssumption
<1> USE DEF DriverTypes, Discovery, envVars
<1>1. CASE sdmmc_attach \/ NeedsDiscover
  BY <1>1 DEF sdmmc_attach, NeedsDiscover, PowerOff
<1>2. CASE \E ok \in BOOLEAN : BusPower(ok) \/ BusClock(ok) \/ GoIdle(ok)
  BY <1>2 DEF BusPower, BusClock, GoIdle, PowerOff
<1>3. CASE \E o \in Outcomes : SendIfCond(o)
  BY <1>0, <1>3 DEF SendIfCond, Exec, After
<1>4. CASE \E o \in Outcomes : AppCmd(o) \/ OpCondRetry(o)
  BY <1>0, <1>4 DEF AppCmd, OpCondRetry, Retry, Exec, After
<1>5. CASE \E o \in Outcomes : AllSendCid(o) \/ SendRca(o) \/ SendCsd(o) \/ SetBlocklen(o)
  BY <1>5 DEF AllSendCid, SendRca, SendCsd, SetBlocklen, Essential, Exec, After, PowerOff
<1>6. CASE \E o \in Outcomes : DiscoverSelect(o)
  BY <1>6 DEF DiscoverSelect, Exec, After
<1>7. CASE OpCondReady
  BY <1>7 DEF OpCondReady
<1>8. CASE disk_initialize
  BY <1>8 DEF disk_initialize
<1>9. CASE \E op \in {"read", "write"}, s \in Sectors, n \in 1 .. MaxCount : DiskJob(op, s, n)
  BY <1>9 DEF DiskJob
<1>10. CASE \E o \in Outcomes : JobSelect(o)
  BY <1>10 DEF JobSelect, JobFails, Exec, After
<1>11. CASE \E o \in Outcomes : ReadSector(o) \/ WriteSector(o)
  BY <1>11 DEF ReadSector, WriteSector, JobNext, JobFails
<1>12. CASE Remove \/ \E c \in Cards : Insert(c)
  BY <1>0, <1>12 DEF Remove, Insert
<1>13. CASE UNCHANGED vars
  BY <1>13 DEF vars
<1>14. QED
  BY <1>1, <1>2, <1>3, <1>4, <1>5, <1>6, <1>7, <1>8, <1>9, <1>10, <1>11, <1>12, <1>13
     DEF Next, Discover, Disk

(* Its flags stay flags.                                                   *)
LEMMA FlagsStep == Flags /\ [Next]_vars => Flags'
<1> SUFFICES ASSUME Flags, [Next]_vars PROVE Flags'
  OBVIOUS
<1> USE DEF Flags, cardVars, hostVars
<1>1. CASE sdmmc_attach \/ NeedsDiscover
  BY <1>1 DEF sdmmc_attach, NeedsDiscover, PowerOff
<1>2. CASE \E ok \in BOOLEAN : BusPower(ok) \/ BusClock(ok) \/ GoIdle(ok)
  BY <1>2 DEF BusPower, BusClock, GoIdle, PowerOff
<1>3. CASE \E o \in Outcomes : SendIfCond(o)
  BY <1>3 DEF SendIfCond
<1>4. CASE \E o \in Outcomes : AppCmd(o) \/ OpCondRetry(o)
  BY <1>4 DEF AppCmd, OpCondRetry, Retry
<1>5. CASE \E o \in Outcomes : AllSendCid(o) \/ SendRca(o) \/ SendCsd(o) \/ SetBlocklen(o)
  BY <1>5 DEF AllSendCid, SendRca, SendCsd, SetBlocklen, Essential, PowerOff
<1>6. CASE \E o \in Outcomes : DiscoverSelect(o)
  BY <1>6 DEF DiscoverSelect
<1>7. CASE OpCondReady
  BY <1>7 DEF OpCondReady
<1>8. CASE disk_initialize
  BY <1>8 DEF disk_initialize
<1>9. CASE \E op \in {"read", "write"}, s \in Sectors, n \in 1 .. MaxCount : DiskJob(op, s, n)
  BY <1>9 DEF DiskJob
<1>10. CASE \E o \in Outcomes : JobSelect(o)
  BY <1>10 DEF JobSelect
<1>11. CASE \E o \in Outcomes : ReadSector(o) \/ WriteSector(o)
  BY <1>11 DEF ReadSector, WriteSector
<1>12. CASE Remove \/ \E c \in Cards : Insert(c)
  BY <1>12 DEF Remove, Insert
<1>13. CASE UNCHANGED vars
  BY <1>13 DEF vars
<1>14. QED
  BY <1>1, <1>2, <1>3, <1>4, <1>5, <1>6, <1>7, <1>8, <1>9, <1>10, <1>11, <1>12, <1>13
     DEF Next, Discover, Disk

(* A sector that the card takes a command for is the next one of the job,  *)
(* on the card discovery addressed.                                        *)
LEMMA SectorRight ==
    ASSUME IInv, pc = "data", Hears("READ") \/ Hears("WRITE")
    PROVE  /\ slot = known /\ known \in Cards
           /\ Target = job.first + job.done /\ Target \in Sectors
<1>1. cstate = "tran"
  BY DEF Hears, Accepts
<1>2. ModeRight /\ slot = known /\ slot \in Cards
  BY <1>1 DEF IInv, AddressInv
<1>3. QED
  BY <1>2, TargetRight DEF IInv

(* The step that ends a sector: the next of the job, or RES_OK.            *)
LEMMA NextSector ==
    ASSUME IInv, pc = "data", JobNext
    PROVE  /\ job.done \in Nat /\ job.count \in Nat /\ job.first \in Nat
           /\ job'.op = job.op /\ job'.first = job.first /\ job'.count = job.count
           /\ job'.done = job.done + 1 /\ job' \in Jobs /\ job'.done <= job'.count
           /\ job.done < MaxCount
           /\ pc' \in {"run", "select"} /\ result' \in {result, "RES_OK"}
           /\ result' = "RES_OK" => job'.done = job'.count
           /\ pc' = "select" => job'.done < job'.count /\ result' = result
<1>1. job \in Jobs /\ job.done < job.count /\ result # "RES_OK"
  BY DEF IInv, JobTypes, JobInv
<1>2. Sectors \subseteq Nat /\ MaxCount \in Nat
  BY BoundTypes
<1>3. job.first \in Sectors /\ job.done \in 0 .. MaxCount /\ job.count \in 0 .. MaxCount
  BY <1>1 DEF Jobs
<1>4. job.first \in Nat /\ job.done \in Nat /\ job.count \in Nat /\ job.count <= MaxCount
  <2>1. job.first \in Nat
    BY <1>2, <1>3
  <2>2. MaxCount \in Nat
    BY <1>2
  <2>3. QED
    BY <1>3, <2>1, <2>2
<1>5. job.done + 1 \in 0 .. MaxCount
  BY <1>1, <1>2, <1>4
<1>6. job' = [job EXCEPT !.done = job.done + 1]
  BY DEF JobNext
<1>7. job' \in Jobs /\ job'.op = job.op /\ job'.first = job.first /\ job'.count = job.count
      /\ job'.done = job.done + 1
  BY <1>1, <1>5, <1>6 DEF Jobs
<1>8. /\ pc' \in {"run", "select"} /\ result' \in {result, "RES_OK"}
      /\ job.done + 1 = job.count => pc' = "run" /\ result' = "RES_OK"
      /\ job.done + 1 # job.count => pc' = "select" /\ result' = result
  BY DEF JobNext
<1>9. job.done < MaxCount /\ job'.done <= job'.count
  BY <1>1, <1>2, <1>4, <1>7
<1>10. result' = "RES_OK" => job'.done = job'.count
  BY <1>1, <1>7, <1>8
<1>11. pc' = "select" => job'.done < job'.count /\ result' = result
  BY <1>1, <1>4, <1>7, <1>8
<1>12. QED
  BY <1>4, <1>7, <1>8, <1>9, <1>10, <1>11

(* Steps that leave job, buffer and disks alone keep what is said of them. *)
LEMMA JobKept ==
    ASSUME IInv, UNCHANGED <<disk, job, jobs, buff, before, known>>,
           result' \in {result, "RES_ERROR", "STA_OK", "STA_NOINIT"},
           pc' \in {"select", "data"} => pc \in {"select", "data"},
           pc' \in Discovery \cup {"attach"} => pc \in Discovery \cup {"attach"}
    PROVE  JobTypes' /\ JobInv' /\ DoneInv' /\ WriteConfined'
<1>1. JobTypes'
  BY DEF IInv, JobTypes
<1>2. JobInv'
  BY DEF IInv, JobInv
<1>3. DoneInv' /\ WriteConfined'
  BY DEF IInv, DoneInv, WriteConfined
<1>4. QED
  BY <1>1, <1>2, <1>3

(* Discovery gives an address before there is any job.                     *)
LEMMA JobDiscover ==
    ASSUME IInv, Discover
    PROVE  JobTypes' /\ JobInv' /\ DoneInv' /\ WriteConfined'
<1>1. /\ pc \in Discovery \cup {"attach"} /\ pc' \in Discovery \cup {"run"}
      /\ UNCHANGED <<disk, job, jobs, buff, result, before>>
  BY DiscoverQuiet
<1>2. job.count = 0 /\ before = disk /\ job \in Jobs /\ job.done <= job.count
  BY <1>1 DEF IInv, JobInv, JobTypes
<1>3. job.done = 0
  BY <1>2, CardAssumption DEF Jobs
<1>4. JobTypes'
  BY <1>1 DEF IInv, JobTypes
<1>5. JobInv'
  BY <1>1, <1>2 DEF IInv, JobInv, Discovery
<1>6. DoneInv'
  BY <1>1, <1>3 DEF DoneInv
<1>7. WriteConfined'
  BY <1>1, <1>2 DEF WriteConfined
<1>8. QED
  BY <1>4, <1>5, <1>6, <1>7

(* disk_read and disk_write begin with nothing done and all disks as they  *)
(* are.                                                                    *)
LEMMA JobBegins ==
    ASSUME IInv, NEW op \in {"read", "write"}, NEW s \in Sectors, NEW n \in 1 .. MaxCount,
           DiskJob(op, s, n)
    PROVE  JobTypes' /\ JobInv' /\ DoneInv' /\ WriteConfined'
<1>1. MaxCount \in Nat /\ MaxJobs \in Nat
  BY CardAssumption
<1>2. /\ job' = [op |-> op, first |-> s, count |-> n, done |-> 0] /\ pc' = "select"
      /\ result' = "none" /\ disk' = disk /\ before' = disk
      /\ jobs < MaxJobs /\ jobs' = jobs + 1 /\ buff' = [k \in {} |-> <<>>]
      /\ \A k \in 0 .. n - 1 : s + k \in Sectors
  BY DEF DiskJob
<1>3. job' \in Jobs /\ job'.done <= job'.count
  BY <1>1, <1>2 DEF Jobs
<1>4. jobs' \in 0 .. MaxJobs /\ jobs' > 0
  BY <1>1, <1>2 DEF IInv, JobTypes
<1>5. DOMAIN buff' = {}
  BY <1>2
<1>6. JobTypes'
  BY <1>2, <1>3, <1>4, <1>5 DEF IInv, JobTypes
<1>7. JobInv'
  BY <1>1, <1>2, <1>4 DEF JobInv, Discovery
<1>8. DoneInv' /\ WriteConfined'
  BY <1>2 DEF DoneInv, WriteConfined
<1>9. QED
  BY <1>6, <1>7, <1>8

(* The loop goes on only while a sector is left.                           *)
LEMMA LoopGoesOn ==
    ASSUME IInv, pc = "data", JobNext, UNCHANGED jobs
    PROVE  JobInv'
<1>1. /\ job'.first = job.first /\ job'.count = job.count
      /\ pc' \in {"run", "select"} /\ result' \in {result, "RES_OK"}
      /\ result' = "RES_OK" => job'.done = job'.count
      /\ pc' = "select" => job'.done < job'.count /\ result' = result
  BY NextSector
<1>2. jobs > 0 /\ result # "RES_OK" /\ \A k \in 0 .. job.count - 1 : job.first + k \in Sectors
  BY DEF IInv, JobInv
<1>3. QED
  BY <1>1, <1>2 DEF JobInv, Discovery

(* A read puts the sector it has got to into the caller's buffer.          *)
LEMMA JobReads ==
    ASSUME IInv, NEW o \in Outcomes, ReadSector(o)
    PROVE  JobTypes' /\ JobInv' /\ DoneInv' /\ WriteConfined'
<1>1. CASE o # "ok"
  <2>1. UNCHANGED <<disk, job, jobs, buff, before, known>> /\ result' = "RES_ERROR" /\ pc' = "run"
    BY <1>1 DEF ReadSector, JobFails
  <2>2. QED
    BY <2>1, JobKept DEF Discovery
<1>2. CASE o = "ok"
  <2>1. /\ pc = "data" /\ job.op = "read" /\ Hears("READ") /\ JobNext
        /\ UNCHANGED <<disk, jobs, before, known>>
        /\ buff' = [k \in DOMAIN buff \cup {job.done} |->
                       IF k = job.done THEN disk[slot][Target] ELSE buff[k]]
    BY <1>2 DEF ReadSector
  <2>2. /\ slot = known /\ known \in Cards
        /\ Target = job.first + job.done /\ Target \in Sectors
    BY <2>1, SectorRight
  <2>3. /\ job.done \in Nat /\ job'.op = "read" /\ job'.first = job.first
        /\ job'.done = job.done + 1 /\ job' \in Jobs /\ job'.done <= job'.count
        /\ job.done < MaxCount /\ result' \in {result, "RES_OK"}
    BY <2>1, NextSector
  <2>4. JobTypes'
    <3>1. disk[known][Target] \in Contents
      BY <2>2 DEF IInv, JobTypes
    <3>2. job.done \in 0 .. MaxCount - 1
      BY <2>3, CardAssumption
    <3>3. DOMAIN buff' = DOMAIN buff \cup {job.done}
      BY <2>1
    <3>4. \A k \in DOMAIN buff' : buff'[k] \in Contents
      BY <2>1, <2>2, <3>1 DEF IInv, JobTypes
    <3>5. QED
      BY <2>1, <2>3, <3>2, <3>3, <3>4 DEF IInv, JobTypes
  <2>5. JobInv'
    BY <2>1, LoopGoesOn
  <2>6. DoneInv'
    <3>1. \A k \in 0 .. job.done - 1 : k \in DOMAIN buff /\ buff[k] = disk[known][job.first + k]
      BY <2>1 DEF IInv, DoneInv
    <3>2. ASSUME NEW k \in 0 .. job'.done - 1
          PROVE  k \in DOMAIN buff' /\ buff'[k] = disk[known][job.first + k]
      <4>1. CASE k = job.done
        BY <2>1, <2>2, <4>1
      <4>2. CASE k # job.done
        <5>1. k \in 0 .. job.done - 1
          BY <2>3, <4>2
        <5>2. QED
          BY <2>1, <3>1, <4>2, <5>1
      <4>3. QED
        BY <4>1, <4>2
    <3>3. QED
      BY <2>1, <2>3, <3>2 DEF DoneInv
  <2>7. WriteConfined'
    BY <2>1, <2>3 DEF IInv, WriteConfined
  <2>8. QED
    BY <2>4, <2>5, <2>6, <2>7
<1>3. QED
  BY <1>1, <1>2

(* A write changes the sector it has got to, whether or not it is told so. *)
LEMMA JobWrites ==
    ASSUME IInv, NEW o \in Outcomes, WriteSector(o)
    PROVE  JobTypes' /\ JobInv' /\ DoneInv' /\ WriteConfined'
<1>1. CASE o = "fail"
  <2>1. UNCHANGED <<disk, job, jobs, buff, before, known>> /\ result' = "RES_ERROR" /\ pc' = "run"
    BY <1>1 DEF WriteSector, JobFails
  <2>2. QED
    BY <2>1, JobKept DEF Discovery
<1>2. CASE o # "fail"
  <2>1. /\ pc = "data" /\ job.op = "write" /\ Hears("WRITE")
        /\ UNCHANGED <<jobs, buff, before, known>>
        /\ disk' = [disk EXCEPT ![slot][Target] = <<jobs, job.done>>]
        /\ JobNext \/ (UNCHANGED job /\ pc' = "run" /\ result' = "RES_ERROR")
    BY <1>2 DEF WriteSector, JobFails
  <2>2. /\ slot = known /\ known \in Cards
        /\ Target = job.first + job.done /\ Target \in Sectors
    BY <2>1, SectorRight
  <2>3. disk \in [Cards -> [Sectors -> Contents]]
    BY DEF IInv, JobTypes
  <2>4. /\ \A c \in Cards : c # known => disk'[c] = disk[c]
        /\ \A s \in Sectors : s # Target => disk'[known][s] = disk[known][s]
        /\ disk'[known][Target] = <<jobs, job.done>>
    BY <2>1, <2>2, <2>3
  <2>5. /\ job.done \in Nat /\ job.first \in Nat /\ job.count \in Nat /\ MaxCount \in Nat
        /\ job.done < job.count /\ job.count <= MaxCount /\ jobs \in 1 .. MaxJobs
    <3>1. job \in Jobs /\ job.done < job.count /\ jobs \in 0 .. MaxJobs /\ jobs > 0
      BY <2>1 DEF IInv, JobTypes, JobInv
    <3>2. job.first \in Sectors /\ job.done \in 0 .. MaxCount /\ job.count \in 0 .. MaxCount
      BY <3>1 DEF Jobs
    <3>3. Sectors \subseteq Nat
      BY BoundTypes
    <3>4. job.first \in Nat
      BY <3>2, <3>3
    <3>5. MaxCount \in Nat /\ MaxJobs \in Nat
      BY CardAssumption
    <3>6. jobs \in 1 .. MaxJobs
      BY <3>1, <3>5
    <3>7. QED
      BY <3>1, <3>2, <3>4, <3>5, <3>6
  <2>6. <<jobs, job.done>> \in Contents
    BY <2>5 DEF Contents
  <2>7. disk' \in [Cards -> [Sectors -> Contents]]
    BY <2>1, <2>2, <2>3, <2>6
  <2>8. /\ job' \in Jobs /\ job'.done <= job'.count /\ job'.op = "write"
        /\ job'.first = job.first /\ job'.done \in {job.done, job.done + 1}
        /\ result' \in {result, "RES_OK", "RES_ERROR"}
    <3>1. CASE JobNext
      BY <2>1, <3>1, NextSector
    <3>2. CASE UNCHANGED job /\ pc' = "run" /\ result' = "RES_ERROR"
      BY <2>1, <3>2 DEF IInv, JobTypes
    <3>3. QED
      BY <2>1, <3>1, <3>2
  <2>9. JobTypes'
    BY <2>1, <2>7, <2>8 DEF IInv, JobTypes
  <2>10. JobInv'
    <3>1. CASE JobNext
      BY <2>1, <3>1, LoopGoesOn
    <3>2. CASE UNCHANGED job /\ pc' = "run" /\ result' = "RES_ERROR"
      BY <3>2 DEF IInv, JobInv, Discovery
    <3>3. QED
      BY <2>1, <3>1, <3>2
  <2>11. DoneInv'
    <3>1. \A k \in 0 .. job.done - 1 : disk[known][job.first + k] = <<jobs, k>>
      BY <2>1 DEF IInv, DoneInv
    <3>2. \A k \in 0 .. job.count - 1 : job.first + k \in Sectors
      BY DEF IInv, JobInv
    <3>3. ASSUME NEW k \in 0 .. job'.done - 1 PROVE disk'[known][job.first + k] = <<jobs, k>>
      <4>1. CASE k = job.done
        BY <2>2, <2>4, <4>1
      <4>2. CASE k # job.done
        <5>1. k \in 0 .. job.done - 1 /\ k \in 0 .. job.count - 1 /\ job.first + k # job.first + job.done
          BY <2>5, <2>8, <4>2
        <5>2. QED
          BY <2>2, <2>4, <3>1, <3>2, <5>1
      <4>3. QED
        BY <4>1, <4>2
    <3>4. QED
      BY <2>1, <2>8, <3>3 DEF DoneInv
  <2>12. WriteConfined'
    <3>1. ASSUME NEW c \in Cards, NEW s \in Sectors, disk'[c][s] # before[c][s]
          PROVE  c = known /\ s \in job.first .. job.first + job'.done
      <4>1. CASE c = known /\ s = Target
        BY <2>2, <2>5, <2>8, <4>1
      <4>2. CASE ~(c = known /\ s = Target)
        <5>1. disk[c][s] # before[c][s]
          BY <2>4, <3>1, <4>2
        <5>2. c = known /\ s \in job.first .. job.first + job.done
          BY <5>1 DEF IInv, WriteConfined
        <5>3. QED
          BY <2>5, <2>8, <5>2
      <4>3. QED
        BY <4>1, <4>2
    <3>2. QED
      BY <2>1, <2>8, <3>1 DEF WriteConfined
  <2>13. QED
    BY <2>9, <2>10, <2>11, <2>12
<1>3. QED
  BY <1>1, <1>2

(* Every step of the specification keeps the invariant.                    *)
LEMMA StepInv == IInv /\ [Next]_vars => IInv'
<1> SUFFICES ASSUME IInv, [Next]_vars PROVE IInv'
  OBVIOUS
<1>1. Flags' /\ DriverTypes' /\ AddressInv'
  BY FlagsStep, DriverTypeStep, AddressStep DEF IInv
<1>2. JobTypes' /\ JobInv' /\ DoneInv' /\ WriteConfined'
  <2>1. CASE Discover
    BY <2>1, JobDiscover
  <2>2. CASE disk_initialize
    <3>1. /\ UNCHANGED <<pc, disk, job, jobs, buff, before, known>>
          /\ result' \in {"STA_OK", "STA_NOINIT"}
      BY <2>2 DEF disk_initialize
    <3>2. QED
      BY <3>1, JobKept
  <2>3. ASSUME NEW op \in {"read", "write"}, NEW s \in Sectors, NEW n \in 1 .. MaxCount,
               DiskJob(op, s, n)
        PROVE  JobTypes' /\ JobInv' /\ DoneInv' /\ WriteConfined'
    BY <2>3, JobBegins
  <2>4. ASSUME NEW o \in Outcomes, JobSelect(o)
        PROVE  JobTypes' /\ JobInv' /\ DoneInv' /\ WriteConfined'
    <3>1. /\ UNCHANGED <<disk, job, jobs, buff, before, known>>
          /\ pc = "select" /\ pc' \in {"run", "data"} /\ result' \in {result, "RES_ERROR"}
      BY <2>4 DEF JobSelect, JobFails
    <3>2. QED
      BY <3>1, JobKept DEF Discovery
  <2>5. ASSUME NEW o \in Outcomes, ReadSector(o) \/ WriteSector(o)
        PROVE  JobTypes' /\ JobInv' /\ DoneInv' /\ WriteConfined'
    BY <2>5, JobReads, JobWrites
  <2>6. CASE Remove \/ (\E c \in Cards : Insert(c)) \/ UNCHANGED vars
    <3>1. UNCHANGED <<pc, disk, job, jobs, buff, result, before, known>>
      BY <2>6 DEF Remove, Insert, vars, jobVars
    <3>2. QED
      BY <3>1, JobKept
  <2>7. QED
    BY <2>1, <2>2, <2>3, <2>4, <2>5, <2>6 DEF Next, Disk
<1>3. QED
  BY <1>1, <1>2 DEF IInv

(* The inductive invariant: the types, the addressed card with the right   *)
(* addressing, the loop of the job and what it has done so far.            *)
THEOREM CardInvariant == Spec => []IInv
  BY InitInv, StepInv, PTL DEF Spec

(* Driver, card and job keep their types.                                  *)
THEOREM CardTypes == Spec => []TypeOK
<1>1. IInv => TypeOK
  BY DEF IInv, Flags, DriverTypes, JobTypes, TypeOK
<1>2. QED
  BY <1>1, CardInvariant, PTL

(* Whatever fails and whatever card is put in, disk_write changes nothing  *)
(* beyond the sector it has got to, on no card but the addressed one.      *)
THEOREM WritesConfined == Spec => []WriteConfined
<1>1. IInv => WriteConfined
  BY DEF IInv
<1>2. QED
  BY <1>1, CardInvariant, PTL

(* A disk_write that answers RES_OK has written every sector of the call.  *)
THEOREM WritesHonest == Spec => []WriteHonest
<1>1. IInv => WriteHonest
  BY DEF IInv, JobInv, DoneInv, WriteHonest
<1>2. QED
  BY <1>1, CardInvariant, PTL

(* A disk_read that answers RES_OK has returned every sector of the call.  *)
THEOREM ReadsHonest == Spec => []ReadHonest
<1>1. IInv => ReadHonest
  BY DEF IInv, JobInv, DoneInv, ReadHonest
<1>2. QED
  BY <1>1, CardInvariant, PTL
=============================================================================
