# Verification of the vWii NAND dumper

TLA+ models of `armboot`, the ARM program of vwii-nand-tools that dumps the
SLC NAND of a Wii U to a file on an SD card, and of what starts it and shows
its messages: model-checked with TLC on small instances, and for most of the
components proved with TLAPS for every instance.

## 1. The system

`armboot` runs alone on the ARM926 ("Starlet"): one main thread, one level of
interrupts, no scheduler. A dump is

    main.c _main -> dump.c _dump_slc_raw
        -> nand.c   read a page by DMA, wait for the interrupt, correct it
        -> ff.c     f_open, f_write of 16 pages, f_close
            -> diskio.c -> sdmmc.c (card protocol) -> sdhc.c (host controller)

with `irq.c` dispatching interrupts to `nand_irq` and `sdhc_irq`, `memory.c`
keeping cache, AHB buffers and DMA coherent, and `udelay` below every timeout.
`nswitch` on the PowerPC puts the image that `makebin.py` built from the ELF
loader and armboot's ELF into memory, has IOS jump to it, and then shows what
`gecko_printf` hands over, one character at a time, through a shared line.

### Inventory

| Component | State | Operations | Talks to | Hard part | Correct when |
|---|---|---|---|---|---|
| NAND dump (`dump.c`) | page, ECC and file buffers, loop counters, return code | `_dump_slc_raw` | nand.c, ff.c | failure in the middle of 0x4000 batches | the file is the corrected image; 0 only if complete |
| NAND driver (`nand.c`) | `irq_flag`, `initialized`, controller registers | initialize, reset, read_page, wait, irq, correct | controller, irq.c, memory.c | completion against sleeping, stale flag, bank switch | each page is the page asked for; no lost wake-up |
| ECC (`nand_correct`) | two counters, the page | one pass over four sub-blocks | - | bit layout, double errors | single errors repaired, double errors reported |
| Interrupts (`irq.c`, `irq_asm.S`) | flag and mask registers, CPSR | handler, enable, disable, kill, restore, wait, alarm | all drivers | order of acknowledge and service | nothing lost, state restored |
| Caches, AHB (`memory.c`) | cache lines, write buffers | invalidate, flush, ahb_flush_to/from | DMA devices | evictions at any time | DMA and CPU see the same data |
| SD host (`sdhc.c`) | `intr_status`, controller registers | exec_command, wait_intr, transfer_data, intr | controller, sdmmc.c | shared word, timeouts, late completions | a success belongs to the command |
| SD card (`sdmmc.c`) | `card` (inserted, new_card, rca, selected, blockmode) | discovery, select, read, write | sdhc.c, diskio.c | lost answers, card swaps | a success is true, an error leaves a prefix |
| Disk interface (`diskio.c`) | bounce buffer | initialize, status, read, write | sdmmc.c, ff.c | failure in the middle of a call | as above |
| FatFs (`ff.c`) | window, FSInfo fields, FIL, DIR | open, read, write, seek, sync, close; follow a path, search, register, stretch a table | diskio.c | write order against crashes, full volume, full directory | the volume stays sound, a closed file stays, a path opens its own entry |
| Delays (`utils.c`) | - | `udelay` | HW_TIMER | wrap of the counter | not early, not much late |
| Start (`makebin.py`, `nswitch` LoadMINI, `elfloader/`, `start.S`) | image, memory, registers | join, copy, relocate, clear, load segments, enter | linker scripts, IOS | lengths that five files must agree on | every section in its place, then `_main` |
| Main sequence (`main.c`) | - | start-up, dump, shutdown | all | order of switching interrupts and caches | the dump ends, then reset |
| Console (`gecko.c`, `nswitch` main) | `gecko_enabled`, one line of memory | init, printf; wait, take, show | memory.c, PowerPC | two caches that do not snoop, time-outs, printing in handlers | characters in order, none lost to a prompt reader, no hang |
| Exceptions, panic (`exception.c`, `panic.c`) | vectors, LED | handler, panic | console | a fault at any point | a message, then a halt |
| Crypto, SEEPROM, formatting, strings | | | | | not modelled, section 8 |

`main.c` calls `nand_dump_slc_raw`, which no file defines; the function in
`dump.c` is `_dump_slc_raw`. It is modelled as the callee, and its result, as
in `main.c`, is not used.

## 2. Modules

| Module | Models | Run by |
|---|---|---|
| `NandImage` | what a page, its correction and a batch of the image are | (extended) |
| `DumpSpec` | the abstract promise of a dump: batches appended in order, an answer | (instantiated) |
| `NandDump` | dump.c, nand.c, irq.c, memory.c, controller, as one system | `MCNandDump` |
| `NandDumpProofs` | its theorems | TLAPS |
| `NandEcc` | `nand_correct` on the real 32-bit syndrome layout | `MCNandEcc` |
| `NandEccProofs` | theorems on the code it decodes and on the correction of a page | TLAPS |
| `SdHost` | sdhc.c against its interrupt handler and the controller | `MCSdHost` |
| `SdHostProofs` | its theorems, for a card that answers in time; those of `Udelay`, which its timeouts count | TLAPS |
| `SdCard` | sdmmc.c and diskio.c against cards that fail and are swapped | `MCSdCard` |
| `SdCardProofs` | its theorems | TLAPS |
| `FatFs` | the part of ff.c that a dump runs through, down to sector writes | `MCFatFs` |
| `FatFsProofs` | its theorems | TLAPS |
| `FatFile` | f_read, f_write, f_lseek and f_sync of one file at byte level, through and around the window | `MCFatFile` |
| `FatFileProofs` | its theorems | TLAPS |
| `FatDir` | directories of ff.c: names, paths, search, registration and stretching, for f_open with every mode | `MCFatDir` |
| `Udelay` | udelay against a wrapping timer | `MCUdelay` |
| `Console` | main.c's sequence with gecko.c, memory.c, irq.c and exceptions on the ARM, nswitch's output loop on the PowerPC | `MCConsole` |
| `ConsoleProofs` | its theorems | TLAPS |
| `Boot` | makebin.py, LoadMINI, the ELF loader and start.S, from the linker's output to `_main` | `MCBoot` |
| `BootProofs` | its theorems | TLAPS |

Each layer is checked against the answers the layer below can give: `NandDump`
lets every FatFs call succeed or fail, `FatFs` lets every sector access fail
(a failed write may have happened), `SdCard` lets every command be executed,
executed with its answer lost, or not executed. `SdHost` is what happens
inside one such command. `NandDump` and `Console` compose the main thread,
interrupt handlers and the other hardware; `Console` has the parts of the main
sequence around the dump, which `NandDump` has.

Most modules state their types as `TypeOK`. NandDump's is among its run's
properties; the proofs of NandDump, SdHost and SdCard have a theorem for it,
those of Udelay and NandEcc have it in their inductive invariant, and FatFsProofs
has types of its own (`TypeInv`), by what the argument needs.

Definitions whose names end up in `PROJECT.json` under "mutants" as `as` are
deliberately wrong variants of the definition below them, used to confirm that
each property can fail.

### NandDump

`pc` is the main thread's place in `_main`, `_dump_slc_raw` or the driver;
`handler` and its companions are `irq_handler`'s. The main thread steps only
while no handler runs; the controller, the AHB buffers and cache evictions
step at any time. `mem`, `cache` and `ahb` hold the content of the two DMA
buffers: a cache has at most one line per buffer (real buffers take many
lines, which are treated alike), loads go through `View`, any line may be
evicted at any time, and a DMA transfer first lands in `ahb`, from where it
drains on its own or when flushed. A flush is assumed to be acknowledged: the
code only prints a message when it is not. `irq_flag`, `initialized`, `flag`
(HW_ARMIRQFLAG) and `mask` (HW_ARMIRQMASK) are the code's. A page is a record
that tells its bank, its number and whether it is damaged, so any mix-up shows.
nand_correct is one step here; its bits are in NandEcc. Its result is ignored,
as in dump.c: an uncorrectable page goes into the file as it is.

### NandEcc

A word is the set of its one bits and a page is its difference to what was
programmed. The decoder is translated from `nand_correct`; the encoder
(`Column`) is the controller's and external: it is the code that this decoder
decodes, two parities per bit of the bit number.

### SdHost

Interrupt registers are sets of bits; commands are numbered, so that a
response or a transfer that belongs to another command shows.
`hp->intr_status &= ~status` is two steps, since interrupts are enabled. The
16-bit register write is what `bus_space_write_2` does: a read-modify-write of
32 bits. `quirks` says what the card in the slot may do (overrun the software
timeouts, bounce its detect pin, report errors) and what the controller's
capabilities lack: without DMA ("nodma") sdhc_transfer_data prints "fail." and
the command ends with no error and no data (`sdhc.c:635`), without a usable base
clock ("noclock") sdhc_host_found leaves before sdmmc_attach and no command is
ever issued (`sdhc.c:191-200`). The console's controller has both; `Prompt`, the
condition of the safety properties, therefore includes DMA. The cache and AHB
flushes around a transfer (`sdhc.c:573-578`, 647) are left out: the content of
the buffer is not in this model.

### SdCard

Discovery is one action per command with its exits (`out_power`, `out_clock`),
and the retry loop of ACMD41. A command to a card that is not there, not
powered or not selected fails. Content of a sector names the job that wrote
it. `AddressSpace` stands for 2^32 and is chosen so that a byte address of a
byte-addressed card stays within it, as it does for cards up to 2 GB.

### FatFs

FAT32 with two FATs, the configuration of `ff.h` (`_FS_TINY` 1). On the card:
two FATs, the directory, data sectors and FSInfo; in memory: the window, the
FSInfo fields and the FIL object. One step is one `move_window` or one
`disk_write` with the computation that follows; the machine may stop between
any two steps. A mount may fail because the drive is not ready or a boot record
cannot be read (`MountFails`); the next f_open then mounts again. That a record
is read and is not one of a FAT volume does not happen: `Init` is a sound volume.
The root directory is one sector and the file names fit in it.
A dump writes 16 * 2112 = 66 * 512 bytes at a time, so the partial-sector path
of f_write is not reached: `dsect` stays 0, the window never holds a sector of
a file, and the tests at lines 1779 and 1798 have no effect.

### FatFile

The data of one open file, for f_read, f_write and f_lseek of any length and
offset. With `_FS_TINY` there is no buffer in the FIL: parts of a sector go
through the window that FAT and directory use as well, whole sectors bypass
it, and f_write has three places where the two are reconciled. A cluster is its
place in the chain (chains are in FatFs); any FAT access is a move of the
window to `Elsewhere`. `content` is the file by what the calls promise: each
byte names the call that wrote it. One step is one turn of the loop.

### FatDir

A path is a sequence of segments, a segment a sequence of characters; names
have two characters and an extension of one. `create_name` is the loop of the
source, with code page 932's two-byte characters and the byte 0xE5. The tables
are the fixed root of FAT12 and FAT16, chains of clusters, and a chain that is
a cycle on a damaged volume; a sector access may fail, a failed write may have
happened, and the machine may be reset between any two steps. Left out, as
module FatFs has them: the second FAT, FSInfo, and a FAT of several sectors.
Left out altogether: the case flags of Windows NT, time stamps, the volume
number in a path, and long names, which are not built. One file is open at a
time, and it is closed with nothing written to it; what a write does to its
chain and data is in FatFs and FatFile.

### Udelay

The two loops with one step per read of the timer, and a bounded number of ticks
between two reads (`maxgap`, one of `Gaps`). `Wrap` stands for 2^32. Its
specification is `UdelaySpec`, so that `SdHostProofs` can extend it beside
`SdHost`.

### Console

Three threads of the ARM (`_main`, `irq_handler`, `exc_handler`) each have a
sequence `todo` of micro-operations left to do: a procedure of `memory.c` is
the sequence of its cache, buffer and mask operations, a call puts them in
front. Between any two of them the PowerPC, an eviction from either cache, the
write buffer, the bus and, when it is not masked, an interrupt may step; an
exception may come at any point after `exception_initialize`. Caches, write
buffer and the bus's read-ahead are external, modelled from what `memory.c`
does to them. Messages printed one after the other under the same mask and
caches are one message. The registers and code that `exc_handler` prints are
one message, too. `reader` says what the PowerPC does: take characters before
the timeout, take them late, never, or not be there. The comparison
`timer < timeout` of gecko_printf is false at once when the timeout wraps, so
that even a prompt reader may then be overrun; this counts as giving up, and
`WaitGiveUp` is not enabled for the prompt reader. `systemReset` stops both
processors, caches and buffers (`Off`), directly after mem_shutdown as in
`main.c:96-98`. The code does not wait for the PowerPC there, so the last
character of "Shutting down caches and MMU..." may never be shown, even to a
prompt reader; no property says it is. After `panic2` nothing is reset, the
PowerPC goes on, and `EndReached` does require that a prompt reader has shown
the exception's message to its end. Bounds: messages of
`StrLen` characters, and `MaxEvents` interrupts, exceptions and evictions.

### Boot

A cell of memory is a byte; a word is `WordSize` of them with its value in the
first, and the ELF header and each program header are one cell. `stub` and
`mini` are the layouts of `elfloader/stub.ld` and `mini.ld`: sections on whole
words, the loader's BSS up to a multiple of eight words (`ALIGN(32)`) with its
stack behind it, and mini's three stacks (`MiniStack`, then two of
`VectorStack`), each on four words (`ALIGN(16)`). Read-only data counts as data.
What `ALIGN` means and the form of an ELF file are the linker's. Sections differ in
length modulo a word, since the loops of both start.S end on equality. Left
out: output through the debug pins, the two register writes of the loader
(memory mirror, boot0), and how IOS reaches the patched instruction.
`makebin.py`'s second error cannot occur: a slice is never longer than asked
for. The addresses are ordered as on the machine: nswitch's buffer, then mini's
MEM2 region, then the two SRAM regions. `RoomAssumption` says that the image ends
below mini's MEM2 region (the buffer is at 0x10100000), `RegionAssumption` that
each region holds its sections, which the linker refuses otherwise.

## 3. Runs

| Run | Instance | Shows |
|---|---|---|
| `nand_dump` | 4 pages in 2 batches, both banks, one page with a flipped bit, one beyond repair, two other interrupt sources, 2 dumps | types, `BatchFaithful`, `NoLostWakeup`, `DmaOwnsBuffers`, `CompletionIsCurrent`, `IrqsRestored`, that NandDump implements DumpSpec, and `DumpEnds` |
| `nand_ecc` | every difference of at most two wrong bits among nine data bits and the 32 ECC bits, in any sub-block, the other sub-blocks intact or with one wrong bit | `SingleErrorRepaired`, `NoMiscorrection` (a blank page included), `ResultHonest` |
| `sd_host` | 3 commands of every kind, one DMA boundary, on a sound card, a card with errors and a slow one that bounces, with a controller with DMA, without DMA, or without a base clock | `ResponseIsOwnIfPrompt`, `TransferIsDone`, `QuietAfterReturn`, and on all of them `CommandsEnd` |
| `sd_card` | a block- and a byte-addressed card of 3 sectors, 2 disk calls of up to 2 sectors, 2 removals or insertions | `WriteConfined`, `WriteHonest`, `ReadHonest` |
| `fat_fs` | 4 clusters over 2 FAT sectors, clusters of 2 sectors, writes of 3 sectors, 2 opens, an old file absent or fragmented, 2 failing accesses or mounts, 1 crash | `ChainsIntact`, `CloseIsDurable`, `FullIsFull`, `SpaceAccounted` (free count, no leak, both FATs the same) |
| `fat_file` | sectors of 2 bytes, clusters of 2 sectors, up to 3 clusters, a new and an old file, read-only or not, 4 calls with lengths below a sector to above a cluster and every offset, f_sync anywhere, 1 failing access, a volume that fills up at any cluster, files limited to 3 clusters as by 32 bits | `FileIntact`, `PointerInStep`, `SyncIsDurable`, `ReadAfterSync`, `CallsEnd` |
| `fat_dir` | a FAT16 volume, a FAT32 one with a deleted entry, one with full tables, the same without a free cluster, one with a cyclic root chain; 2 entries in a sector, 2 sectors in a cluster; 2 opens with 9 paths and 5 modes, 1 failing access, 1 reset | `LookupRight`, `NamesUnique`, `NoGhosts`, `EntriesKept`, `CallsEnd` |
| `udelay` | a timer of 16 values, delays up to almost a period, interrupts of up to 3 ticks or none | `Punctual` (never early; without interrupts on time), `DelayEnds` |
| `console` | every kind of reader, messages of one character, four in the main sequence, one interrupt, exception or eviction at any point | `InOrder`, `NoneLostIfPrompt`, `MaskFollowsSections`, `EndReached` |
| `boot` | words of 2 bytes; code, data and BSS sizes that are 0 or take every remainder; stacks of sizes that the alignment rounds up; a loader file as linked, one that already holds an ELF, one with a short header; good and bad ELFs; the place to patch found or not | `ElfIntact`, `BootRight` |

Why the bounds are enough: two batches of two pages give a first, a middle and
a last page and a batch boundary; two dumps give the bank switch and the early
return of nand_initialize. Three commands give a predecessor with something
left over, the command that takes it, and one after it. Four clusters over two
FAT sectors force the window to change within one chain and the search to wrap
around; two files of three clusters each fill the volume; a write of three
sectors over clusters of two is at every alignment. A directory of four
entries is full after two opens, and a table that was stretched once has two
clusters, with old entries in the second; two opens let the second meet what a
failed or reset first one left. In `console` the hand-over of one character
and the next covers the protocol, as a line holds one; four messages put it
under each combination of mask and cache that the main sequence has, and
longer messages repeat it. Word sizes, stack and table lengths of `boot` are
small, but each section's length takes every remainder modulo a word and the
empty case, which is what its loops depend on. Deadlock is not checked
where the program really ends or the bounds are used up: after shutdown, after
the last command, after the last file, in `_main`, panic or panic2.

Two further runs are expected to be violated; each shows that the code does
not do what one of its comments says:

| Run | Property | What happens |
|---|---|---|
| `sd_host_slow` | `ResponseIsOwn` | a completion after the software timeout is taken for the next command's, as `intr_status` is cleared before the wait for an idle controller |
| `fat_fs_start` | `StartIsCluster` | create_chain's error code is saved as a start cluster |

More such disagreements need no run of their own. In the SD driver:

- `ResponseIsOwn` also fails for the profile `{"bounce"}`: a card-detect bit
  that shares an interrupt with COMMAND_COMPLETE stays in `intr_status`, ends
  the wait for the transfer at once, and every later command is off by one.
- `intr_status &= ~status` (`sdhc.c:708`) is a load and a store with
  interrupts enabled: a bit that sdhc_intr sets in between is lost, although
  sdhc_intr is there to "Wake up the blocking process" (`sdhc.c:796`). The
  finished transfer times out.
- The acknowledgement of NINTR_STATUS (`sdhc.c:755`, "Acknowledge the
  interrupts we are about to handle") writes 32 bits and clears EINTR_STATUS
  before it is read: the error is reported as a timeout.
- After a failed SEND_CSD the bus is off and disk_status answers 0
  (`sdmmc.c:208`), where `diskio.h:55` has a status for a drive that is not
  initialized. Reads and writes then fail, as `ReadHonest` and `WriteHonest`
  need.
- `new_card` is "set to 1 everytime a new card is inserted" (`sdmmc.c:32`),
  but discovery runs only in sdmmc_attach: a card put in later is not flagged.
  `WriteConfined` shows what protects it: it was never given the relative
  address that the driver selects.

In FatFs:

- "Refrect the change to FAT copy" (`ff.c:226`): that write is not checked, so
  after a failure the FATs differ and f_close answers FR_OK. Hence the
  condition in `SpaceAccounted`.
- f_write says "Write back data buffer prior to following direct transfer"
  (`ff.c:1779`); f_read has no such step before its own direct transfer (line
  1693). With a part of a sector written and still in the window, f_lseek back
  and f_read of the whole sector delivers the old bytes. Hence the condition
  in `ReadAfterSync`. A dump does not read its file.
- dir_register promises FR_DENIED when there is no entry (`ff.c:904`), but a
  full fixed root table gives FR_NO_FILE.
- dir_next links a new cluster before it clears it (`ff.c:591`): after a
  failure or reset in between, the directory shows the cluster's old content.
  Hence the condition in `NoGhosts`.

Elsewhere:

- The on-time part of `Punctual`, and `DelayEnds`, are stated for a loop that
  reads every value of the timer. With interrupts of 3 ticks both fail: when
  the end of the delay lies just below the wrap, the timer can pass both
  between two reads, and udelay waits for another whole period ("should be
  good to max .2% error", `utils.c:55`).
- nand_irq prints after an error: its character can come between the main
  thread's test of the line and its write, and be overwritten. Hence the
  condition in `NoneLostIfPrompt`.
- main.c resets the machine right after its last message (`main.c:95-98`); the
  reader may not have taken the last character. Hence `EndReached` asks for the
  end of the message only after an exception.
- nswitch prints "Loaded startlet code" (`main.c:57`) also when LoadMINI found
  nothing to patch; `BootRight`'s outcome is then that nothing is started.

`sd_host_slow` explains why `sd_host` states its assumption on the card: on one
that answers within the timeouts and does not bounce, the driver is right. A
lost completion or error is reported as a timeout, and FatFs reports a failed
sector access, which is what `SdCard` and `FatFs` assume of the layer below.
A late completion is worse: a write that takes its predecessor's completion
for its own is reported as done before it is.

## 4. Fairness

- `NandDump`: weak fairness of the controller (a command ends) and of the
  handler's steps, strong fairness of taking an interrupt and of the main
  thread (other interrupts may come between any two of its steps, but not
  without end: the only periodic one is re-armed 20 ms ahead). Nothing is
  assumed of other sources: the timer's interrupt would also wake the core and
  would hide a lost wake-up.
- `SdHost`: the same; the controller may also report an error or, with
  a slow card, be overtaken by the software timeout.
- `FatFile`, `FatDir`: weak fairness of a call's steps: nothing in them waits.
- `Udelay`: the timer runs, and the loop is reached again after interrupts.
- `Console`: weak fairness of the running ARM thread, of a PowerPC that runs
  at all, and of the two buffers, which drain on their own; strong fairness of
  `WaitGiveUp`, since the loop comes back to its test again and again and the
  timer passes the timeout meanwhile. Nothing is assumed of evictions,
  interrupts and exceptions.
- `Boot`: weak fairness of the next step; there is one processor at a time.

## 5. Proofs

`NandDumpProofs` proves, for every number of pages and batch size, every set
of banks, damaged pages and other interrupt sources and any number of dumps,
that `NandDump`'s specification implies its type invariant, the five safety
properties above and the refinement of `DumpSpec`. Assumptions: the batch size
is positive (`PageAssumption`), and the marks for "no bank", "no line" and the
rest are not what they would be confused with (`MarkAssumption` and its
neighbours in `NandImage` and `NandDump`); no assumption is made on fairness.

None of the properties is inductive alone. `IInv` adds

- `LoopInv`: where each program point stands in the two loops, and what the
  file holds by then; without it a page number of a batch means nothing;
- `BankInv`: the controller is set to the bank that `initialized` says, which
  is what makes the early return of nand_initialize right;
- `CommandInv`: which command may run at which program point, and that a
  pending NAND interrupt, a running READ_POST and a raised `irq_flag` exclude
  each other. It says that exactly one of the three is the case while waiting,
  and gives `NoLostWakeup`;
- `CpuInv`: when interrupts are off, and that a handler runs only when they
  were on;
- `DataInv`: where the page is on its way from controller to AHB buffer,
  memory, cache and `page_buf`, which gives `DmaOwnsBuffers`,
  `CompletionIsCurrent` and, with the loop, `BatchFaithful`.

Each part has a lemma with one step per action (`LoopStep`, `BankStep`,
`CommandStep`, `CpuStep`, `DataStep`, `BatchStep`), and the types have three,
for main thread, handler and hardware. `Refinement` maps a dump to DumpSpec by
`active <- pc \in DumpPcs` and shows in `DumpStep` that each step of NandDump
is a step of DumpSpec or leaves its variables alone.

`NandEccProofs` proves of the decoder, for all 4096 data bits where the run
takes nine: one wrong data bit is found, one wrong ECC bit is recognised, two
wrong data bits, two wrong ECC bits, or one of each are never miscorrected.
From these it proves of the loop over a page `SingleErrorRepaired`,
`NoMiscorrection` and, for pages with at most two wrong bits in a sub-block
(hypothesis `AtMostTwoWrong`, what the code can detect), `ResultHonest`. The
only assumption is that a damage is a set of data bits and ECC bits
(`DamageAssumption`). The inductive invariant is `LoopInv`: the sub-blocks
behind the loop have intact data, or were left as they were and counted as
uncorrectable, and the ones ahead are as they were read.

`SdHostProofs` proves, for any number of commands, boundaries and errors,
`ResponseIsOwn` under `Prompt`, `TransferIsDone` and `QuietAfterReturn`, and
the types on every card. `Prompt` is the condition on the card that the
properties state: it answers before the software timeout, to a controller
with DMA. Under it

- `SignalInv` says that a status bit is at one place only (in the controller,
  in the handler's snapshot or in `intr_status`), was raised by the current
  command, and what it tells about the controller;
- `OrderInv` says that no bit of a transfer overtakes the response, which is
  what lets the second wait of a data command start with the bits it must not
  lose;
- `HandlerInv` says that the handler acknowledges a bit once and that its
  error service stops a controller that has nothing more to say;
- `SeenInv`, `OwnInv`, `BetweenInv`, `EndInv` carry this through
  sdhc_wait_intr to the end of the command and to the start of the next.

`SdHostProofs` also proves `Punctual` of `Udelay`, for every timer width, every
delay shorter than a period and every gap between two reads
(`TimerAssumption`). `EarlyInv`
says where the timer stands relative to the wrapped end until the delay is
over, `LateInv` the same at the last read, for a loop that misses no value;
both are needed because `elapsed`, of which the property speaks, is not a
variable of the code.

`SdCardProofs` proves `WriteConfined`, `WriteHonest` and `ReadHonest` for every
set of cards, sectors, retries, swaps and jobs; the assumptions are that a
byte-addressed card has at most 2^32 bytes (`SizeAssumption`) and that there is
a round of the power-up loop (`CardAssumption`). `AddressInv` is the core: a
card in a state in which it takes reads and writes is the one discovery
spoke to, and `sdhc_blockmode` is its addressing; a card put in later has no
relative address and takes none. `JobInv` and `DoneInv` are the loop of
disk_read and disk_write.

`FatFsProofs` proves `ChainsIntact`, `CloseIsDurable`, `FullIsFull` and
`SpaceAccounted`, for every number of clusters, entries in a FAT sector and
sectors in a cluster, any set of files, any chain the old file may have, and any
number of calls, failing accesses and crashes. `VolumeAssumption` says that a
volume has a data cluster, that a cluster has at most 255 sectors, as `csize` is
a byte, and that a chain of the old file visits no cluster twice. There are two
volumes: the one on the card (`CardInv`), and the one that FatFs sees through
the window (`VolInv`). A step leaves the card as it is or makes it equal to the
second (`CardMoves`), and changes at most one entry of the second; so it is
enough that each change keeps the second sound and that nothing is promised
before it is on the card. The parts are

- `Sound`: each file has a chain, chains are disjoint, and one more chain
  belongs to no entry: what remove_chain has still to free, or the clusters of
  the open file until f_sync enters its start;
- `OwnInv`, `PlaceInv`, `StepInv`: what that chain is at each program point,
  where `fptr`, `csect` and `curr_clust` are in it, and what create_chain has
  found;
- `DataInv`: the sectors of the open file and of what f_close has promised;
- `CountInv`: without failures and crashes each cluster in use is in a chain,
  and `free_clust`, FSInfo and the second FAT are right or marked to be written;
- `SearchInv`: the clusters between the start of the search and its place are
  not free, also after it has wrapped.

The chains are sequences that the invariant says exist, so no step follows a
chain. Only the properties do, with the recursive function `Chain`; that it
reads such a sequence (`ChainReads`) follows from the existence of a least
counterexample (`Least`), and that it ends within `max_clust` steps from
counting (`ChainFits`).

`FatFileProofs` proves `PointerInStep`, `FileIntact`, `SyncIsDurable` and the
action property `ReadAfterSync`, for every size of sector, cluster, file and
transfer and any number of calls and failures. `FileAssumption`: a cluster has
1 to 254 sectors, and sizes stay below the limit of a file. The invariant has two
halves. `PtrInv` is about the pointer alone: `ChainInv` bounds the clusters the
file has, `IdleInv` says what `curr_clust`, `csect` and `curr_sect` are between
two calls as functions of `fptr`, `TransferInv` and `SeekInv` what they are
inside the loops of f_read, f_write and f_lseek, where offset and cluster are
out of step for a while. `DataInv` is about the bytes: `StoreInv` says that
what is read through the window or around it is one array of bytes whichever
way it is reached (`ViewInv`), and that a clean window is what the card has
(`CleanInv`); `EdgeInv`, `DirtyInv` and `ReadInv` say what the window holds
while a call is between two sectors.

`ConsoleProofs` proves `MaskFollowsSections` and `InOrder`, for every length of
a message, every reader and any number of interrupts, exceptions and evictions.
The thread's state is the sequence of micro-operations it has left, so the
first invariant says that this sequence closes exactly the sections the thread
is in (`NestInv`, with `Path`), and that only the outermost section of the main
thread was entered with interrupts open (`CookieInv`). `InOrder` rests on
`Flow`, by which a character on its way from cache through buffers to memory is
newer than any in front of it, and on `Fresh`, by which what the PowerPC can
still read was not shown before.

`NoneLostIfPrompt`, for every reader as long as gecko_printf has not given up
and nothing has interrupted the main thread, needs what the two others do not.
In `PromptInv`

- `MainInv` is about what the main thread has left to do: a character is put
  only right after the test, when all is `Quiet`, and cleaned out of the cache
  next (`Layout`), and a line is invalidated before it is tested (`Covered`);
- `Ahead` says that what the bus has read ahead is not older than memory;
- `Place` says that the last character is in exactly one place until it is
  taken, `Gapless` that those taken are the first ones;
- `Grip` says what nswitch's cache holds when it takes one.

`BootProofs` proves `ElfIntact`, for every size of word, of each stack, of the
global offset table and of each section (`BootAssumption`, `RoomAssumption`,
`RegionAssumption`). `LoadInv` is its inductive invariant: what makebin.py wrote
has the loader's reported length in front of the ELF, for a fresh loader file
and for one that already held an ELF; both loops of the loader are a whole
number of words (`Whole`) from an end that is in front of the ELF, which is what
makes a loop that ends on equality end there; and the ELF lies between the
loader's stack and mini's regions, so that no segment is copied over it. On top
of it `TableInv` (the words of the table in front of r1 are relocated, the others
are as linked), `WayInv` (which way the boot has gone and why), `SegInv` (the
segments copied so far) and `MiniInv` (what mini's start.S has filled) give
`EndRight`: in whatever state the boot stops, it is the one `BootRight` names, and
in `_main` everything is `Ready`. That the boot gets there is liveness and left
to TLC.

## 6. Only model-checked

- Liveness (`DumpEnds`, `CommandsEnd`, `CallsEnd`, `DelayEnds`, `EndReached`,
  `BootRight`): it needs fairness and ENABLED, which the prover does not handle.
  What `BootRight` says of the states the boot stops in is proved (`EndRight`).
- `FatDir` (`LookupRight`, `NamesUnique`, `NoGhosts`, `EntriesKept`). A path is
  followed from directory to directory, and what that finds for every path is an
  induction over data. The others do not hold of every volume: after a reset
  between linking and clearing a cluster its old content shows up as entries,
  and if that content held a directory whose start is a cluster of another
  table, a name could be registered there that the other table already has. A
  theorem would need an assumption on what free clusters hold, which nothing in
  the code ensures; the volumes of the run have old content with a file entry.

## 7. Plan

1. Done: all modules of section 2 with their runs; the proofs of section 5.
2. Prove more: FatDir on a volume whose tables share no cluster and whose free
   clusters hold no directories.
3. Model more, if wanted: an abstract volume that FatFs implements; a
   composition of the dump with FatFs over a failing disk.

## 8. Not modelled

- FAT12's packed entries and the string functions of FatFs (f_puts, f_printf):
  not reached by a dump of a FAT16 or FAT32 card. Long names, f_mkfs and the
  functions that `_FS_MINIMIZE` removes are not built.
- FSInfo is advisory: after a crash `free_clust` may be wrong on the card, and
  only its agreement without a crash is stated.
- nand_write_page, nand_erase_block, the IPC entry points of sdhc.c and
  sdmmc.c: not built (`NAND_SUPPORT_WRITE`, `CAN_HAZ_IPC` are not defined).
  nand_get_id, nand_get_status and nand_read_cluster: not called by a dump.
- `vsprintf.c`, `string.c` and the hexdump: formatting and byte copies, pure
  functions with no state that anything here depends on.
- Crypto and SEEPROM: read once, bit by bit, into buffers that a dump does not
  use.
- The page table that mem_initialize builds, and the device branch of
  `_ahb_flush_to`, whose registers are undocumented.
- The sizes of the handlers' stacks (`mini.ld:18`): the depth of a C stack is
  not in the source. An unacknowledged flush, where `ahb_flush_from` and
  gecko_printf call each other (`memory.c:203`), is assumed away.
- The cache and AHB flushes of an SD transfer's buffer: SdHost tells whose data
  were moved, not what they are. The same routines are in NandDump and Console.
- A second fault while `exc_handler` prints the code around the first.
- Video set-up of `nswitch`, and `runtimeiospatch.c`, which searches IOS for
  byte patterns and replaces them: calls of libraries and hardware.
