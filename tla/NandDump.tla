------------------------------ MODULE NandDump ------------------------------
(***************************************************************************)
(* The NAND dump: _dump_slc_raw and the driver's read path (storage/nand.c)*)
(* on the main thread, irq_handler and nand_irq on the interrupt side, and *)
(* around them the NAND controller, the AHB write buffer, the data cache   *)
(* and the other interrupt sources.  One step of the main thread is a      *)
(* piece of code between two points at which the order with the interrupt  *)
(* handler or the controller matters.  The file system is abstracted to    *)
(* the outcomes of f_open, f_write and f_close that dump.c tests.          *)
(***************************************************************************)
EXTENDS NandImage

CONSTANTS
    OtherIrqs,   \* enabled sources besides NAND: GPIO1, RESET, TIMER
    Timer,       \* IRQ_TIMER, one of OtherIrqs
    BadBank,     \* a bank number without a file name
    None,        \* no cache line, nothing in the AHB write buffer
    MaxCalls     \* bound: calls of _dump_slc_raw before the shutdown

ASSUME IrqAssumption == "NAND" \notin OtherIrqs /\ Timer \in OtherIrqs
ASSUME MarkAssumption == /\ BadBank \notin Banks
                         /\ None \notin Content
                         /\ MaxCalls \in Nat

VARIABLES
    pc,           \* where the main thread is
    bank, iter, slot, ret,   \* _dump_slc_raw's bank, i, page, return value
    calls,        \* calls made so far
    file_buf,     \* the pages gathered for the next f_write
    file,         \* what f_write has accepted since f_open
    initialized,  \* nand.c: the bank the controller is set up for
    irq_flag,     \* nand.c: set by nand_irq, cleared by nand_read_page
    irqOff,       \* CPSR.I
    cookie,       \* what irq_kill returned in nand_wait
    mask, flag,   \* HW_ARMIRQMASK, HW_ARMIRQFLAG, as sets of sources
    alarm,        \* HW_ALARM is armed
    handler,      \* irq_handler runs
    latched,      \* its local `flags'
    ctlCmd, ctlBank, ctlPage,  \* NAND controller: command, bank, address
    ahb,          \* DMA data in the AHB write buffer, per buffer
    mem,          \* page_buf and ecc_buf in memory
    cache, dirty  \* ... in the data cache; the buffers with dirty lines

mainVars == <<pc, bank, iter, slot, ret, calls, file_buf, file>>
irqVars  == <<irqOff, mask, flag, alarm, handler, latched>>
ctlVars  == <<ctlCmd, ctlBank, ctlPage>>
memVars  == <<ahb, mem, cache, dirty>>
vars == <<mainVars, initialized, irq_flag, cookie, irqVars, ctlVars, memVars>>

Sources == OtherIrqs \cup {"NAND"}
Bufs == {"data", "ecc"}
Returns == {0, -2, -3, -4, -5}

DumpPcs == {"init", "reset", "resetwait", "enable", "loop", "read", "inval",
            "prewait", "post", "wait", "kill", "check", "wfi", "restore", "correct",
            "copy", "write", "close"}

PageBytes == [data : Content, spare : Content]

MainTypes ==
    /\ pc \in DumpPcs \cup {"boot", "idle", "off"}
    /\ bank \in Banks \cup {NoBank} /\ initialized \in Banks \cup {NoBank}
    /\ iter \in 0 .. TOTAL_ITERATIONS /\ slot \in 0 .. PAGES_PER_ITERATION
    /\ ret \in Returns /\ calls \in Nat
    /\ file_buf \in [Slots -> PageBytes] /\ file \in Seq([Slots -> PageBytes])

IrqTypes ==
    /\ irq_flag \in BOOLEAN /\ irqOff \in BOOLEAN /\ cookie \in BOOLEAN
    /\ alarm \in BOOLEAN /\ handler \in BOOLEAN
    /\ mask \subseteq Sources /\ flag \subseteq Sources /\ latched \subseteq Sources

HwTypes ==
    /\ ctlCmd \in {"none", "RESET", "READ_PRE", "READ_POST"}
    /\ ctlBank \in Banks \cup {NoBank} /\ ctlPage \in Nat
    /\ ahb \in [Bufs -> Content \cup {None}]
    /\ mem \in [Bufs -> Content]
    /\ cache \in [Bufs -> Content \cup {None}]
    /\ dirty \subseteq Bufs

(* Types, and the loop counters within dump.c's bounds.                    *)
TypeOK == MainTypes /\ IrqTypes /\ HwTypes

(* start.S enters _main with interrupts off; IOS may have left interrupt   *)
(* flags and mask bits behind.                                             *)
Init ==
    /\ pc = "boot" /\ bank = NoBank /\ iter = 0 /\ slot = 0 /\ ret = 0
    /\ calls = 0 /\ file = <<>>
    /\ file_buf = [k \in Slots |-> [data |-> Blank, spare |-> Blank]]
    /\ initialized = NoBank /\ irq_flag = FALSE /\ cookie = FALSE
    /\ irqOff = TRUE /\ mask \in {{}, Sources} /\ flag \in {{}, Sources}
    /\ alarm = FALSE /\ handler = FALSE /\ latched = {}
    /\ ctlCmd = "none" /\ ctlBank = NoBank /\ ctlPage = 0
    /\ ahb = [b \in Bufs |-> None] /\ mem = [b \in Bufs |-> Blank]
    /\ cache = [b \in Bufs |-> None] /\ dirty = {}

-----------------------------------------------------------------------------
(* Memory system (external): what a load sees, and the transfers that the  *)
(* driver's cache and AHB calls force.                                     *)
View(b) == IF cache[b] = None THEN mem[b] ELSE cache[b]

(* ahb_flush_from(AHB_NAND); ahb_flush_to(AHB_STARLET): what the DMA wrote *)
(* reaches memory.                                                         *)
FlushAhb ==
    /\ mem' = [b \in Bufs |-> IF ahb[b] = None THEN mem[b] ELSE ahb[b]]
    /\ ahb' = [b \in Bufs |-> None]

(* The write buffer drains, or the cache evicts a line, by itself.         *)
Drain(b) ==
    /\ ahb[b] # None
    /\ mem' = [mem EXCEPT ![b] = ahb[b]]
    /\ ahb' = [ahb EXCEPT ![b] = None]
    /\ UNCHANGED <<mainVars, initialized, irq_flag, cookie, irqVars, ctlVars,
                   cache, dirty>>

Evict(b) ==
    /\ cache[b] # None
    /\ mem' = IF b \in dirty THEN [mem EXCEPT ![b] = cache[b]] ELSE mem
    /\ cache' = [cache EXCEPT ![b] = None]
    /\ dirty' = dirty \ {b}
    /\ UNCHANGED <<mainVars, initialized, irq_flag, cookie, irqVars, ctlVars, ahb>>

(* dc_invalidaterange on both buffers: dirty lines are dropped.            *)
dc_invalidaterange ==
    /\ cache' = [b \in Bufs |-> None]
    /\ dirty' = {}

-----------------------------------------------------------------------------
(* Main thread.  It runs only while irq_handler does not.                  *)
At(l) == pc = l /\ ~handler
Goto(l) == pc' = l

(* irq_initialize; irq_enable of GPIO1, RESET, TIMER; irq_set_alarm(20, 1) *)
Boot ==
    /\ At("boot")
    /\ mask' = OtherIrqs /\ flag' = {} /\ irqOff' = FALSE /\ alarm' = TRUE
    /\ Goto("idle")
    /\ UNCHANGED <<bank, iter, slot, ret, calls, file_buf, file, initialized,
                   irq_flag, cookie, handler, latched, ctlVars, memVars>>

(* _dump_slc_raw up to nand_initialize.                                    *)
DumpRefused(b) ==
    /\ At("idle") /\ calls < MaxCalls
    /\ calls' = calls + 1
    /\ ret' = IF b \in Banks THEN -3 ELSE -2
    /\ UNCHANGED <<pc, bank, iter, slot, file_buf, file, initialized, irq_flag,
                   cookie, irqVars, ctlVars, memVars>>

DumpOpened(b) ==
    /\ At("idle") /\ calls < MaxCalls
    /\ calls' = calls + 1
    /\ bank' = b /\ iter' = 0 /\ slot' = 0 /\ file' = <<>>
    /\ Goto("init")
    /\ UNCHANGED <<ret, file_buf, initialized, irq_flag, cookie, irqVars, ctlVars,
                   memVars>>

(* shutdown: irq_shutdown and reset.                                       *)
Shutdown ==
    /\ At("idle")
    /\ mask' = {} /\ flag' = {} /\ irqOff' = TRUE
    /\ Goto("off")
    /\ UNCHANGED <<bank, iter, slot, ret, calls, file_buf, file, initialized,
                   irq_flag, cookie, alarm, handler, latched, ctlVars, memVars>>

(* nand_initialize, its early return included.                             *)
nand_initialize ==
    /\ At("init")
    /\ IF initialized = bank
       THEN Goto("loop") /\ UNCHANGED mask
       ELSE Goto("reset") /\ mask' = mask \ {"NAND"}
    /\ UNCHANGED <<bank, iter, slot, ret, calls, file_buf, file, initialized,
                   irq_flag, cookie, irqOff, flag, alarm, handler, latched,
                   ctlVars, memVars>>

(* nand_reset: select the bank, RESET without an interrupt.                *)
nand_reset ==
    /\ At("reset")
    /\ ctlBank' = bank /\ ctlCmd' = "RESET"
    /\ Goto("resetwait")
    /\ UNCHANGED <<bank, iter, slot, ret, calls, file_buf, file, initialized,
                   irq_flag, cookie, irqVars, ctlPage, memVars>>

ResetWaitsForIrq ==
    /\ At("resetwait") /\ irq_flag
    /\ FlushAhb
    /\ Goto("enable")
    /\ UNCHANGED <<bank, iter, slot, ret, calls, file_buf, file, initialized,
                   irq_flag, cookie, irqVars, ctlVars, cache, dirty>>

(* __nand_wait polls the busy bit, then flushes.                           *)
ResetWait ==
    /\ At("resetwait") /\ ctlCmd = "none"
    /\ FlushAhb
    /\ Goto("enable")
    /\ UNCHANGED <<bank, iter, slot, ret, calls, file_buf, file, initialized,
                   irq_flag, cookie, irqVars, ctlVars, cache, dirty>>

EnableNand ==
    /\ At("enable")
    /\ mask' = mask \cup {"NAND"} /\ initialized' = bank
    /\ Goto("loop")
    /\ UNCHANGED <<bank, iter, slot, ret, calls, file_buf, file, irq_flag, cookie,
                   irqOff, flag, alarm, handler, latched, ctlVars, memVars>>

LoopOneMore ==
    /\ At("loop")
    /\ Goto(IF iter >= TOTAL_ITERATIONS THEN "close"
            ELSE IF slot <= PAGES_PER_ITERATION THEN "read" ELSE "write")
    /\ UNCHANGED <<bank, iter, slot, ret, calls, file_buf, file, initialized,
                   irq_flag, cookie, irqVars, ctlVars, memVars>>

(* The two loop conditions of _dump_slc_raw.                               *)
LoopTest ==
    /\ At("loop")
    /\ Goto(IF iter >= TOTAL_ITERATIONS THEN "close"
            ELSE IF slot < PAGES_PER_ITERATION THEN "read" ELSE "write")
    /\ UNCHANGED <<bank, iter, slot, ret, calls, file_buf, file, initialized,
                   irq_flag, cookie, irqVars, ctlVars, memVars>>

ReadPreKeepFlag ==
    /\ At("read")
    /\ ctlPage' = PageOf(iter, slot) /\ ctlCmd' = "READ_PRE"
    /\ Goto("inval")
    /\ UNCHANGED <<bank, iter, slot, ret, calls, file_buf, file, initialized,
                   irq_flag, cookie, irqVars, ctlBank, memVars>>

(* nand_read_page, first part: irq_flag = 0, the address, READ_PRE (which  *)
(* raises no interrupt).                                                   *)
ReadPre ==
    /\ At("read")
    /\ irq_flag' = FALSE
    /\ ctlPage' = PageOf(iter, slot) /\ ctlCmd' = "READ_PRE"
    /\ Goto("inval")
    /\ UNCHANGED <<bank, iter, slot, ret, calls, file_buf, file, initialized,
                   cookie, irqVars, ctlBank, memVars>>

NoInvalidate ==
    /\ At("inval")
    /\ Goto("prewait")
    /\ UNCHANGED <<bank, iter, slot, ret, calls, file_buf, file, initialized,
                   irq_flag, cookie, irqVars, ctlVars, memVars>>

Invalidate ==
    /\ At("inval")
    /\ dc_invalidaterange
    /\ Goto("prewait")
    /\ UNCHANGED <<bank, iter, slot, ret, calls, file_buf, file, initialized,
                   irq_flag, cookie, irqVars, ctlVars, ahb, mem>>

ReadPreWait ==
    /\ At("prewait") /\ ctlCmd = "none"
    /\ FlushAhb
    /\ Goto("post")
    /\ UNCHANGED <<bank, iter, slot, ret, calls, file_buf, file, initialized,
                   irq_flag, cookie, irqVars, ctlVars, cache, dirty>>

(* __nand_setup_dma and READ_POST with the interrupt requested.            *)
ReadPost ==
    /\ At("post")
    /\ ctlCmd' = "READ_POST"
    /\ Goto("wait")
    /\ UNCHANGED <<bank, iter, slot, ret, calls, file_buf, file, initialized,
                   irq_flag, cookie, irqVars, ctlBank, ctlPage, memVars>>

(* nand_wait: the loop test ...                                            *)
NandWaitTest ==
    /\ At("wait")
    /\ Goto(IF irq_flag THEN "correct" ELSE "kill")
    /\ UNCHANGED <<bank, iter, slot, ret, calls, file_buf, file, initialized,
                   irq_flag, cookie, irqVars, ctlVars, memVars>>

NoIrqKill ==
    /\ At("kill")
    /\ cookie' = irqOff
    /\ Goto("check")
    /\ UNCHANGED <<bank, iter, slot, ret, calls, file_buf, file, initialized,
                   irq_flag, irqVars, ctlVars, memVars>>

(* ... and irq_kill: an interrupt may still be taken between the two.      *)
NandWaitKill ==
    /\ At("kill")
    /\ cookie' = irqOff /\ irqOff' = TRUE
    /\ Goto("check")
    /\ UNCHANGED <<bank, iter, slot, ret, calls, file_buf, file, initialized,
                   irq_flag, mask, flag, alarm, handler, latched, ctlVars, memVars>>

LeaveWithoutRestore ==
    /\ At("check")
    /\ Goto(IF irq_flag THEN "correct" ELSE "wfi")
    /\ UNCHANGED <<bank, iter, slot, ret, calls, file_buf, file, initialized,
                   irq_flag, cookie, irqVars, ctlVars, memVars>>

(* The second test of irq_flag, with interrupts off.                       *)
NandWaitCheck ==
    /\ At("check")
    /\ Goto(IF irq_flag THEN "restore" ELSE "wfi")
    /\ UNCHANGED <<bank, iter, slot, ret, calls, file_buf, file, initialized,
                   irq_flag, cookie, irqVars, ctlVars, memVars>>

(* irq_wait: the core sleeps until an enabled source is pending, whether   *)
(* or not CPSR.I lets it be taken.                                         *)
irq_wait ==
    /\ At("wfi") /\ flag \cap mask # {}
    /\ Goto("restore")
    /\ UNCHANGED <<bank, iter, slot, ret, calls, file_buf, file, initialized,
                   irq_flag, cookie, irqVars, ctlVars, memVars>>

NandWaitRestore ==
    /\ At("restore")
    /\ irqOff' = cookie
    /\ Goto("wait")
    /\ UNCHANGED <<bank, iter, slot, ret, calls, file_buf, file, initialized,
                   irq_flag, cookie, mask, flag, alarm, handler, latched, ctlVars,
                   memVars>>

(* nand_correct reads both buffers and repairs page_buf in the cache.      *)
nand_correct ==
    /\ At("correct")
    /\ LET d == View("data")
           e == View("ecc")
           c == Corrected(d, e)
       IN /\ cache' = [b \in Bufs |-> IF b = "data" THEN c ELSE e]
          /\ dirty' = IF c = d THEN dirty ELSE dirty \cup {"data"}
    /\ Goto("copy")
    /\ UNCHANGED <<bank, iter, slot, ret, calls, file_buf, file, initialized,
                   irq_flag, cookie, irqVars, ctlVars, ahb, mem>>

(* The two memcpys into file_buf, and page++.                              *)
CopyPage ==
    /\ At("copy")
    /\ file_buf' = [file_buf EXCEPT
                      ![slot] = [data |-> View("data"), spare |-> View("ecc")]]
    /\ cache' = [b \in Bufs |-> View(b)]
    /\ slot' = slot + 1
    /\ Goto("loop")
    /\ UNCHANGED <<bank, iter, ret, calls, file, initialized, irq_flag, cookie,
                   irqVars, ctlVars, ahb, mem, dirty>>

WriteKeepsSlot ==
    /\ At("write")
    /\ file' = Append(file, file_buf)
    /\ iter' = iter + 1
    /\ Goto("loop")
    /\ UNCHANGED <<bank, slot, ret, calls, file_buf, initialized, irq_flag, cookie,
                   irqVars, ctlVars, memVars>>

(* f_write takes the whole batch, or fails (an error or a short count) and *)
(* the call ends.                                                          *)
WriteOk ==
    /\ At("write")
    /\ file' = Append(file, file_buf)
    /\ iter' = iter + 1 /\ slot' = 0
    /\ Goto("loop")
    /\ UNCHANGED <<bank, ret, calls, file_buf, initialized, irq_flag, cookie,
                   irqVars, ctlVars, memVars>>

WriteErrorIgnored ==
    /\ At("write")
    /\ iter' = iter + 1 /\ slot' = 0
    /\ Goto("loop")
    /\ UNCHANGED <<bank, ret, calls, file_buf, file, initialized, irq_flag,
                   cookie, irqVars, ctlVars, memVars>>

WriteFailed ==
    /\ At("write")
    /\ ret' = -4
    /\ Goto("idle")
    /\ UNCHANGED <<bank, iter, slot, calls, file_buf, file, initialized, irq_flag,
                   cookie, irqVars, ctlVars, memVars>>

Close(r) ==
    /\ At("close")
    /\ ret' = r
    /\ Goto("idle")
    /\ UNCHANGED <<bank, iter, slot, calls, file_buf, file, initialized, irq_flag,
                   cookie, irqVars, ctlVars, memVars>>

Main ==
    \/ Boot \/ Shutdown
    \/ \E b \in Banks \cup {BadBank} : DumpRefused(b)
    \/ \E b \in Banks : DumpOpened(b)
    \/ nand_initialize \/ nand_reset \/ ResetWait \/ EnableNand
    \/ LoopTest \/ ReadPre \/ Invalidate \/ ReadPreWait \/ ReadPost
    \/ NandWaitTest \/ NandWaitKill \/ NandWaitCheck \/ irq_wait \/ NandWaitRestore
    \/ nand_correct \/ CopyPage \/ WriteOk \/ WriteFailed
    \/ \E r \in {0, -5} : Close(r)

-----------------------------------------------------------------------------
(* Interrupt side: v_irq with irq_handler.                                 *)
IrqEnter ==
    /\ ~handler /\ ~irqOff /\ flag \cap mask # {}
    /\ handler' = TRUE /\ irqOff' = TRUE /\ latched' = flag \cap mask
    /\ UNCHANGED <<mainVars, initialized, irq_flag, cookie, mask, flag, alarm,
                   ctlVars, memVars>>

(* The handler goes through the sources in a fixed order: TIMER, NAND, the *)
(* rest.  NAND: quiet the controller, clear the flag, nand_irq.            *)
nand_irq ==
    /\ handler /\ "NAND" \in latched /\ Timer \notin latched
    /\ flag' = flag \ {"NAND"} /\ latched' = latched \ {"NAND"}
    /\ FlushAhb
    /\ irq_flag' = TRUE
    /\ UNCHANGED <<mainVars, initialized, cookie, irqOff, mask, alarm, handler,
                   ctlVars, cache, dirty>>

(* Every other source is only acknowledged; TIMER re-arms the alarm.       *)
IrqAck(s) ==
    /\ handler /\ s \in latched /\ (s = Timer \/ latched \cap {Timer, "NAND"} = {})
    /\ flag' = flag \ {s} /\ latched' = latched \ {s}
    /\ alarm' = IF s = Timer THEN TRUE ELSE alarm
    /\ UNCHANGED <<mainVars, initialized, irq_flag, cookie, irqOff, mask, handler,
                   ctlVars, memVars>>

IrqReturn ==
    /\ handler /\ latched = {}
    /\ handler' = FALSE /\ irqOff' = FALSE
    /\ UNCHANGED <<mainVars, initialized, irq_flag, cookie, mask, flag, alarm,
                   latched, ctlVars, memVars>>

Handler == nand_irq \/ (\E s \in OtherIrqs : IrqAck(s)) \/ IrqReturn

-----------------------------------------------------------------------------
(* Hardware (external): the NAND controller and the other sources.         *)
CtlPoll ==
    /\ ctlCmd \in {"RESET", "READ_PRE"}
    /\ ctlCmd' = "none"
    /\ UNCHANGED <<mainVars, initialized, irq_flag, cookie, irqVars, ctlBank,
                   ctlPage, memVars>>

CtlTransfer ==
    /\ ctlCmd = "READ_POST"
    /\ ctlCmd' = "none"
    /\ ahb' = [b \in Bufs |-> Raw(ctlBank, ctlPage)]
    /\ flag' = flag \cup {"NAND"}
    /\ UNCHANGED <<mainVars, initialized, irq_flag, cookie, irqOff, mask, alarm,
                   handler, latched, ctlBank, ctlPage, mem, cache, dirty>>

Controller == CtlPoll \/ CtlTransfer

OtherIrq(s) ==
    /\ s = Timer => alarm
    /\ alarm' = IF s = Timer THEN FALSE ELSE alarm
    /\ flag' = flag \cup {s}
    /\ UNCHANGED <<mainVars, initialized, irq_flag, cookie, irqOff, mask, handler,
                   latched, ctlVars, memVars>>

Hardware == \/ Controller
            \/ \E s \in OtherIrqs : OtherIrq(s)
            \/ \E b \in Bufs : Drain(b) \/ Evict(b)

Next == Main \/ IrqEnter \/ Handler \/ Hardware

Spec == Init /\ [][Next]_vars

(***************************************************************************)
(* Fairness.  The controller finishes what it is told to do and the        *)
(* handler runs to its end.  A pending interrupt that is not masked is     *)
(* taken even if the main thread opens the window only briefly, and the    *)
(* main thread gets the CPU again and again between interrupts (the alarm  *)
(* is re-armed 20 ms ahead): strong fairness.  Nothing is assumed of the   *)
(* other interrupt sources, so no wake-up by the timer is counted on.      *)
(***************************************************************************)
FairSpec == Spec /\ WF_vars(Controller) /\ WF_vars(Handler)
                 /\ SF_vars(IrqEnter) /\ SF_vars(Main)
-----------------------------------------------------------------------------
(* The pages below `slot' that file_buf holds are the corrected pages of   *)
(* the requested bank: no page is stale, torn between two reads, taken     *)
(* from the other bank or overwritten by a late cache write-back.          *)
BatchFaithful ==
    pc \in DumpPcs =>
        \A k \in Slots : k < slot =>
            file_buf[k] = PageImage(bank, PageOf(iter, k))

(* nand_wait never goes to sleep on a completion that has already been     *)
(* signalled: asleep in irq_wait, the transfer is still running or its     *)
(* interrupt is pending and enabled, so that it will wake the core.        *)
NoLostWakeup ==
    pc = "wfi" => \/ ctlCmd = "READ_POST"
                  \/ "NAND" \in flag \cap mask

(* The controller transfers only while no line of its two buffers is in    *)
(* the cache: a dirty line left there could be written back over the page  *)
(* just read, a clean one would hide it.                                   *)
DmaOwnsBuffers ==
    ctlCmd = "READ_POST" \/ (\E b \in Bufs : ahb[b] # None) =>
        \A b \in Bufs : cache[b] = None

(* irq_flag is up while the main thread waits only after the transfer has  *)
(* ended and its data has reached memory: a completion seen by nand_wait   *)
(* is the completion of this read, never of an earlier one.                *)
CompletionIsCurrent ==
    pc \in {"wait", "kill", "check", "wfi", "restore", "correct"} /\ irq_flag =>
        /\ ctlCmd = "none"
        /\ \A b \in Bufs : /\ ahb[b] = None
                           /\ mem[b] = Raw(bank, PageOf(iter, slot))

(* Interrupts are off on the main thread only between irq_kill and         *)
(* irq_restore of nand_wait: no path through the wait loop or the handler  *)
(* leaves them off for the rest of the dump.                               *)
IrqsRestored ==
    pc \in DumpPcs \ {"check", "wfi", "restore"} /\ ~handler => ~irqOff

(* _dump_slc_raw implements DumpSpec: right batches, in order, and 0 only  *)
(* for a complete image.                                                   *)
Dump == INSTANCE DumpSpec WITH active <- pc \in DumpPcs
DumpImplemented == Dump!Spec

(* Every dump ends and the program reaches its shutdown, whatever the      *)
(* other interrupt sources do or fail to do.                               *)
DumpEnds == <>(pc = "off")
=============================================================================
