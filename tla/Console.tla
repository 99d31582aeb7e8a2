------------------------------ MODULE Console ------------------------------
(***************************************************************************)
(* The main sequence of mini (main.c) with its console: gecko_printf hands *)
(* one character at a time to nswitch on the PowerPC through one cache     *)
(* line of memory (0x01200000) that both processors cache and neither      *)
(* snoops.  memory.c's cache and AHB operations are sequences of           *)
(* micro-operations, so that the other processor, evictions, the write     *)
(* buffer and, where they are not masked, interrupts come between any two. *)
(* A thread's `todo' is what is left of the procedures it is in.           *)
(***************************************************************************)
EXTENDS Integers, Sequences

CONSTANTS
    Readers,   \* what the PowerPC does: subset of {"prompt", "slow", "dead", "absent"}
    StrLen,    \* characters of a message
    MaxEvents  \* bound: interrupts, exceptions and evictions of the line from a cache

ASSUME ConsoleAssumption ==
    /\ Readers \subseteq {"prompt", "slow", "dead", "absent"}
    /\ StrLen \in Nat \ {0} /\ MaxEvents \in Nat

(* A line has a character, 0 for none, and the configuration byte.  A      *)
(* buffered write leaves the bytes it does not write at Same.              *)
Same == -1
Nothing == [chr |-> Same, cfg |-> Same]
Over(w, l) == [chr |-> IF w.chr = Same THEN l.chr ELSE w.chr,
               cfg |-> IF w.cfg = Same THEN l.cfg ELSE w.cfg]
NoLine == [st |-> "inv", chr |-> 0, cfg |-> 0]
Cached(l, st) == [st |-> st, chr |-> l.chr, cfg |-> l.cfg]
Line(c) == [chr |-> c.chr, cfg |-> c.cfg]
-----------------------------------------------------------------------------
(* The procedures of memory.c, as sequences of their micro-operations.     *)
ahb_flush_to == <<"kill", "gate", "open", "restore">>
ahb_flush_from == <<"kill", "ack", "gate", "open", "restore">>
dc_invalidaterange == <<"kill", "inval">> \o ahb_flush_to \o <<"restore">>
dc_flushrange == <<"kill", "clean", "drain">> \o ahb_flush_from \o <<"restore">>

(* gecko_printf's loop body: wait until the last character is taken, then  *)
(* write the next one.                                                     *)
PrintChar == dc_invalidaterange \o <<"test", "put">> \o dc_flushrange \o <<"next">>

(* Messages that follow one another under the same mask and caches are     *)
(* one; the data cache works from the moment the MMU is on.                *)
mem_initialize == <<"kill", "print", "dcinval", "drain", "cacheon", "print", "restore">>
mem_shutdown == <<"kill", "clean", "drain", "cacheoff", "dcinval", "restore">>

(* _main, from gecko_init to systemReset; the work in between is module    *)
(* NandDump's.                                                             *)
AfterConfig == <<"excinit">> \o mem_initialize \o <<"irqinit", "print", "irqdown", "print">>
               \o mem_shutdown \o <<"reset">>
Main == <<"config">> \o AfterConfig

(* irq_handler for the NAND interrupt; after an error nand_irq prints.     *)
Handler(error) ==
    (IF error THEN <<"print">> ELSE <<>>) \o ahb_flush_from \o ahb_flush_to \o <<"rfi">>

(* exc_handler: the registers and the code around the fault, then panic2,  *)
(* which blinks for ever.                                                  *)
exc_handler == <<"print", "panic">>
-----------------------------------------------------------------------------
VARIABLES
    reader,        \* which PowerPC
    mem,           \* the line in memory
    arm, dcache,   \* the line in the ARM's cache; whether its cache is on
    wbuf, abuf,    \* writes in the ARM's write buffer and on the bus
    rbuf,          \* what the bus has read ahead for the ARM
    ppc,           \* the line in the PowerPC's cache
    ppcPc, received,
    thread,        \* the running ARM thread: "main", "irq" or "exc"
    todo,          \* thread -> its remaining micro-operations
    cookies,       \* thread -> the cookies of the sections it is in
    left,          \* thread -> characters of its message still to write
    val,           \* thread -> _ahb_flush_to's val & mask
    cpsr,          \* subset of {"I", "F"}: what is masked
    ready,         \* which vectors may be taken: subset of {"exc", "irq"}
    enabled,       \* gecko_enabled
    sent, printed, \* histories: characters written, and shown on the screen
    giveups, traps, evicts

memVars == <<mem, arm, dcache, wbuf, abuf, rbuf>>
ppcVars == <<ppc, ppcPc, received, printed>>
armVars == <<thread, todo, cookies, left, val, cpsr, ready, enabled, sent>>
vars == <<reader, memVars, ppcVars, armVars, giveups, traps, evicts>>

Threads == {"main", "irq", "exc"}
Absent == reader = "absent"
Off == todo["main"] = <<>>   \* systemReset has stopped both processors and the bus

(* nswitch has written the configuration, flushed it and started mini.     *)
Init ==
    /\ reader \in Readers
    /\ mem = [chr |-> 0, cfg |-> 3]
    /\ arm = NoLine /\ dcache = FALSE /\ wbuf = Nothing /\ abuf = Nothing /\ rbuf = Nothing
    /\ ppc = NoLine /\ ppcPc = "config" /\ received = 0 /\ printed = <<>>
    /\ thread = "main" /\ todo = [t \in Threads |-> IF t = "main" THEN Main ELSE <<>>]
    /\ cookies = [t \in Threads |-> <<>>] /\ left = [t \in Threads |-> 0]
    /\ val = [t \in Threads |-> FALSE]
    /\ cpsr = {"I", "F"} /\ ready = {} /\ enabled = FALSE
    /\ sent = <<>> /\ giveups = 0 /\ traps = 0 /\ evicts = 0
-----------------------------------------------------------------------------
Op == IF todo[thread] = <<>> THEN "none" ELSE Head(todo[thread])
Goto(ops) == todo' = [todo EXCEPT ![thread] = ops]
Done == Goto(Tail(todo[thread]))

KeepMem == UNCHANGED memVars
KeepCpu == UNCHANGED <<thread, cpsr, ready, enabled>>
Frame == UNCHANGED <<reader, ppcVars, traps, evicts>>

(* What a load of the ARM that misses its cache returns.                   *)
Fetch == Over(wbuf, Over(abuf, IF rbuf # Nothing THEN rbuf ELSE mem))
Load == IF arm.st # "inv" THEN Line(arm) ELSE Fetch

(* irq_kill and irq_restore.                                               *)
irq_kill ==
    /\ Op = "kill"
    /\ cookies' = [cookies EXCEPT ![thread] = Append(@, cpsr \cap {"I", "F"})]
    /\ cpsr' = cpsr \cup {"I", "F"}
    /\ Done /\ KeepMem /\ Frame
    /\ UNCHANGED <<thread, ready, enabled, left, val, sent, giveups>>

AlwaysOn(cookie) == cpsr \ {"I", "F"}
Restored(cookie) == (cpsr \ {"I", "F"}) \cup cookie

irq_restore ==
    /\ Op = "restore"
    /\ LET n == Len(cookies[thread])
       IN /\ cpsr' = Restored(cookies[thread][n])
          /\ cookies' = [cookies EXCEPT ![thread] = SubSeq(@, 1, n - 1)]
    /\ Done /\ KeepMem /\ Frame
    /\ UNCHANGED <<thread, ready, enabled, left, val, sent, giveups>>

(* _ahb_flush_to(AHB_STARLET): nothing to do when the bit is set, ...      *)
FlushTest ==
    /\ Op = "gate"
    /\ val' = [val EXCEPT ![thread] = rbuf = Nothing]
    /\ Done /\ KeepMem /\ Frame /\ KeepCpu /\ UNCHANGED <<cookies, left, sent, giveups>>

(* ... else what was read ahead is dropped.                                *)
FlushTo ==
    /\ Op = "open"
    /\ rbuf' = IF val[thread] THEN rbuf ELSE Nothing
    /\ Done /\ Frame /\ KeepCpu
    /\ UNCHANGED <<mem, arm, dcache, wbuf, abuf, cookies, left, val, sent, giveups>>

(* ahb_flush_from: request, and poll for the acknowledgement.              *)
FlushFrom ==
    /\ Op = "ack" /\ abuf = Nothing
    /\ Done /\ KeepMem /\ Frame /\ KeepCpu /\ UNCHANGED <<cookies, left, val, sent, giveups>>

(* _drain_write_buffer.                                                    *)
Drain ==
    /\ Op = "drain"
    /\ abuf' = Over(wbuf, abuf) /\ wbuf' = Nothing
    /\ Done /\ Frame /\ KeepCpu
    /\ UNCHANGED <<mem, arm, dcache, rbuf, cookies, left, val, sent, giveups>>

(* _dc_inval_entries and _dc_inval drop the line, written or not.          *)
Invalidate ==
    /\ Op \in {"inval", "dcinval"}
    /\ arm' = NoLine
    /\ Done /\ Frame /\ KeepCpu
    /\ UNCHANGED <<mem, dcache, wbuf, abuf, rbuf, cookies, left, val, sent, giveups>>

NotWrittenBack ==
    /\ Op = "clean"
    /\ arm' = [arm EXCEPT !.st = IF @ = "dirty" THEN "clean" ELSE @]
    /\ Done /\ Frame /\ KeepCpu
    /\ UNCHANGED <<mem, dcache, wbuf, abuf, rbuf, cookies, left, val, sent, giveups>>

(* _dc_flush_entries and _dc_flush write a dirty line back and keep it.    *)
Clean ==
    /\ Op = "clean"
    /\ wbuf' = IF arm.st = "dirty" THEN Line(arm) ELSE wbuf
    /\ arm' = [arm EXCEPT !.st = IF @ = "dirty" THEN "clean" ELSE @]
    /\ Done /\ Frame /\ KeepCpu
    /\ UNCHANGED <<mem, dcache, abuf, rbuf, cookies, left, val, sent, giveups>>

(* set_cr in mem_initialize and mem_shutdown.                              *)
SetCache ==
    /\ Op \in {"cacheon", "cacheoff"}
    /\ dcache' = (Op = "cacheon")
    /\ Done /\ Frame /\ KeepCpu
    /\ UNCHANGED <<mem, arm, wbuf, abuf, rbuf, cookies, left, val, sent, giveups>>

(* write8: into the cached line, or past the cache (no write allocation).  *)
Store(w) ==
    IF arm.st = "inv" THEN wbuf' = Over(w, wbuf) /\ UNCHANGED arm
    ELSE arm' = Cached(Over(w, Line(arm)), "dirty") /\ UNCHANGED wbuf

(* gecko_init: with the magic in place the configuration is taken.         *)
gecko_init ==
    /\ Op = "config"
    /\ IF Absent THEN Done /\ UNCHANGED <<arm, wbuf, enabled>>
       ELSE /\ enabled' = (Load.cfg # 0)
            /\ Store([chr |-> Same, cfg |-> 0])
            /\ Goto(dc_flushrange \o Tail(todo[thread]))
    /\ Frame /\ UNCHANGED <<mem, dcache, abuf, rbuf, thread, cpsr, ready, cookies, left, val, sent,
                            giveups>>
-----------------------------------------------------------------------------
(* gecko_printf of a message of StrLen characters, ...                     *)
gecko_printf ==
    /\ Op = "print"
    /\ IF enabled THEN /\ Goto(PrintChar \o Tail(todo[thread]))
                       /\ left' = [left EXCEPT ![thread] = StrLen]
       ELSE Done /\ UNCHANGED left
    /\ KeepMem /\ Frame /\ KeepCpu /\ UNCHANGED <<cookies, val, sent, giveups>>

(* ... which reads the line, and either goes on, or invalidates and reads  *)
(* again, or gives up when the timer has passed the timeout.  A prompt     *)
(* reader takes a character before that.                                   *)
Fill == /\ arm' = IF arm.st = "inv" /\ dcache THEN Cached(Fetch, "clean") ELSE arm
        /\ rbuf' = IF arm.st = "inv" THEN Fetch ELSE rbuf
        /\ UNCHANGED <<mem, dcache, wbuf, abuf>>

WaitTaken ==
    /\ Op = "test" /\ Load.chr = 0
    /\ Done /\ Fill /\ Frame /\ KeepCpu /\ UNCHANGED <<cookies, left, val, sent, giveups>>

WaitAgain ==
    /\ Op = "test" /\ Load.chr # 0
    /\ Goto(dc_invalidaterange \o todo[thread])
    /\ Fill /\ Frame /\ KeepCpu /\ UNCHANGED <<cookies, left, val, sent, giveups>>

NeverGivesUp == Op = "test" /\ FALSE /\ UNCHANGED vars

WaitGiveUp ==
    /\ Op = "test" /\ Load.chr # 0 /\ reader # "prompt"
    /\ giveups' = giveups + 1
    /\ Done /\ Fill /\ Frame /\ KeepCpu /\ UNCHANGED <<cookies, left, val, sent>>

PutChar ==
    /\ Op = "put"
    /\ sent' = Append(sent, Len(sent) + 1)
    /\ Store([chr |-> Len(sent) + 1, cfg |-> Same])
    /\ left' = [left EXCEPT ![thread] = @ - 1]
    /\ Done /\ Frame /\ KeepCpu /\ UNCHANGED <<mem, dcache, abuf, rbuf, cookies, val, giveups>>

NextChar ==
    /\ Op = "next"
    /\ IF left[thread] > 0 THEN Goto(PrintChar \o Tail(todo[thread])) ELSE Done
    /\ KeepMem /\ Frame /\ KeepCpu /\ UNCHANGED <<cookies, left, val, sent, giveups>>
-----------------------------------------------------------------------------
(* irq_initialize, with the irq_enable calls after it.                     *)
irq_initialize ==
    /\ Op = "irqinit"
    /\ cpsr' = Restored({"F"}) /\ ready' = ready \cup {"irq"}
    /\ Done /\ KeepMem /\ Frame /\ UNCHANGED <<thread, enabled, cookies, left, val, sent, giveups>>

(* irq_shutdown: nothing is enabled, and irq_kill's cookie is dropped.     *)
irq_shutdown ==
    /\ Op = "irqdown"
    /\ ready' = ready \ {"irq"} /\ cpsr' = cpsr \cup {"I", "F"}
    /\ Done /\ KeepMem /\ Frame /\ UNCHANGED <<thread, enabled, cookies, left, val, sent, giveups>>

exception_initialize ==
    /\ Op = "excinit"
    /\ ready' = ready \cup {"exc"}
    /\ Done /\ KeepMem /\ Frame
    /\ UNCHANGED <<thread, cpsr, enabled, cookies, left, val, sent, giveups>>

(* An interrupt: v_irq and irq_handler.                                    *)
Interrupt(error) ==
    /\ thread = "main" /\ "I" \notin cpsr /\ "irq" \in ready /\ traps + evicts < MaxEvents
    /\ traps' = traps + 1 /\ thread' = "irq" /\ cpsr' = cpsr \cup {"I"}
    /\ todo' = [todo EXCEPT !["irq"] = Handler(error)]
    /\ KeepMem
    /\ UNCHANGED <<reader, ppcVars, evicts, cookies, left, val, ready, enabled, sent, giveups>>

(* A fault of the main thread or of the handler: v_undf and the others.    *)
Exception ==
    /\ thread # "exc" /\ ~Off /\ "exc" \in ready /\ traps + evicts < MaxEvents
    /\ traps' = traps + 1 /\ thread' = "exc" /\ cpsr' = cpsr \cup {"I"}
    /\ todo' = [todo EXCEPT !["exc"] = exc_handler]
    /\ KeepMem
    /\ UNCHANGED <<reader, ppcVars, evicts, cookies, left, val, ready, enabled, sent, giveups>>

IrqReturn ==
    /\ Op = "rfi"
    /\ thread' = "main" /\ cpsr' = cpsr \ {"I"}
    /\ Done /\ KeepMem /\ Frame /\ UNCHANGED <<ready, enabled, cookies, left, val, sent, giveups>>

(* systemReset: the whole machine stops, whatever is still in a buffer, on *)
(* the bus or in the PowerPC's hands; nobody waits for the last character. *)
systemReset ==
    /\ Op = "reset"
    /\ Done /\ KeepMem /\ Frame /\ KeepCpu /\ UNCHANGED <<cookies, left, val, sent, giveups>>
-----------------------------------------------------------------------------
(* The ARM's cache writes the line back, its write buffer and the bus      *)
(* drain, at any time.                                                     *)
ArmEvict ==
    /\ ~Off /\ arm.st # "inv" /\ traps + evicts < MaxEvents /\ evicts' = evicts + 1
    /\ wbuf' = IF arm.st = "dirty" THEN Line(arm) ELSE wbuf
    /\ arm' = NoLine
    /\ UNCHANGED <<reader, mem, dcache, abuf, rbuf, ppcVars, armVars, giveups, traps>>

BufferDrains ==
    /\ ~Off /\ wbuf # Nothing
    /\ abuf' = Over(wbuf, abuf) /\ wbuf' = Nothing
    /\ UNCHANGED <<reader, mem, arm, dcache, rbuf, ppcVars, armVars, giveups, traps, evicts>>

BusDrains ==
    /\ ~Off /\ abuf # Nothing
    /\ mem' = Over(abuf, mem) /\ abuf' = Nothing
    /\ rbuf' = IF rbuf = Nothing THEN Nothing ELSE Over(abuf, rbuf)
    /\ UNCHANGED <<reader, arm, dcache, wbuf, ppcVars, armVars, giveups, traps, evicts>>
-----------------------------------------------------------------------------
(* nswitch's main.  A load fills its cache, DCFlushRange writes a dirty    *)
(* line back and drops it, DCInvalidateRange drops it.                     *)
PpcLine == IF ppc.st = "inv" THEN mem ELSE Line(ppc)
PpcLoad == ppc' = IF ppc.st = "inv" THEN Cached(mem, "clean") ELSE ppc
PpcFrame == UNCHANGED <<reader, arm, dcache, wbuf, abuf, rbuf, armVars, giveups, traps, evicts>>
PpcRuns == reader \in {"prompt", "slow"}

PpcInvalidate ==
    /\ PpcRuns /\ ~Off /\ ppcPc \in {"config", "poll"}
    /\ ppc' = NoLine
    /\ ppcPc' = IF ppcPc = "config" THEN "config2" ELSE "poll2"
    /\ PpcFrame /\ UNCHANGED <<mem, received, printed>>

(* It waits until gecko_init has cleared the configuration, ...            *)
PpcConfig ==
    /\ ~Off /\ ppcPc = "config2"
    /\ PpcLoad
    /\ ppcPc' = IF PpcLine.cfg # 0 THEN "config" ELSE "poll"
    /\ PpcFrame /\ UNCHANGED <<mem, received, printed>>

(* ... then for a character, ...                                           *)
PpcPoll ==
    /\ ~Off /\ ppcPc = "poll2"
    /\ PpcLoad
    /\ ppcPc' = IF PpcLine.chr = 0 THEN "poll" ELSE "take"
    /\ PpcFrame /\ UNCHANGED <<mem, received, printed>>

(* ... which it reads a second time and then zeroes in its cache, ...      *)
PpcTake ==
    /\ ~Off /\ ppcPc = "take"
    /\ PpcLoad
    /\ received' = PpcLine.chr /\ ppcPc' = "zero"
    /\ PpcFrame /\ UNCHANGED <<mem, printed>>

NotZeroed ==
    /\ ~Off /\ ppcPc = "zero"
    /\ ppc' = Cached(PpcLine, "dirty")
    /\ ppcPc' = "flush"
    /\ PpcFrame /\ UNCHANGED <<mem, received, printed>>

PpcZero ==
    /\ ~Off /\ ppcPc = "zero"
    /\ ppc' = Cached([PpcLine EXCEPT !.chr = 0], "dirty")
    /\ ppcPc' = "flush"
    /\ PpcFrame /\ UNCHANGED <<mem, received, printed>>

(* ... writes the line back, the bytes it did not change too, and shows it.*)
PpcFlush ==
    /\ ~Off /\ ppcPc = "flush"
    /\ mem' = IF ppc.st = "dirty" THEN Line(ppc) ELSE mem
    /\ ppc' = NoLine /\ ppcPc' = "show"
    /\ PpcFrame /\ UNCHANGED <<received, printed>>

PpcShow ==
    /\ ~Off /\ ppcPc = "show"
    /\ printed' = IF received = 0 THEN printed ELSE Append(printed, received)
    /\ ppcPc' = "poll"
    /\ PpcFrame /\ UNCHANGED <<mem, ppc, received>>

PpcEvict ==
    /\ ~Off /\ ppc.st # "inv" /\ traps + evicts < MaxEvents /\ evicts' = evicts + 1
    /\ mem' = IF ppc.st = "dirty" THEN Line(ppc) ELSE mem
    /\ ppc' = NoLine
    /\ UNCHANGED <<reader, arm, dcache, wbuf, abuf, rbuf, ppcPc, received, printed, armVars,
                   giveups, traps>>

ArmStep ==
    \/ irq_kill \/ irq_restore \/ FlushTest \/ FlushTo \/ FlushFrom \/ Drain \/ Invalidate \/ Clean
    \/ SetCache \/ gecko_init \/ gecko_printf \/ WaitTaken \/ WaitAgain \/ PutChar \/ NextChar
    \/ exception_initialize \/ irq_initialize \/ irq_shutdown \/ IrqReturn \/ systemReset
PpcStep ==
    PpcInvalidate \/ PpcConfig \/ PpcPoll \/ PpcTake \/ PpcZero \/ PpcFlush \/ PpcShow
Hardware == ArmEvict \/ BufferDrains \/ BusDrains \/ PpcEvict
Next ==
    \/ ArmStep \/ WaitGiveUp \/ PpcStep \/ Hardware
    \/ Exception \/ \E error \in BOOLEAN : Interrupt(error)

Spec == Init /\ [][Next]_vars
FairSpec ==
    /\ Spec /\ WF_vars(ArmStep) /\ SF_vars(WaitGiveUp)
    /\ WF_vars(PpcStep) /\ WF_vars(BusDrains) /\ WF_vars(BufferDrains)
-----------------------------------------------------------------------------
(* What is on the screen are characters that were sent, in their order and *)
(* none of them twice, whoever gives up, evicts or interrupts whom.        *)
InOrder ==
    /\ \A i \in 1 .. Len(printed) : printed[i] \in 1 .. Len(sent)
    /\ \A i \in 1 .. Len(printed) - 1 : printed[i] < printed[i + 1]

(* While nobody has given up and no interrupt handler has come between, at *)
(* most one character is on its way: none is written before the one before *)
(* it has been taken off the line, and what is taken has no gaps.          *)
Taken == printed \o (IF ppcPc \in {"zero", "flush", "show"} THEN <<received>> ELSE <<>>)
NoneLostIfPrompt ==
    giveups = 0 /\ traps = 0 =>
        Len(sent) - Len(Taken) \in {0, 1} /\ \A i \in 1 .. Len(Taken) : Taken[i] = i

(* Interrupts are masked exactly while the main thread is in a section (or *)
(* before irq_initialize and after irq_shutdown): a section inside another *)
(* does not open it, the last one does, and so does a handler's.           *)
MaskFollowsSections ==
    /\ thread = "main" => ("I" \in cpsr <=> cookies["main"] # <<>> \/ "irq" \notin ready)
    /\ thread = "irq" => "I" \in cpsr /\ cookies["main"] = <<>>
    /\ thread = "exc" => "I" \in cpsr

(* Whatever the PowerPC does, the main sequence comes to its reset, or an  *)
(* exception to panic2.  The reset does not wait for the last character;   *)
(* after panic2 the machine goes on, and a prompt reader shows the message *)
(* of the exception to its end.                                            *)
Panicked == todo["exc"] = <<"panic">>
LastShown == printed # <<>> /\ printed[Len(printed)] = Len(sent)
EndReached == <>(Off \/ (Panicked /\ (reader = "prompt" => LastShown)))
=============================================================================
