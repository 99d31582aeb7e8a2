--------------------------- MODULE NandDumpProofs ---------------------------
(***************************************************************************)
(* Proofs about NandDump for every number of pages and banks, every set of *)
(* damaged pages and every set of other interrupt sources.                 *)
(***************************************************************************)
EXTENDS NandDump, SequenceTheorems, TLAPS

WaitPcs == {"wait", "kill", "check", "wfi", "restore"}
PagePcs == {"read", "inval", "prewait", "post", "correct", "copy"} \cup WaitPcs
SetupPcs == {"reset", "resetwait", "enable"}

(* The page that the current read is about.                                *)
Wanted == Raw(bank, PageOf(iter, slot))

(* Loop counters and the file.                                             *)
LoopInv ==
    /\ pc \in DumpPcs => /\ bank \in Banks
                         /\ Len(file) = iter
                         /\ \A n \in 1 .. Len(file) : file[n] = Batch(bank, n - 1)
    /\ pc \in PagePcs => iter < TOTAL_ITERATIONS /\ slot < PAGES_PER_ITERATION
    /\ pc = "write" => iter < TOTAL_ITERATIONS /\ slot = PAGES_PER_ITERATION
    /\ pc = "close" => iter = TOTAL_ITERATIONS

(* The controller is set up for the bank nand.c believes it is set up for. *)
BankInv ==
    /\ pc \notin SetupPcs \cup {"boot", "off"} /\ initialized # NoBank =>
           ctlBank = initialized /\ "NAND" \in mask
    /\ pc \in {"resetwait", "enable"} => ctlBank = bank
    /\ pc = "boot" => initialized = NoBank
    /\ pc \in PagePcs \cup {"loop", "write", "close"} => initialized = bank

(* When the controller runs what, and when its interrupt is pending.       *)
CommandInv ==
    /\ ctlCmd = "RESET" => pc = "resetwait"
    /\ ctlCmd = "READ_PRE" => pc \in {"inval", "prewait"}
    /\ ctlCmd = "READ_POST" => pc \in WaitPcs /\ ~irq_flag /\ "NAND" \notin flag
    /\ "NAND" \in flag /\ pc # "boot" => pc \in WaitPcs /\ ~irq_flag
    /\ pc \in {"inval", "prewait", "post"} => ~irq_flag
    /\ pc \in WaitPcs /\ ~irq_flag => ctlCmd = "READ_POST" \/ "NAND" \in flag
    /\ pc \in {"inval", "prewait", "post"} \cup WaitPcs =>
           ctlPage = PageOf(iter, slot)
    /\ pc = "correct" => irq_flag

(* Who may run: the handler is never active while nand_wait has the        *)
(* interrupts off.                                                         *)
CpuInv ==
    /\ latched # {} => handler
    /\ latched \subseteq flag
    /\ handler => irqOff /\ pc \notin {"check", "wfi", "restore", "boot", "off"}
    /\ pc \in {"check", "wfi", "restore"} => irqOff /\ ~cookie
    /\ pc = "wfi" => ~irq_flag
    /\ pc \in {"boot", "off"} => irqOff
    /\ pc = "idle" /\ ~handler => ~irqOff

(* Where the page is on its way from the controller to the main thread.    *)
DataInv ==
    /\ pc \in {"prewait", "post", "correct"} \cup WaitPcs =>
           \A b \in Bufs : cache[b] = None
    /\ pc \notin WaitPcs => \A b \in Bufs : ahb[b] = None
    /\ ctlCmd = "READ_POST" => \A b \in Bufs : ahb[b] = None
    /\ pc \in WaitPcs /\ ctlCmd = "none" => \A b \in Bufs :
           ahb[b] = Wanted \/ (ahb[b] = None /\ mem[b] = Wanted)
    /\ pc \in WaitPcs /\ irq_flag => \A b \in Bufs : ahb[b] = None
    /\ pc = "correct" => \A b \in Bufs : mem[b] = Wanted
    /\ \A b \in Bufs : cache[b] # None /\ b \notin dirty => mem[b] = cache[b]
    /\ pc = "copy" => /\ View("data") = Corrected(Wanted, Wanted)
                      /\ View("ecc") = Wanted

IInv == /\ TypeOK /\ LoopInv /\ BankInv /\ CommandInv /\ CpuInv /\ DataInv
        /\ BatchFaithful /\ IrqsRestored

-----------------------------------------------------------------------------
(* The page numbers of a batch are naturals, and there are finitely many   *)
(* batches (dump.c's loop bounds).                                         *)
LEMMA PageNumbers ==
    /\ TOTAL_ITERATIONS \in Nat
    /\ \A i, k \in Nat : PageOf(i, k) \in Nat
BY PageAssumption DEF TOTAL_ITERATIONS, PageOf

(* What the controller transfers and what nand_correct leaves behind has   *)
(* the type of a page.                                                     *)
LEMMA ContentTypes ==
    /\ \A b \in Banks \cup {NoBank}, p \in Nat : Raw(b, p) \in Content
    /\ \A d, e \in Content : Corrected(d, e) \in Content
    /\ Blank \in Content
    /\ None \notin Content
BY MarkAssumption DEF Raw, Corrected, Content, Blank

(* Every loadable value of a buffer is a page.                             *)
LEMMA ViewType == TypeOK => \A b \in Bufs : View(b) \in Content
BY DEF TypeOK, HwTypes, View

(* The page of the current read has the type of a page, so that it is not  *)
(* taken for an empty write buffer or a missing cache line.                *)
LEMMA WantedType ==
    ASSUME IInv
    PROVE  /\ PageOf(iter, slot) \in Nat
           /\ Wanted \in Content /\ Wanted # None
           /\ Corrected(Wanted, Wanted) # None
<1>1. iter \in Nat /\ slot \in Nat /\ bank \in Banks \cup {NoBank}
  BY PageAssumption, PageNumbers DEF IInv, TypeOK, MainTypes
<1>2. PageOf(iter, slot) \in Nat
  BY <1>1, PageNumbers
<1>3. QED
  BY <1>1, <1>2, ContentTypes DEF Wanted

(* A file whose i batches are right, and the right next batch appended.    *)
LEMMA AppendGrows ==
    ASSUME NEW S, NEW f \in Seq(S), NEW e \in S, NEW b, NEW i \in Nat,
           Len(f) = i, \A n \in 1 .. i : f[n] = Batch(b, n - 1), e = Batch(b, i)
    PROVE  /\ Len(Append(f, e)) = i + 1
           /\ \A n \in 1 .. i + 1 : Append(f, e)[n] = Batch(b, n - 1)
<1>1. /\ Len(Append(f, e)) = i + 1 /\ Append(f, e)[i + 1] = e
      /\ \A n \in 1 .. i : Append(f, e)[n] = f[n]
  BY AppendProperties
<1>2. QED
  BY <1>1

(* A successful f_write adds the right batch to a right file.              *)
LEMMA WriteAppends ==
    ASSUME IInv, WriteOk
    PROVE  /\ Len(file') = iter'
           /\ \A n \in 1 .. Len(file') : file'[n] = Batch(bank', n - 1)
           /\ file_buf = Batch(bank, iter)
<1>1. pc = "write" /\ pc \in DumpPcs
  BY DEF WriteOk, At, DumpPcs
<1>2. file_buf = Batch(bank, iter)
  BY <1>1 DEF IInv, BatchFaithful, LoopInv, TypeOK, MainTypes, Batch, Slots
<1>3. file \in Seq([Slots -> PageBytes]) /\ file_buf \in [Slots -> PageBytes]
  BY DEF IInv, TypeOK, MainTypes
<1>4. Len(file) = iter /\ iter \in Nat
  BY <1>1 DEF IInv, TypeOK, MainTypes, LoopInv
<1>5. \A n \in 1 .. iter : file[n] = Batch(bank, n - 1)
  BY <1>1, <1>4 DEF IInv, LoopInv
<1>6. /\ Len(Append(file, file_buf)) = iter + 1
      /\ \A n \in 1 .. iter + 1 : Append(file, file_buf)[n] = Batch(bank, n - 1)
  BY <1>2, <1>3, <1>4, <1>5, AppendGrows
<1>7. file' = Append(file, file_buf) /\ iter' = iter + 1 /\ bank' = bank
  BY DEF WriteOk
<1>8. QED
  BY <1>2, <1>6, <1>7

(* The start state of main.c satisfies the invariant.                      *)
LEMMA InitInv == Init => IInv
<1> SUFFICES ASSUME Init PROVE IInv
  OBVIOUS
<1> USE DEF Init
<1>1. TypeOK
  <2>1. MainTypes
    BY PageAssumption, PageNumbers, ContentTypes DEF MainTypes, PageBytes, Returns
  <2>2. IrqTypes
    BY DEF IrqTypes, Sources
  <2>3. HwTypes
    BY ContentTypes DEF HwTypes
  <2>4. QED
    BY <2>1, <2>2, <2>3 DEF TypeOK
<1>2. LoopInv /\ BankInv /\ CommandInv
  BY DEF LoopInv, BankInv, CommandInv, DumpPcs, PagePcs, WaitPcs, SetupPcs
<1>3. CpuInv /\ IrqsRestored /\ BatchFaithful
  BY DEF CpuInv, DumpPcs, IrqsRestored, BatchFaithful
<1>4. DataInv
  BY DEF DataInv, WaitPcs
<1>5. QED
  BY <1>1, <1>2, <1>3, <1>4 DEF IInv

(* Every step preserves the types of the main thread's variables.          *)
LEMMA MainTypeStep ==
    ASSUME IInv, [Next]_vars
    PROVE  MainTypes'
<1> USE PageAssumption, PageNumbers, ViewType
<1> USE DEF IInv, At, Goto, vars, mainVars, irqVars, ctlVars, memVars
<1>1. CASE Boot
  BY <1>1 DEF Boot, TypeOK, MainTypes, DumpPcs, Returns
<1>2. CASE Shutdown
  BY <1>2 DEF Shutdown, TypeOK, MainTypes, DumpPcs, Returns
<1>3. ASSUME NEW b \in Banks \cup {BadBank}, DumpRefused(b)
      PROVE  MainTypes'
  BY <1>3 DEF DumpRefused, TypeOK, MainTypes, DumpPcs, Returns
<1>4. ASSUME NEW b \in Banks, DumpOpened(b)
      PROVE  MainTypes'
  BY <1>4 DEF DumpOpened, TypeOK, MainTypes, DumpPcs, Returns
<1>5. CASE nand_initialize
  BY <1>5 DEF nand_initialize, TypeOK, MainTypes, DumpPcs, Returns
<1>6. CASE nand_reset
  BY <1>6 DEF nand_reset, TypeOK, MainTypes, DumpPcs, Returns
<1>7. CASE ResetWait
  BY <1>7 DEF ResetWait, TypeOK, MainTypes, DumpPcs, Returns
<1>8. CASE EnableNand
  BY <1>8 DEF EnableNand, TypeOK, MainTypes, DumpPcs, Returns
<1>9. CASE LoopTest
  BY <1>9 DEF LoopTest, TypeOK, MainTypes, DumpPcs, Returns
<1>10. CASE ReadPre
  BY <1>10 DEF ReadPre, TypeOK, MainTypes, DumpPcs, Returns
<1>11. CASE Invalidate
  BY <1>11 DEF Invalidate, TypeOK, MainTypes, DumpPcs, Returns
<1>12. CASE ReadPreWait
  BY <1>12 DEF ReadPreWait, TypeOK, MainTypes, DumpPcs, Returns
<1>13. CASE ReadPost
  BY <1>13 DEF ReadPost, TypeOK, MainTypes, DumpPcs, Returns
<1>14. CASE NandWaitTest
  BY <1>14 DEF NandWaitTest, TypeOK, MainTypes, DumpPcs, Returns
<1>15. CASE NandWaitKill
  BY <1>15 DEF NandWaitKill, TypeOK, MainTypes, DumpPcs, Returns
<1>16. CASE NandWaitCheck
  BY <1>16 DEF NandWaitCheck, TypeOK, MainTypes, DumpPcs, Returns
<1>17. CASE irq_wait
  BY <1>17 DEF irq_wait, TypeOK, MainTypes, DumpPcs, Returns
<1>18. CASE NandWaitRestore
  BY <1>18 DEF NandWaitRestore, TypeOK, MainTypes, DumpPcs, Returns
<1>19. CASE nand_correct
  BY <1>19 DEF nand_correct, TypeOK, MainTypes, DumpPcs, Returns
<1>20. CASE CopyPage
  <2>1. View("data") \in Content /\ View("ecc") \in Content
    BY DEF Bufs
  <2>2. file_buf' \in [Slots -> PageBytes]
    BY <1>20, <2>1 DEF CopyPage, TypeOK, MainTypes, PageBytes
  <2>3. slot' \in 0 .. PAGES_PER_ITERATION
    BY <1>20 DEF CopyPage, LoopInv, PagePcs, TypeOK, MainTypes
  <2>4. QED
    BY <1>20, <2>2, <2>3 DEF CopyPage, TypeOK, MainTypes, DumpPcs
<1>21. CASE WriteOk
  <2>1. file' \in Seq([Slots -> PageBytes])
    BY <1>21 DEF WriteOk, TypeOK, MainTypes
  <2>2. iter' \in 0 .. TOTAL_ITERATIONS /\ slot' \in 0 .. PAGES_PER_ITERATION
    BY <1>21 DEF WriteOk, LoopInv, TypeOK, MainTypes
  <2>3. QED
    BY <1>21, <2>1, <2>2 DEF WriteOk, TypeOK, MainTypes, DumpPcs
<1>22. CASE WriteFailed
  BY <1>22 DEF WriteFailed, TypeOK, MainTypes, DumpPcs, Returns
<1>23. ASSUME NEW r \in {0, -5}, Close(r)
      PROVE  MainTypes'
  BY <1>23 DEF Close, TypeOK, MainTypes, DumpPcs, Returns
<1>24. CASE IrqEnter
  BY <1>24 DEF IrqEnter, TypeOK, MainTypes, DumpPcs, Returns
<1>25. CASE nand_irq
  BY <1>25 DEF nand_irq, TypeOK, MainTypes, DumpPcs, Returns
<1>26. ASSUME NEW s \in OtherIrqs, IrqAck(s)
      PROVE  MainTypes'
  BY <1>26 DEF IrqAck, TypeOK, MainTypes, DumpPcs, Returns
<1>27. CASE IrqReturn
  BY <1>27 DEF IrqReturn, TypeOK, MainTypes, DumpPcs, Returns
<1>28. CASE CtlPoll
  BY <1>28 DEF CtlPoll, TypeOK, MainTypes, DumpPcs, Returns
<1>29. CASE CtlTransfer
  BY <1>29 DEF CtlTransfer, TypeOK, MainTypes, DumpPcs, Returns
<1>30. ASSUME NEW s \in OtherIrqs, OtherIrq(s)
      PROVE  MainTypes'
  BY <1>30 DEF OtherIrq, TypeOK, MainTypes, DumpPcs, Returns
<1>31. ASSUME NEW d \in Bufs, Drain(d)
      PROVE  MainTypes'
  BY <1>31 DEF Drain, TypeOK, MainTypes, DumpPcs, Returns
<1>32. ASSUME NEW d \in Bufs, Evict(d)
      PROVE  MainTypes'
  BY <1>32 DEF Evict, TypeOK, MainTypes, DumpPcs, Returns
<1>33. CASE UNCHANGED vars
  BY <1>33 DEF TypeOK, MainTypes, DumpPcs, Returns
<1>34. QED
  BY <1>1, <1>2, <1>3, <1>4, <1>5, <1>6, <1>7, <1>8, <1>9, <1>10, <1>11,
     <1>12, <1>13, <1>14, <1>15, <1>16, <1>17, <1>18, <1>19, <1>20, <1>21,
     <1>22, <1>23, <1>24, <1>25, <1>26, <1>27, <1>28, <1>29, <1>30, <1>31,
     <1>32, <1>33
     DEF Next, Main, Handler, Hardware, Controller

(* Every step preserves the types of the interrupt state.                  *)
LEMMA IrqTypeStep ==
    ASSUME IInv, [Next]_vars
    PROVE  IrqTypes'
<1> USE DEF IInv, At, Goto, vars, mainVars, irqVars, ctlVars, memVars
<1>1. CASE Boot
  BY <1>1 DEF Boot, TypeOK, IrqTypes, Sources
<1>2. CASE Shutdown
  BY <1>2 DEF Shutdown, TypeOK, IrqTypes, Sources
<1>3. ASSUME NEW b \in Banks \cup {BadBank}, DumpRefused(b)
      PROVE  IrqTypes'
  BY <1>3 DEF DumpRefused, TypeOK, IrqTypes, Sources
<1>4. ASSUME NEW b \in Banks, DumpOpened(b)
      PROVE  IrqTypes'
  BY <1>4 DEF DumpOpened, TypeOK, IrqTypes, Sources
<1>5. CASE nand_initialize
  BY <1>5 DEF nand_initialize, TypeOK, IrqTypes, Sources
<1>6. CASE nand_reset
  BY <1>6 DEF nand_reset, TypeOK, IrqTypes, Sources
<1>7. CASE ResetWait
  BY <1>7 DEF ResetWait, TypeOK, IrqTypes, Sources
<1>8. CASE EnableNand
  BY <1>8 DEF EnableNand, TypeOK, IrqTypes, Sources
<1>9. CASE LoopTest
  BY <1>9 DEF LoopTest, TypeOK, IrqTypes, Sources
<1>10. CASE ReadPre
  BY <1>10 DEF ReadPre, TypeOK, IrqTypes, Sources
<1>11. CASE Invalidate
  BY <1>11 DEF Invalidate, TypeOK, IrqTypes, Sources
<1>12. CASE ReadPreWait
  BY <1>12 DEF ReadPreWait, TypeOK, IrqTypes, Sources
<1>13. CASE ReadPost
  BY <1>13 DEF ReadPost, TypeOK, IrqTypes, Sources
<1>14. CASE NandWaitTest
  BY <1>14 DEF NandWaitTest, TypeOK, IrqTypes, Sources
<1>15. CASE NandWaitKill
  BY <1>15 DEF NandWaitKill, TypeOK, IrqTypes, Sources
<1>16. CASE NandWaitCheck
  BY <1>16 DEF NandWaitCheck, TypeOK, IrqTypes, Sources
<1>17. CASE irq_wait
  BY <1>17 DEF irq_wait, TypeOK, IrqTypes, Sources
<1>18. CASE NandWaitRestore
  BY <1>18 DEF NandWaitRestore, TypeOK, IrqTypes, Sources
<1>19. CASE nand_correct
  BY <1>19 DEF nand_correct, TypeOK, IrqTypes, Sources
<1>20. CASE CopyPage
  BY <1>20 DEF CopyPage, TypeOK, IrqTypes, Sources
<1>21. CASE WriteOk
  BY <1>21 DEF WriteOk, TypeOK, IrqTypes, Sources
<1>22. CASE WriteFailed
  BY <1>22 DEF WriteFailed, TypeOK, IrqTypes, Sources
<1>23. ASSUME NEW r \in {0, -5}, Close(r)
      PROVE  IrqTypes'
  BY <1>23 DEF Close, TypeOK, IrqTypes, Sources
<1>24. CASE IrqEnter
  BY <1>24 DEF IrqEnter, TypeOK, IrqTypes, Sources
<1>25. CASE nand_irq
  BY <1>25 DEF nand_irq, TypeOK, IrqTypes, Sources
<1>26. ASSUME NEW s \in OtherIrqs, IrqAck(s)
      PROVE  IrqTypes'
  BY <1>26 DEF IrqAck, TypeOK, IrqTypes, Sources
<1>27. CASE IrqReturn
  BY <1>27 DEF IrqReturn, TypeOK, IrqTypes, Sources
<1>28. CASE CtlPoll
  BY <1>28 DEF CtlPoll, TypeOK, IrqTypes, Sources
<1>29. CASE CtlTransfer
  BY <1>29 DEF CtlTransfer, TypeOK, IrqTypes, Sources
<1>30. ASSUME NEW s \in OtherIrqs, OtherIrq(s)
      PROVE  IrqTypes'
  BY <1>30 DEF OtherIrq, TypeOK, IrqTypes, Sources
<1>31. ASSUME NEW d \in Bufs, Drain(d)
      PROVE  IrqTypes'
  BY <1>31 DEF Drain, TypeOK, IrqTypes, Sources
<1>32. ASSUME NEW d \in Bufs, Evict(d)
      PROVE  IrqTypes'
  BY <1>32 DEF Evict, TypeOK, IrqTypes, Sources
<1>33. CASE UNCHANGED vars
  BY <1>33 DEF TypeOK, IrqTypes, Sources
<1>34. QED
  BY <1>1, <1>2, <1>3, <1>4, <1>5, <1>6, <1>7, <1>8, <1>9, <1>10, <1>11,
     <1>12, <1>13, <1>14, <1>15, <1>16, <1>17, <1>18, <1>19, <1>20, <1>21,
     <1>22, <1>23, <1>24, <1>25, <1>26, <1>27, <1>28, <1>29, <1>30, <1>31,
     <1>32, <1>33
     DEF Next, Main, Handler, Hardware, Controller

(* Every step preserves the types of controller, buffers and cache.        *)
LEMMA HwTypeStep ==
    ASSUME IInv, [Next]_vars
    PROVE  HwTypes'
<1> USE PageNumbers, ContentTypes, ViewType
<1> USE DEF IInv, At, Goto, vars, mainVars, irqVars, ctlVars, memVars
<1>1. CASE Boot
  BY <1>1 DEF Boot, TypeOK, HwTypes, Bufs
<1>2. CASE Shutdown
  BY <1>2 DEF Shutdown, TypeOK, HwTypes, Bufs
<1>3. ASSUME NEW b \in Banks \cup {BadBank}, DumpRefused(b)
      PROVE  HwTypes'
  BY <1>3 DEF DumpRefused, TypeOK, HwTypes, Bufs
<1>4. ASSUME NEW b \in Banks, DumpOpened(b)
      PROVE  HwTypes'
  BY <1>4 DEF DumpOpened, TypeOK, HwTypes, Bufs
<1>5. CASE nand_initialize
  BY <1>5 DEF nand_initialize, TypeOK, HwTypes, Bufs
<1>6. CASE nand_reset
  BY <1>6 DEF nand_reset, TypeOK, MainTypes, HwTypes
<1>7. CASE ResetWait
  BY <1>7 DEF ResetWait, FlushAhb, TypeOK, HwTypes, Bufs
<1>8. CASE EnableNand
  BY <1>8 DEF EnableNand, TypeOK, HwTypes, Bufs
<1>9. CASE LoopTest
  BY <1>9 DEF LoopTest, TypeOK, HwTypes, Bufs
<1>10. CASE ReadPre
  BY <1>10, WantedType DEF ReadPre, TypeOK, HwTypes
<1>11. CASE Invalidate
  BY <1>11 DEF Invalidate, dc_invalidaterange, TypeOK, HwTypes, Bufs
<1>12. CASE ReadPreWait
  BY <1>12 DEF ReadPreWait, FlushAhb, TypeOK, HwTypes, Bufs
<1>13. CASE ReadPost
  BY <1>13 DEF ReadPost, TypeOK, HwTypes, Bufs
<1>14. CASE NandWaitTest
  BY <1>14 DEF NandWaitTest, TypeOK, HwTypes, Bufs
<1>15. CASE NandWaitKill
  BY <1>15 DEF NandWaitKill, TypeOK, HwTypes, Bufs
<1>16. CASE NandWaitCheck
  BY <1>16 DEF NandWaitCheck, TypeOK, HwTypes, Bufs
<1>17. CASE irq_wait
  BY <1>17 DEF irq_wait, TypeOK, HwTypes, Bufs
<1>18. CASE NandWaitRestore
  BY <1>18 DEF NandWaitRestore, TypeOK, HwTypes, Bufs
<1>19. CASE nand_correct
  BY <1>19 DEF nand_correct, TypeOK, HwTypes, Bufs
<1>20. CASE CopyPage
  BY <1>20 DEF CopyPage, TypeOK, HwTypes, Bufs
<1>21. CASE WriteOk
  BY <1>21 DEF WriteOk, TypeOK, HwTypes, Bufs
<1>22. CASE WriteFailed
  BY <1>22 DEF WriteFailed, TypeOK, HwTypes, Bufs
<1>23. ASSUME NEW r \in {0, -5}, Close(r)
      PROVE  HwTypes'
  BY <1>23 DEF Close, TypeOK, HwTypes, Bufs
<1>24. CASE IrqEnter
  BY <1>24 DEF IrqEnter, TypeOK, HwTypes, Bufs
<1>25. CASE nand_irq
  BY <1>25 DEF nand_irq, FlushAhb, TypeOK, HwTypes, Bufs
<1>26. ASSUME NEW s \in OtherIrqs, IrqAck(s)
      PROVE  HwTypes'
  BY <1>26 DEF IrqAck, TypeOK, HwTypes, Bufs
<1>27. CASE IrqReturn
  BY <1>27 DEF IrqReturn, TypeOK, HwTypes, Bufs
<1>28. CASE CtlPoll
  BY <1>28 DEF CtlPoll, TypeOK, HwTypes, Bufs
<1>29. CASE CtlTransfer
  BY <1>29 DEF CtlTransfer, TypeOK, HwTypes, Bufs
<1>30. ASSUME NEW s \in OtherIrqs, OtherIrq(s)
      PROVE  HwTypes'
  BY <1>30 DEF OtherIrq, TypeOK, HwTypes, Bufs
<1>31. ASSUME NEW d \in Bufs, Drain(d)
      PROVE  HwTypes'
  BY <1>31 DEF Drain, TypeOK, HwTypes, Bufs
<1>32. ASSUME NEW d \in Bufs, Evict(d)
      PROVE  HwTypes'
  BY <1>32 DEF Evict, TypeOK, HwTypes, Bufs
<1>33. CASE UNCHANGED vars
  BY <1>33 DEF TypeOK, HwTypes, Bufs
<1>34. QED
  BY <1>1, <1>2, <1>3, <1>4, <1>5, <1>6, <1>7, <1>8, <1>9, <1>10, <1>11,
     <1>12, <1>13, <1>14, <1>15, <1>16, <1>17, <1>18, <1>19, <1>20, <1>21,
     <1>22, <1>23, <1>24, <1>25, <1>26, <1>27, <1>28, <1>29, <1>30, <1>31,
     <1>32, <1>33
     DEF Next, Main, Handler, Hardware, Controller

(* Every step preserves the loop counters' relation to the file.           *)
LEMMA LoopStep ==
    ASSUME IInv, [Next]_vars
    PROVE  LoopInv'
<1> USE PageAssumption, PageNumbers
<1> USE DEF IInv, At, Goto, vars, mainVars, irqVars, ctlVars, memVars
<1>1. CASE Boot
  BY <1>1 DEF Boot, TypeOK, MainTypes, LoopInv, DumpPcs, PagePcs, WaitPcs
<1>2. CASE Shutdown
  BY <1>2 DEF Shutdown, TypeOK, MainTypes, LoopInv, DumpPcs, PagePcs, WaitPcs
<1>3. ASSUME NEW b \in Banks \cup {BadBank}, DumpRefused(b)
      PROVE  LoopInv'
  BY <1>3 DEF DumpRefused, TypeOK, MainTypes, LoopInv, DumpPcs, PagePcs, WaitPcs
<1>4. ASSUME NEW b \in Banks, DumpOpened(b)
      PROVE  LoopInv'
  BY <1>4 DEF DumpOpened, TypeOK, MainTypes, LoopInv, DumpPcs, PagePcs, WaitPcs
<1>5. CASE nand_initialize
  BY <1>5 DEF nand_initialize, TypeOK, MainTypes, LoopInv, DumpPcs, PagePcs, WaitPcs
<1>6. CASE nand_reset
  BY <1>6 DEF nand_reset, TypeOK, MainTypes, LoopInv, DumpPcs, PagePcs, WaitPcs
<1>7. CASE ResetWait
  BY <1>7 DEF ResetWait, TypeOK, MainTypes, LoopInv, DumpPcs, PagePcs, WaitPcs
<1>8. CASE EnableNand
  BY <1>8 DEF EnableNand, TypeOK, MainTypes, LoopInv, DumpPcs, PagePcs, WaitPcs
<1>9. CASE LoopTest
  <2>1. iter \in Nat /\ iter <= TOTAL_ITERATIONS
    BY DEF TypeOK, MainTypes
  <2>2. slot \in Nat /\ slot <= PAGES_PER_ITERATION
    BY DEF TypeOK, MainTypes
  <2>3. CASE iter >= TOTAL_ITERATIONS
    BY <1>9, <2>1, <2>3 DEF LoopTest, LoopInv, DumpPcs, PagePcs, WaitPcs
  <2>4. CASE iter < TOTAL_ITERATIONS
    BY <1>9, <2>1, <2>2, <2>4 DEF LoopTest, LoopInv, DumpPcs, PagePcs, WaitPcs
  <2>5. QED
    BY <2>1, <2>3, <2>4
<1>10. CASE ReadPre
  BY <1>10 DEF ReadPre, TypeOK, MainTypes, LoopInv, DumpPcs, PagePcs, WaitPcs
<1>11. CASE Invalidate
  BY <1>11 DEF Invalidate, TypeOK, MainTypes, LoopInv, DumpPcs, PagePcs, WaitPcs
<1>12. CASE ReadPreWait
  BY <1>12 DEF ReadPreWait, TypeOK, MainTypes, LoopInv, DumpPcs, PagePcs, WaitPcs
<1>13. CASE ReadPost
  BY <1>13 DEF ReadPost, TypeOK, MainTypes, LoopInv, DumpPcs, PagePcs, WaitPcs
<1>14. CASE NandWaitTest
  BY <1>14 DEF NandWaitTest, TypeOK, MainTypes, LoopInv, DumpPcs, PagePcs, WaitPcs
<1>15. CASE NandWaitKill
  BY <1>15 DEF NandWaitKill, TypeOK, MainTypes, LoopInv, DumpPcs, PagePcs, WaitPcs
<1>16. CASE NandWaitCheck
  BY <1>16 DEF NandWaitCheck, TypeOK, MainTypes, LoopInv, DumpPcs, PagePcs, WaitPcs
<1>17. CASE irq_wait
  BY <1>17 DEF irq_wait, TypeOK, MainTypes, LoopInv, DumpPcs, PagePcs, WaitPcs
<1>18. CASE NandWaitRestore
  BY <1>18 DEF NandWaitRestore, TypeOK, MainTypes, LoopInv, DumpPcs, PagePcs, WaitPcs
<1>19. CASE nand_correct
  BY <1>19 DEF nand_correct, TypeOK, MainTypes, LoopInv, DumpPcs, PagePcs, WaitPcs
<1>20. CASE CopyPage
  BY <1>20 DEF CopyPage, TypeOK, MainTypes, LoopInv, DumpPcs, PagePcs, WaitPcs
<1>21. CASE WriteOk
  BY <1>21, WriteAppends DEF WriteOk, LoopInv, DumpPcs, PagePcs, WaitPcs
<1>22. CASE WriteFailed
  BY <1>22 DEF WriteFailed, TypeOK, MainTypes, LoopInv, DumpPcs, PagePcs, WaitPcs
<1>23. ASSUME NEW r \in {0, -5}, Close(r)
      PROVE  LoopInv'
  BY <1>23 DEF Close, TypeOK, MainTypes, LoopInv, DumpPcs, PagePcs, WaitPcs
<1>24. CASE IrqEnter
  BY <1>24 DEF IrqEnter, TypeOK, MainTypes, LoopInv, DumpPcs, PagePcs, WaitPcs
<1>25. CASE nand_irq
  BY <1>25 DEF nand_irq, TypeOK, MainTypes, LoopInv, DumpPcs, PagePcs, WaitPcs
<1>26. ASSUME NEW s \in OtherIrqs, IrqAck(s)
      PROVE  LoopInv'
  BY <1>26 DEF IrqAck, TypeOK, MainTypes, LoopInv, DumpPcs, PagePcs, WaitPcs
<1>27. CASE IrqReturn
  BY <1>27 DEF IrqReturn, TypeOK, MainTypes, LoopInv, DumpPcs, PagePcs, WaitPcs
<1>28. CASE CtlPoll
  BY <1>28 DEF CtlPoll, TypeOK, MainTypes, LoopInv, DumpPcs, PagePcs, WaitPcs
<1>29. CASE CtlTransfer
  BY <1>29 DEF CtlTransfer, TypeOK, MainTypes, LoopInv, DumpPcs, PagePcs, WaitPcs
<1>30. ASSUME NEW s \in OtherIrqs, OtherIrq(s)
      PROVE  LoopInv'
  BY <1>30 DEF OtherIrq, TypeOK, MainTypes, LoopInv, DumpPcs, PagePcs, WaitPcs
<1>31. ASSUME NEW d \in Bufs, Drain(d)
      PROVE  LoopInv'
  BY <1>31 DEF Drain, TypeOK, MainTypes, LoopInv, DumpPcs, PagePcs, WaitPcs
<1>32. ASSUME NEW d \in Bufs, Evict(d)
      PROVE  LoopInv'
  BY <1>32 DEF Evict, TypeOK, MainTypes, LoopInv, DumpPcs, PagePcs, WaitPcs
<1>33. CASE UNCHANGED vars
  BY <1>33 DEF TypeOK, MainTypes, LoopInv, DumpPcs, PagePcs, WaitPcs
<1>34. QED
  BY <1>1, <1>2, <1>3, <1>4, <1>5, <1>6, <1>7, <1>8, <1>9, <1>10, <1>11,
     <1>12, <1>13, <1>14, <1>15, <1>16, <1>17, <1>18, <1>19, <1>20, <1>21,
     <1>22, <1>23, <1>24, <1>25, <1>26, <1>27, <1>28, <1>29, <1>30, <1>31,
     <1>32, <1>33
     DEF Next, Main, Handler, Hardware, Controller

(* Every step keeps the controller and `initialized' on the same bank.     *)
LEMMA BankStep ==
    ASSUME IInv, [Next]_vars
    PROVE  BankInv'
<1> USE BankAssumption, IrqAssumption
<1> USE DEF IInv, At, Goto, vars, mainVars, irqVars, ctlVars, memVars
<1>1. CASE Boot
  BY <1>1 DEF Boot, TypeOK, MainTypes, IrqTypes, LoopInv, BankInv, DumpPcs, PagePcs, WaitPcs, SetupPcs
<1>2. CASE Shutdown
  BY <1>2 DEF Shutdown, TypeOK, MainTypes, IrqTypes, LoopInv, BankInv, DumpPcs, PagePcs, WaitPcs, SetupPcs
<1>3. ASSUME NEW b \in Banks \cup {BadBank}, DumpRefused(b)
      PROVE  BankInv'
  BY <1>3 DEF DumpRefused, TypeOK, MainTypes, IrqTypes, LoopInv, BankInv, DumpPcs, PagePcs, WaitPcs, SetupPcs
<1>4. ASSUME NEW b \in Banks, DumpOpened(b)
      PROVE  BankInv'
  BY <1>4 DEF DumpOpened, TypeOK, MainTypes, IrqTypes, LoopInv, BankInv, DumpPcs, PagePcs, WaitPcs, SetupPcs
<1>5. CASE nand_initialize
  BY <1>5 DEF nand_initialize, TypeOK, MainTypes, IrqTypes, LoopInv, BankInv, DumpPcs, PagePcs, WaitPcs, SetupPcs
<1>6. CASE nand_reset
  BY <1>6 DEF nand_reset, TypeOK, MainTypes, IrqTypes, LoopInv, BankInv, DumpPcs, PagePcs, WaitPcs, SetupPcs
<1>7. CASE ResetWait
  BY <1>7 DEF ResetWait, TypeOK, MainTypes, IrqTypes, LoopInv, BankInv, DumpPcs, PagePcs, WaitPcs, SetupPcs
<1>8. CASE EnableNand
  BY <1>8 DEF EnableNand, TypeOK, MainTypes, IrqTypes, LoopInv, BankInv, DumpPcs, PagePcs, WaitPcs, SetupPcs
<1>9. CASE LoopTest
  BY <1>9 DEF LoopTest, TypeOK, MainTypes, IrqTypes, LoopInv, BankInv, DumpPcs, PagePcs, WaitPcs, SetupPcs
<1>10. CASE ReadPre
  BY <1>10 DEF ReadPre, TypeOK, MainTypes, IrqTypes, LoopInv, BankInv, DumpPcs, PagePcs, WaitPcs, SetupPcs
<1>11. CASE Invalidate
  BY <1>11 DEF Invalidate, TypeOK, MainTypes, IrqTypes, LoopInv, BankInv, DumpPcs, PagePcs, WaitPcs, SetupPcs
<1>12. CASE ReadPreWait
  BY <1>12 DEF ReadPreWait, TypeOK, MainTypes, IrqTypes, LoopInv, BankInv, DumpPcs, PagePcs, WaitPcs, SetupPcs
<1>13. CASE ReadPost
  BY <1>13 DEF ReadPost, TypeOK, MainTypes, IrqTypes, LoopInv, BankInv, DumpPcs, PagePcs, WaitPcs, SetupPcs
<1>14. CASE NandWaitTest
  BY <1>14 DEF NandWaitTest, TypeOK, MainTypes, IrqTypes, LoopInv, BankInv, DumpPcs, PagePcs, WaitPcs, SetupPcs
<1>15. CASE NandWaitKill
  BY <1>15 DEF NandWaitKill, TypeOK, MainTypes, IrqTypes, LoopInv, BankInv, DumpPcs, PagePcs, WaitPcs, SetupPcs
<1>16. CASE NandWaitCheck
  BY <1>16 DEF NandWaitCheck, TypeOK, MainTypes, IrqTypes, LoopInv, BankInv, DumpPcs, PagePcs, WaitPcs, SetupPcs
<1>17. CASE irq_wait
  BY <1>17 DEF irq_wait, TypeOK, MainTypes, IrqTypes, LoopInv, BankInv, DumpPcs, PagePcs, WaitPcs, SetupPcs
<1>18. CASE NandWaitRestore
  BY <1>18 DEF NandWaitRestore, TypeOK, MainTypes, IrqTypes, LoopInv, BankInv, DumpPcs, PagePcs, WaitPcs, SetupPcs
<1>19. CASE nand_correct
  BY <1>19 DEF nand_correct, TypeOK, MainTypes, IrqTypes, LoopInv, BankInv, DumpPcs, PagePcs, WaitPcs, SetupPcs
<1>20. CASE CopyPage
  BY <1>20 DEF CopyPage, TypeOK, MainTypes, IrqTypes, LoopInv, BankInv, DumpPcs, PagePcs, WaitPcs, SetupPcs
<1>21. CASE WriteOk
  BY <1>21 DEF WriteOk, TypeOK, MainTypes, IrqTypes, LoopInv, BankInv, DumpPcs, PagePcs, WaitPcs, SetupPcs
<1>22. CASE WriteFailed
  BY <1>22 DEF WriteFailed, TypeOK, MainTypes, IrqTypes, LoopInv, BankInv, DumpPcs, PagePcs, WaitPcs, SetupPcs
<1>23. ASSUME NEW r \in {0, -5}, Close(r)
      PROVE  BankInv'
  BY <1>23 DEF Close, TypeOK, MainTypes, IrqTypes, LoopInv, BankInv, DumpPcs, PagePcs, WaitPcs, SetupPcs
<1>24. CASE IrqEnter
  BY <1>24 DEF IrqEnter, TypeOK, MainTypes, IrqTypes, LoopInv, BankInv, DumpPcs, PagePcs, WaitPcs, SetupPcs
<1>25. CASE nand_irq
  BY <1>25 DEF nand_irq, TypeOK, MainTypes, IrqTypes, LoopInv, BankInv, DumpPcs, PagePcs, WaitPcs, SetupPcs
<1>26. ASSUME NEW s \in OtherIrqs, IrqAck(s)
      PROVE  BankInv'
  BY <1>26 DEF IrqAck, TypeOK, MainTypes, IrqTypes, LoopInv, BankInv, DumpPcs, PagePcs, WaitPcs, SetupPcs
<1>27. CASE IrqReturn
  BY <1>27 DEF IrqReturn, TypeOK, MainTypes, IrqTypes, LoopInv, BankInv, DumpPcs, PagePcs, WaitPcs, SetupPcs
<1>28. CASE CtlPoll
  BY <1>28 DEF CtlPoll, TypeOK, MainTypes, IrqTypes, LoopInv, BankInv, DumpPcs, PagePcs, WaitPcs, SetupPcs
<1>29. CASE CtlTransfer
  BY <1>29 DEF CtlTransfer, TypeOK, MainTypes, IrqTypes, LoopInv, BankInv, DumpPcs, PagePcs, WaitPcs, SetupPcs
<1>30. ASSUME NEW s \in OtherIrqs, OtherIrq(s)
      PROVE  BankInv'
  BY <1>30 DEF OtherIrq, TypeOK, MainTypes, IrqTypes, LoopInv, BankInv, DumpPcs, PagePcs, WaitPcs, SetupPcs
<1>31. ASSUME NEW d \in Bufs, Drain(d)
      PROVE  BankInv'
  BY <1>31 DEF Drain, TypeOK, MainTypes, IrqTypes, LoopInv, BankInv, DumpPcs, PagePcs, WaitPcs, SetupPcs
<1>32. ASSUME NEW d \in Bufs, Evict(d)
      PROVE  BankInv'
  BY <1>32 DEF Evict, TypeOK, MainTypes, IrqTypes, LoopInv, BankInv, DumpPcs, PagePcs, WaitPcs, SetupPcs
<1>33. CASE UNCHANGED vars
  BY <1>33 DEF TypeOK, MainTypes, IrqTypes, LoopInv, BankInv, DumpPcs, PagePcs, WaitPcs, SetupPcs
<1>34. QED
  BY <1>1, <1>2, <1>3, <1>4, <1>5, <1>6, <1>7, <1>8, <1>9, <1>10, <1>11,
     <1>12, <1>13, <1>14, <1>15, <1>16, <1>17, <1>18, <1>19, <1>20, <1>21,
     <1>22, <1>23, <1>24, <1>25, <1>26, <1>27, <1>28, <1>29, <1>30, <1>31,
     <1>32, <1>33
     DEF Next, Main, Handler, Hardware, Controller

(* Every step keeps command, completion flag and program counter in step.  *)
LEMMA CommandStep ==
    ASSUME IInv, [Next]_vars
    PROVE  CommandInv'
<1> USE IrqAssumption
<1> USE DEF IInv, At, Goto, vars, mainVars, irqVars, ctlVars, memVars
<1>1. CASE Boot
  BY <1>1 DEF Boot, TypeOK, IrqTypes, HwTypes, CommandInv, CpuInv, WaitPcs
<1>2. CASE Shutdown
  BY <1>2 DEF Shutdown, TypeOK, IrqTypes, HwTypes, CommandInv, CpuInv, WaitPcs
<1>3. ASSUME NEW b \in Banks \cup {BadBank}, DumpRefused(b)
      PROVE  CommandInv'
  BY <1>3 DEF DumpRefused, TypeOK, IrqTypes, HwTypes, CommandInv, CpuInv, WaitPcs
<1>4. ASSUME NEW b \in Banks, DumpOpened(b)
      PROVE  CommandInv'
  BY <1>4 DEF DumpOpened, TypeOK, IrqTypes, HwTypes, CommandInv, CpuInv, WaitPcs
<1>5. CASE nand_initialize
  BY <1>5 DEF nand_initialize, TypeOK, IrqTypes, HwTypes, CommandInv, CpuInv, WaitPcs
<1>6. CASE nand_reset
  BY <1>6 DEF nand_reset, TypeOK, IrqTypes, HwTypes, CommandInv, CpuInv, WaitPcs
<1>7. CASE ResetWait
  BY <1>7 DEF ResetWait, TypeOK, IrqTypes, HwTypes, CommandInv, CpuInv, WaitPcs
<1>8. CASE EnableNand
  BY <1>8 DEF EnableNand, TypeOK, IrqTypes, HwTypes, CommandInv, CpuInv, WaitPcs
<1>9. CASE LoopTest
  BY <1>9 DEF LoopTest, TypeOK, IrqTypes, HwTypes, CommandInv, CpuInv, WaitPcs
<1>10. CASE ReadPre
  BY <1>10 DEF ReadPre, TypeOK, IrqTypes, HwTypes, CommandInv, CpuInv, WaitPcs
<1>11. CASE Invalidate
  BY <1>11 DEF Invalidate, TypeOK, IrqTypes, HwTypes, CommandInv, CpuInv, WaitPcs
<1>12. CASE ReadPreWait
  BY <1>12 DEF ReadPreWait, TypeOK, IrqTypes, HwTypes, CommandInv, CpuInv, WaitPcs
<1>13. CASE ReadPost
  BY <1>13 DEF ReadPost, TypeOK, IrqTypes, HwTypes, CommandInv, CpuInv, WaitPcs
<1>14. CASE NandWaitTest
  BY <1>14 DEF NandWaitTest, TypeOK, IrqTypes, HwTypes, CommandInv, CpuInv, WaitPcs
<1>15. CASE NandWaitKill
  BY <1>15 DEF NandWaitKill, TypeOK, IrqTypes, HwTypes, CommandInv, CpuInv, WaitPcs
<1>16. CASE NandWaitCheck
  BY <1>16 DEF NandWaitCheck, TypeOK, IrqTypes, HwTypes, CommandInv, CpuInv, WaitPcs
<1>17. CASE irq_wait
  BY <1>17 DEF irq_wait, TypeOK, IrqTypes, HwTypes, CommandInv, CpuInv, WaitPcs
<1>18. CASE NandWaitRestore
  BY <1>18 DEF NandWaitRestore, TypeOK, IrqTypes, HwTypes, CommandInv, CpuInv, WaitPcs
<1>19. CASE nand_correct
  BY <1>19 DEF nand_correct, TypeOK, IrqTypes, HwTypes, CommandInv, CpuInv, WaitPcs
<1>20. CASE CopyPage
  BY <1>20 DEF CopyPage, TypeOK, IrqTypes, HwTypes, CommandInv, CpuInv, WaitPcs
<1>21. CASE WriteOk
  BY <1>21 DEF WriteOk, TypeOK, IrqTypes, HwTypes, CommandInv, CpuInv, WaitPcs
<1>22. CASE WriteFailed
  BY <1>22 DEF WriteFailed, TypeOK, IrqTypes, HwTypes, CommandInv, CpuInv, WaitPcs
<1>23. ASSUME NEW r \in {0, -5}, Close(r)
      PROVE  CommandInv'
  BY <1>23 DEF Close, TypeOK, IrqTypes, HwTypes, CommandInv, CpuInv, WaitPcs
<1>24. CASE IrqEnter
  BY <1>24 DEF IrqEnter, TypeOK, IrqTypes, HwTypes, CommandInv, CpuInv, WaitPcs
<1>25. CASE nand_irq
  BY <1>25 DEF nand_irq, TypeOK, IrqTypes, HwTypes, CommandInv, CpuInv, WaitPcs
<1>26. ASSUME NEW s \in OtherIrqs, IrqAck(s)
      PROVE  CommandInv'
  BY <1>26 DEF IrqAck, TypeOK, IrqTypes, HwTypes, CommandInv, CpuInv, WaitPcs
<1>27. CASE IrqReturn
  BY <1>27 DEF IrqReturn, TypeOK, IrqTypes, HwTypes, CommandInv, CpuInv, WaitPcs
<1>28. CASE CtlPoll
  BY <1>28 DEF CtlPoll, TypeOK, IrqTypes, HwTypes, CommandInv, CpuInv, WaitPcs
<1>29. CASE CtlTransfer
  BY <1>29 DEF CtlTransfer, TypeOK, IrqTypes, HwTypes, CommandInv, CpuInv, WaitPcs
<1>30. ASSUME NEW s \in OtherIrqs, OtherIrq(s)
      PROVE  CommandInv'
  BY <1>30 DEF OtherIrq, TypeOK, IrqTypes, HwTypes, CommandInv, CpuInv, WaitPcs
<1>31. ASSUME NEW d \in Bufs, Drain(d)
      PROVE  CommandInv'
  BY <1>31 DEF Drain, TypeOK, IrqTypes, HwTypes, CommandInv, CpuInv, WaitPcs
<1>32. ASSUME NEW d \in Bufs, Evict(d)
      PROVE  CommandInv'
  BY <1>32 DEF Evict, TypeOK, IrqTypes, HwTypes, CommandInv, CpuInv, WaitPcs
<1>33. CASE UNCHANGED vars
  BY <1>33 DEF TypeOK, IrqTypes, HwTypes, CommandInv, CpuInv, WaitPcs
<1>34. QED
  BY <1>1, <1>2, <1>3, <1>4, <1>5, <1>6, <1>7, <1>8, <1>9, <1>10, <1>11,
     <1>12, <1>13, <1>14, <1>15, <1>16, <1>17, <1>18, <1>19, <1>20, <1>21,
     <1>22, <1>23, <1>24, <1>25, <1>26, <1>27, <1>28, <1>29, <1>30, <1>31,
     <1>32, <1>33
     DEF Next, Main, Handler, Hardware, Controller

(* Every step keeps the handler out of the window nand_wait closes.        *)
LEMMA CpuStep ==
    ASSUME IInv, [Next]_vars
    PROVE  (CpuInv /\ IrqsRestored)'
<1> USE IrqAssumption
<1> USE DEF IInv, At, Goto, vars, mainVars, irqVars, ctlVars, memVars
<1>1. CASE Boot
  BY <1>1 DEF Boot, TypeOK, MainTypes, IrqTypes, CpuInv, IrqsRestored, DumpPcs
<1>2. CASE Shutdown
  BY <1>2 DEF Shutdown, TypeOK, MainTypes, IrqTypes, CpuInv, IrqsRestored, DumpPcs
<1>3. ASSUME NEW b \in Banks \cup {BadBank}, DumpRefused(b)
      PROVE  (CpuInv /\ IrqsRestored)'
  BY <1>3 DEF DumpRefused, TypeOK, MainTypes, IrqTypes, CpuInv, IrqsRestored, DumpPcs
<1>4. ASSUME NEW b \in Banks, DumpOpened(b)
      PROVE  (CpuInv /\ IrqsRestored)'
  BY <1>4 DEF DumpOpened, TypeOK, MainTypes, IrqTypes, CpuInv, IrqsRestored, DumpPcs
<1>5. CASE nand_initialize
  BY <1>5 DEF nand_initialize, TypeOK, MainTypes, IrqTypes, CpuInv, IrqsRestored, DumpPcs
<1>6. CASE nand_reset
  BY <1>6 DEF nand_reset, TypeOK, MainTypes, IrqTypes, CpuInv, IrqsRestored, DumpPcs
<1>7. CASE ResetWait
  BY <1>7 DEF ResetWait, TypeOK, MainTypes, IrqTypes, CpuInv, IrqsRestored, DumpPcs
<1>8. CASE EnableNand
  BY <1>8 DEF EnableNand, TypeOK, MainTypes, IrqTypes, CpuInv, IrqsRestored, DumpPcs
<1>9. CASE LoopTest
  BY <1>9 DEF LoopTest, TypeOK, MainTypes, IrqTypes, CpuInv, IrqsRestored, DumpPcs
<1>10. CASE ReadPre
  BY <1>10 DEF ReadPre, TypeOK, MainTypes, IrqTypes, CpuInv, IrqsRestored, DumpPcs
<1>11. CASE Invalidate
  BY <1>11 DEF Invalidate, TypeOK, MainTypes, IrqTypes, CpuInv, IrqsRestored, DumpPcs
<1>12. CASE ReadPreWait
  BY <1>12 DEF ReadPreWait, TypeOK, MainTypes, IrqTypes, CpuInv, IrqsRestored, DumpPcs
<1>13. CASE ReadPost
  BY <1>13 DEF ReadPost, TypeOK, MainTypes, IrqTypes, CpuInv, IrqsRestored, DumpPcs
<1>14. CASE NandWaitTest
  BY <1>14 DEF NandWaitTest, TypeOK, MainTypes, IrqTypes, CpuInv, IrqsRestored, DumpPcs
<1>15. CASE NandWaitKill
  BY <1>15 DEF NandWaitKill, TypeOK, MainTypes, IrqTypes, CpuInv, IrqsRestored, DumpPcs
<1>16. CASE NandWaitCheck
  BY <1>16 DEF NandWaitCheck, TypeOK, MainTypes, IrqTypes, CpuInv, IrqsRestored, DumpPcs
<1>17. CASE irq_wait
  BY <1>17 DEF irq_wait, TypeOK, MainTypes, IrqTypes, CpuInv, IrqsRestored, DumpPcs
<1>18. CASE NandWaitRestore
  BY <1>18 DEF NandWaitRestore, TypeOK, MainTypes, IrqTypes, CpuInv, IrqsRestored, DumpPcs
<1>19. CASE nand_correct
  BY <1>19 DEF nand_correct, TypeOK, MainTypes, IrqTypes, CpuInv, IrqsRestored, DumpPcs
<1>20. CASE CopyPage
  BY <1>20 DEF CopyPage, TypeOK, MainTypes, IrqTypes, CpuInv, IrqsRestored, DumpPcs
<1>21. CASE WriteOk
  BY <1>21 DEF WriteOk, TypeOK, MainTypes, IrqTypes, CpuInv, IrqsRestored, DumpPcs
<1>22. CASE WriteFailed
  BY <1>22 DEF WriteFailed, TypeOK, MainTypes, IrqTypes, CpuInv, IrqsRestored, DumpPcs
<1>23. ASSUME NEW r \in {0, -5}, Close(r)
      PROVE  (CpuInv /\ IrqsRestored)'
  BY <1>23 DEF Close, TypeOK, MainTypes, IrqTypes, CpuInv, IrqsRestored, DumpPcs
<1>24. CASE IrqEnter
  BY <1>24 DEF IrqEnter, TypeOK, MainTypes, IrqTypes, CpuInv, IrqsRestored, DumpPcs
<1>25. CASE nand_irq
  BY <1>25 DEF nand_irq, TypeOK, MainTypes, IrqTypes, CpuInv, IrqsRestored, DumpPcs
<1>26. ASSUME NEW s \in OtherIrqs, IrqAck(s)
      PROVE  (CpuInv /\ IrqsRestored)'
  BY <1>26 DEF IrqAck, TypeOK, MainTypes, IrqTypes, CpuInv, IrqsRestored, DumpPcs
<1>27. CASE IrqReturn
  BY <1>27 DEF IrqReturn, TypeOK, MainTypes, IrqTypes, CpuInv, IrqsRestored, DumpPcs
<1>28. CASE CtlPoll
  BY <1>28 DEF CtlPoll, TypeOK, MainTypes, IrqTypes, CpuInv, IrqsRestored, DumpPcs
<1>29. CASE CtlTransfer
  BY <1>29 DEF CtlTransfer, TypeOK, MainTypes, IrqTypes, CpuInv, IrqsRestored, DumpPcs
<1>30. ASSUME NEW s \in OtherIrqs, OtherIrq(s)
      PROVE  (CpuInv /\ IrqsRestored)'
  BY <1>30 DEF OtherIrq, TypeOK, MainTypes, IrqTypes, CpuInv, IrqsRestored, DumpPcs
<1>31. ASSUME NEW d \in Bufs, Drain(d)
      PROVE  (CpuInv /\ IrqsRestored)'
  BY <1>31 DEF Drain, TypeOK, MainTypes, IrqTypes, CpuInv, IrqsRestored, DumpPcs
<1>32. ASSUME NEW d \in Bufs, Evict(d)
      PROVE  (CpuInv /\ IrqsRestored)'
  BY <1>32 DEF Evict, TypeOK, MainTypes, IrqTypes, CpuInv, IrqsRestored, DumpPcs
<1>33. CASE UNCHANGED vars
  BY <1>33 DEF TypeOK, MainTypes, IrqTypes, CpuInv, IrqsRestored, DumpPcs
<1>34. QED
  BY <1>1, <1>2, <1>3, <1>4, <1>5, <1>6, <1>7, <1>8, <1>9, <1>10, <1>11,
     <1>12, <1>13, <1>14, <1>15, <1>16, <1>17, <1>18, <1>19, <1>20, <1>21,
     <1>22, <1>23, <1>24, <1>25, <1>26, <1>27, <1>28, <1>29, <1>30, <1>31,
     <1>32, <1>33
     DEF Next, Main, Handler, Hardware, Controller

(* Every step keeps track of where the page is.                            *)
LEMMA DataStep ==
    ASSUME IInv, [Next]_vars
    PROVE  DataInv'
<1> USE ContentTypes, PageNumbers
<1> USE DEF IInv, At, Goto, vars, mainVars, irqVars, ctlVars, memVars
<1>1. CASE Boot
  BY <1>1 DEF Boot, TypeOK, MainTypes, HwTypes, DataInv, CommandInv, Bufs, Wanted, View, WaitPcs
<1>2. CASE Shutdown
  BY <1>2 DEF Shutdown, TypeOK, MainTypes, HwTypes, DataInv, CommandInv, Bufs, Wanted, View, WaitPcs
<1>3. ASSUME NEW b \in Banks \cup {BadBank}, DumpRefused(b)
      PROVE  DataInv'
  BY <1>3 DEF DumpRefused, TypeOK, MainTypes, HwTypes, DataInv, CommandInv, Bufs, Wanted, View, WaitPcs
<1>4. ASSUME NEW b \in Banks, DumpOpened(b)
      PROVE  DataInv'
  BY <1>4 DEF DumpOpened, TypeOK, MainTypes, HwTypes, DataInv, CommandInv, Bufs, Wanted, View, WaitPcs
<1>5. CASE nand_initialize
  BY <1>5 DEF nand_initialize, TypeOK, MainTypes, HwTypes, DataInv, CommandInv, Bufs, Wanted, View, WaitPcs
<1>6. CASE nand_reset
  BY <1>6 DEF nand_reset, TypeOK, MainTypes, HwTypes, DataInv, CommandInv, Bufs, Wanted, View, WaitPcs
<1>7. CASE ResetWait
  BY <1>7 DEF ResetWait, FlushAhb, TypeOK, MainTypes, HwTypes, DataInv, Bufs, Wanted, View, WaitPcs
<1>8. CASE EnableNand
  BY <1>8 DEF EnableNand, TypeOK, MainTypes, HwTypes, DataInv, CommandInv, Bufs, Wanted, View, WaitPcs
<1>9. CASE LoopTest
  BY <1>9 DEF LoopTest, TypeOK, MainTypes, HwTypes, DataInv, CommandInv, Bufs, Wanted, View, WaitPcs
<1>10. CASE ReadPre
  BY <1>10 DEF ReadPre, TypeOK, MainTypes, HwTypes, DataInv, CommandInv, Bufs, Wanted, View, WaitPcs
<1>11. CASE Invalidate
  BY <1>11 DEF Invalidate, dc_invalidaterange, TypeOK, MainTypes, HwTypes, DataInv, CommandInv, Bufs, Wanted,
            View, WaitPcs
<1>12. CASE ReadPreWait
  BY <1>12 DEF ReadPreWait, FlushAhb, TypeOK, MainTypes, HwTypes, DataInv, CommandInv, Bufs, Wanted, View, WaitPcs
<1>13. CASE ReadPost
  BY <1>13 DEF ReadPost, TypeOK, MainTypes, HwTypes, DataInv, CommandInv, Bufs, Wanted, View, WaitPcs
<1>14. CASE NandWaitTest
  BY <1>14, WantedType DEF NandWaitTest, TypeOK, HwTypes, DataInv, CommandInv, Bufs, Wanted, WaitPcs
<1>15. CASE NandWaitKill
  BY <1>15 DEF NandWaitKill, TypeOK, MainTypes, HwTypes, DataInv, CommandInv, Bufs, Wanted, View, WaitPcs
<1>16. CASE NandWaitCheck
  BY <1>16 DEF NandWaitCheck, TypeOK, MainTypes, HwTypes, DataInv, CommandInv, Bufs, Wanted, View, WaitPcs
<1>17. CASE irq_wait
  BY <1>17 DEF irq_wait, TypeOK, MainTypes, HwTypes, DataInv, CommandInv, Bufs, Wanted, View, WaitPcs
<1>18. CASE NandWaitRestore
  BY <1>18 DEF NandWaitRestore, TypeOK, MainTypes, HwTypes, DataInv, CommandInv, Bufs, Wanted, View, WaitPcs
<1>19. CASE nand_correct
  <2>1. /\ View("data") = Wanted /\ View("ecc") = Wanted
        /\ \A b \in Bufs : cache[b] = None /\ mem[b] = Wanted /\ ahb[b] = None
    BY <1>19 DEF nand_correct, DataInv, View, Bufs, WaitPcs
  <2>2. /\ cache' = [b \in Bufs |-> IF b = "data" THEN Corrected(Wanted, Wanted) ELSE Wanted]
        /\ dirty' = IF Corrected(Wanted, Wanted) = Wanted THEN dirty ELSE dirty \cup {"data"}
    BY <1>19, <2>1 DEF nand_correct
  <2>3. \A b \in Bufs : cache'[b] # None /\ b \notin dirty' => mem'[b] = cache'[b]
    BY <1>19, <2>1, <2>2 DEF nand_correct, Bufs
  <2>4. View("data")' = Corrected(Wanted, Wanted)' /\ View("ecc")' = Wanted'
    BY <1>19, <2>2, WantedType DEF nand_correct, View, Bufs, Wanted
  <2>5. QED
    BY <1>19, <2>1, <2>3, <2>4 DEF nand_correct, DataInv, CommandInv, WaitPcs
<1>20. CASE CopyPage
  BY <1>20 DEF CopyPage, TypeOK, MainTypes, HwTypes, DataInv, CommandInv, Bufs, Wanted, View, WaitPcs
<1>21. CASE WriteOk
  BY <1>21 DEF WriteOk, TypeOK, MainTypes, HwTypes, DataInv, CommandInv, Bufs, Wanted, View, WaitPcs
<1>22. CASE WriteFailed
  BY <1>22 DEF WriteFailed, TypeOK, MainTypes, HwTypes, DataInv, CommandInv, Bufs, Wanted, View, WaitPcs
<1>23. ASSUME NEW r \in {0, -5}, Close(r)
      PROVE  DataInv'
  BY <1>23 DEF Close, TypeOK, MainTypes, HwTypes, DataInv, CommandInv, Bufs, Wanted, View, WaitPcs
<1>24. CASE IrqEnter
  BY <1>24 DEF IrqEnter, TypeOK, MainTypes, HwTypes, DataInv, CommandInv, Bufs, Wanted, View, WaitPcs
<1>25. CASE nand_irq
  BY <1>25 DEF nand_irq, FlushAhb, TypeOK, MainTypes, HwTypes, DataInv, CommandInv, CpuInv, Bufs, Wanted, View,
            WaitPcs
<1>26. ASSUME NEW s \in OtherIrqs, IrqAck(s)
      PROVE  DataInv'
  BY <1>26 DEF IrqAck, TypeOK, MainTypes, HwTypes, DataInv, CommandInv, Bufs, Wanted, View, WaitPcs
<1>27. CASE IrqReturn
  BY <1>27 DEF IrqReturn, TypeOK, MainTypes, HwTypes, DataInv, CommandInv, Bufs, Wanted, View, WaitPcs
<1>28. CASE CtlPoll
  BY <1>28 DEF CtlPoll, TypeOK, MainTypes, HwTypes, DataInv, CommandInv, Bufs, Wanted, View, WaitPcs
<1>29. CASE CtlTransfer
  BY <1>29, BankAssumption DEF CtlTransfer, TypeOK, MainTypes, HwTypes, DataInv, CommandInv, BankInv, LoopInv, PagePcs, SetupPcs,
            DumpPcs, Bufs, Wanted, View, WaitPcs
<1>30. ASSUME NEW s \in OtherIrqs, OtherIrq(s)
      PROVE  DataInv'
  BY <1>30 DEF OtherIrq, TypeOK, MainTypes, HwTypes, DataInv, CommandInv, Bufs, Wanted, View, WaitPcs
<1>31. ASSUME NEW d \in Bufs, Drain(d)
      PROVE  DataInv'
  BY <1>31 DEF Drain, TypeOK, MainTypes, HwTypes, DataInv, CommandInv, Bufs, Wanted, View, WaitPcs
<1>32. ASSUME NEW d \in Bufs, Evict(d)
      PROVE  DataInv'
  BY <1>32 DEF Evict, TypeOK, MainTypes, HwTypes, DataInv, CommandInv, Bufs, Wanted, View, WaitPcs
<1>33. CASE UNCHANGED vars
  BY <1>33 DEF TypeOK, MainTypes, HwTypes, DataInv, CommandInv, Bufs, Wanted, View, WaitPcs
<1>34. QED
  BY <1>1, <1>2, <1>3, <1>4, <1>5, <1>6, <1>7, <1>8, <1>9, <1>10, <1>11,
     <1>12, <1>13, <1>14, <1>15, <1>16, <1>17, <1>18, <1>19, <1>20, <1>21,
     <1>22, <1>23, <1>24, <1>25, <1>26, <1>27, <1>28, <1>29, <1>30, <1>31,
     <1>32, <1>33
     DEF Next, Main, Handler, Hardware, Controller

(* Every step keeps the gathered pages right.                              *)
LEMMA BatchStep ==
    ASSUME IInv, [Next]_vars
    PROVE  BatchFaithful'
<1> USE PageAssumption
<1> USE DEF IInv, At, Goto, vars, mainVars, irqVars, ctlVars, memVars
<1>1. CASE Boot
  BY <1>1 DEF Boot, TypeOK, MainTypes, BatchFaithful, DumpPcs, Slots
<1>2. CASE Shutdown
  BY <1>2 DEF Shutdown, TypeOK, MainTypes, BatchFaithful, DumpPcs, Slots
<1>3. ASSUME NEW b \in Banks \cup {BadBank}, DumpRefused(b)
      PROVE  BatchFaithful'
  BY <1>3 DEF DumpRefused, TypeOK, MainTypes, BatchFaithful, DumpPcs, Slots
<1>4. ASSUME NEW b \in Banks, DumpOpened(b)
      PROVE  BatchFaithful'
  BY <1>4 DEF DumpOpened, BatchFaithful, TypeOK, DumpPcs, Slots
<1>5. CASE nand_initialize
  BY <1>5 DEF nand_initialize, TypeOK, MainTypes, BatchFaithful, DumpPcs, Slots
<1>6. CASE nand_reset
  BY <1>6 DEF nand_reset, TypeOK, MainTypes, BatchFaithful, DumpPcs, Slots
<1>7. CASE ResetWait
  BY <1>7 DEF ResetWait, TypeOK, MainTypes, BatchFaithful, DumpPcs, Slots
<1>8. CASE EnableNand
  BY <1>8 DEF EnableNand, TypeOK, MainTypes, BatchFaithful, DumpPcs, Slots
<1>9. CASE LoopTest
  BY <1>9 DEF LoopTest, TypeOK, MainTypes, BatchFaithful, DumpPcs, Slots
<1>10. CASE ReadPre
  BY <1>10 DEF ReadPre, TypeOK, MainTypes, BatchFaithful, DumpPcs, Slots
<1>11. CASE Invalidate
  BY <1>11 DEF Invalidate, TypeOK, MainTypes, BatchFaithful, DumpPcs, Slots
<1>12. CASE ReadPreWait
  BY <1>12 DEF ReadPreWait, TypeOK, MainTypes, BatchFaithful, DumpPcs, Slots
<1>13. CASE ReadPost
  BY <1>13 DEF ReadPost, TypeOK, MainTypes, BatchFaithful, DumpPcs, Slots
<1>14. CASE NandWaitTest
  BY <1>14 DEF NandWaitTest, TypeOK, MainTypes, BatchFaithful, DumpPcs, Slots
<1>15. CASE NandWaitKill
  BY <1>15 DEF NandWaitKill, TypeOK, MainTypes, BatchFaithful, DumpPcs, Slots
<1>16. CASE NandWaitCheck
  BY <1>16 DEF NandWaitCheck, TypeOK, MainTypes, BatchFaithful, DumpPcs, Slots
<1>17. CASE irq_wait
  BY <1>17 DEF irq_wait, TypeOK, MainTypes, BatchFaithful, DumpPcs, Slots
<1>18. CASE NandWaitRestore
  BY <1>18 DEF NandWaitRestore, TypeOK, MainTypes, BatchFaithful, DumpPcs, Slots
<1>19. CASE nand_correct
  BY <1>19 DEF nand_correct, TypeOK, MainTypes, BatchFaithful, DumpPcs, Slots
<1>20. CASE CopyPage
  <2>1. pc = "copy" /\ pc \in DumpPcs /\ pc \in PagePcs
    BY <1>20 DEF CopyPage, DumpPcs, PagePcs
  <2>2. slot \in Slots /\ slot \in Nat
    BY <2>1 DEF LoopInv, TypeOK, MainTypes, Slots
  <2>3. bank' = bank /\ iter' = iter /\ slot' = slot + 1
    BY <1>20 DEF CopyPage
  <2>4. [data |-> View("data"), spare |-> View("ecc")] = PageImage(bank, PageOf(iter, slot))
    BY <2>1 DEF DataInv, Wanted, PageImage
  <2>5. file_buf' = [file_buf EXCEPT ![slot] = PageImage(bank, PageOf(iter, slot))]
    BY <1>20, <2>4 DEF CopyPage
  <2>6. DOMAIN file_buf = Slots
    BY DEF TypeOK, MainTypes
  <2>7. ASSUME NEW k \in Slots, k < slot + 1
        PROVE  file_buf'[k] = PageImage(bank, PageOf(iter, k))
    <3>1. CASE k = slot
      BY <3>1, <2>2, <2>5, <2>6
    <3>2. CASE k # slot
      <4>1. k < slot
        BY <2>2, <2>7, <3>2 DEF Slots
      <4>2. file_buf[k] = PageImage(bank, PageOf(iter, k))
        BY <2>1, <4>1 DEF BatchFaithful
      <4>3. QED
        BY <2>5, <2>6, <3>2, <4>2
    <3>3. QED
      BY <3>1, <3>2
  <2>8. QED
    BY <2>3, <2>7 DEF BatchFaithful, PageImage, PageOf
<1>21. CASE WriteOk
  BY <1>21 DEF WriteOk, TypeOK, MainTypes, BatchFaithful, DumpPcs, Slots
<1>22. CASE WriteFailed
  BY <1>22 DEF WriteFailed, TypeOK, MainTypes, BatchFaithful, DumpPcs, Slots
<1>23. ASSUME NEW r \in {0, -5}, Close(r)
      PROVE  BatchFaithful'
  BY <1>23 DEF Close, TypeOK, MainTypes, BatchFaithful, DumpPcs, Slots
<1>24. CASE IrqEnter
  BY <1>24 DEF IrqEnter, TypeOK, MainTypes, BatchFaithful, DumpPcs, Slots
<1>25. CASE nand_irq
  BY <1>25 DEF nand_irq, TypeOK, MainTypes, BatchFaithful, DumpPcs, Slots
<1>26. ASSUME NEW s \in OtherIrqs, IrqAck(s)
      PROVE  BatchFaithful'
  BY <1>26 DEF IrqAck, TypeOK, MainTypes, BatchFaithful, DumpPcs, Slots
<1>27. CASE IrqReturn
  BY <1>27 DEF IrqReturn, TypeOK, MainTypes, BatchFaithful, DumpPcs, Slots
<1>28. CASE CtlPoll
  BY <1>28 DEF CtlPoll, TypeOK, MainTypes, BatchFaithful, DumpPcs, Slots
<1>29. CASE CtlTransfer
  BY <1>29 DEF CtlTransfer, TypeOK, MainTypes, BatchFaithful, DumpPcs, Slots
<1>30. ASSUME NEW s \in OtherIrqs, OtherIrq(s)
      PROVE  BatchFaithful'
  BY <1>30 DEF OtherIrq, TypeOK, MainTypes, BatchFaithful, DumpPcs, Slots
<1>31. ASSUME NEW d \in Bufs, Drain(d)
      PROVE  BatchFaithful'
  BY <1>31 DEF Drain, TypeOK, MainTypes, BatchFaithful, DumpPcs, Slots
<1>32. ASSUME NEW d \in Bufs, Evict(d)
      PROVE  BatchFaithful'
  BY <1>32 DEF Evict, TypeOK, MainTypes, BatchFaithful, DumpPcs, Slots
<1>33. CASE UNCHANGED vars
  BY <1>33 DEF TypeOK, MainTypes, BatchFaithful, DumpPcs, Slots
<1>34. QED
  BY <1>1, <1>2, <1>3, <1>4, <1>5, <1>6, <1>7, <1>8, <1>9, <1>10, <1>11,
     <1>12, <1>13, <1>14, <1>15, <1>16, <1>17, <1>18, <1>19, <1>20, <1>21,
     <1>22, <1>23, <1>24, <1>25, <1>26, <1>27, <1>28, <1>29, <1>30, <1>31,
     <1>32, <1>33
     DEF Next, Main, Handler, Hardware, Controller

(* Every reachable state satisfies the inductive invariant: the part of    *)
(* each property that a single step needs to know.                         *)
THEOREM Invariance == Spec => []IInv
<1>1. IInv /\ [Next]_vars => IInv'
  BY MainTypeStep, IrqTypeStep, HwTypeStep, LoopStep, BankStep, CommandStep, CpuStep, DataStep, BatchStep DEF IInv, TypeOK
<1>2. QED
  BY InitInv, <1>1, PTL DEF Spec

(* The variables of the NAND dump keep their types; the loop counters stay *)
(* within dump.c's bounds.                                                 *)
THEOREM TypeCorrect == Spec => []TypeOK
BY Invariance, PTL DEF IInv

(* The pages gathered in file_buf are the corrected pages of the bank that *)
(* was asked for.                                                          *)
THEOREM BatchCorrect == Spec => []BatchFaithful
BY Invariance, PTL DEF IInv

(* nand_wait never sleeps on a completion that was already signalled.      *)
THEOREM WakeupCorrect == Spec => []NoLostWakeup
<1>1. IInv => NoLostWakeup
  BY BankAssumption DEF IInv, LoopInv, BankInv, CommandInv, CpuInv, NoLostWakeup, DumpPcs, PagePcs,
         WaitPcs, SetupPcs
<1>2. QED
  BY Invariance, <1>1, PTL

(* No cache line of the buffers is live while the controller writes them.  *)
THEOREM DmaCorrect == Spec => []DmaOwnsBuffers
<1>1. IInv => DmaOwnsBuffers
  BY DEF IInv, CommandInv, DataInv, DmaOwnsBuffers, WaitPcs
<1>2. QED
  BY Invariance, <1>1, PTL

(* A completion that nand_wait sees is the completion of the current read. *)
THEOREM CompletionCorrect == Spec => []CompletionIsCurrent
<1>1. IInv => CompletionIsCurrent
  BY WantedType
     DEF IInv, TypeOK, HwTypes, CommandInv, DataInv, CompletionIsCurrent, WaitPcs, Wanted
<1>2. QED
  BY Invariance, <1>1, PTL

(* Outside nand_wait's window the main thread runs with interrupts on.     *)
THEOREM IrqCorrect == Spec => []IrqsRestored
BY Invariance, PTL DEF IInv

(* DumpSpec's image is NandDump's.                                         *)
LEMMA SameImage ==
    /\ Dump!TOTAL_ITERATIONS = TOTAL_ITERATIONS
    /\ \A b, i : Dump!Batch(b, i) = Batch(b, i)
BY DEF Dump!TOTAL_ITERATIONS, TOTAL_ITERATIONS, Dump!Batch, Batch, Dump!Slots, Slots,
       Dump!PageImage, PageImage, Dump!PageOf, PageOf, Dump!Corrected, Corrected,
       Dump!Raw, Raw

(* Every step of the dump is a step of DumpSpec or leaves its variables    *)
(* alone.                                                                  *)
LEMMA DumpStep ==
    ASSUME IInv, [Next]_vars
    PROVE  [Dump!DumpNext]_(Dump!dumpVars)
<1> USE DEF At, Goto, vars, mainVars, irqVars, ctlVars, memVars, Dump!dumpVars, DumpPcs
<1> USE DEF Dump!DumpNext, Dump!Refuse, Dump!Open, Dump!Grow, Dump!Finish
<1>1. ASSUME NEW b \in Banks \cup {BadBank}, DumpRefused(b)
      PROVE  Dump!Refuse
  BY <1>1 DEF DumpRefused
<1>2. ASSUME NEW b \in Banks, DumpOpened(b)
      PROVE  Dump!Open(b)
  BY <1>2 DEF DumpOpened
<1>3. CASE WriteOk
  <2>1. file_buf = Batch(bank, Len(file)) /\ Len(file) < TOTAL_ITERATIONS
    BY <1>3, WriteAppends DEF WriteOk, IInv, LoopInv
  <2>2. QED
    BY <1>3, <2>1, SameImage DEF WriteOk
<1>4. CASE WriteFailed
  BY <1>4, SameImage DEF WriteFailed, IInv, LoopInv
<1>5. ASSUME NEW r \in {0, -5}, Close(r)
      PROVE  Dump!Finish
  BY <1>5, SameImage DEF Close, IInv, LoopInv
<1>6. CASE Boot \/ Shutdown
  BY <1>6 DEF Boot, Shutdown
<1>7. CASE nand_initialize \/ nand_reset \/ ResetWait \/ EnableNand \/ LoopTest
  BY <1>7 DEF nand_initialize, nand_reset, ResetWait, EnableNand, LoopTest
<1>8. CASE ReadPre \/ Invalidate \/ ReadPreWait \/ ReadPost
  BY <1>8 DEF ReadPre, Invalidate, ReadPreWait, ReadPost
<1>9. CASE NandWaitTest \/ NandWaitKill \/ NandWaitCheck \/ irq_wait \/ NandWaitRestore
  BY <1>9 DEF NandWaitTest, NandWaitKill, NandWaitCheck, irq_wait, NandWaitRestore
<1>10. CASE nand_correct \/ CopyPage
  BY <1>10 DEF nand_correct, CopyPage
<1>11. CASE IrqEnter \/ Handler
  BY <1>11 DEF IrqEnter, Handler, nand_irq, IrqAck, IrqReturn
<1>12. CASE Hardware
  BY <1>12 DEF Hardware, Controller, CtlPoll, CtlTransfer, OtherIrq, Drain, Evict
<1>13. CASE UNCHANGED vars
  BY <1>13
<1>14. QED
  BY <1>1, <1>2, <1>3, <1>4, <1>5, <1>6, <1>7, <1>8, <1>9, <1>10, <1>11, <1>12, <1>13
     DEF Next, Main

(* _dump_slc_raw with the driver below it implements DumpSpec: the file    *)
(* grows by the right batches only, and 0 is returned only for a complete  *)
(* corrected image.                                                        *)
THEOREM Refinement == Spec => DumpImplemented
<1>1. Init => Dump!DumpInit
  BY DEF Init, Dump!DumpInit, DumpPcs
<1>2. QED
  BY Invariance, DumpStep, <1>1, PTL DEF Spec, DumpImplemented, Dump!Spec

=============================================================================
