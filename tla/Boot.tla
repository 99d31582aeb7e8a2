-------------------------------- MODULE Boot --------------------------------
(***************************************************************************)
(* How mini gets from two files to _main: makebin.py joins the ELF loader  *)
(* and mini's ELF into one image, nswitch copies it to memory and has IOS  *)
(* jump to it, the loader (elfloader/start.S, stub.c) finds its own base,  *)
(* relocates its global offset table, clears its BSS and copies mini's     *)
(* segments, and mini's start.S fills its stack and clears its two BSSs.   *)
(* All of it depends on lengths that the linker scripts, the script and    *)
(* the three programs must agree on.  A cell of memory is one byte; a word *)
(* is WordSize of them, its value in the first; an ELF header is one cell. *)
(***************************************************************************)
EXTENDS Integers, Sequences

CONSTANTS
    WordSize,    \* bytes of a word: 4 on the ARM
    StackSize,   \* bytes of the loader's stack: 0x100, ...
    MiniStack,   \* ... of mini's stack: 0x800, ...
    VectorStack, \* ... and of its stacks for irqs and for exceptions: 0x100 each
    CodeSizes,   \* sizes the linker may find for the code of a program ...
    DataSizes,   \* ... its data ...
    BssSizes,    \* ... and its BSS
    GotWords,    \* words of the loader's global offset table
    Base,        \* where nswitch puts the image: 0x10100000
    MEM2, SRAM2, SRAM, Top  \* mini's regions, and the end of memory

ASSUME BootAssumption ==
    /\ WordSize \in Nat \ {0} /\ StackSize \in Nat \ {0} /\ MiniStack \in Nat /\ VectorStack \in Nat
    /\ CodeSizes \subseteq Nat /\ DataSizes \subseteq Nat /\ BssSizes \subseteq Nat
    /\ GotWords \in Nat /\ {Base, MEM2, SRAM2, SRAM, Top} \subseteq Nat
    /\ 0 < Base /\ Base < MEM2 /\ MEM2 < SRAM2 /\ SRAM2 < SRAM /\ SRAM < Top

Byte(v) == <<"byte", v>>
Zero == Byte(0)
Junk == Byte(-1)
Marker == Byte(-2)
Zeros(n) == [i \in 1 .. n |-> Zero]
Word(v) == <<Byte(v)>> \o Zeros(WordSize - 1)
Bytes(name, n) == [i \in 1 .. n |-> <<name, i>>]
Part(s, from, to) == SubSeq(s, from + 1, to)    \* s[from:to]

ALIGN(n, a) == ((n + a - 1) \div a) * a
Section(name, n) == Bytes(name, n) \o Zeros(ALIGN(n, WordSize) - n)
-----------------------------------------------------------------------------
(* elfloader/stub.ld: the addresses, for a base of 0, and the bytes up to  *)
(* the end of .data.  A BSS ends on eight words, the stack follows it.     *)
HdrSize == 4 * WordSize
stub(sz) ==
    LET got == HdrSize + ALIGN(sz.code, WordSize)
        gotEnd == got + GotWords * WordSize
        bss == gotEnd + ALIGN(sz.data, WordSize)
        bssEnd == ALIGN(bss + sz.bss, 8 * WordSize)
    IN [got_start |-> got, got_end |-> gotEnd, bss_start |-> bss, bss_end |-> bssEnd,
        stack_addr |-> bssEnd + StackSize, loader_size |-> bssEnd + StackSize - HdrSize]

GotEntry(k) == k    \* an address of the loader, for a base of 0
Got == [i \in 1 .. GotWords * WordSize |->
           IF (i - 1) % WordSize = 0 THEN Byte(GotEntry((i - 1) \div WordSize)) ELSE Zero]
StubBin(sz) ==
    Word(HdrSize) \o Word(stub(sz).loader_size) \o Word(0) \o Word(0)
      \o Section("init", sz.code) \o Got \o Section("data", sz.data)

(* mini.ld: two regions with a BSS, the one in SRAM with three stacks      *)
(* behind it that begin and end on four words, and a region without.       *)
mini(sz) ==
    LET bss == SRAM2 + ALIGN(sz.data, WordSize)
        bss2 == MEM2 + ALIGN(sz.data2, WordSize)
        bssEnd == bss + ALIGN(sz.bss, WordSize)
        stackEnd == ALIGN(bssEnd, 4 * WordSize)
        stack == ALIGN(stackEnd + MiniStack, 4 * WordSize)
        irqstack == ALIGN(stack + VectorStack, 4 * WordSize)
    IN [bss_start |-> bss, bss_end |-> bssEnd, stack_end |-> stackEnd, stack_addr |-> stack,
        excstack_addr |-> ALIGN(irqstack + VectorStack, 4 * WordSize),
        bss2_start |-> bss2, bss2_end |-> bss2 + ALIGN(sz.bss, WordSize)]

Phdr(type, off, paddr, filesz, memsz) == <<"phdr", type, off, paddr, filesz, memsz>>
Ehdr(ident, phoff, phnum, entry) == <<"ehdr", ident, phoff, phnum, entry>>

(* An ELF file of mini; its first program header is not PT_LOAD.           *)
Elf(sz, ident, phoff) ==
    LET text == Section("text", sz.code)
        data == Section("data", sz.data)
        data2 == Section("data2", sz.data2)
        m == mini(sz)
    IN <<Ehdr(ident, phoff, 4, SRAM),
         Phdr("null", 0, 0, 1, 1),
         Phdr("load", 5, SRAM, Len(text), Len(text)),
         Phdr("load", 5 + Len(text), SRAM2, Len(data), m.excstack_addr - SRAM2),
         Phdr("load", 5 + Len(text) + Len(data), MEM2, Len(data2), m.bss2_end - MEM2)>>
       \o text \o data \o data2
-----------------------------------------------------------------------------
VARIABLES
    stubsz, minisz,  \* the sizes the linker found
    elffile,         \* mini's ELF, and
    loaderfile,      \* the loader, makebin.py's arguments
    found,           \* LoadMINI finds ES_ImportBoot2 in IOS
    image,           \* armboot.bin, linked into nswitch as `armboot'
    mem,             \* memory, by address
    pc,              \* where the boot is
    r1, r2, r4,      \* the ARM's registers
    phdr, count      \* loadelf's program header, and how many are left

vars == <<stubsz, minisz, elffile, loaderfile, found, image, mem, pc, r1, r2, r4, phdr, count>>
inputs == <<stubsz, minisz, elffile, loaderfile, found>>
regs == <<r1, r2, r4, phdr, count>>

HdrLen(f) == f[1][2]
LoaderLen(f) == f[WordSize + 1][2]

(* makebin.py: the parts of the loader file, and what it writes.           *)
hdr(f) == Part(f, 0, HdrLen(f))
loader(f) ==
    LET elfoff == HdrLen(f) + LoaderLen(f)
    IN Part(f, HdrLen(f), IF elfoff < Len(f) THEN elfoff ELSE Len(f))

NoPadding(f) == loader(f)
padded(f) == loader(f) \o Zeros(LoaderLen(f) - Len(loader(f)))

newdata(f, elf) ==
    Word(HdrLen(f)) \o Word(LoaderLen(f)) \o Word(Len(elf)) \o Word(0)
      \o Part(hdr(f), HdrSize, Len(hdr(f))) \o padded(f) \o elf

(* The loader file is the linker's, or an image made before.               *)
StubSizes == [code : CodeSizes, data : DataSizes, bss : BssSizes]
MiniSizes == [code : CodeSizes, data : DataSizes, data2 : DataSizes, bss : BssSizes]

(* The image ends below mini's lowest region.                              *)
ASSUME RoomAssumption ==
    \A s \in StubSizes, m \in MiniSizes :
        Base + HdrSize + stub(s).loader_size + Len(Elf(m, TRUE, 1)) <= MEM2

(* Each region holds its sections: the linker refuses what does not fit.   *)
ASSUME RegionAssumption ==
    \A m \in MiniSizes :
        mini(m).bss2_end <= SRAM2 /\ mini(m).excstack_addr <= SRAM
          /\ SRAM + ALIGN(m.code, WordSize) <= Top

Init ==
    /\ stubsz \in StubSizes /\ minisz \in MiniSizes
    /\ \E ident \in BOOLEAN, phoff \in {0, 1} :
          /\ ident \/ phoff = 1
          /\ elffile = Elf(minisz, ident, phoff)
    /\ loaderfile \in {StubBin(stubsz), newdata(StubBin(stubsz), <<Junk, Junk>>),
                       <<Byte(0)>> \o Tail(StubBin(stubsz))}
    /\ found \in BOOLEAN
    /\ image = <<>>
    /\ mem = [a \in 0 .. Top |-> Junk]
    /\ pc = "makebin" /\ r1 = 0 /\ r2 = 0 /\ r4 = 0 /\ phdr = 0 /\ count = 0
-----------------------------------------------------------------------------
(* makebin.py refuses a header shorter than the four words it replaces.    *)
(* (The slice is never longer than loaderlen: its other error cannot be.)  *)
makebin ==
    /\ pc = "makebin"
    /\ IF HdrLen(loaderfile) < HdrSize THEN pc' = "error" /\ UNCHANGED image
       ELSE pc' = "LoadMINI" /\ image' = newdata(loaderfile, elffile)
    /\ UNCHANGED <<inputs, mem, regs>>

(* LoadMINI patches the syscall in, when it finds the place, and copies    *)
(* the image into its data cache; the flush brings it to memory; ...       *)
LoadMINI ==
    /\ pc = "LoadMINI"
    /\ pc' = IF found THEN "flush" ELSE "waiting"
    /\ UNCHANGED <<inputs, image, mem, regs>>

DCFlushRange ==
    /\ pc = "flush"
    /\ mem' = [a \in 0 .. Top |-> IF a \in Base .. Base + Len(image) - 1 THEN image[a - Base + 1]
                                  ELSE mem[a]]
    /\ pc' = "ioctl"
    /\ UNCHANGED <<inputs, image, regs>>

(* ... then the ioctl makes IOS run the patched code, which starts what    *)
(* the first word of the image names.                                      *)
IoctlvAsync ==
    /\ pc = "ioctl"
    /\ pc' = "_start" /\ r1' = Base + mem[Base][2]
    /\ UNCHANGED <<inputs, image, mem, r2, r4, phdr, count>>
-----------------------------------------------------------------------------
(* elfloader/start.S: the base, from where _start is and was linked, ...   *)
S == stub(stubsz)
_start ==
    /\ pc = "_start"
    /\ r4' = r1 - HdrSize
    /\ r1' = S.got_start + r4' /\ r2' = S.got_end + r4'
    /\ pc' = "got_loop"
    /\ UNCHANGED <<inputs, image, mem, phdr, count>>

InMemory == r1 + WordSize - 1 \in 0 .. Top
StoreWord(w) == mem' = [a \in 0 .. Top |-> IF a \in r1 .. r1 + WordSize - 1 THEN w[a - r1 + 1]
                                           ELSE mem[a]]

(* ... the table's entries, a word at a time, ...                          *)
Relocate == StoreWord(Word(mem[r1][2] + r4))
got_loop ==
    /\ pc = "got_loop"
    /\ IF r1 = r2
       THEN /\ pc' = "bss_loop" /\ r1' = S.bss_start + r4 /\ r2' = S.bss_end + r4
            /\ UNCHANGED mem
       ELSE InMemory /\ Relocate /\ r1' = r1 + WordSize /\ UNCHANGED <<pc, r2>>
    /\ UNCHANGED <<inputs, image, r4, phdr, count>>

(* A loop of start.S that fills [r1, r2) a word at a time: it ends only    *)
(* when r1 meets r2.                                                       *)
Fill(here, cell) ==
    /\ pc = here /\ r1 # r2 /\ InMemory
    /\ StoreWord([i \in 1 .. WordSize |-> cell])
    /\ r1' = r1 + WordSize
    /\ UNCHANGED <<inputs, image, pc, r2, r4, phdr, count>>
Filled(here, there, from, to) ==
    /\ pc = here /\ r1 = r2
    /\ pc' = there /\ r1' = from /\ r2' = to
    /\ UNCHANGED <<inputs, image, mem, r4, phdr, count>>

(* ... and its own BSS, before it calls _main.                             *)
bss_loop == Fill("bss_loop", Zero) \/ Filled("bss_loop", "loader_main", 0, 0)

(* The loader's _main: calls use the stack below __stack_addr; the ELF is  *)
(* behind the header and the loader.                                       *)
WholeStack == S.bss_end + r4 .. S.stack_addr + r4 - 1
loader_main ==
    /\ pc = "loader_main"
    /\ mem' = [a \in 0 .. Top |-> IF a \in WholeStack THEN Junk ELSE mem[a]]
    /\ r1' = r4 + mem[r4][2] + mem[r4 + WordSize][2]
    /\ pc' = "loadelf"
    /\ UNCHANGED <<inputs, image, r2, r4, phdr, count>>

(* loadelf: not an ELF, or one without program headers, ends in panic; ... *)
loadelf ==
    /\ pc = "loadelf"
    /\ LET ehdr == mem[r1]
       IN IF ehdr[1] # "ehdr" \/ ~ehdr[2] \/ ehdr[3] = 0
          THEN pc' = "panic" /\ UNCHANGED <<phdr, count>>
          ELSE pc' = "phdrs" /\ phdr' = r1 + ehdr[3] /\ count' = ehdr[4]
    /\ UNCHANGED <<inputs, image, mem, r1, r2, r4>>

(* ... else each PT_LOAD is copied to its place, and the entry called.     *)
memcpy(p) ==
    mem' = [a \in 0 .. Top |-> IF a \in p[4] .. p[4] + p[5] - 1 THEN mem[r1 + p[3] + a - p[4]]
                               ELSE mem[a]]
OneTooFew ==
    /\ pc = "phdrs" /\ count > 0
    /\ IF count > 1 /\ mem[phdr][2] = "load" THEN memcpy(mem[phdr]) ELSE UNCHANGED mem
    /\ phdr' = phdr + 1 /\ count' = count - 1
    /\ UNCHANGED <<inputs, image, pc, r1, r2, r4>>

LoadSegment ==
    /\ pc = "phdrs" /\ count > 0
    /\ IF mem[phdr][2] = "load" THEN memcpy(mem[phdr]) ELSE UNCHANGED mem
    /\ phdr' = phdr + 1 /\ count' = count - 1
    /\ UNCHANGED <<inputs, image, pc, r1, r2, r4>>

L == mini(minisz)
Entry ==
    /\ pc = "phdrs" /\ count = 0
    /\ pc' = (IF mem[r1][5] = SRAM THEN "stk_loop" ELSE "lost") /\ r1' = L.stack_end /\ r2' = L.stack_addr
    /\ UNCHANGED <<inputs, image, mem, r4, phdr, count>>
-----------------------------------------------------------------------------
(* mini's start.S: the stack's marker, the BSS in SRAM and the one in MEM2.*)
stk_loop == Fill("stk_loop", Marker) \/ Filled("stk_loop", "bss1_loop", L.bss_start, L.bss_end)
bss1_loop == Fill("bss1_loop", Zero) \/ Filled("bss1_loop", "bss2_loop", L.bss2_start, L.bss2_end)
bss2_loop == Fill("bss2_loop", Zero) \/ Filled("bss2_loop", "_main", 0, 0)

Next ==
    \/ makebin \/ LoadMINI \/ DCFlushRange \/ IoctlvAsync \/ _start \/ got_loop \/ bss_loop
    \/ loader_main \/ loadelf \/ LoadSegment \/ Entry \/ stk_loop \/ bss1_loop \/ bss2_loop

Spec == Init /\ [][Next]_vars
FairSpec == Spec /\ WF_vars(Next)
-----------------------------------------------------------------------------
At(from, s) == \A i \in 1 .. Len(s) : mem[from + i - 1] = s[i]
All(from, to, cell) == \A a \in from .. to - 1 : mem[a] = cell

(* From the jump to the loader until mini is entered, mini's ELF stays as  *)
(* it was built, right behind the loader's stack: neither the relocation,  *)
(* the BSS clear nor the stack reaches it, nor a segment that was copied.  *)
Running == {"_start", "got_loop", "bss_loop", "loader_main", "loadelf", "phdrs"}
ElfIntact ==
    pc \in Running =>
        /\ At(Base + HdrSize + S.loader_size, elffile)
        /\ pc \in {"loadelf", "phdrs"} => r1 = Base + HdrSize + S.loader_size

(* Every section is where it was linked, with the bytes it was linked      *)
(* with, the BSSs are zero and as large as asked for, the stack carries    *)
(* its marker, and the loader's table was relocated exactly once.          *)
Ready ==
    /\ At(SRAM, Bytes("text", minisz.code)) /\ At(SRAM2, Bytes("data", minisz.data))
    /\ At(MEM2, Bytes("data2", minisz.data2))
    /\ All(L.bss_start, L.bss_end, Zero) /\ All(L.bss2_start, L.bss2_end, Zero)
    /\ L.bss_end - L.bss_start >= minisz.bss /\ L.bss2_end - L.bss2_start >= minisz.bss
    /\ All(L.stack_end, L.stack_addr, Marker)
    /\ \A k \in 0 .. GotWords - 1 :
          mem[Base + S.got_start + k * WordSize] = Byte(GotEntry(k) + Base)

Outcome ==
    IF HdrLen(loaderfile) < HdrSize THEN "error"
    ELSE IF ~found THEN "waiting"
    ELSE IF elffile[1][2] /\ elffile[1][3] # 0 THEN "_main" ELSE "panic"

(* The boot ends where it should, whatever the sizes are modulo a word: in *)
(* mini's _main with a good ELF, and then with everything in its place; in *)
(* panic with a bad one; in an error of makebin.py; or, when the place to  *)
(* patch is not found, with nothing started.  No loop runs past its end.   *)
BootRight == <>[](pc = Outcome /\ (pc = "_main" => Ready))
=============================================================================
