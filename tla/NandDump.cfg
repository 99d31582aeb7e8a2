SPECIFICATION FairSpec
CONSTANTS
    NAND_MAX_PAGE = 4
    PAGES_PER_ITERATION = 2
    Banks = {SLC, SLCCMPT}
    NoBank = NoBank
    BadBank = BadBank
    Flipped = {1}
    Broken = {2}
    OtherIrqs = {TIMER, GPIO1}
    Timer = TIMER
    None = None
    MaxCalls = 2
INVARIANTS TypeOK BatchFaithful NoLostWakeup DmaOwnsBuffers CompletionIsCurrent IrqsRestored
PROPERTIES DumpImplemented DumpEnds
CHECK_DEADLOCK FALSE
