SPECIFICATION FairSpec
CONSTANTS
    WordSize = 2
    StackSize = 4
    MiniStack = 6
    VectorStack = 3
    CodeSizes <- MCCodeSizes
    DataSizes <- MCDataSizes
    BssSizes <- MCBssSizes
    GotWords = 2
    Base = 4
    MEM2 = 60
    SRAM2 = 70
    SRAM = 104
    Top = 110
INVARIANT ElfIntact
PROPERTY BootRight
CHECK_DEADLOCK FALSE
