SPECIFICATION Spec
CONSTANTS
    Files = {SLC, SLCCMPT}
    OldFile = SLC
    OldChains <- MCOldChains
    max_clust = 6
    EntriesPerSect = 3
    csize = 2
    WriteLen = 3
    MaxOpens = 2
    MaxWrites = 2
    MaxFaults = 2
    MaxCrashes = 1
INVARIANTS ChainsIntact CloseIsDurable FullIsFull SpaceAccounted
CHECK_DEADLOCK FALSE
