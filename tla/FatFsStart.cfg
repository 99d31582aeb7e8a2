SPECIFICATION Spec
CONSTANTS
    Files = {SLC, SLCCMPT}
    OldFile = SLC
    OldChains <- MCOldChains
    max_clust = 6
    EntriesPerSect = 3
    csize = 2
    WriteLen = 3
    MaxOpens = 1
    MaxWrites = 2
    MaxFaults = 1
    MaxCrashes = 0
INVARIANT StartIsCluster
CHECK_DEADLOCK FALSE
