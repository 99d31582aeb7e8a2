SPECIFICATION FairSpec
CONSTANTS
    Volumes <- MCVolumes
    Paths <- MCPaths
    Modes <- MCModes
    Body = 2
    Ext = 1
    Slots = 2
    csize = 2
    n_rootdir = 4
    max_clust = 6
    MaxIndex = 11
    MaxOpens = 2
    MaxFaults = 1
    MaxCrashes = 1
INVARIANTS LookupRight NamesUnique NoGhosts
PROPERTIES EntriesKept CallsEnd
CHECK_DEADLOCK FALSE
