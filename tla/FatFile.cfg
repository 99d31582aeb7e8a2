SPECIFICATION FairSpec
CONSTANTS
    SS = 2
    csize = 2
    NClusters = 3
    SizeLimit = 12
    OldSizes <- MCOldSizes
    Lengths <- MCLengths
    MaxCalls = 4
    MaxFaults = 1
INVARIANTS FileIntact PointerInStep SyncIsDurable
PROPERTIES ReadAfterSync CallsEnd
CHECK_DEADLOCK FALSE
