SPECIFICATION FairSpec
CONSTANTS
    Readers <- MCReaders
    StrLen = 1
    MaxEvents = 1
INVARIANTS InOrder NoneLostIfPrompt MaskFollowsSections
PROPERTIES EndReached
CHECK_DEADLOCK FALSE
