SPECIFICATION FairSpec
CONSTANTS
    MaxCmds = 3
    MaxPauses = 1
    Profiles <- MCProfiles
INVARIANTS ResponseIsOwnIfPrompt QuietAfterReturn TransferIsDone
PROPERTY CommandsEnd
CHECK_DEADLOCK FALSE
