SPECIFICATION Spec
CONSTANTS
    MaxCmds = 3
    MaxPauses = 1
    Profiles <- MCSlow
INVARIANT ResponseIsOwn
CHECK_DEADLOCK FALSE
