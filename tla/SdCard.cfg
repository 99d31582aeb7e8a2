SPECIFICATION Spec
CONSTANTS
    Cards = {hc, sc}
    NoCard = NoCard
    HighCapacity = {hc}
    Sectors <- MCSectors
    BlockLen = 2
    AddressSpace = 6
    MaxTries = 2
    MaxCount = 2
    MaxJobs = 2
    MaxSwaps = 2
INVARIANTS WriteConfined WriteHonest ReadHonest
