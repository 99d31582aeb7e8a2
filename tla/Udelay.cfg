SPECIFICATION FairUdelaySpec
CONSTANTS
    Wrap = 16
    Delays <- MCDelays
    Gaps <- MCGaps
INVARIANT Punctual
PROPERTY DelayEnds
