SPECIFICATION FairSpec
CHECK_DEADLOCK FALSE
CONSTANTS
    Filters <- MCFilters
    MaxChunks = 2
    PipeSize = 1
INVARIANT FirstLosesNothing
PROPERTY OneEndsBoth
