SPECIFICATION FairSpec
CHECK_DEADLOCK FALSE
CONSTANTS
    Capacity = 2
    MaxChunks = 3
    Deadlines = {0, 1}
    SinkResults <- MCSinkResults
INVARIANT RunDelivers
PROPERTIES RunReturns LoopEnds
