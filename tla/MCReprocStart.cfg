SPECIFICATION FairSpec
CHECK_DEADLOCK FALSE
CONSTANTS
    FdLimit <- MCFdLimit
    Options <- MCOptions
    ParentTables <- MCParentTables
INVARIANTS
    NoCrossWait
    NothingLeaks
    ResultTellsChild
    ChildsErrorReturned
    SignalsBack
    ChildHasItsStreams
PROPERTY StartReturns
