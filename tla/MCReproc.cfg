SPECIFICATION FairSpec
CHECK_DEADLOCK FALSE
CONSTANTS
    Process = {"p", "q"}
    ExitCode = {0}
    Timeouts <- MCTimeouts
    Deadlines <- MCDeadlines
    Calls <- MCCalls
    StopArgs <- MCStopArgs
    SourceLists <- MCSourceLists
INVARIANTS
    TypeOK
    StatusIsTheChilds
    SignalsOwnChild
    BlocksOnlyIfLetGo
    
    PollKeepsDeadline
PROPERTY KillReturns
