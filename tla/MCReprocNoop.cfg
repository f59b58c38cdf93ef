SPECIFICATION Spec
CHECK_DEADLOCK FALSE
CONSTANTS
    Process = {"p"}
    ExitCode = {0}
    Timeouts <- NoopTimeouts
    Deadlines <- NoopDeadlines
    Calls <- NoopCalls
    StopArgs <- NoopStopArgs
    SourceLists <- NoopSources
INVARIANT StopTellsOfChild
