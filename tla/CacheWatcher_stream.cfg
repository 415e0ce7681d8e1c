\* One notifying goroutine, one run: stream shape, bookkeeping, liveness.
CONSTANTS
    Absent = Absent  None = None
    NumNames = 2
    MaxRV = 3
    Callers = {c1}
    BufCap = 1
    MaxCalls = 3
    MaxStarts = 1
    IncludeAll = TRUE
    InitStore <- MCInitStore
    InitAccess <- MCInitAccess
SPECIFICATION Spec
INVARIANT TypeOK
INVARIANT ClientMatchesKnown
PROPERTY WatchStreamWellFormed
PROPERTY StopClosesStream
CHECK_DEADLOCK FALSE
