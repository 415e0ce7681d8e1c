\* The two informer handler goroutines notify the same watch concurrently.
CONSTANTS
    Absent = Absent  None = None
    NumNames = 2
    MaxRV = 3
    Callers = {c1, c2}
    BufCap = 1
    MaxCalls = 3
    MaxStarts = 1
    IncludeAll = TRUE
    InitStore <- MCInitStore
    InitAccess <- MCInitAccess
SPECIFICATION Spec
PROPERTY WatchStreamWellFormed
CHECK_DEADLOCK FALSE
