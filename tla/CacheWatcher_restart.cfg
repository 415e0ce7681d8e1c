\* Stop then Start on the same watch.
CONSTANTS
    Absent = Absent  None = None
    NumNames = 2
    MaxRV = 3
    Callers = {c1}
    BufCap = 1
    MaxCalls = 3
    MaxStarts = 2
    IncludeAll = TRUE
    InitStore <- MCInitStore
    InitAccess <- MCInitAccess
SPECIFICATION Spec
INVARIANT NoDoubleClose
CHECK_DEADLOCK FALSE
