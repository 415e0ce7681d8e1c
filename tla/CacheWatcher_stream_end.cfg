\* The stream after Stop.
CONSTANTS
    Absent = Absent  None = None
    NumNames = 2
    MaxRV = 3
    Callers = {c1}
    BufCap = 1
    MaxCalls = 3
    MaxStarts = 1
    IncludeAll = TRUE
    InitStore <- MCInitStore
    InitAccess <- MCInitAccess
SPECIFICATION Spec
PROPERTY StreamEnds
CHECK_DEADLOCK FALSE
