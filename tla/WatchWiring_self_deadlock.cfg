\* One informer handler, one registered watch whose client may stop reading,
\* and one watch being added.
CONSTANTS
    h1 = h1
    w1 = w1
    w2 = w2
    None = None
    Handlers <- MCHandlers
    Watchers <- MCWatchers
    InitWatchers <- MCInitWatchers
    BufCap = 1
    MaxNotifies = 2
SPECIFICATION Spec
PROPERTY NotifyReturns
CHECK_DEADLOCK FALSE
