\* Create, relabel and delete under cache lag and failed calls, one worker.
CONSTANTS
    s1 = s1  global = global  c1 = c1  p1 = p1  ns1 = ns1
    Absent = Absent  None = None
    Sets <- MCSets
    Exclusive = {s1}
    GlobalSetName = global
    Clusters <- MCClusters
    Pools <- MCPools
    PoolNamespace <- MCPoolNamespace
    MaxWrites = 3
    MaxErrors = 1
SPECIFICATION Spec
INVARIANT TypeOK
INVARIANT NoOrphanedResources
PROPERTY ImplementsLifecycle
PROPERTY MappersConverge
CHECK_DEADLOCK FALSE
