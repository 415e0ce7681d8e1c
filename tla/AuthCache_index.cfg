\* Index convergence under role and binding churn, two handler goroutines.
CONSTANTS
    n1 = n1  n2 = n2  u1 = u1  g1 = g1  r1 = r1  r2 = r2  b1 = b1  b2 = b2  w1 = w1
    Absent = Absent  None = None
    Names <- MCNames
    Users <- MCUsers
    Groups <- MCGroups
    RoleNames <- MCRoleNames
    BindingNames <- MCBindingNames
    Watchers <- MCWatchers
    WatcherSubject <- MCWatcherSubject
    RoleGrants <- MCRoleGrants
    BindingSpecs <- MCBindingSpecs
    InitRoles <- MCInitRoles
    InitBindings <- MCInitBindings
    InitClusterSets = {n1}
    MaxWrites = 3
    ClusterSetChurn = FALSE
SPECIFICATION Spec
INVARIANT TypeOK
INVARIANT IndexConvergesWhenQuiescent
 
CHECK_DEADLOCK FALSE
