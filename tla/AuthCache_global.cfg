\* Cluster sets created and deleted under roles granting all: List must stay sound.
CONSTANTS
    n1 = n1  n2 = n2  u1 = u1  g1 = g1  r1 = r1  r2 = r2  b1 = b1  b2 = b2  w1 = w1
    Absent = Absent  None = None
    Names <- MCNames
    Users <- MCUsers
    Groups <- MCGroups
    RoleNames <- MCRoleNames
    BindingNames <- MCBindingNames
    Watchers <- MCWatchers
    WatcherSubject <- MCWatcherSubject
    RoleGrants <- MCRoleGrants
    BindingSpecs <- MCBindingSpecs
    InitRoles <- MCInitRoles
    InitBindings <- MCInitBindings
    InitClusterSets = {n1}
    MaxWrites = 3
    ClusterSetChurn = TRUE
SPECIFICATION Spec
INVARIANT ListSound
CHECK_DEADLOCK FALSE
