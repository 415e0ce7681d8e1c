\* Writes after Start and failed reads during the build: nothing repairs the index.
CONSTANTS
    n1 = n1  n2 = n2  u1 = u1  g1 = g1  r1 = r1  r2 = r2  b1 = b1  b2 = b2  w1 = w1
    Absent = Absent
    Names <- MCNames
    Users <- MCUsers
    Groups <- MCGroups
    RoleNames <- MCRoleNames
    BindingNames <- MCBindingNames
    RoleContents <- MCRoleContents
    BindingSpecs <- MCBindingSpecs
    MaxWrites = 1
    ReadErrors = TRUE
    WriteAfterStart = TRUE
    Watchers = {w1}
    MaxWatcherEntries = 2
SPECIFICATION Spec
INVARIANT ListMatchesRBACWhenRunning
CHECK_DEADLOCK FALSE
