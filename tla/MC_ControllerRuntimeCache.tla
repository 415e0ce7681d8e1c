---------------------- MODULE MC_ControllerRuntimeCache ----------------------
(* Model-checking instance of ControllerRuntimeCache: two cluster sets,    *)
(* one user, one group, two roles, two bindings; every initial content of  *)
(* the stores is explored.                                                 *)
EXTENDS ControllerRuntimeCache

CONSTANTS n1, n2, u1, g1, r1, r2, b1, b2, w1

MCNames == {n1, n2}
MCUsers == {u1}
MCGroups == {g1}
MCRoleNames == {r1, r2}
MCBindingNames == {b1, b2}

(* Three rule lists: one naming n1 (its rule for n2 grants update only), *)
(* one whose wildcard rule for n2 precedes a rule granting every cluster  *)
(* set, and one granting every object of another resource.               *)
G == "cluster.open-cluster-management.io"
MCRoleContents ==
    { << [apiGroups |-> {G}, resources |-> {"managedclustersets"},
          verbs |-> {"get"}, resourceNames |-> {n1}],
         [apiGroups |-> {"*"}, resources |-> {"managedclustersets"},
          verbs |-> {"update"}, resourceNames |-> {n2}] >>,
      << [apiGroups |-> {"*"}, resources |-> {"*"},
          verbs |-> {"list"}, resourceNames |-> {n2}],
         [apiGroups |-> {G}, resources |-> {"managedclustersets"},
          verbs |-> {"*"}, resourceNames |-> {}] >>,
      << [apiGroups |-> {G}, resources |-> {"managedclusters"},
          verbs |-> {"get"}, resourceNames |-> {}] >> }

MCBindingSpecs ==
    {[roleRef |-> r1, subjects |-> {[kind |-> "User", name |-> u1]}],
     [roleRef |-> r2, subjects |-> {[kind |-> "Group", name |-> g1],
                                    [kind |-> "ServiceAccount", name |-> u1]}]}
=============================================================================
