--------------------------- MODULE MC_AuthCache ----------------------------
(* Model-checking instance of AuthCache: two cluster sets, one user, one   *)
(* group, two roles, two bindings, one watcher.                            *)
EXTENDS AuthCache, TLC

CONSTANTS n1, n2, u1, g1, r1, r2, b1, b2, w1

MCNames == {n1, n2}
MCUsers == {u1}
MCGroups == {g1}
MCRoleNames == {r1, r2}
MCBindingNames == {b1, b2}
MCWatchers == {w1}
(* w1 is a watch of u1, who is in no group. *)
MCWatcherSubject == w1 :> [user |-> u1, groups |-> {}]

(* A role naming n1, and a role granting every cluster set. *)
MCRoleGrants == {[names |-> {n1}, all |-> FALSE], [names |-> {}, all |-> TRUE]}
(* Only all-granting roles, for the cluster-set churn runs. *)
MCGlobalGrants == {[names |-> {}, all |-> TRUE]}

MCBindingSpecs ==
    {[roleRef |-> r1, subjects |-> {[kind |-> "User", name |-> u1]}],
     [roleRef |-> r2, subjects |-> {[kind |-> "Group", name |-> g1],
                                    [kind |-> "ServiceAccount", name |-> u1]}],
     [roleRef |-> r2, subjects |-> {[kind |-> "User", name |-> u1]}]}
(* At creation: r1 names n1, r2 grants all, b1 binds u1 to r1, n1 exists. *)
MCInitRoles == (r1 :> [names |-> {n1}, all |-> FALSE]) @@ (r2 :> [names |-> {}, all |-> TRUE])
MCInitGlobalRoles == (r1 :> [names |-> {}, all |-> TRUE]) @@ (r2 :> [names |-> {}, all |-> TRUE])
MCInitBindings == (b1 :> [roleRef |-> r1, subjects |-> {[kind |-> "User", name |-> u1]}])
                  @@ (b2 :> Absent)
=============================================================================
