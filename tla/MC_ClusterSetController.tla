----------------------- MODULE MC_ClusterSetController -----------------------
(* One exclusive set s1, the global set, one cluster and one hive object. *)
EXTENDS ClusterSetController

CONSTANTS s1, global, c1, p1, ns1

MCSets == {s1, global}
MCClusters == {c1}
MCPools == {p1}
MCPoolNamespace == [p \in MCPools |-> ns1]
=============================================================================
