------------------------- MODULE ClusterSetController -------------------------
(***************************************************************************)
(* The clusterset cluster-role reconciler (src/pkg/controllers/clusterset/ *)
(* clustersetmapper/clusterset_controller.go).  One worker takes cluster   *)
(* set names from a deduplicating work queue and runs Reconcile on the     *)
(* ManagedClusterSet it reads from the manager's informer cache:           *)
(*   - an object under deletion with the finalizer: cleanClusterSetResource *)
(*     (delete the bind, view and, for exclusive sets, admin cluster role, *)
(*     then drop the set from the mappers), then Update without finalizer; *)
(*   - otherwise: add the finalizer by Update if missing, apply the        *)
(*     cluster roles, then syncClustersetMapper.                           *)
(* Every error returns to controller-runtime, which requeues the name.     *)
(*                                                                         *)
(* The informer cache of cluster sets lags the API server (SyncSet) but    *)
(* never goes back; an Update carries the cached resourceVersion and fails *)
(* on a newer object (conflict) or a missing one (NotFound).  Cluster and  *)
(* hive object lists are taken as current.  The mappers' helpers are      *)
(* outside this repository: UpdateClusterSetByObjects is taken as          *)
(* assignment, DeleteClusterSet as the empty set, GetObjectClusterset as   *)
(* any set whose entry holds the object, and DeleteClusterRole as ignoring *)
(* NotFound.                                                               *)
(***************************************************************************)
EXTENDS Naturals, FiniteSets, Sequences

CONSTANTS
    Sets,           \* ManagedClusterSet names
    Exclusive,      \* sets whose selectorType is ExclusiveClusterSetLabel
    GlobalSetName,  \* the global set: a LabelSelector set selecting all
    Clusters,       \* ManagedCluster names
    Pools,          \* hive objects (ClusterPool, ClusterClaim, ClusterDeployment)
    PoolNamespace,  \* the namespace of each hive object
    MaxWrites,      \* bound on API writes by users
    MaxErrors,      \* bound on failed API calls of the reconciler
    Absent,         \* model value: no object of that name
    None            \* model value: no cluster set label

Namespaces == {PoolNamespace[p] : p \in Pools}
RoleKinds == {"admin", "bind", "view"}
Label == Sets \cup {None}

ASSUME
    /\ Exclusive \subseteq Sets /\ GlobalSetName \in Sets \ Exclusive
    /\ MaxWrites \in Nat /\ MaxErrors \in Nat

(* The resourceVersion clock: users' writes and the reconciler's finalizer *)
(* Update each take the next value.                                        *)
MaxRV == 2 * MaxWrites
Object == [fin : BOOLEAN, del : BOOLEAN, rv : 1..MaxRV]

VARIABLES
    obj,            \* the API server's ManagedClusterSets
    cache,          \* the informer cache's copy of each
    rvClock,
    clusterLabel,   \* ManagedCluster cluster-set label (Absent: no cluster)
    poolLabel,      \* the same for each hive object
    roles,          \* existing clusterset cluster roles, <<set, kind>>
    clusterSetClusterMapper, globalClusterSetClusterMapper,
    clusterSetNamespaceMapper,
    queue,          \* the work queue
    pc, cur, snap,  \* the worker: step, name, object read by Get
    writes, errors

vars == <<obj, cache, rvClock, clusterLabel, poolLabel, roles,
          clusterSetClusterMapper, globalClusterSetClusterMapper,
          clusterSetNamespaceMapper, queue, pc, cur, snap, writes, errors>>

mappers == <<clusterSetClusterMapper, globalClusterSetClusterMapper,
             clusterSetNamespaceMapper>>

TypeOK ==
    /\ obj \in [Sets -> Object \cup {Absent}]
    /\ cache \in [Sets -> Object \cup {Absent}]
    /\ rvClock \in 0..MaxRV
    /\ clusterLabel \in [Clusters -> Label \cup {Absent}]
    /\ poolLabel \in [Pools -> Label \cup {Absent}]
    /\ roles \subseteq Sets \X RoleKinds
    /\ clusterSetClusterMapper \in [Sets -> SUBSET Clusters]
    /\ globalClusterSetClusterMapper \in [Sets -> SUBSET Clusters]
    /\ clusterSetNamespaceMapper \in [Sets -> SUBSET Namespaces]
    /\ queue \subseteq Sets
    /\ pc \in {"idle", "addFinalizer", "apply", "sync", "clean", "removeFinalizer"}
    /\ cur \in Sets \cup {None}
    /\ snap \in Object \cup {Absent}
    /\ writes \in 0..MaxWrites /\ errors \in 0..MaxErrors

Init ==
    /\ obj = [s \in Sets |-> Absent]
    /\ cache = obj
    /\ rvClock = 0
    /\ clusterLabel \in [Clusters -> Label \cup {Absent}]
    /\ poolLabel \in [Pools -> Label \cup {Absent}]
    /\ roles = {}
    /\ clusterSetClusterMapper = [s \in Sets |-> {}]
    /\ globalClusterSetClusterMapper = [s \in Sets |-> {}]
    /\ clusterSetNamespaceMapper = [s \in Sets |-> {}]
    /\ queue = {}
    /\ pc = "idle" /\ cur = None /\ snap = Absent
    /\ writes = 0 /\ errors = 0

-----------------------------------------------------------------------------
(* Event routing (add): a ManagedClusterSet event queues its own name; a  *)
(* cluster or hive object event is mapped by getRequiredClusterSet, for   *)
(* the old and the new object of an update: the object's label, and the  *)
(* set the mapper holds the object under.  A cluster event also queues   *)
(* the global set.                                                         *)
GetObjectClusterset(mapper, o) ==
    IF \E t \in Sets : o \in mapper[t] THEN {t \in Sets : o \in mapper[t]}
    ELSE {None}

(* Mutant: the empty-label and empty-lookup checks are dropped.           *)
getRequiredClusterSetNoCheck(label, found) == {label, found}

getRequiredClusterSet(label, found) == ({label} \cup {found}) \cap Sets

(* The informer observes the API server's current object and queues it.   *)
SyncSet(s) ==
    /\ cache[s] # obj[s]
    /\ cache' = [cache EXCEPT ![s] = obj[s]]
    /\ queue' = queue \cup {s}
    /\ UNCHANGED <<obj, rvClock, clusterLabel, poolLabel, roles, mappers,
                   pc, cur, snap, writes, errors>>

(* Users create and delete cluster sets; deleting an object that carries a *)
(* finalizer only sets its deletionTimestamp.                              *)
UserWrite ==
    /\ writes < MaxWrites
    /\ writes' = writes + 1

CreateSet(s) ==
    /\ UserWrite
    /\ obj[s] = Absent
    /\ rvClock' = rvClock + 1
    /\ obj' = [obj EXCEPT ![s] = [fin |-> FALSE, del |-> FALSE, rv |-> rvClock + 1]]
    /\ UNCHANGED <<cache, clusterLabel, poolLabel, roles, mappers, queue,
                   pc, cur, snap, errors>>

DeleteSet(s) ==
    /\ UserWrite
    /\ obj[s] # Absent /\ ~obj[s].del
    /\ rvClock' = rvClock + 1
    /\ obj' = [obj EXCEPT ![s] = IF @.fin THEN [@ EXCEPT !.del = TRUE, !.rv = rvClock + 1]
                                          ELSE Absent]
    /\ UNCHANGED <<cache, clusterLabel, poolLabel, roles, mappers, queue,
                   pc, cur, snap, errors>>

(* The requests the map function yields for one object of an event; a    *)
(* created or deleted object has only one side.                           *)
Mapped(label, found) == IF label = Absent THEN {} ELSE getRequiredClusterSet(label, found)

(* A ManagedCluster is created, relabelled or deleted (label Absent).      *)
ChangeCluster(c, l) ==
    /\ UserWrite
    /\ l # clusterLabel[c]
    /\ clusterLabel' = [clusterLabel EXCEPT ![c] = l]
    /\ \E fOld, fNew \in GetObjectClusterset(clusterSetClusterMapper, c) :
         queue' = queue \cup Mapped(clusterLabel[c], fOld) \cup Mapped(l, fNew)
                        \cup {GlobalSetName}
    /\ UNCHANGED <<obj, cache, rvClock, poolLabel, roles, mappers, pc, cur, snap,
                   errors>>

(* A ClusterPool, ClusterClaim or ClusterDeployment is created, relabelled *)
(* or deleted; the mapper is looked up by the object's namespace.          *)
ChangePool(p, l) ==
    /\ UserWrite
    /\ l # poolLabel[p]
    /\ poolLabel' = [poolLabel EXCEPT ![p] = l]
    /\ \E fOld, fNew \in GetObjectClusterset(clusterSetNamespaceMapper, PoolNamespace[p]) :
         queue' = queue \cup Mapped(poolLabel[p], fOld) \cup Mapped(l, fNew)
    /\ UNCHANGED <<obj, cache, rvClock, clusterLabel, roles, mappers, pc, cur, snap,
                   errors>>

-----------------------------------------------------------------------------
(* The worker.  Reconcile returns: to the queue on an error (Requeue), or *)
(* done (Finish).                                                          *)
Finish == pc' = "idle" /\ cur' = None /\ snap' = Absent

(* Mutant: an error is swallowed and the name is not requeued.             *)
RequeueDropped == Finish /\ UNCHANGED queue

Requeue == Finish /\ queue' = queue \cup {cur}

(* A failed API call of the reconciler (bounded by MaxErrors).             *)
InjectedError == errors < MaxErrors /\ errors' = errors + 1

(* An Update carrying the object read by Get succeeds only on that very   *)
(* version of the object.                                                  *)
UpdateMatches == obj[cur] # Absent /\ obj[cur].rv = snap.rv

(* Mutant: a set without the finalizer is applied at once.                 *)
ReconcileNoFinalizer(s) ==
    /\ pc = "idle" /\ s \in queue
    /\ queue' = queue \ {s}
    /\ IF cache[s] = Absent \/ (cache[s].del /\ ~cache[s].fin)
         THEN Finish
         ELSE /\ cur' = s /\ snap' = cache[s]
              /\ pc' = IF cache[s].del THEN "clean" ELSE "apply"
    /\ UNCHANGED <<obj, cache, rvClock, clusterLabel, poolLabel, roles, mappers,
                   writes, errors>>

(* Mutant: an object under deletion is left alone.                         *)
ReconcileIgnoreDeleting(s) ==
    /\ pc = "idle" /\ s \in queue
    /\ queue' = queue \ {s}
    /\ IF cache[s] = Absent \/ cache[s].del
         THEN Finish
         ELSE /\ cur' = s /\ snap' = cache[s]
              /\ pc' = IF cache[s].fin THEN "apply" ELSE "addFinalizer"
    /\ UNCHANGED <<obj, cache, rvClock, clusterLabel, poolLabel, roles, mappers,
                   writes, errors>>

(* Reconcile: take a name, Get it from the cache (NotFound: done), and     *)
(* branch on the deletionTimestamp and the finalizer.                      *)
Reconcile(s) ==
    /\ pc = "idle" /\ s \in queue
    /\ queue' = queue \ {s}
    /\ IF cache[s] = Absent \/ (cache[s].del /\ ~cache[s].fin)
         THEN Finish
         ELSE /\ cur' = s /\ snap' = cache[s]
              /\ pc' = CASE cache[s].del -> "clean"
                         [] ~cache[s].fin -> "addFinalizer"
                         [] OTHER -> "apply"
    /\ UNCHANGED <<obj, cache, rvClock, clusterLabel, poolLabel, roles, mappers,
                   writes, errors>>

(* The finalizer is added by Update; then the roles are applied.           *)
addFinalizer ==
    /\ pc = "addFinalizer"
    /\ \/ /\ UpdateMatches
          /\ rvClock' = rvClock + 1
          /\ obj' = [obj EXCEPT ![cur] = [snap EXCEPT !.fin = TRUE, !.rv = rvClock + 1]]
          /\ snap' = obj'[cur]
          /\ pc' = "apply"
          /\ UNCHANGED <<queue, cur, errors>>
       \/ /\ ~UpdateMatches
          /\ Requeue
          /\ UNCHANGED <<obj, rvClock, errors>>
       \/ /\ InjectedError
          /\ Requeue
          /\ UNCHANGED <<obj, rvClock>>
    /\ UNCHANGED <<cache, clusterLabel, poolLabel, roles, mappers, writes>>

(* applyClusterSetClusterRoles: admin (exclusive sets only), bind and view *)
(* are each created or updated; a failure does not stop the others, and    *)
(* the aggregated error requeues.                                          *)
RolesFor(s) == IF s \in Exclusive THEN RoleKinds ELSE RoleKinds \ {"admin"}

applyClusterSetClusterRoles ==
    /\ pc = "apply"
    /\ \E ok \in SUBSET RolesFor(cur) :
         /\ roles' = roles \cup ({cur} \X ok)
         /\ IF ok = RolesFor(cur)
              THEN pc' = "sync" /\ UNCHANGED <<queue, cur, snap, errors>>
              ELSE InjectedError /\ Requeue
    /\ UNCHANGED <<obj, cache, rvClock, clusterLabel, poolLabel, mappers, writes>>

(* What the selectors pick: an exclusive set the clusters and hive objects *)
(* labelled with its name; the global set every cluster.                   *)
SelectedClusters(s) ==
    IF s \in Exclusive THEN {c \in Clusters : clusterLabel[c] = s}
    ELSE {c \in Clusters : clusterLabel[c] # Absent}

SelectedNamespaces(s) == {PoolNamespace[p] : p \in {q \in Pools : poolLabel[q] = s}}

(* syncClustersetMapper: list the clusters (an error returns); a global    *)
(* set updates the global mapper and returns; an exclusive set updates the *)
(* cluster mapper, then lists the hive objects (an error returns) and      *)
(* updates the namespace mapper.                                           *)
syncClustersetMapper ==
    /\ pc = "sync"
    /\ \/ /\ InjectedError
          /\ Requeue
          /\ UNCHANGED mappers
       \/ /\ cur \notin Exclusive
          /\ globalClusterSetClusterMapper' =
               [globalClusterSetClusterMapper EXCEPT ![cur] = SelectedClusters(cur)]
          /\ Finish
          /\ UNCHANGED <<clusterSetClusterMapper, clusterSetNamespaceMapper, queue, errors>>
       \/ /\ cur \in Exclusive
          /\ clusterSetClusterMapper' =
               [clusterSetClusterMapper EXCEPT ![cur] = SelectedClusters(cur)]
          /\ \/ /\ clusterSetNamespaceMapper' =
                     [clusterSetNamespaceMapper EXCEPT ![cur] = SelectedNamespaces(cur)]
                /\ Finish
                /\ UNCHANGED <<queue, errors>>
             \/ /\ InjectedError
                /\ Requeue
                /\ UNCHANGED clusterSetNamespaceMapper
          /\ UNCHANGED globalClusterSetClusterMapper
    /\ UNCHANGED <<obj, cache, rvClock, clusterLabel, poolLabel, roles, writes>>

(* cleanClusterSetResource: delete bind, then view, then (exclusive sets)  *)
(* admin, returning at the first error; then drop the set from the cluster *)
(* and namespace mappers (exclusive) or from the global mapper.            *)
DeleteOrder(s) == IF s \in Exclusive THEN <<"bind", "view", "admin">> ELSE <<"bind", "view">>

cleanClusterSetResource ==
    /\ pc = "clean"
    /\ LET order == DeleteOrder(cur) IN
       \/ /\ roles' = roles \ ({cur} \X {order[i] : i \in 1..Len(order)})
          /\ IF cur \in Exclusive
               THEN /\ clusterSetClusterMapper' = [clusterSetClusterMapper EXCEPT ![cur] = {}]
                    /\ clusterSetNamespaceMapper' = [clusterSetNamespaceMapper EXCEPT ![cur] = {}]
                    /\ UNCHANGED globalClusterSetClusterMapper
               ELSE /\ globalClusterSetClusterMapper' =
                         [globalClusterSetClusterMapper EXCEPT ![cur] = {}]
                    /\ UNCHANGED <<clusterSetClusterMapper, clusterSetNamespaceMapper>>
          /\ pc' = "removeFinalizer"
          /\ UNCHANGED <<queue, cur, snap, errors>>
       \/ \E k \in 0..(Len(order) - 1) :
          /\ roles' = roles \ ({cur} \X {order[i] : i \in 1..k})
          /\ InjectedError
          /\ Requeue
          /\ UNCHANGED mappers
    /\ UNCHANGED <<obj, cache, rvClock, clusterLabel, poolLabel, writes>>

(* The finalizer is removed by Update; with no finalizer left the API      *)
(* server completes the deletion.                                          *)
removeFinalizer ==
    /\ pc = "removeFinalizer"
    /\ \/ /\ UpdateMatches
          /\ obj' = [obj EXCEPT ![cur] = Absent]
          /\ Finish
          /\ UNCHANGED <<queue, errors>>
       \/ /\ ~UpdateMatches
          /\ Requeue
          /\ UNCHANGED <<obj, errors>>
       \/ /\ InjectedError
          /\ Requeue
          /\ UNCHANGED obj
    /\ UNCHANGED <<cache, rvClock, clusterLabel, poolLabel, roles, mappers, writes>>

Next ==
    \/ \E s \in Sets : SyncSet(s) \/ CreateSet(s) \/ DeleteSet(s) \/ Reconcile(s)
    \/ \E c \in Clusters, l \in Label \cup {Absent} : ChangeCluster(c, l)
    \/ \E p \in Pools, l \in Label \cup {Absent} : ChangePool(p, l)
    \/ addFinalizer \/ applyClusterSetClusterRoles \/ syncClustersetMapper
    \/ cleanClusterSetResource \/ removeFinalizer

(* The informer and the worker are goroutines of the manager; users get no *)
(* fairness.                                                               *)
Fairness ==
    /\ \A s \in Sets : WF_vars(SyncSet(s))
    /\ WF_vars(\E s \in Sets : Reconcile(s))
    /\ WF_vars(addFinalizer) /\ WF_vars(applyClusterSetClusterRoles)
    /\ WF_vars(syncClustersetMapper) /\ WF_vars(cleanClusterSetResource)
    /\ WF_vars(removeFinalizer)

Spec == Init /\ [][Next]_vars /\ Fairness

-----------------------------------------------------------------------------
(* The finalizer protocol: once a cluster set is gone from the API server, *)
(* none of its cluster roles exist and no mapper holds an entry for it,    *)
(* whatever the cache lag, the failed calls and the user's timing.         *)
NoOrphanedResources ==
    \A s \in Sets : obj[s] = Absent =>
        /\ \A k \in RoleKinds : <<s, k>> \notin roles
        /\ clusterSetClusterMapper[s] = {}
        /\ globalClusterSetClusterMapper[s] = {}
        /\ clusterSetNamespaceMapper[s] = {}

(* The refinement mapping to ClusterSetLifecycle: the phase comes from    *)
(* the API server's object, the guard is its finalizer, and a set holds    *)
(* resources while one of its cluster roles or mapper entries exists.      *)
Holds(s) ==
    \/ \E k \in RoleKinds : <<s, k>> \in roles
    \/ clusterSetClusterMapper[s] # {} \/ globalClusterSetClusterMapper[s] # {}
    \/ clusterSetNamespaceMapper[s] # {}

Lifecycle == INSTANCE ClusterSetLifecycle WITH
    phase <- [s \in Sets |-> IF obj[s] = Absent THEN "absent"
                             ELSE IF obj[s].del THEN "deleting" ELSE "live"],
    guarded <- [s \in Sets |-> obj[s] # Absent /\ obj[s].fin],
    holds <- [s \in Sets |-> Holds(s)]

(* The reconciler implements the lifecycle: it provisions roles and mapper *)
(* entries only under its finalizer, a user's deletion of a guarded set    *)
(* waits for cleanClusterSetResource, and removeFinalizer eventually ends  *)
(* every deletion, despite cache lag, conflicts and failed calls.          *)
ImplementsLifecycle == Lifecycle!Spec

(* Once users stop writing, every existing set ends up with exactly its    *)
(* cluster roles, and its mapper entries equal what its selector picks:    *)
(* every cluster or hive object change reaches the sets it concerns.       *)
Converged(s) ==
    obj[s] # Absent =>
        /\ {k \in RoleKinds : <<s, k>> \in roles} = RolesFor(s)
        /\ s \in Exclusive =>
             /\ clusterSetClusterMapper[s] = SelectedClusters(s)
             /\ clusterSetNamespaceMapper[s] = SelectedNamespaces(s)
        /\ s \notin Exclusive =>
             globalClusterSetClusterMapper[s] = SelectedClusters(s)

MappersConverge == <>[](\A s \in Sets : Converged(s))
=============================================================================
