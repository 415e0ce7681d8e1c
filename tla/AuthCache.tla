----------------------------- MODULE AuthCache -----------------------------
(***************************************************************************)
(* The RBAC permission cache OptimizedClusterSetCache (src/unnamed/        *)
(* part_000).  Two informers (ClusterRoles, ClusterRoleBindings) each run  *)
(* their handlers on their own goroutine, one event at a time.  A handler  *)
(* rebuilds (or, for a binding add, extends) the permission index under    *)
(* the index write lock, then calls notifyWatchers, which under the        *)
(* watcher read lock reads the index afresh for each registered watcher    *)
(* and hands it the resulting notification.                                *)
(*                                                                         *)
(* A role is abstracted to what getResourceNamesFromClusterRole returns    *)
(* for the managedclustersets target: a set of names and the "all" flag    *)
(* (the extractor itself is ResourceNames.tla).  A binding is its roleRef  *)
(* and its subjects.                                                       *)
(***************************************************************************)
EXTENDS Naturals, Sequences, FiniteSets, SequencesExt

CONSTANTS
    Names,          \* ManagedClusterSet names
    Users,          \* user subject names
    Groups,         \* group subject names
    RoleNames,      \* ClusterRole names
    BindingNames,   \* ClusterRoleBinding names
    Watchers,       \* CacheWatcher identities
    WatcherSubject, \* the user and groups each watch is opened for
    RoleGrants,     \* possible extractor results [names, all] of a role
    BindingSpecs,   \* possible binding contents [roleRef, subjects]
    MaxWrites,      \* bound on API writes to roles, bindings and cluster sets
    ClusterSetChurn,\* whether cluster sets are created and deleted
    InitRoles,      \* lister contents when the cache is created
    InitBindings,
    InitClusterSets,
    Absent,         \* model value: no object of that name in a lister
    None            \* model value: no watcher / notification in hand

Handlers == {"role", "binding"}   \* one handler goroutine per informer

Subject == [kind : {"User", "Group", "ServiceAccount"}, name : Users \cup Groups]

ASSUME
    /\ RoleGrants \subseteq [names : SUBSET Names, all : BOOLEAN]
    /\ BindingSpecs \subseteq [roleRef : RoleNames, subjects : SUBSET Subject]
    /\ MaxWrites \in Nat
    /\ ClusterSetChurn \in BOOLEAN
    /\ InitRoles \in [RoleNames -> RoleGrants \cup {Absent}]
    /\ InitBindings \in [BindingNames -> BindingSpecs \cup {Absent}]
    /\ InitClusterSets \subseteq Names
    /\ WatcherSubject \in [Watchers -> [user : Users, groups : SUBSET Groups]]

VARIABLES
    phase,            \* "new", "syncing" (informers started), "running", "stopped"
    roleStore,        \* clusterRoleLister contents
    bindingStore,     \* clusterRoleBindingLister contents
    clusterSetStore,  \* clusterSetLister contents
    roleEvents,       \* role events queued for the role handler goroutine
    bindingEvents,    \* binding events queued for the binding handler goroutine
    userPermissions,  \* permissionCache.userPermissions ({} = no key)
    groupPermissions, \* permissionCache.groupPermissions ({} = no key)
    watchers,         \* c.watchers
    notifyTodo,       \* per handler: watchers notifyWatchers has still to call
    notifyCur,        \* per handler: the watcher whose notification was read
    notifySnap,       \* per handler: the notification read for notifyCur
    known,            \* names in each watcher's knownResources
    writes            \* API writes so far

vars == <<phase, roleStore, bindingStore, clusterSetStore, roleEvents,
          bindingEvents, userPermissions, groupPermissions, watchers,
          notifyTodo, notifyCur, notifySnap, known, writes>>

Notification == [names : SUBSET Names, users : SUBSET Users, groups : SUBSET Groups]
BindingEvent == [type : {"add"}, obj : BindingSpecs] \cup [type : {"update", "delete"}]

TypeOK ==
    /\ phase \in {"new", "syncing", "running", "stopped"}
    /\ roleStore \in [RoleNames -> RoleGrants \cup {Absent}]
    /\ bindingStore \in [BindingNames -> BindingSpecs \cup {Absent}]
    /\ clusterSetStore \subseteq Names
    /\ roleEvents \in Nat
    /\ bindingEvents \in Seq(BindingEvent)
    /\ userPermissions \in [Users -> SUBSET Names]
    /\ groupPermissions \in [Groups -> SUBSET Names]
    /\ watchers \subseteq Watchers
    /\ notifyTodo \in [Handlers -> SUBSET Watchers]
    /\ notifyCur \in [Handlers -> Watchers \cup {None}]
    /\ notifySnap \in [Handlers -> Notification \cup {None}]
    /\ known \in [Watchers -> SUBSET Names]
    /\ writes \in 0..MaxWrites

-----------------------------------------------------------------------------
(* processClusterRoleBinding: the names a binding grants, given the role   *)
(* lister (absent role: skipped) and, for a role with "all", the current   *)
(* cluster set list.                                                       *)
GrantedNames(spec) ==
    LET grant == roleStore[spec.roleRef] IN
    IF grant = Absent THEN {}
    ELSE IF grant.all THEN clusterSetStore
    ELSE grant.names

(* The subjects' maps after processClusterRoleBinding(spec) on perms.  An  *)
(* empty grant returns early; other subject kinds are skipped.             *)
processClusterRoleBinding(spec, uperms, gperms) ==
    LET names == GrantedNames(spec) IN
    [users  |-> [u \in Users |->
                   IF [kind |-> "User", name |-> u] \in spec.subjects
                   THEN uperms[u] \cup names ELSE uperms[u]],
     groups |-> [g \in Groups |->
                   IF [kind |-> "Group", name |-> g] \in spec.subjects
                   THEN gperms[g] \cup names ELSE gperms[g]]]

NoPerms == [users |-> [u \in Users |-> {}], groups |-> [g \in Groups |-> {}]]

(* rebuildPermissionCache: clear both maps, then process every binding of  *)
(* the lister.  Union is commutative, so the lister's order is immaterial. *)
RECURSIVE RebuildFrom(_, _)
RebuildFrom(bs, acc) ==
    IF bs = {} THEN acc
    ELSE LET b == CHOOSE x \in bs : TRUE IN
         RebuildFrom(bs \ {b},
                     processClusterRoleBinding(bindingStore[b], acc.users, acc.groups))

rebuildPermissionCache ==
    RebuildFrom({b \in BindingNames : bindingStore[b] # Absent}, NoPerms)

(* notifyWatchers builds one notification from the whole index: every     *)
(* subject key and the union of every subject's names.                     *)
IndexNotification ==
    [names  |-> UNION {userPermissions[u] : u \in Users}
                \cup UNION {groupPermissions[g] : g \in Groups},
     users  |-> {u \in Users : userPermissions[u] # {}},
     groups |-> {g \in Groups : groupPermissions[g] # {}}]

(* getAccessibleResourceNames: the user's entry and its groups' entries.   *)
getAccessibleResourceNames(u, gs) ==
    userPermissions[u] \cup UNION {groupPermissions[g] : g \in gs}

(* Mutant: the names are served without the lister Get, NotFound skipped. *)
ListNoLister(u, gs) == getAccessibleResourceNames(u, gs)

(* List: the accessible names the cluster set lister still has (a name    *)
(* the lister does not find is skipped); label selectors are left out.    *)
List(u, gs) == {n \in getAccessibleResourceNames(u, gs) : n \in clusterSetStore}

Idle(h) == notifyTodo[h] = {} /\ notifyCur[h] = None
Notifying == \E h \in Handlers : ~Idle(h)

-----------------------------------------------------------------------------
Init ==
    /\ phase = "new"
    /\ roleStore = InitRoles
    /\ bindingStore = InitBindings
    /\ clusterSetStore = InitClusterSets
    /\ roleEvents = 0
    /\ bindingEvents = <<>>
    /\ userPermissions = [u \in Users |-> {}]
    /\ groupPermissions = [g \in Groups |-> {}]
    /\ watchers = {}
    /\ notifyTodo = [h \in Handlers |-> {}]
    /\ notifyCur = [h \in Handlers |-> None]
    /\ notifySnap = [h \in Handlers |-> None]
    /\ known = [w \in Watchers |-> {}]
    /\ writes = 0

(* Start, first half: informerFactory.Start.  Each informer lists its      *)
(* objects and queues an add event for each of them.                       *)
StartInformers ==
    /\ phase = "new"
    /\ phase' = "syncing"
    /\ roleEvents' = Cardinality({r \in RoleNames : roleStore[r] # Absent})
    /\ bindingEvents' = [i \in 1..Len(SetToSeq({b \in BindingNames : bindingStore[b] # Absent}))
                          |-> [type |-> "add",
                               obj  |-> bindingStore[SetToSeq({b \in BindingNames :
                                                     bindingStore[b] # Absent})[i]]]]
    /\ UNCHANGED <<roleStore, bindingStore, clusterSetStore, userPermissions,
                   groupPermissions, watchers, notifyTodo, notifyCur, notifySnap,
                   known, writes>>

(* Start, second half: WaitForCacheSync returned; initial rebuild (no      *)
(* notification).                                                          *)
Start ==
    /\ phase = "syncing"
    /\ phase' = "running"
    /\ userPermissions' = rebuildPermissionCache.users
    /\ groupPermissions' = rebuildPermissionCache.groups
    /\ UNCHANGED <<roleStore, bindingStore, clusterSetStore, roleEvents,
                   bindingEvents, watchers, notifyTodo, notifyCur, notifySnap,
                   known, writes>>

(* Stop cancels the context: informers and their handlers stop.            *)
Stop ==
    /\ phase \in {"syncing", "running"}
    /\ phase' = "stopped"
    /\ UNCHANGED <<roleStore, bindingStore, clusterSetStore, roleEvents,
                   bindingEvents, userPermissions, groupPermissions, watchers,
                   notifyTodo, notifyCur, notifySnap, known, writes>>

-----------------------------------------------------------------------------
(* API writes, seen by the informers (store updated, event queued).  A     *)
(* write of unchanged content stands for the informer's periodic resync.   *)
Informing == phase \in {"syncing", "running"} /\ writes < MaxWrites

WriteClusterRole(r, grant) ==
    /\ Informing
    /\ roleStore' = [roleStore EXCEPT ![r] = grant]
    /\ roleEvents' = roleEvents + 1
    /\ writes' = writes + 1
    /\ UNCHANGED <<phase, bindingStore, clusterSetStore, bindingEvents,
                   userPermissions, groupPermissions, watchers, notifyTodo,
                   notifyCur, notifySnap, known>>

DeleteClusterRole(r) ==
    /\ Informing
    /\ roleStore[r] # Absent
    /\ roleStore' = [roleStore EXCEPT ![r] = Absent]
    /\ roleEvents' = roleEvents + 1
    /\ writes' = writes + 1
    /\ UNCHANGED <<phase, bindingStore, clusterSetStore, bindingEvents,
                   userPermissions, groupPermissions, watchers, notifyTodo,
                   notifyCur, notifySnap, known>>

WriteClusterRoleBinding(b, spec) ==
    /\ Informing
    /\ bindingStore' = [bindingStore EXCEPT ![b] = spec]
    /\ bindingEvents' = Append(bindingEvents,
                          IF bindingStore[b] = Absent
                          THEN [type |-> "add", obj |-> spec]
                          ELSE [type |-> "update"])
    /\ writes' = writes + 1
    /\ UNCHANGED <<phase, roleStore, clusterSetStore, roleEvents,
                   userPermissions, groupPermissions, watchers, notifyTodo,
                   notifyCur, notifySnap, known>>

DeleteClusterRoleBinding(b) ==
    /\ Informing
    /\ bindingStore[b] # Absent
    /\ bindingStore' = [bindingStore EXCEPT ![b] = Absent]
    /\ bindingEvents' = Append(bindingEvents, [type |-> "delete"])
    /\ writes' = writes + 1
    /\ UNCHANGED <<phase, roleStore, clusterSetStore, roleEvents,
                   userPermissions, groupPermissions, watchers, notifyTodo,
                   notifyCur, notifySnap, known>>

(* Cluster sets change in the shared informer; the cache registered no     *)
(* handler on it, so nothing is queued.                                    *)
ChangeClusterSet(n) ==
    /\ ClusterSetChurn
    /\ Informing
    /\ clusterSetStore' = IF n \in clusterSetStore THEN clusterSetStore \ {n}
                                                  ELSE clusterSetStore \cup {n}
    /\ writes' = writes + 1
    /\ UNCHANGED <<phase, roleStore, bindingStore, roleEvents, bindingEvents,
                   userPermissions, groupPermissions, watchers, notifyTodo,
                   notifyCur, notifySnap, known>>

-----------------------------------------------------------------------------
(* Handlers.  Each finishes its index update, then enters notifyWatchers   *)
(* with the watcher list it sees under the watcher read lock.              *)
BeginNotify(h) ==
    /\ notifyTodo' = [notifyTodo EXCEPT ![h] = watchers]

(* Mutant: the role handler runs without an event in its queue.          *)
onClusterRoleEventNoGuard ==
    /\ phase \in {"syncing", "running"}
    /\ Idle("role")
    /\ roleEvents' = roleEvents - 1
    /\ userPermissions' = rebuildPermissionCache.users
    /\ groupPermissions' = rebuildPermissionCache.groups
    /\ BeginNotify("role")
    /\ UNCHANGED <<phase, roleStore, bindingStore, clusterSetStore,
                   bindingEvents, watchers, notifyCur, notifySnap, known,
                   writes>>

(* onClusterRoleAdd / onClusterRoleUpdate / onClusterRoleDelete.           *)
onClusterRoleEvent ==
    /\ phase \in {"syncing", "running"}
    /\ Idle("role")
    /\ roleEvents > 0
    /\ roleEvents' = roleEvents - 1
    /\ userPermissions' = rebuildPermissionCache.users
    /\ groupPermissions' = rebuildPermissionCache.groups
    /\ BeginNotify("role")
    /\ UNCHANGED <<phase, roleStore, bindingStore, clusterSetStore,
                   bindingEvents, watchers, notifyCur, notifySnap, known,
                   writes>>

(* onClusterRoleBindingAdd processes the event's binding into the current  *)
(* index without clearing it.                                              *)
onClusterRoleBindingAdd ==
    /\ phase \in {"syncing", "running"}
    /\ Idle("binding")
    /\ bindingEvents # <<>>
    /\ Head(bindingEvents).type = "add"
    /\ bindingEvents' = Tail(bindingEvents)
    /\ LET p == processClusterRoleBinding(Head(bindingEvents).obj,
                                         userPermissions, groupPermissions) IN
       /\ userPermissions' = p.users
       /\ groupPermissions' = p.groups
    /\ BeginNotify("binding")
    /\ UNCHANGED <<phase, roleStore, bindingStore, clusterSetStore, roleEvents,
                   watchers, notifyCur, notifySnap, known, writes>>

(* Mutant: binding update and delete notify without rebuilding.          *)
onClusterRoleBindingChangeNoRebuild ==
    /\ phase \in {"syncing", "running"}
    /\ Idle("binding")
    /\ bindingEvents # <<>>
    /\ Head(bindingEvents).type \in {"update", "delete"}
    /\ bindingEvents' = Tail(bindingEvents)
    /\ BeginNotify("binding")
    /\ UNCHANGED <<phase, roleStore, bindingStore, clusterSetStore, roleEvents,
                   userPermissions, groupPermissions, watchers, notifyCur,
                   notifySnap, known, writes>>

(* onClusterRoleBindingUpdate / onClusterRoleBindingDelete.                *)
onClusterRoleBindingChange ==
    /\ phase \in {"syncing", "running"}
    /\ Idle("binding")
    /\ bindingEvents # <<>>
    /\ Head(bindingEvents).type \in {"update", "delete"}
    /\ bindingEvents' = Tail(bindingEvents)
    /\ userPermissions' = rebuildPermissionCache.users
    /\ groupPermissions' = rebuildPermissionCache.groups
    /\ BeginNotify("binding")
    /\ UNCHANGED <<phase, roleStore, bindingStore, clusterSetStore, roleEvents,
                   watchers, notifyCur, notifySnap, known, writes>>

(* notifyWatchers, loop body first half: build the notification for the   *)
(* next watcher under the index read lock, then release it.                *)
NotifyRead(h) ==
    /\ notifyCur[h] = None
    /\ \E w \in notifyTodo[h] :
         /\ notifyTodo' = [notifyTodo EXCEPT ![h] = @ \ {w}]
         /\ notifyCur' = [notifyCur EXCEPT ![h] = w]
         /\ notifySnap' = [notifySnap EXCEPT ![h] = IndexNotification]
    /\ UNCHANGED <<phase, roleStore, bindingStore, clusterSetStore, roleEvents,
                   bindingEvents, userPermissions, groupPermissions, watchers,
                   known, writes>>

(* ModernCacheWatcher.GroupMembershipChanged, as it leaves knownResources  *)
(* once its events are queued: a watch whose user is not among the users   *)
(* and whose groups meet none of the groups ignores the notification; else *)
(* names left out are dropped, and each name the lister has (Get) is kept  *)
(* or added.  The events, the buffer and the timeout are CacheWatcher's.   *)
GroupMembershipChanged(w, note) ==
    IF \/ WatcherSubject[w].user \in note.users
       \/ WatcherSubject[w].groups \cap note.groups # {}
    THEN (known[w] \cap note.names) \cup (note.names \cap clusterSetStore)
    ELSE known[w]

(* Second half: watcher.GroupMembershipChanged(names, users, groups).      *)
NotifyDeliver(h) ==
    /\ notifyCur[h] # None
    /\ known' = [known EXCEPT ![notifyCur[h]] =
                     GroupMembershipChanged(notifyCur[h], notifySnap[h])]
    /\ notifyCur' = [notifyCur EXCEPT ![h] = None]
    /\ notifySnap' = [notifySnap EXCEPT ![h] = None]
    /\ UNCHANGED <<phase, roleStore, bindingStore, clusterSetStore, roleEvents,
                   bindingEvents, userPermissions, groupPermissions, watchers,
                   notifyTodo, writes>>

(* NewModernCacheWatcher's initializeResources: knownResources starts as   *)
(* the names ListObjects serves the watch's user and groups.               *)
initializeResources(w) == List(WatcherSubject[w].user, WatcherSubject[w].groups)

(* AddWatcher / RemoveWatcher take the watcher write lock, which waits for *)
(* every notifyWatchers in progress.                                       *)
AddWatcher(w) ==
    /\ phase = "running"
    /\ ~Notifying
    /\ w \notin watchers
    /\ watchers' = watchers \cup {w}
    /\ known' = [known EXCEPT ![w] = initializeResources(w)]   \* a new watcher object
    /\ UNCHANGED <<phase, roleStore, bindingStore, clusterSetStore, roleEvents,
                   bindingEvents, userPermissions, groupPermissions, notifyTodo,
                   notifyCur, notifySnap, writes>>

RemoveWatcher(w) ==
    /\ ~Notifying
    /\ w \in watchers
    /\ watchers' = watchers \ {w}
    /\ UNCHANGED <<phase, roleStore, bindingStore, clusterSetStore, roleEvents,
                   bindingEvents, userPermissions, groupPermissions, notifyTodo,
                   notifyCur, notifySnap, known, writes>>

-----------------------------------------------------------------------------
Next ==
    \/ StartInformers \/ Start \/ Stop
    \/ \E r \in RoleNames, g \in RoleGrants : WriteClusterRole(r, g)
    \/ \E r \in RoleNames : DeleteClusterRole(r)
    \/ \E b \in BindingNames, s \in BindingSpecs : WriteClusterRoleBinding(b, s)
    \/ \E b \in BindingNames : DeleteClusterRoleBinding(b)
    \/ \E n \in Names : ChangeClusterSet(n)
    \/ onClusterRoleEvent \/ onClusterRoleBindingAdd \/ onClusterRoleBindingChange
    \/ \E h \in Handlers : NotifyRead(h) \/ NotifyDeliver(h)
    \/ \E w \in Watchers : AddWatcher(w) \/ RemoveWatcher(w)

(* The informer goroutines and the boot sequence are scheduled by the      *)
(* runtime; API writes, Stop and watcher registration are clients' choice. *)
Fairness ==
    /\ WF_vars(StartInformers) /\ WF_vars(Start)
    /\ WF_vars(onClusterRoleEvent)
    /\ WF_vars(onClusterRoleBindingAdd) /\ WF_vars(onClusterRoleBindingChange)
    /\ \A h \in Handlers : WF_vars(NotifyRead(h)) /\ WF_vars(NotifyDeliver(h))

Spec == Init /\ [][Next]_vars /\ Fairness

-----------------------------------------------------------------------------
(***************************************************************************)
(* Properties.                                                             *)
(***************************************************************************)

(* Reference (spec section 3 and section 8, completeness and soundness):   *)
(* a subject sees n iff some present binding names it, its role is         *)
(* present, and the role grants n by name or grants all and n exists.      *)
Grants(b, n) ==
    /\ bindingStore[b] # Absent
    /\ roleStore[bindingStore[b].roleRef] # Absent
    /\ \/ n \in roleStore[bindingStore[b].roleRef].names
          /\ ~roleStore[bindingStore[b].roleRef].all
       \/ roleStore[bindingStore[b].roleRef].all /\ n \in clusterSetStore

ExpectedFor(kind, s) ==
    {n \in Names : \E b \in BindingNames :
                     /\ Grants(b, n)
                     /\ [kind |-> kind, name |-> s] \in bindingStore[b].subjects}

IndexMatchesRBAC ==
    /\ \A u \in Users : userPermissions[u] = ExpectedFor("User", u)
    /\ \A g \in Groups : groupPermissions[g] = ExpectedFor("Group", g)

Quiescent ==
    /\ phase = "running"
    /\ roleEvents = 0 /\ bindingEvents = <<>>
    /\ ~Notifying

(* Once both informer handlers have drained their queues, the index built  *)
(* by the mix of full rebuilds (role events, binding update/delete) and    *)
(* in-place additions (binding add) is exactly what the RBAC objects grant *)
(* each user and group, however the two handler goroutines interleaved.    *)
IndexConvergesWhenQuiescent == Quiescent => IndexMatchesRBAC

(* Spec 8.2 (soundness) under cluster set churn: once the handlers are    *)
(* idle, List serves a user nothing that no binding of the user or of its  *)
(* groups grants.  The index expands a role granting all to the sets that  *)
(* existed at the last rebuild, and no handler sees sets come and go; the  *)
(* index may thus name deleted sets, and List must drop them (lister Get). *)
ListSound ==
    Quiescent =>
        \A u \in Users, gs \in SUBSET Groups :
            List(u, gs) \subseteq ExpectedFor("User", u)
                                 \cup UNION {ExpectedFor("Group", g) : g \in gs}

ListMatchesRBAC ==
    Quiescent =>
        \A u \in Users, gs \in SUBSET Groups :
            List(u, gs) = (ExpectedFor("User", u)
                             \cup UNION {ExpectedFor("Group", g) : g \in gs})
                          \cap clusterSetStore

(* Spec 8.4 and 8.5 (event completeness, no phantom events): once the    *)
(* handlers are idle, every registered watch knows exactly the cluster     *)
(* sets List serves its user and groups.  notifyWatchers hands every watch *)
(* the union over all subjects, a watch ignores notifications that do not  *)
(* name its subject, and two handler goroutines may deliver out of order.  *)
WatchMatchesList ==
    Quiescent => \A w \in watchers :
                   known[w] = List(WatcherSubject[w].user, WatcherSubject[w].groups)
=============================================================================
