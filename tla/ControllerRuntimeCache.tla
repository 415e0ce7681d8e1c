------------------------ MODULE ControllerRuntimeCache ------------------------
(***************************************************************************)
(* ControllerRuntimeClusterSetCache (src/pkg/cache/                        *)
(* controller_runtime_cache.go): the permission index built from the       *)
(* controller-runtime client.  Start waits for the cache to sync and runs  *)
(* rebuildPermissionIndex once; no event handler and no caller of          *)
(* notifyWatchers exist, so the index is not rebuilt afterwards.           *)
(*                                                                         *)
(* The rebuild holds the index write lock for its whole loop, so List      *)
(* never sees it half built; but its reads (the binding list, each role    *)
(* Get, each cluster set List) go to the client's cache, which the API     *)
(* server keeps changing.  Each binding is therefore one step, and writes  *)
(* may fall between steps.  A read may fail when ReadErrors is TRUE.       *)
(***************************************************************************)
EXTENDS Naturals, FiniteSets, Sequences

LOCAL SeqExt == INSTANCE SequencesExt

CONSTANTS
    Names, Users, Groups, RoleNames, BindingNames,
    RoleContents,   \* possible rule lists of a ClusterRole
    BindingSpecs,   \* possible binding contents [roleRef, subjects]
    MaxWrites,      \* bound on API writes
    ReadErrors,     \* whether client reads may fail
    WriteAfterStart,\* whether API writes continue once Start has begun
    Watchers,       \* watches that may be registered
    MaxWatcherEntries, \* bound on the length of the watcher slice
    Absent          \* model value: no object of that name

(* A PolicyRule, reduced to the fields the extractor reads.                *)
Rule == [apiGroups : SUBSET STRING, resources : SUBSET STRING,
         verbs : SUBSET STRING, resourceNames : SUBSET Names]

(* The target tuple processClusterRoleBinding passes to the extractor.     *)
TargetGroup == "cluster.open-cluster-management.io"
TargetResource == "managedclustersets"

Subject == [kind : {"User", "Group", "ServiceAccount"}, name : Users \cup Groups]

ASSUME
    /\ \A rc \in RoleContents : rc \in Seq(Rule)
    /\ BindingSpecs \subseteq [roleRef : RoleNames, subjects : SUBSET Subject]
    /\ MaxWrites \in Nat /\ ReadErrors \in BOOLEAN /\ WriteAfterStart \in BOOLEAN
    /\ MaxWatcherEntries \in Nat

VARIABLES
    phase,            \* "new", "rebuilding", "running", "failed"
    roleStore, bindingStore, clusterSetStore,
    userToResources, groupToResources,
    listed,           \* the binding list the rebuild is working through
    writes,
    watchers          \* the watcher slice, in registration order

vars == <<phase, roleStore, bindingStore, clusterSetStore, userToResources,
          groupToResources, listed, writes, watchers>>

TypeOK ==
    /\ phase \in {"new", "rebuilding", "running", "failed"}
    /\ roleStore \in [RoleNames -> RoleContents \cup {Absent}]
    /\ bindingStore \in [BindingNames -> BindingSpecs \cup {Absent}]
    /\ clusterSetStore \subseteq Names
    /\ userToResources \in [Users -> SUBSET Names]
    /\ groupToResources \in [Groups -> SUBSET Names]
    /\ listed \subseteq BindingSpecs \X BindingNames
    /\ writes \in 0..MaxWrites
    /\ watchers \in Seq(Watchers) /\ Len(watchers) <= MaxWatcherEntries

(* A read through the client: always succeeds, or may also fail.           *)
ReadOutcomes == IF ReadErrors THEN {TRUE, FALSE} ELSE {TRUE}

Init ==
    /\ phase = "new"
    /\ roleStore \in [RoleNames -> RoleContents \cup {Absent}]
    /\ bindingStore \in [BindingNames -> BindingSpecs \cup {Absent}]
    /\ clusterSetStore \in SUBSET Names
    /\ userToResources = [u \in Users |-> {}]
    /\ groupToResources = [g \in Groups |-> {}]
    /\ listed = {}
    /\ writes = 0
    /\ watchers = <<>>

-----------------------------------------------------------------------------
(* Start: WaitForCacheSync fails (the context ends first) and Start        *)
(* returns an error.                                                       *)
SyncFailed ==
    /\ phase = "new"
    /\ phase' = "failed"
    /\ UNCHANGED <<roleStore, bindingStore, clusterSetStore, userToResources,
                   groupToResources, listed, writes, watchers>>

(* Start, then rebuildPermissionIndex up to its loop: the index is cleared *)
(* under the write lock, then the bindings are listed; a failed List       *)
(* returns with the index cleared and Start fails.                         *)
ClearIndex ==
    /\ userToResources' = [u \in Users |-> {}]
    /\ groupToResources' = [g \in Groups |-> {}]

(* Mutant: the listing keeps bindings that no longer exist.                *)
rebuildPermissionIndexAll ==
    /\ phase = "new"
    /\ ClearIndex
    /\ phase' = "rebuilding"
    /\ listed' = {<<bindingStore[b], b>> : b \in BindingNames}
    /\ UNCHANGED <<roleStore, bindingStore, clusterSetStore, writes, watchers>>

rebuildPermissionIndex ==
    /\ phase = "new"
    /\ ClearIndex
    /\ \E ok \in ReadOutcomes :
         IF ok THEN /\ phase' = "rebuilding"
                    /\ listed' = {<<bindingStore[b], b>> : b \in
                                    {x \in BindingNames : bindingStore[x] # Absent}}
               ELSE /\ phase' = "failed"
                    /\ UNCHANGED listed
    /\ UNCHANGED <<roleStore, bindingStore, clusterSetStore, writes, watchers>>

(* The rule matchers of pkg/utils (spec 3: literal or wildcard).          *)
APIGroupMatches(rule, g) == g \in rule.apiGroups \/ "*" \in rule.apiGroups
VerbMatches(rule, v) == v \in rule.verbs \/ "*" \in rule.verbs
ResourceMatches(rule, res) == res \in rule.resources \/ "*" \in rule.resources

(* GetViewResourceFromClusterRole: walk the rules in order, skip those of *)
(* another API group, without get, list or "*", or of another resource;   *)
(* a matching rule without resource names returns "all" at once, the      *)
(* others add their names.                                                 *)
(* Mutant: the resource check is left out.                                 *)
RECURSIVE ExtractFromAnyResource(_, _, _)
ExtractFromAnyResource(rules, i, names) ==
    IF i > Len(rules) THEN [names |-> names, all |-> FALSE]
    ELSE LET rule == rules[i] IN
         IF ~ /\ APIGroupMatches(rule, TargetGroup)
              /\ VerbMatches(rule, "get") \/ VerbMatches(rule, "list") \/ VerbMatches(rule, "*")
           THEN ExtractFromAnyResource(rules, i + 1, names)
         ELSE IF rule.resourceNames = {} THEN [names |-> names, all |-> TRUE]
         ELSE ExtractFromAnyResource(rules, i + 1, names \cup rule.resourceNames)

RECURSIVE ExtractFrom(_, _, _)
ExtractFrom(rules, i, names) ==
    IF i > Len(rules) THEN [names |-> names, all |-> FALSE]
    ELSE LET rule == rules[i] IN
         IF ~ /\ APIGroupMatches(rule, TargetGroup)
              /\ VerbMatches(rule, "get") \/ VerbMatches(rule, "list") \/ VerbMatches(rule, "*")
              /\ ResourceMatches(rule, TargetResource)
           THEN ExtractFrom(rules, i + 1, names)
         ELSE IF rule.resourceNames = {} THEN [names |-> names, all |-> TRUE]
         ELSE ExtractFrom(rules, i + 1, names \cup rule.resourceNames)

GetViewResourceFromClusterRole(rules) == ExtractFrom(rules, 1, {})

(* processClusterRoleBinding: Get the role (an error skips the binding),  *)
(* resolve "all" with a List of cluster sets (an error skips the binding), *)
(* an empty result returns, else union into each User and Group subject.   *)
Resolve(spec, roleOk, listOk) ==
    LET grant == GetViewResourceFromClusterRole(roleStore[spec.roleRef]) IN
    IF roleStore[spec.roleRef] = Absent \/ ~roleOk THEN {}
    ELSE IF grant.all THEN (IF listOk THEN clusterSetStore ELSE {})
    ELSE grant.names

processClusterRoleBinding ==
    /\ phase = "rebuilding"
    /\ \E item \in listed, roleOk \in ReadOutcomes, listOk \in ReadOutcomes :
         LET spec == item[1]
             names == Resolve(spec, roleOk, listOk) IN
         /\ listed' = listed \ {item}
         /\ userToResources' =
              [u \in Users |-> IF [kind |-> "User", name |-> u] \in spec.subjects
                               THEN userToResources[u] \cup names
                               ELSE userToResources[u]]
         /\ groupToResources' =
              [g \in Groups |-> IF [kind |-> "Group", name |-> g] \in spec.subjects
                                THEN groupToResources[g] \cup names
                                ELSE groupToResources[g]]
    /\ UNCHANGED <<phase, roleStore, bindingStore, clusterSetStore, writes, watchers>>

(* The loop is done: rebuildPermissionIndex returns nil, Start succeeds.   *)
FinishRebuild ==
    /\ phase = "rebuilding"
    /\ listed = {}
    /\ phase' = "running"
    /\ UNCHANGED <<roleStore, bindingStore, clusterSetStore, userToResources,
                   groupToResources, listed, writes, watchers>>

-----------------------------------------------------------------------------
(* The API server changes RBAC objects and cluster sets: before Start only, *)
(* or at any time.                                                         *)
Write ==
    /\ phase = "new" \/ WriteAfterStart
    /\ writes < MaxWrites
    /\ writes' = writes + 1
    /\ \/ \E r \in RoleNames, g \in RoleContents \cup {Absent} :
            /\ g # roleStore[r]
            /\ roleStore' = [roleStore EXCEPT ![r] = g]
            /\ UNCHANGED <<bindingStore, clusterSetStore>>
       \/ \E b \in BindingNames, s \in BindingSpecs \cup {Absent} :
            /\ s # bindingStore[b]
            /\ bindingStore' = [bindingStore EXCEPT ![b] = s]
            /\ UNCHANGED <<roleStore, clusterSetStore>>
       \/ \E n \in Names :
            /\ clusterSetStore' = IF n \in clusterSetStore THEN clusterSetStore \ {n}
                                                   ELSE clusterSetStore \cup {n}
            /\ UNCHANGED <<roleStore, bindingStore>>
    /\ UNCHANGED <<phase, userToResources, groupToResources, listed, watchers>>

-----------------------------------------------------------------------------
(* AddWatcher appends to the slice under watcherLock; RemoveWatcher drops  *)
(* the first entry equal to the watcher.  Nothing in this cache reads the  *)
(* slice: notifyWatchers, the only reader, has no caller.                  *)
AddWatcher(w) ==
    /\ Len(watchers) < MaxWatcherEntries
    /\ watchers' = Append(watchers, w)
    /\ UNCHANGED <<phase, roleStore, bindingStore, clusterSetStore, userToResources,
                   groupToResources, listed, writes>>

RemoveWatcher(w) ==
    /\ watchers' = SeqExt!RemoveFirst(watchers, w)
    /\ UNCHANGED <<phase, roleStore, bindingStore, clusterSetStore, userToResources,
                   groupToResources, listed, writes>>

Next ==
    \/ SyncFailed \/ rebuildPermissionIndex \/ processClusterRoleBinding
    \/ FinishRebuild \/ Write
    \/ \E w \in Watchers : AddWatcher(w) \/ RemoveWatcher(w)

Spec == Init /\ [][Next]_vars /\ WF_vars(rebuildPermissionIndex)
                              /\ WF_vars(processClusterRoleBinding)
                              /\ WF_vars(FinishRebuild)

-----------------------------------------------------------------------------
(* getAccessibleResourceNames and List (client Get: NotFound skipped).     *)
getAccessibleResourceNames(u, gs) ==
    userToResources[u] \cup UNION {groupToResources[g] : g \in gs}

List(u, gs) == {n \in getAccessibleResourceNames(u, gs) : n \in clusterSetStore}

(* Reference view scope of a role (spec 3 and 4.1), order-free: a rule     *)
(* contributes when its groups, resources and verbs cover the target and   *)
(* view; the role is global when a contributing rule names nothing.        *)
SpecContributes(rule) ==
    /\ {TargetGroup, "*"} \cap rule.apiGroups # {}
    /\ {TargetResource, "*"} \cap rule.resources # {}
    /\ {"get", "list", "*"} \cap rule.verbs # {}

SpecViewScope(rules) ==
    LET contributing == {rules[i] : i \in {j \in DOMAIN rules : SpecContributes(rules[j])}} IN
    IF \E rule \in contributing : rule.resourceNames = {} THEN clusterSetStore
    ELSE UNION {rule.resourceNames : rule \in contributing}

(* What RBAC grants a subject now (spec 8.1 and 8.2).                      *)
GrantedTo(kind, s) ==
    UNION {LET role == roleStore[bindingStore[b].roleRef] IN
             IF role = Absent THEN {} ELSE SpecViewScope(role)
           : b \in {x \in BindingNames :
                      /\ bindingStore[x] # Absent
                      /\ [kind |-> kind, name |-> s] \in bindingStore[x].subjects}}

(* Once Start has returned successfully, List serves each user with any    *)
(* groups exactly the existing cluster sets RBAC grants them now.          *)
ListMatchesRBACWhenRunning ==
    phase = "running" =>
        \A u \in Users, gs \in SUBSET Groups :
            List(u, gs) = (GrantedTo("User", u)
                             \cup UNION {GrantedTo("Group", g) : g \in gs})
                          \cap clusterSetStore
=============================================================================
