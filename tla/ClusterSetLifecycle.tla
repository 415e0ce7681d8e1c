------------------------- MODULE ClusterSetLifecycle -------------------------
(***************************************************************************)
(* What the clusterset controller promises of each ManagedClusterSet, with *)
(* the reconciler's steps left out.  A set is absent, live or being        *)
(* deleted; it may be guarded by the controller's finalizer; and it may    *)
(* hold resources: cluster roles or mapper entries.                        *)
(*   - resources appear only for a guarded set;                            *)
(*   - deleting an unguarded set removes it at once, and it holds nothing; *)
(*   - deleting a guarded set waits until its resources are released;      *)
(*   - a set being deleted is eventually gone.                             *)
(* ClusterSetController implements this specification under the mapping   *)
(* Lifecycle of that module.                                               *)
(***************************************************************************)
CONSTANTS Sets

VARIABLES phase, guarded, holds

vars == <<phase, guarded, holds>>

Phases == {"absent", "live", "deleting"}

TypeOK ==
    /\ phase \in [Sets -> Phases]
    /\ guarded \in [Sets -> BOOLEAN]
    /\ holds \in [Sets -> BOOLEAN]

Init ==
    /\ phase = [s \in Sets |-> "absent"]
    /\ guarded = [s \in Sets |-> FALSE]
    /\ holds = [s \in Sets |-> FALSE]

Create(s) ==
    /\ phase[s] = "absent"
    /\ phase' = [phase EXCEPT ![s] = "live"]
    /\ UNCHANGED <<guarded, holds>>

Guard(s) ==
    /\ phase[s] = "live" /\ ~guarded[s]
    /\ guarded' = [guarded EXCEPT ![s] = TRUE]
    /\ UNCHANGED <<phase, holds>>

Delete(s) ==
    /\ phase[s] = "live"
    /\ \/ guarded[s] /\ phase' = [phase EXCEPT ![s] = "deleting"]
       \/ ~guarded[s] /\ ~holds[s] /\ phase' = [phase EXCEPT ![s] = "absent"]
    /\ UNCHANGED <<guarded, holds>>

Provision(s) ==
    /\ guarded[s] /\ phase[s] # "absent" /\ ~holds[s]
    /\ holds' = [holds EXCEPT ![s] = TRUE]
    /\ UNCHANGED <<phase, guarded>>

Release(s) ==
    /\ holds[s]
    /\ holds' = [holds EXCEPT ![s] = FALSE]
    /\ UNCHANGED <<phase, guarded>>

Complete(s) ==
    /\ phase[s] = "deleting" /\ ~holds[s]
    /\ phase' = [phase EXCEPT ![s] = "absent"]
    /\ guarded' = [guarded EXCEPT ![s] = FALSE]
    /\ UNCHANGED holds

Next ==
    \E s \in Sets :
        Create(s) \/ Guard(s) \/ Delete(s) \/ Provision(s) \/ Release(s) \/ Complete(s)

(* A set under deletion gives up its resources and then goes away.         *)
Spec ==
    /\ Init /\ [][Next]_vars
    /\ \A s \in Sets : WF_vars(phase[s] = "deleting" /\ Release(s))
    /\ \A s \in Sets : WF_vars(Complete(s))
=============================================================================
