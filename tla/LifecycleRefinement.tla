------------------------ MODULE LifecycleRefinement ------------------------
(***************************************************************************)
(* The reconciler implements ClusterLifecycle: what of its state a user    *)
(* can see of the life of the resource, and that every step of the worker, *)
(* the informers and the environment is a step of the abstract one or      *)
(* leaves it alone.                                                        *)
(***************************************************************************)
EXTENDS Reconciler

\* The phase the server's resource is in.
Phase ==
    IF cr = NotFound THEN "gone"
    ELSE IF cr.del THEN "deleting"
    ELSE IF cr.fin THEN "managed"
    ELSE "new"

Existing == { c \in Tracked : child[c] # Absent }

\* The signals ConfigMap is there only for autoscaling.
Life == INSTANCE ClusterLifecycle WITH
            Children <- Tracked, Required <- Tracked \ {"signals"},
            phase <- Phase, existing <- Existing

\* However edits, deletion, failed or lost answers and restarts interleave with
\* Reconcile, the resource goes through its life as ClusterLifecycle has it:
\* adopted before the first child exists, released once, with no child created
\* or left after that, and never stuck in a phase. (With signals from a source
\* that cannot be read Reconcile stops before the other children: see Blocked.)
ImplementsLifecycle == Life!Spec

-----------------------------------------------------------------------------
(* The invariant behind the refinement *)

\* Only a resource with a finalizer is ever marked for deletion.
DeletedUnderFinalizer == cr # NotFound /\ cr.del => cr.fin

\* What the worker found when it chose its branch still holds while it has the
\* latest version.
BranchStillRight ==
    /\ pc = "addFinalizer" /\ held => ~cr.del /\ ~cr.fin
    /\ pc = "removeFinalizer" /\ held => cr.del

LifeInv == DeletedUnderFinalizer /\ BranchStillRight
=============================================================================
