-------------------------- MODULE ClusterLifecycle --------------------------
(***************************************************************************)
(* What the operator promises of one LLMInferenceCluster and its children, *)
(* without caches, queues, patches and retries. The resource is adopted    *)
(* with a finalizer, children come to exist while the operator manages it, *)
(* and after its deletion it goes, and then every child goes.              *)
(***************************************************************************)
CONSTANTS
    Children,   \* the objects that may belong to the resource
    Required    \* the ones it has to have

VARIABLES
    phase,      \* "new", "managed", "deleting" or "gone"
    existing    \* the children that exist

vars == <<phase, existing>>

\* The operator takes the resource over.
Adopt ==
    /\ phase = "new" /\ phase' = "managed"
    /\ UNCHANGED existing

\* The user deletes it: at once before it is adopted, and on request after that.
Delete ==
    /\ \/ phase = "new" /\ phase' = "gone"
       \/ phase = "managed" /\ phase' = "deleting"
    /\ UNCHANGED existing

\* The operator lets it go.
Release ==
    /\ phase = "deleting" /\ phase' = "gone"
    /\ UNCHANGED existing

\* The operator creates a child; it may be in the middle of this when the user
\* deletes the resource.
Provide(c) ==
    /\ phase \in {"managed", "deleting"} /\ c \notin existing
    /\ existing' = existing \cup {c}
    /\ UNCHANGED phase

\* A child is lost, to somebody else or to the garbage collector.
Lose(c) ==
    /\ c \in existing
    /\ existing' = existing \ {c}
    /\ UNCHANGED phase

Init == phase = "new" /\ existing = {}

Next ==
    \/ Adopt \/ Delete \/ Release
    \/ \E c \in Children : Provide(c) \/ Lose(c)

Safety == Init /\ [][Next]_vars

\* The resource has all it needs, or it has left nothing behind.
Done ==
    \/ phase = "managed" /\ Required \subseteq existing
    \/ phase = "gone" /\ existing = {}

\* No phase lasts without its work being done: a new resource is adopted or
\* deleted, a managed one gets its children, also after a loss, a deleted one is
\* let go, and no child is left behind.
Progress == []<>Done

Spec == Safety /\ Progress
=============================================================================
