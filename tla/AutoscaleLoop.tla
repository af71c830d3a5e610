--------------------------- MODULE AutoscaleLoop ---------------------------
(***************************************************************************)
(* Autoscaling over time: a user edits the bounds and the replica count of *)
(* the spec, something writes the queue depth into the signals ConfigMap,  *)
(* and every reconcile sets the decode Deployment from the two.            *)
(***************************************************************************)
EXTENDS Autoscaler

CONSTANTS
    ReplicaValues,  \* what the spec may hold for the three counts, besides Nil
    SignalTexts     \* what the queueDepth key may hold

\* The CRD validation of replicas, minReplicas (Minimum=0), maxReplicas (1).
Specs ==
    [ decodeReplicas : ReplicaValues \cup {Nil},
      minReplicas    : ReplicaValues \cup {Nil},
      maxReplicas    : (ReplicaValues \ {0}) \cup {Nil} ]

ASSUME AutoscaleAssumption ==
    /\ \A v \in ReplicaValues : v \in 0 .. MaxInt32
    /\ 10 <= MaxInt32       \* the default maximum is an int32
    /\ SignalTexts \ {Nil, Garbage, NotANumber} \subseteq Int

VARIABLES
    spec,       \* the fields of the custom resource's spec that scaling reads
    queue,      \* the queueDepth key of the signals ConfigMap
    replicas    \* spec.replicas of the decode Deployment

vars == <<spec, queue, replicas>>

Init ==
    /\ spec \in Specs
    /\ queue = 0
    /\ replicas = Deref(spec.decodeReplicas, 1)      \* autoscaling was off so far

UserEdits(f, v) ==
    /\ spec' = [spec EXCEPT ![f] = v]
    /\ spec' \in Specs
    /\ UNCHANGED <<queue, replicas>>

SignalWritten(text) == queue' = text /\ UNCHANGED <<spec, replicas>>

\* reconcileSignalsConfigMap, computeDecodeReplicas and reconcileRoleDeployment,
\* for a reconcile nothing interferes with.
ReconcileDecode ==
    LET text  == IF queue = Nil THEN 0 ELSE queue
        depth == parseFloat(text)
    IN  /\ queue' = text
        /\ replicas' = computeDecodeReplicas(spec, depth)
        /\ UNCHANGED spec

Next ==
    \/ \E f \in DOMAIN spec, v \in ReplicaValues \cup {Nil} : UserEdits(f, v)
    \/ \E t \in SignalTexts : SignalWritten(t)
    \/ ReconcileDecode

Spec == Init /\ [][Next]_vars

-----------------------------------------------------------------------------
\* Type invariant of the autoscaling loop.
TypeOK ==
    /\ spec \in Specs
    /\ queue \in SignalTexts \cup {0}
    /\ replicas \in 0 .. MaxInt32

Min2(a, b) == IF a <= b THEN a ELSE b

Bounded(n) == n >= MinBound(spec) /\ n <= MaxBound(spec)

\* Each reconcile leaves the Deployment inside the bounds of the spec, unless
\* the spec's bounds are crossed: then exactly at the maximum.
ReconcileRespectsBounds ==
    [][ ReconcileDecode =>
            IF MinBound(spec) <= MaxBound(spec) THEN Bounded(replicas')
                                                ELSE replicas' = MaxBound(spec) ]_vars

\* Scaling never accumulates: however long the queue stays full or empty, a
\* reconcile puts the Deployment within one of the replica count of the spec
\* (computeDecodeReplicas starts from spec.runtime.decode.replicas), except
\* when adding one overflows int32 and the result wraps to the minimum.
NeverAccumulates ==
    [][ ReconcileDecode =>
            \/ replicas' - CurrentReplicas(spec) \in {-1, 0, 1}
            \/ CurrentReplicas(spec) = MaxInt32 /\ replicas' = MinBound(spec) ]_vars

\* The direction follows the signal: a deep queue adds one replica as long as the
\* maximum allows it, a shallow, missing or malformed one never grows the
\* Deployment, again except at the largest int32.
FollowsSignal ==
    [][ ReconcileDecode =>
            /\ (QueueHigh(parseFloat(queue)) /\ CurrentReplicas(spec) < MaxInt32)
                    => replicas' = Min2(CurrentReplicas(spec) + 1, MaxBound(spec))
            /\ ~QueueHigh(parseFloat(queue)) => replicas' <= CurrentReplicas(spec) ]_vars
=============================================================================
