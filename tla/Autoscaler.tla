----------------------------- MODULE Autoscaler -----------------------------
(***************************************************************************)
(* computeDecodeReplicas and the two signal adapters (internal/signals).   *)
(*                                                                         *)
(* A signal is the text a key of the *-signals ConfigMap holds: a number,  *)
(* Nil when the key is missing, Garbage for a text ParseFloat rejects, and *)
(* NotANumber for the text "NaN", which it accepts.                        *)
(***************************************************************************)
EXTENDS Int32, Optional

CONSTANTS Garbage, NotANumber

\* parseFloat: what is missing or malformed reads as 0.
parseFloat(text) == IF text \in {Nil, Garbage} THEN 0 ELSE text

\* FakeConfigMapAdapter.Read, for a ConfigMap that the cache has: of the three
\* signals it parses, only the queue depth is ever used.
ReadQueueDepth(data) == parseFloat(data.queueDepth)

\* Every comparison with NaN is false.
QueueHigh(depth) == depth # NotANumber /\ depth > 100
QueueLow(depth) == depth # NotANumber /\ depth < 10

MinBound(spec) == Deref(spec.minReplicas, 0)

\* An explicit maximum below 1 is raised to 1.
MaxBound(spec) ==
    LET max == Deref(spec.maxReplicas, 10) IN IF max < 1 THEN 1 ELSE max

Mut_NoLowerClamp(n, min, max) == IF n > max THEN max ELSE n

Mut_NoUpperClamp(n, min, max) == IF n < min THEN min ELSE n

\* Raise to min, then lower to max: max wins when the bounds are crossed.
Clamp(n, min, max) ==
    LET atLeast == IF n < min THEN min ELSE n
    IN  IF atLeast > max THEN max ELSE atLeast

\* The replica count scaling starts from: the one in the spec, never the one
\* the Deployment has.
CurrentReplicas(spec) == Clamp(Deref(spec.decodeReplicas, 1), MinBound(spec), MaxBound(spec))

Mut_StepsDownTwo(spec, depth) ==
    CASE QueueHigh(depth) -> Add32(CurrentReplicas(spec), 1)
      [] QueueLow(depth)  -> Add32(CurrentReplicas(spec), -2)
      [] OTHER            -> CurrentReplicas(spec)

Mut_GrowsUnlessLow(spec, depth) ==
    CASE ~QueueLow(depth) -> Add32(CurrentReplicas(spec), 1)
      [] OTHER            -> CurrentReplicas(spec)

\* One step up, one step down or none, in int32 arithmetic.
DesiredStep(spec, depth) ==
    CASE QueueHigh(depth) -> Add32(CurrentReplicas(spec), 1)
      [] QueueLow(depth) /\ CurrentReplicas(spec) > MinBound(spec)
                          -> Add32(CurrentReplicas(spec), -1)
      [] OTHER            -> CurrentReplicas(spec)

\* The replica count computeDecodeReplicas returns for a queue depth.
computeDecodeReplicas(spec, depth) ==
    Clamp(DesiredStep(spec, depth), MinBound(spec), MaxBound(spec))

\* Its second result: whether the Scaling condition is set to True.
IsScaling(spec, depth) == computeDecodeReplicas(spec, depth) # CurrentReplicas(spec)

\* PrometheusAdapter.Read is not implemented and always fails; every other
\* source is served from the signals ConfigMap.
SourceReadable(source) == source # "prometheus"
=============================================================================
