------------------------ MODULE AutoscaleLoopProofs ------------------------
(***************************************************************************)
(* Proofs about autoscaling, for every width of int32, every replica       *)
(* count and bound a spec may hold and every text a signal may have.       *)
(***************************************************************************)
EXTENDS AutoscaleLoop, TLAPS

\* The bounds and the count computeDecodeReplicas starts from are int32 values
\* that are not negative.
LEMMA BoundsTyped ==
    ASSUME spec \in Specs
    PROVE  /\ MinBound(spec) \in 0 .. MaxInt32
           /\ MaxBound(spec) \in 1 .. MaxInt32
           /\ Deref(spec.decodeReplicas, 1) \in 0 .. MaxInt32
<1> USE AutoscaleAssumption, MaxInt32Assumption
<1>1. MaxInt32 \in Nat /\ MaxInt32 >= 10
    OBVIOUS
<1>2. /\ spec.minReplicas \in ReplicaValues \cup {Nil}
      /\ spec.maxReplicas \in (ReplicaValues \ {0}) \cup {Nil}
      /\ spec.decodeReplicas \in ReplicaValues \cup {Nil}
    BY DEF Specs
<1>3. MinBound(spec) \in 0 .. MaxInt32
    BY <1>1, <1>2 DEF MinBound, Deref
<1>4. Deref(spec.maxReplicas, 10) \in 0 .. MaxInt32
    BY <1>1, <1>2 DEF Deref
<1>5. MaxBound(spec) \in 1 .. MaxInt32
    BY <1>1, <1>4 DEF MaxBound
<1>6. Deref(spec.decodeReplicas, 1) \in 0 .. MaxInt32
    BY <1>1, <1>2 DEF Deref
<1> QED BY <1>3, <1>5, <1>6

\* Clamping a number: the result is inside the bounds when they are in order,
\* and the maximum when they are crossed.
LEMMA ClampFacts ==
    ASSUME NEW n \in Int, NEW lo \in 0 .. MaxInt32, NEW hi \in 1 .. MaxInt32
    PROVE  /\ Clamp(n, lo, hi) \in 0 .. MaxInt32
           /\ lo <= hi => Clamp(n, lo, hi) >= lo /\ Clamp(n, lo, hi) <= hi
           /\ lo > hi => Clamp(n, lo, hi) = hi
           /\ lo <= n /\ n <= hi => Clamp(n, lo, hi) = n
BY MaxInt32Assumption DEF Clamp

\* The count scaling starts from is an int32 that clamping leaves alone.
LEMMA CurrentFacts ==
    ASSUME spec \in Specs
    PROVE  /\ CurrentReplicas(spec) \in 0 .. MaxInt32
           /\ Clamp(CurrentReplicas(spec), MinBound(spec), MaxBound(spec)) = CurrentReplicas(spec)
<1> DEFINE lo == MinBound(spec)
           hi == MaxBound(spec)
           n  == Deref(spec.decodeReplicas, 1)
<1>1. lo \in 0 .. MaxInt32 /\ hi \in 1 .. MaxInt32 /\ n \in 0 .. MaxInt32
    BY BoundsTyped
<1>2. MaxInt32 \in Nat
    BY MaxInt32Assumption
<1> HIDE DEF lo, hi, n
<1>3. /\ Clamp(n, lo, hi) \in 0 .. MaxInt32
      /\ Clamp(Clamp(n, lo, hi), lo, hi) = Clamp(n, lo, hi)
    BY <1>1, <1>2 DEF Clamp
<1> QED BY <1>3 DEF CurrentReplicas, lo, hi, n

\* The step is an integer: one more, one less or the same, unless it wraps.
LEMMA StepFacts ==
    ASSUME spec \in Specs, NEW depth
    PROVE  /\ DesiredStep(spec, depth) \in Int
           /\ \/ DesiredStep(spec, depth) - CurrentReplicas(spec) \in {-1, 0, 1}
              \/ /\ CurrentReplicas(spec) = MaxInt32
                 /\ DesiredStep(spec, depth) < 0
<1>1. CurrentReplicas(spec) \in 0 .. MaxInt32 /\ MaxInt32 \in Nat
    BY CurrentFacts, MaxInt32Assumption
<1>2. \/ DesiredStep(spec, depth) = Add32(CurrentReplicas(spec), 1)
      \/ DesiredStep(spec, depth) = Add32(CurrentReplicas(spec), -1)
      \/ DesiredStep(spec, depth) = CurrentReplicas(spec)
    BY DEF DesiredStep
<1> QED BY <1>1, <1>2 DEF Add32, Word, MinInt32

\* Types of the loop, whatever the signals say.
THEOREM AutoscaleTyped == Spec => []TypeOK
<1>1. Init => TypeOK
    BY BoundsTyped DEF Init, TypeOK
<1>2. TypeOK /\ [Next]_vars => TypeOK'
    <2> SUFFICES ASSUME TypeOK, [Next]_vars PROVE TypeOK'
        OBVIOUS
    <2>1. ASSUME NEW f, NEW v, UserEdits(f, v) PROVE TypeOK'
        BY <2>1 DEF UserEdits, TypeOK
    <2>2. ASSUME NEW t \in SignalTexts, SignalWritten(t) PROVE TypeOK'
        BY <2>2 DEF SignalWritten, TypeOK
    <2>3. CASE ReconcileDecode
        <3>1. PICK depth : replicas' = computeDecodeReplicas(spec, depth)
            BY <2>3 DEF ReconcileDecode
        <3>2. replicas' \in 0 .. MaxInt32
            BY <3>1, BoundsTyped, StepFacts, ClampFacts DEF TypeOK, computeDecodeReplicas
        <3> QED BY <2>3, <3>2 DEF ReconcileDecode, TypeOK
    <2>4. CASE UNCHANGED vars
        BY <2>4 DEF vars, TypeOK
    <2> QED BY <2>1, <2>2, <2>3, <2>4 DEF Next
<1> QED BY <1>1, <1>2, PTL DEF Spec

\* Every reconcile leaves the decode Deployment inside the bounds of the spec,
\* or at the maximum when the bounds are crossed, for every queue depth, also
\* where adding a replica overflows.
THEOREM BoundsRespected == Spec => ReconcileRespectsBounds
<1> DEFINE A == ReconcileDecode =>
                    IF MinBound(spec) <= MaxBound(spec) THEN Bounded(replicas')
                                                        ELSE replicas' = MaxBound(spec)
<1>1. TypeOK /\ [Next]_vars => [A]_vars
    <2> SUFFICES ASSUME TypeOK, ReconcileDecode
                 PROVE  IF MinBound(spec) <= MaxBound(spec) THEN Bounded(replicas')
                                                            ELSE replicas' = MaxBound(spec)
        OBVIOUS
    <2>1. PICK depth : replicas' = computeDecodeReplicas(spec, depth)
        BY DEF ReconcileDecode
    <2> DEFINE lo == MinBound(spec)
               hi == MaxBound(spec)
               step == DesiredStep(spec, depth)
    <2>2. /\ lo \in 0 .. MaxInt32 /\ hi \in 1 .. MaxInt32 /\ MaxInt32 \in Nat
          /\ step \in Int /\ replicas' = Clamp(step, lo, hi)
        BY <2>1, BoundsTyped, StepFacts, MaxInt32Assumption DEF TypeOK, computeDecodeReplicas
    <2> HIDE DEF lo, hi, step
    <2>3. IF lo <= hi THEN replicas' >= lo /\ replicas' <= hi ELSE replicas' = hi
        BY <2>2 DEF Clamp
    <2> QED BY <2>3 DEF lo, hi, Bounded
<1> QED BY <1>1, AutoscaleTyped, PTL DEF Spec, ReconcileRespectsBounds

\* However long the queue stays full, a reconcile is never more than one replica
\* away from the clamped count of the spec, except where int32 wraps.
THEOREM ScalingNeverAccumulates == Spec => NeverAccumulates
<1> DEFINE A == ReconcileDecode =>
                    \/ replicas' - CurrentReplicas(spec) \in {-1, 0, 1}
                    \/ CurrentReplicas(spec) = MaxInt32 /\ replicas' = MinBound(spec)
<1>1. TypeOK /\ [Next]_vars => [A]_vars
    <2> SUFFICES ASSUME TypeOK, ReconcileDecode
                 PROVE  \/ replicas' - CurrentReplicas(spec) \in {-1, 0, 1}
                        \/ CurrentReplicas(spec) = MaxInt32 /\ replicas' = MinBound(spec)
        OBVIOUS
    <2>1. PICK depth : replicas' = computeDecodeReplicas(spec, depth)
        BY DEF ReconcileDecode
    <2> DEFINE lo == MinBound(spec)
               hi == MaxBound(spec)
               cur == CurrentReplicas(spec)
               step == DesiredStep(spec, depth)
    <2>2. /\ lo \in 0 .. MaxInt32 /\ hi \in 1 .. MaxInt32 /\ MaxInt32 \in Nat
          /\ cur \in 0 .. MaxInt32 /\ Clamp(cur, lo, hi) = cur
          /\ step \in Int
          /\ step - cur \in {-1, 0, 1} \/ (cur = MaxInt32 /\ step < 0)
          /\ replicas' = Clamp(step, lo, hi)
        BY <2>1, BoundsTyped, CurrentFacts, StepFacts, MaxInt32Assumption
        DEF TypeOK, computeDecodeReplicas
    <2> HIDE DEF lo, hi, cur, step
    <2>3. replicas' - cur \in {-1, 0, 1} \/ (cur = MaxInt32 /\ replicas' = lo)
        BY <2>2 DEF Clamp
    <2> QED BY <2>3 DEF cur, lo
<1> QED BY <1>1, AutoscaleTyped, PTL DEF Spec, NeverAccumulates

\* A full queue adds the one replica the maximum leaves room for, and a queue that
\* is not full never grows the Deployment, whatever text the signal is.
THEOREM SignalFollowed == Spec => FollowsSignal
<1> DEFINE A == ReconcileDecode =>
                    /\ (QueueHigh(parseFloat(queue)) /\ CurrentReplicas(spec) < MaxInt32)
                            => replicas' = Min2(CurrentReplicas(spec) + 1, MaxBound(spec))
                    /\ ~QueueHigh(parseFloat(queue)) => replicas' <= CurrentReplicas(spec)
<1>1. TypeOK /\ [Next]_vars => [A]_vars
    <2> SUFFICES ASSUME TypeOK, ReconcileDecode PROVE A
        OBVIOUS
    <2> DEFINE lo == MinBound(spec)
               hi == MaxBound(spec)
               cur == CurrentReplicas(spec)
               depth == parseFloat(queue)
               step == DesiredStep(spec, depth)
    <2>1. replicas' = Clamp(step, lo, hi)
        BY DEF ReconcileDecode, parseFloat, computeDecodeReplicas
    <2>2. /\ lo \in 0 .. MaxInt32 /\ hi \in 1 .. MaxInt32 /\ MaxInt32 \in Nat
          /\ cur \in 0 .. MaxInt32 /\ Clamp(cur, lo, hi) = cur
        BY BoundsTyped, CurrentFacts, MaxInt32Assumption DEF TypeOK
    <2>3. QueueHigh(depth) /\ cur < MaxInt32 => step = cur + 1
        <3>1. depth \in Int \cup {NotANumber}
            BY AutoscaleAssumption DEF TypeOK, parseFloat
        <3> HIDE DEF depth
        <3>2. ~(QueueHigh(depth) /\ QueueLow(depth))
            BY <3>1 DEF QueueHigh, QueueLow
        <3>3. QueueHigh(depth) => step = Add32(cur, 1)
            BY <3>2 DEF DesiredStep
        <3> HIDE DEF cur, step, depth
        <3> QED BY <2>2, <3>3 DEF Add32, Word, MinInt32
    <2>4. ~QueueHigh(depth) => step = cur \/ (cur > lo /\ step = cur - 1)
        <3>1. ~QueueHigh(depth) => step = cur \/ (cur > lo /\ step = Add32(cur, -1))
            BY DEF DesiredStep
        <3> HIDE DEF cur, step, depth, lo
        <3> QED BY <2>2, <3>1 DEF Add32, Word, MinInt32
    <2> HIDE DEF lo, hi, cur, depth, step
    <2>5. QueueHigh(depth) /\ cur < MaxInt32 => replicas' = Min2(cur + 1, hi)
        BY <2>1, <2>2, <2>3 DEF Clamp, Min2
    <2>6. ~QueueHigh(depth) => replicas' <= cur
        BY <2>1, <2>2, <2>4 DEF Clamp
    <2> QED BY <2>5, <2>6 DEF cur, hi, depth
<1> QED BY <1>1, AutoscaleTyped, PTL DEF Spec, FollowsSignal
=============================================================================
