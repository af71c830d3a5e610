--------------------------- MODULE ResourceProofs ---------------------------
(***************************************************************************)
(* Proofs about the resource itself, for all specs, children, pods and     *)
(* budgets: status.observedGeneration tells the truth as long as the user  *)
(* only sets and changes fields (with removed fields it does not: the run  *)
(* RemovedField), and so do the conditions; set fields are lost only to    *)
(* stale defaults; autoscaling stays inside its bounds; and the reconciler *)
(* implements the safety part of ClusterLifecycle.                         *)
(***************************************************************************)
EXTENDS LifecycleRefinement, ChildrenProofs

-----------------------------------------------------------------------------
(* How the spec on the server changes *)

\* Where a new spec comes from: the patch of the defaults, the Update that adds
\* the finalizer, or the user. And a new spec has a new generation.
LEMMA SpecStep ==
    ASSUME Inv, Next, cr' # NotFound
    PROVE  /\ cr # NotFound /\ IsResource(cr) /\ cr'.gen \in Nat /\ cr'.gen >= cr.gen
           /\ cr'.spec # cr.spec => cr'.gen > cr.gen
           /\ \/ cr'.spec = cr.spec
              \/ BeginReconcile /\ crCache # NotFound /\ cr'.spec = DefaultsPatched.spec
              \/ AddFinalizer /\ held /\ cr'.spec = obj.spec
              \/ \E f \in Fields : \E v \in FieldValues[f] :
                    UserEdit(f, v) /\ cr'.spec = [cr.spec EXCEPT ![f] = v]
<1>0. cr # NotFound /\ TypeOK /\ IsResource(cr) /\ cr.gen \in Nat
    BY StatusStays DEF Inv, TypeOK, ResourceTyped, IsResource
<1>1. CASE cr'.spec = cr.spec /\ cr'.gen = cr.gen
    BY <1>0, <1>1
<1>2. ASSUME NEW s, IsSpec(s)
      PROVE  LET r == WithSpec(cr, s)
             IN  /\ r.spec = s /\ r.gen \in Nat /\ r.gen >= cr.gen
                 /\ s # cr.spec => r.gen > cr.gen
                 /\ DOMAIN r = {"spec", "gen", "fin", "del", "status"}
    BY <1>0, <1>2 DEF WithSpec, IsResource
<1>3. CASE BeginReconcile
    <2>1. CASE cr' = cr
        BY <1>1, <2>1
    <2>2. CASE crCache # NotFound /\ cr' = DefaultsPatched
        <3>1. IsSpec(MergePatched(crCache.spec, WithDefaults(crCache.spec), cr.spec))
            BY <1>0, <2>2, DefaultsTyped, PatchTyped DEF TypeOK, ResourceTyped, IsResource
        <3> QED BY <1>0, <1>2, <1>3, <2>2, <3>1 DEF DefaultsPatched
    <2> QED BY <1>3, <2>1, <2>2 DEF BeginReconcile, PersistDefaults, StoreCR, crVars
<1>4. CASE AddFinalizer
    <2> DEFINE r == WithSpec(cr, obj.spec)
    <2>1. IsSpec(obj.spec)
        BY <1>4, WorkingFacts DEF AddFinalizer, IsResource
    <2>2. /\ r.spec = obj.spec /\ r.gen \in Nat /\ r.gen >= cr.gen
          /\ obj.spec # cr.spec => r.gen > cr.gen
          /\ DOMAIN r = {"spec", "gen", "fin", "del", "status"}
        BY <1>2, <2>1
    <2>3. cr' = cr \/ (held /\ cr' = [r EXCEPT !.fin = TRUE])
        BY <1>4 DEF AddFinalizer, StoreCR, crVars
    <2> HIDE DEF r
    <2>4. [r EXCEPT !.fin = TRUE].spec = r.spec /\ [r EXCEPT !.fin = TRUE].gen = r.gen
        BY <2>2
    <2> QED BY <1>0, <1>1, <1>4, <2>2, <2>3, <2>4
<1>5. ASSUME NEW f \in Fields, NEW v \in FieldValues[f], UserEdit(f, v)
      PROVE  /\ cr'.gen \in Nat /\ cr'.gen >= cr.gen
             /\ cr'.spec # cr.spec => cr'.gen > cr.gen
             /\ cr'.spec = [cr.spec EXCEPT ![f] = v]
    <2>1. IsSpec([cr.spec EXCEPT ![f] = v])
        BY <1>0 DEF IsResource, IsSpec, FieldRange
    <2>2. cr' = WithSpec(cr, [cr.spec EXCEPT ![f] = v])
        BY <1>5 DEF UserEdit, StoreCR
    <2> QED BY <1>2, <2>1, <2>2
<1>6. CASE UserDelete
    <2>1. cr' = [cr EXCEPT !.del = TRUE, !.gen = @ + 1]
        BY <1>6 DEF UserDelete, StoreCR
    <2> QED BY <1>0, <2>1 DEF IsResource
<1>7. CASE PatchStatus \/ requeueDegraded
    <2>1. cr' = cr \/ \E st : cr' = [cr EXCEPT !.status = st]
        BY <1>7 DEF PatchStatus, requeueDegraded, StoreCR, crVars
    <2>2. cr'.spec = cr.spec /\ cr'.gen = cr.gen
        BY <1>0, <2>1 DEF IsResource
    <2> QED BY <1>1, <2>2
<1>8. CASE \/ RemoveFinalizer \/ ReconcileChild \/ ReadSignals \/ CacheSync \/ PodSync \/ TimerFires
           \/ \E c \in Tracked : ChildSync(c)
    <2>1. cr' = cr
        BY <1>8 DEF RemoveFinalizer, ReconcileChild, ReadSignals, StoreCR, CacheSync, PodSync,
           TimerFires, ChildSync, crVars
    <2> QED BY <1>1, <2>1
<1>9. CASE \/ \E c \in Tracked : \E new \in {Absent, Spoiled} : ChildDrift(c, new)
           \/ \E c \in Tracked : RolloutStatus(c) \/ GarbageCollect(c)
           \/ \E text \in SignalTexts : SignalWritten(text)
           \/ \E p \in Pods, state \in {"none", "unready", "ready"} : PodChange(p, state)
           \/ Restart
           \/ Tick
    <2>1. cr' = cr
        BY <1>9 DEF ChildDrift, RolloutStatus, GarbageCollect, SignalWritten, PodChange, Restart,
           Tick, crVars
    <2> QED BY <1>1, <2>1
<1>10. CASE \E f \in Fields : \E v \in FieldValues[f] : UserEdit(f, v)
    BY <1>0, <1>5, <1>10
<1> QED BY <1>3, <1>4, <1>6, <1>7, <1>8, <1>9, <1>10 DEF Next, Work, Environment

\* A field that is set in the cache is left as the server has it by the patch of
\* the defaults, and one the patch sets is set.
LEMMA PatchSets ==
    ASSUME Inv, SetStaysSet, cr # NotFound, crCache # NotFound, NEW f \in Fields
    PROVE  /\ cr.spec[f] # Nil => DefaultsPatched.spec[f] # Nil
           /\ DefaultsPatched.spec[f] = Nil => WithDefaults(crCache.spec)[f] = Nil
<1>1. IsResource(cr) /\ IsResource(crCache) /\ IsSpec(cr.spec) /\ IsSpec(crCache.spec)
    BY DEF Inv, TypeOK, ResourceTyped, IsResource
<1> DEFINE filled == WithDefaults(crCache.spec)
<1>2. DefaultsPatched.spec[f] = IF filled[f] # crCache.spec[f] THEN filled[f] ELSE cr.spec[f]
    BY <1>1 DEF DefaultsPatched, WithSpec, MergePatched, IsResource, IsSpec
<1>3. filled[f] # crCache.spec[f] => filled[f] # Nil
    BY <1>1 DEF WithDefaults, Deref, IsSpec
<1>4. crCache.spec[f] # Nil => cr.spec[f] # Nil
    BY DEF SetStaysSet
<1> QED BY <1>2, <1>3, <1>4

\* Then the worker holds the spec that the patch has stored.
LEMMA DecodedIsPatched ==
    ASSUME Inv, SetStaysSet, cr # NotFound, crCache # NotFound
    PROVE  DefaultsDecoded.spec = DefaultsPatched.spec
<1>1. IsResource(DefaultsPatched) /\ IsSpec(DefaultsPatched.spec)
    BY DefaultsFacts DEF Inv, IsResource
<1>2. DefaultsDecoded.spec = DecodeInto(WithDefaults(crCache.spec), DefaultsPatched.spec)
    BY <1>1 DEF DefaultsDecoded, IsResource
<1>3. ASSUME NEW f \in Fields
      PROVE  DecodeInto(WithDefaults(crCache.spec), DefaultsPatched.spec)[f] = DefaultsPatched.spec[f]
    BY <1>1, PatchSets DEF DecodeInto, IsSpec
<1>4. DefaultsPatched.spec = MergePatched(crCache.spec, WithDefaults(crCache.spec), cr.spec)
    BY DEF DefaultsPatched, WithSpec, Inv, TypeOK, ResourceTyped, IsResource
<1>5. DefaultsPatched.spec = [f \in Fields |-> DefaultsPatched.spec[f]]
    BY <1>1, <1>4 DEF MergePatched, IsSpec
<1> QED BY <1>1, <1>2, <1>3, <1>5 DEF DecodeInto, IsSpec

\* The informer's copy is the one it was, or the server's, and the worker's
\* original is the informer's copy of its first step.
LEMMA CopiesStep ==
    ASSUME Inv, Next
    PROVE  /\ crCache' = crCache \/ (crCache' = cr /\ cr' = cr)
           /\ pc' # "idle" => \/ pc # "idle" /\ orig' = orig
                              \/ crCache # NotFound /\ orig' = crCache /\ crCache' = crCache
<1>1. crCache' = crCache \/ (crCache' = cr /\ cr' = cr)
    <2>1. CASE Work
        BY <2>1 DEF Work, BeginReconcile, PersistDefaults, RemoveFinalizer, AddFinalizer,
           ReconcileChild, ReadSignals, PatchStatus, requeueDegraded, StoreCR, crVars
    <2>2. CASE CacheSync \/ PodSync \/ TimerFires \/ \E c \in Tracked : ChildSync(c)
        BY <2>2 DEF CacheSync, PodSync, TimerFires, ChildSync, crVars
    <2>3. CASE Environment
        BY <2>3 DEF Environment, UserEdit, UserDelete, ChildDrift, RolloutStatus, GarbageCollect,
           SignalWritten, PodChange, Restart, Tick, StoreCR, crVars
    <2> QED BY ZenonT(30), <2>1, <2>2, <2>3 DEF Next
<1>2. ASSUME pc' # "idle"
      PROVE  \/ pc # "idle" /\ orig' = orig
             \/ crCache # NotFound /\ orig' = crCache /\ crCache' = crCache
    <2>1. CASE UNCHANGED <<pc, orig>>
        BY <1>2, <2>1
    <2>2. CASE BeginReconcile
        <3>1. PICK r \in Replies : crCache # NotFound /\ PersistDefaults(r)
            BY <1>2, <2>2 DEF BeginReconcile, Finish, ReturnErr
        <3> QED BY <1>2, <3>1 DEF PersistDefaults, StoreCR, ReturnErr, Finish
    <2>3. CASE RemoveFinalizer \/ PatchStatus \/ requeueDegraded
        BY <1>2, <2>3 DEF RemoveFinalizer, PatchStatus, requeueDegraded, ReturnErr, ReturnAfter, Finish
    <2>4. CASE AddFinalizer \/ ReconcileChild \/ ReadSignals
        BY ZenonT(30), <1>2, <2>4 DEF AddFinalizer, ReconcileChild, ReadSignals, ReturnErr, Finish
    <2>5. CASE CacheSync \/ PodSync \/ TimerFires \/ \E d \in Tracked : ChildSync(d)
        BY <2>1, <2>5 DEF CacheSync, PodSync, TimerFires, ChildSync, workVars
    <2>6. CASE Environment
        <3>1. UNCHANGED workVars \/ UNCHANGED <<pc, orig>>
            BY <1>2, <2>6, ZenonT(30) DEF Environment, UserEdit, UserDelete, ChildDrift, RolloutStatus,
               GarbageCollect, SignalWritten, PodChange, Restart, Tick, Finish
        <3> QED BY <2>1, <3>1 DEF workVars
    <2> QED BY ZenonT(30), <2>2, <2>3, <2>4, <2>5, <2>6 DEF Next, Work
<1> QED BY ZenonT(30), <1>1, <1>2

-----------------------------------------------------------------------------
(* The four parts of the invariant *)

LEMMA SetStaysSetStep ==
    ASSUME NoRemovals, Inv, SetStaysSet, SpecOfGeneration, Next
    PROVE  SetStaysSet'
<1> SUFFICES ASSUME crCache' # NotFound, cr' # NotFound,
                    NEW f \in Fields, crCache'.spec[f] # Nil
             PROVE  cr'.spec[f] # Nil
    BY DEF SetStaysSet
<1>1. cr # NotFound /\ IsResource(cr) /\ IsSpec(cr.spec)
    BY SpecStep DEF IsResource
<1>2. CASE crCache' = cr /\ cr' = cr
    BY <1>2
<1>3. CASE crCache' = crCache
    <2>1. cr.spec[f] # Nil
        BY <1>1, <1>3 DEF SetStaysSet
    <2>2. CASE cr'.spec = cr.spec
        BY <2>1, <2>2
    <2>3. CASE crCache # NotFound /\ cr'.spec = DefaultsPatched.spec
        BY <1>1, <2>1, <2>3, PatchSets
    <2>4. CASE AddFinalizer /\ held /\ cr'.spec = obj.spec
        BY <1>1, <2>1, <2>4 DEF AddFinalizer, SpecOfGeneration
    <2>5. ASSUME NEW g \in Fields, NEW v \in FieldValues[g], cr'.spec = [cr.spec EXCEPT ![g] = v]
          PROVE  cr'.spec[f] # Nil
        BY ZenonT(30), <1>1, <2>1, <2>5 DEF NoRemovals, IsSpec
    <2> QED BY <2>2, <2>3, <2>4, <2>5, SpecStep
<1> QED BY ZenonT(30), <1>2, <1>3, CopiesStep

\* What the worker holds changes at its first step and when it adds the
\* finalizer; later steps touch the status of its copy only.
LEMMA CopyStep ==
    ASSUME Inv, Next, pc' # "idle"
    PROVE  \/ /\ BeginReconcile /\ crCache # NotFound /\ cr # NotFound /\ replicas' = Nil
              /\ cr' = DefaultsPatched /\ obj' = DefaultsDecoded
              /\ pc' \in {"child", "status"} => Proceed(0, DefaultsDecoded.spec)
              /\ pc' # "readSignals"
           \/ /\ AddFinalizer /\ obj' = cr' /\ obj'.spec = obj.spec /\ replicas' = replicas
              /\ Proceed(0, obj.spec)
           \/ /\ pc # "idle" /\ ~BeginReconcile /\ ~AddFinalizer
              /\ obj'.spec = obj.spec /\ obj'.gen = obj.gen
              /\ held' => held
              /\ replicas' = replicas \/ ReadSignals
<1>1. CASE BeginReconcile
    <2>1. PICK r \in Replies : crCache # NotFound /\ cr # NotFound /\ PersistDefaults(r)
        BY <1>1 DEF BeginReconcile, Finish, ReturnErr
    <2>2. r = "ok"
        BY <2>1 DEF PersistDefaults, ReturnErr, Finish
    <2>3. /\ cr' = DefaultsPatched /\ obj' = DefaultsDecoded /\ replicas' = Nil
          /\ \/ pc' \in {"removeFinalizer", "addFinalizer"}
             \/ Proceed(0, DefaultsDecoded.spec)
        BY <2>1, <2>2 DEF PersistDefaults, StoreCR
    <2>4. Proceed(0, DefaultsDecoded.spec) => pc' # "readSignals"
        BY ProceedTyped
    <2> QED BY <1>1, <2>1, <2>3, <2>4
<1>2. CASE AddFinalizer
    <2> DEFINE r == WithSpec(cr, obj.spec)
    <2>1. ~ReturnErr
        BY DEF ReturnErr, Finish
    <2>2. /\ held /\ cr' = [r EXCEPT !.fin = TRUE] /\ obj' = [r EXCEPT !.fin = TRUE]
          /\ replicas' = replicas /\ Proceed(0, obj.spec)
        BY <1>2, <2>1 DEF AddFinalizer, StoreCR
    <2>3. IsResource(cr) /\ IsSpec(obj.spec)
        BY <1>2, <2>2, WorkingFacts DEF AddFinalizer, IsResource
    <2>4. IsResource(r) /\ r.spec = obj.spec
        BY <2>3, WithSpecTyped
    <2>5. [r EXCEPT !.fin = TRUE].spec = r.spec
        BY <2>4 DEF IsResource
    <2> QED BY <1>2, <2>2, <2>4, <2>5
<1>3. CASE RemoveFinalizer \/ PatchStatus \/ requeueDegraded
    BY <1>3 DEF RemoveFinalizer, PatchStatus, requeueDegraded, ReturnErr, ReturnAfter, Finish
<1>4. CASE ReconcileChild
    <2>1. pc = "child" /\ IsResource(obj)
        BY <1>4, WorkingFacts DEF ReconcileChild
    <2>2. WithShards(obj).spec = obj.spec /\ WithShards(obj).gen = obj.gen
        BY <2>1 DEF WithShards, IsResource
    <2>3. /\ obj' \in {obj, WithShards(obj)} /\ held' = held /\ replicas' = replicas
          /\ ~BeginReconcile /\ ~AddFinalizer
        BY <1>4 DEF ReconcileChild, BeginReconcile, AddFinalizer
    <2> QED BY ZenonT(30), <2>1, <2>2, <2>3
<1>5. CASE ReadSignals
    <2>1. pc = "readSignals" /\ IsResource(obj)
        BY <1>5, WorkingFacts DEF ReadSignals
    <2>2. obj'.spec = obj.spec /\ obj'.gen = obj.gen
        BY <1>5, <2>1 DEF ReadSignals, IsResource
    <2>3. held' = held /\ ~BeginReconcile /\ ~AddFinalizer
        BY <1>5 DEF ReadSignals, BeginReconcile, AddFinalizer
    <2> QED BY <1>5, <2>1, <2>2, <2>3
<1>6. CASE UNCHANGED <<pc, obj, replicas>> /\ (held' => held) /\ ~BeginReconcile /\ ~AddFinalizer
    BY <1>6
<1>7. CASE CacheSync \/ PodSync \/ TimerFires \/ \E d \in Tracked : ChildSync(d)
    <2>1. UNCHANGED workVars
        BY <1>7 DEF CacheSync, PodSync, TimerFires, ChildSync
    <2> QED BY <1>1, <1>2, <1>6, <2>1 DEF workVars
<1>8. CASE Environment
    <2>1. UNCHANGED <<pc, obj, replicas>> /\ held' \in {FALSE, held}
        <3>1. UNCHANGED workVars \/ (UNCHANGED <<pc, obj, replicas>> /\ held' = FALSE)
            BY <1>8 DEF Environment, UserEdit, UserDelete, ChildDrift, RolloutStatus,
               GarbageCollect, SignalWritten, PodChange, Restart, Tick, Finish
        <3> QED BY <3>1 DEF workVars
    <2> QED BY <1>1, <1>2, <1>6, <2>1
<1> QED BY <1>1, <1>2, <1>3, <1>4, <1>5, <1>7, <1>8 DEF Next, Work

LEMMA SpecOfGenerationStep ==
    ASSUME Inv, SetStaysSet, SpecOfGeneration, Next
    PROVE  SpecOfGeneration'
<1> SUFFICES ASSUME pc' # "idle", cr' # NotFound, held' \/ obj'.gen = cr'.gen
             PROVE  obj'.spec = cr'.spec
    BY DEF SpecOfGeneration
<1>1. CASE /\ crCache # NotFound /\ cr # NotFound
           /\ cr' = DefaultsPatched /\ obj' = DefaultsDecoded
    BY <1>1, DecodedIsPatched
<1>2. CASE obj' = cr'
    BY <1>2
<1>3. CASE /\ pc # "idle" /\ ~BeginReconcile /\ ~AddFinalizer
           /\ obj'.spec = obj.spec /\ obj'.gen = obj.gen /\ (held' => held)
    <2>1. cr # NotFound /\ obj.gen \in Nat /\ cr.gen \in Nat /\ obj.gen <= cr.gen
        BY <1>3, SpecStep, WorkingFacts
    <2>2. /\ cr'.gen \in Nat /\ cr'.gen >= cr.gen /\ (cr'.spec # cr.spec => cr'.gen > cr.gen)
          /\ cr'.spec = cr.spec \/ \E f \in Fields : \E v \in FieldValues[f] : UserEdit(f, v)
        BY <1>3, SpecStep
    <2>3. CASE cr'.spec = cr.spec
        <3>1. held \/ obj.gen = cr.gen
            BY <1>3, <2>1, <2>2
        <3> QED BY <1>3, <2>1, <2>3, <3>1 DEF SpecOfGeneration
    <2>4. CASE cr'.spec # cr.spec
        <3>1. held' = FALSE
            BY <2>2, <2>4 DEF UserEdit
        <3> QED BY <1>3, <2>1, <2>2, <2>4, <3>1
    <2> QED BY <2>3, <2>4
<1> QED BY <1>1, <1>2, <1>3, CopyStep

\* The step after child number i is for a child the spec calls for.
LEMMA ProceedActive ==
    ASSUME NEW i, NEW s, Proceed(i, s)
    PROVE  pc' # "readSignals" /\ (pc' = "child" /\ Order[at'] = "signals" => AutoscalingOn(s))
<1>1. CASE StepsAfter(i, s) = {}
    BY <1>1 DEF Proceed
<1>2. CASE StepsAfter(i, s) # {}
    BY <1>2 DEF Proceed, StepsAfter, Active
<1> QED BY <1>1, <1>2

LEMMA OverrideStep ==
    ASSUME Inv, OverrideOnlyScaled, Next
    PROVE  OverrideOnlyScaled'
<1>1. CASE pc' = "idle"
    BY <1>1 DEF OverrideOnlyScaled
<1>2. CASE /\ pc' # "idle" /\ obj' = DefaultsDecoded /\ replicas' = Nil
           /\ pc' = "child" => Proceed(0, DefaultsDecoded.spec)
           /\ pc' # "readSignals"
    BY <1>2, ProceedActive DEF OverrideOnlyScaled
<1>3. CASE AddFinalizer /\ obj'.spec = obj.spec /\ replicas' = replicas /\ Proceed(0, obj.spec)
    BY <1>3, ProceedActive DEF OverrideOnlyScaled, AddFinalizer
<1>4. CASE /\ pc # "idle" /\ pc' # "idle" /\ ~BeginReconcile /\ ~AddFinalizer
           /\ obj'.spec = obj.spec /\ (replicas' = replicas \/ ReadSignals)
    <2>1. CASE ReconcileChild
        <3>1. \/ Order[at] = "signals" /\ pc' = "readSignals" /\ at' = at
              \/ Proceed(at, obj.spec)
              \/ pc' = "degraded"
            BY <2>1 DEF ReconcileChild
        <3>2. pc = "child" /\ ~ReadSignals
            BY <2>1 DEF ReconcileChild, ReadSignals
        <3> QED BY <1>4, <3>1, <3>2, ProceedActive DEF OverrideOnlyScaled
    <2>2. CASE ReadSignals
        <3>1. pc = "readSignals" /\ (Proceed(at, obj.spec) \/ (pc' = "degraded" /\ replicas' = replicas))
            BY <2>2 DEF ReadSignals
        <3> QED BY <1>4, <3>1, ProceedActive DEF OverrideOnlyScaled
    <2>3. CASE UNCHANGED <<pc, at, replicas>>
        BY <1>4, <2>3 DEF OverrideOnlyScaled
    <2>4. CASE RemoveFinalizer \/ PatchStatus \/ requeueDegraded
        BY <1>4, <2>4 DEF RemoveFinalizer, PatchStatus, requeueDegraded, ReturnErr, ReturnAfter, Finish
    <2>5. CASE CacheSync \/ PodSync \/ TimerFires \/ \E d \in Tracked : ChildSync(d)
        BY <2>3, <2>5 DEF CacheSync, PodSync, TimerFires, ChildSync, workVars
    <2>6. CASE Environment
        BY <1>4, <2>3, <2>6 DEF Environment, UserEdit, UserDelete, ChildDrift, RolloutStatus,
           GarbageCollect, SignalWritten, PodChange, Restart, Tick, workVars, Finish
    <2> QED BY <1>4, <2>1, <2>2, <2>4, <2>5, <2>6 DEF Next, Work
<1> QED BY <1>1, <1>2, <1>3, <1>4, CopyStep

\* The CreateOrUpdate of a Deployment always sends what the spec wants, and the
\* worker goes on only when that is on the server.
LEMMA DeploymentWritten ==
    ASSUME Inv, ReconcileChild, Order[at] \in Deployments, pc' # "degraded"
    PROVE  child'[Order[at]] = DesiredDeployment(Order[at], obj.spec, replicas)
<1> DEFINE c == Order[at]
           desired == Desired(c, obj.spec, replicas, childCache[c])
<1>1. c \in Tracked /\ DOMAIN child = Tracked
    BY WorkingFacts DEF ReconcileChild, WorkerTyped, ChildrenTyped
<1>2. desired = DesiredDeployment(c, obj.spec, replicas)
    BY DEF Desired, Deployments
<1> HIDE DEF desired
<1>3. CreateOrUpdate(child[c], childCache[c], childFresh[c], desired, c \in Rewritten)
        \in {"written", "rejected"}
    BY DEF CreateOrUpdate, Rewritten
<1>4. StoreChild(c, desired)
    BY ZenonT(30), <1>3 DEF ReconcileChild, desired
<1> QED BY <1>1, <1>2, <1>4 DEF StoreChild

\* Without drift, a Deployment of an existing resource changes only when the
\* worker writes it.
LEMMA DeploymentStep ==
    ASSUME Inv, Next, cr # NotFound, ~(\E d \in Tracked : \E new : ChildDrift(d, new)),
           NEW c \in Tracked \cap Deployments
    PROVE  \/ child'[c] = child[c]
           \/ /\ ReconcileChild /\ Order[at] = c
              /\ child'[c] = DesiredDeployment(c, obj.spec, replicas)
<1>0. DOMAIN child = Tracked /\ c # "signals"
    BY DEF Inv, TypeOK, ChildrenTyped, Deployments
<1>1. CASE child' = child
    BY <1>1
<1>2. CASE ReconcileChild
    <2>1. Order[at] = c => Desired(c, obj.spec, replicas, childCache[c])
                                = DesiredDeployment(c, obj.spec, replicas)
        BY DEF Desired, Deployments
    <2>2. \/ child' = child
          \/ \E o : /\ child' = [child EXCEPT ![Order[at]] = o]
                    /\ o \in {child[Order[at]], Desired(Order[at], obj.spec, replicas, childCache[Order[at]])}
        BY <1>2 DEF ReconcileChild, StoreChild, childVars
    <2> QED BY <1>0, <1>2, <2>1, <2>2
<1>3. ASSUME NEW text \in SignalTexts, SignalWritten(text) PROVE child'[c] = child[c]
    BY <1>0, <1>3 DEF SignalWritten, StoreChild
<1>4. CASE Work
    BY ZenonT(30), <1>1, <1>2, <1>4
       DEF Work, BeginReconcile, RemoveFinalizer, AddFinalizer, ReadSignals,
       PatchStatus, requeueDegraded, childVars
<1>5. CASE CacheSync \/ PodSync \/ TimerFires \/ \E d \in Tracked : ChildSync(d)
    BY <1>1, <1>5 DEF CacheSync, PodSync, TimerFires, ChildSync, childVars
<1>6. CASE Environment
    BY <1>1, <1>3, <1>6 DEF Environment, UserEdit, UserDelete, RolloutStatus, GarbageCollect,
       PodChange, Restart, Tick, childVars
<1> QED BY <1>4, <1>5, <1>6 DEF Next

LEMMA PassedAsWantedStep ==
    ASSUME Inv, ChildrenCoherent, OverrideOnlyScaled, PassedAsWanted, Next
    PROVE  PassedAsWanted'
<1> SUFFICES ASSUME Undisturbed', NEW i \in DOMAIN Order, Order[i] \in Tracked \cap Deployments,
                    Passed(i)'
             PROVE  child'[Order[i]] = DesiredDeployment(Order[i], obj'.spec, replicas')
    BY DEF PassedAsWanted
<1>1. /\ Undisturbed /\ ~(\E c \in Tracked : \E new : ChildDrift(c, new))
      /\ Order[i] \in Tracked \ {"signals"}
    BY UndisturbedStep DEF Deployments
<1>2. CASE ~Passed(i)
    <2>1. ReconcileChild /\ at = i /\ pc' \notin {"idle", "degraded"}
        BY <1>1, <1>2, NewlyPassed DEF Passed
    <2>2. child'[Order[i]] = DesiredDeployment(Order[i], obj.spec, replicas)
        BY ZenonT(30), <2>1, DeploymentWritten
    <2>3. obj'.spec = obj.spec /\ replicas' = replicas
        BY <2>1, CopyStep DEF ReconcileChild, BeginReconcile, AddFinalizer, ReadSignals
    <2> QED BY <2>2, <2>3
<1>3. CASE Passed(i)
    <2>1. /\ child[Order[i]] = DesiredDeployment(Order[i], obj.spec, replicas)
          /\ pc \in {"child", "readSignals", "status"} /\ cr # NotFound
        BY <1>1, <1>3 DEF PassedAsWanted, Passed, Inv, WorkUnderFinalizer
    <2>2. ~ReadSignals
        <3> SUFFICES ASSUME ReadSignals PROVE FALSE
            OBVIOUS
        <3>1. pc = "readSignals" /\ Order[at] = "signals" /\ at \in 0 .. Len(Order)
            BY WorkingFacts DEF ReadSignals, OverrideOnlyScaled, WorkerTyped
        <3>2. i <= at
            BY <1>3, <3>1 DEF Passed
        <3>3. at \in DOMAIN Order
            BY <3>1, <3>2, OrderLength
        <3>4. at = 1
            BY <3>1, <3>3, OrderInjective, OrderLength DEF Order
        <3>5. i = at
            BY <3>2, <3>4, OrderLength
        <3> QED BY <1>1, <3>1, <3>5
    <2>3. pc' # "idle"
        BY DEF Passed
    <2>4. obj'.spec = obj.spec /\ replicas' = replicas
        BY <2>1, <2>2, <2>3, CopyStep DEF BeginReconcile, AddFinalizer
    <2>5. ReconcileChild => Order[at] # Order[i]
        <3> SUFFICES ASSUME ReconcileChild, Order[at] = Order[i] PROVE FALSE
            OBVIOUS
        <3>1. pc = "child" /\ at \in 0 .. Len(Order) /\ at # 0
            BY WorkingFacts DEF ReconcileChild, WorkerTyped
        <3>2. at \in DOMAIN Order /\ i < at
            BY <1>3, <3>1, OrderLength DEF Passed
        <3> QED BY <3>2, OrderInjective, OrderLength
    <2> QED BY <1>1, <2>1, <2>4, <2>5, DeploymentStep
<1> QED BY <1>2, <1>3

-----------------------------------------------------------------------------
(* The property *)

\* What the worker writes conforms to the spec it was written for.
LEMMA WantedConforms ==
    ASSUME NEW c \in Deployments, NEW s, NEW o, ~AutoscalingOn(s) => o = Nil
    PROVE  Conforms(c, DesiredDeployment(c, s, o), s)
<1>1. CASE c = "decodeDeployment"
    <2> DEFINE r == Deref(o, Deref(s.decodeReplicas, 1))
    <2>1. DesiredDeployment(c, s, o).replicas = r
        BY <1>1 DEF DesiredDeployment
    <2>2. Deref(r, Deref(s.decodeReplicas, 1)) = r
        BY DEF Deref
    <2>3. DesiredDeployment(c, s, r) = DesiredDeployment(c, s, o)
        BY <1>1, <2>2 DEF DesiredDeployment
    <2> QED BY <1>1, <2>1, <2>3 DEF Conforms
<1>2. CASE c # "decodeDeployment"
    BY <1>2 DEF Conforms, DesiredDeployment, Deployments
<1> QED BY <1>1, <1>2

\* The observed generation is kept, or becomes that of the worker's copy at the
\* end of a reconciliation that went through.
LEMMA ObservedChange ==
    ASSUME Inv, Next, cr' # NotFound
    PROVE  \/ cr'.status.observedGeneration = cr.status.observedGeneration
           \/ PatchStatus /\ cr'.status.observedGeneration = obj.gen
<1>1. CASE cr'.status = cr.status
    BY <1>1
<1>2. CASE PatchStatus
    <2>1. IsResource(cr) /\ IsResource(obj)
        BY <1>2, WorkingFacts DEF PatchStatus
    <2>2. Reconciled.observedGeneration = obj.gen
        BY <2>1 DEF Reconciled, IsResource, IsStatus
    <2>3. MergePatched(orig.status, Reconciled, cr.status).observedGeneration
            \in {obj.gen, cr.status.observedGeneration}
        BY <2>1, <2>2 DEF MergePatched, IsResource, IsStatus
    <2>4. cr' = cr \/ cr' = [cr EXCEPT !.status = MergePatched(orig.status, Reconciled, @)]
        BY <1>2 DEF PatchStatus, StoreCR, crVars
    <2>5. cr'.status = cr.status \/ cr'.status = MergePatched(orig.status, Reconciled, cr.status)
        BY <2>1, <2>4 DEF IsResource
    <2> QED BY <1>2, <2>3, <2>5
<1>3. CASE requeueDegraded
    <2>1. /\ IsResource(cr) /\ IsResource(obj)
          /\ obj.status.observedGeneration = cr.status.observedGeneration
        BY <1>3, WorkingFacts DEF requeueDegraded
    <2>2. \/ cr' = cr
          \/ cr' = [cr EXCEPT !.status = [obj.status EXCEPT
                        !.conditions = WithConditions(@, "False", "True")]]
        BY <1>3 DEF requeueDegraded, StoreCR, crVars
    <2>3. cr'.status.observedGeneration = cr.status.observedGeneration
        BY <2>1, <2>2 DEF IsResource, IsStatus
    <2> QED BY <2>3
<1> QED BY <1>1, <1>2, <1>3, StatusStays

\* How a Deployment and an observed current generation come to stand beside each
\* other: they already did, or the worker that writes one of them has the current
\* spec, and the Deployment is the one it wants.
LEMMA ObservedWrite ==
    ASSUME Inv, ChildrenCoherent, SpecOfGeneration, PassedAsWanted, Next,
           cr' # NotFound, cr'.status.observedGeneration = cr'.gen, Undisturbed',
           NEW c \in Tracked \cap Deployments
    PROVE  \/ /\ cr # NotFound /\ cr.status.observedGeneration = cr.gen /\ Undisturbed
              /\ cr'.spec = cr.spec /\ child'[c] = child[c]
           \/ /\ pc = "status" \/ (pc = "child" /\ Order[at] = c)
              /\ cr'.spec = obj.spec /\ child'[c] = DesiredDeployment(c, obj.spec, replicas)
<1>1. /\ Undisturbed /\ ~(\E d \in Tracked : \E new : ChildDrift(d, new))
      /\ cr # NotFound /\ cr.gen \in Nat /\ cr'.gen \in Nat /\ cr'.gen >= cr.gen
      /\ cr'.spec # cr.spec => cr'.gen > cr.gen
      /\ cr.status.observedGeneration \in Nat /\ cr.status.observedGeneration <= cr.gen
    <2>1. Undisturbed /\ ~(\E d \in Tracked : \E new : ChildDrift(d, new))
        BY UndisturbedStep
    <2>2. /\ cr # NotFound /\ IsResource(cr) /\ cr'.gen \in Nat /\ cr'.gen >= cr.gen
          /\ cr'.spec # cr.spec => cr'.gen > cr.gen
        BY SpecStep
    <2>3. cr.gen \in Nat /\ cr.status.observedGeneration \in Nat
        BY <2>2 DEF IsResource, IsStatus
    <2>4. cr.status.observedGeneration <= cr.gen
        BY <2>2 DEF Inv, ObservedBounds
    <2> QED BY <2>1, <2>2, <2>3, <2>4
<1>2. ASSUME pc # "idle", obj.gen = cr.gen, cr'.spec = cr.spec PROVE cr'.spec = obj.spec
    BY ZenonT(30), <1>1, <1>2 DEF SpecOfGeneration
<1>3. CASE cr'.status.observedGeneration = cr.status.observedGeneration
    <2>1. cr'.gen = cr.gen /\ cr'.spec = cr.spec /\ cr.status.observedGeneration = cr.gen
        BY <1>1, <1>3
    <2>2. CASE child'[c] = child[c]
        BY <1>1, <2>1, <2>2
    <2>3. CASE /\ ReconcileChild /\ Order[at] = c
               /\ child'[c] = DesiredDeployment(c, obj.spec, replicas)
        <3>1. /\ pc = "child" /\ obj.gen \in Nat /\ obj.gen <= cr.gen
              /\ cr.status.observedGeneration <= obj.gen
            BY <1>1, <2>3, WorkingFacts DEF ReconcileChild
        <3>2. obj.gen = cr.gen
            BY ZenonT(30), <1>1, <2>1, <3>1, SameGeneration
        <3>3. pc # "idle"
            BY <3>1
        <3> QED BY ZenonT(30), <1>2, <2>1, <2>3, <3>1, <3>2, <3>3
    <2> QED BY ZenonT(30), <1>1, <2>2, <2>3, DeploymentStep
<1>4. CASE PatchStatus /\ cr'.status.observedGeneration = obj.gen
    <2>1. /\ pc = "status" /\ pc # "idle" /\ child' = child
          /\ obj.gen \in Nat /\ obj.gen <= cr.gen
        BY <1>1, <1>4, WorkingFacts DEF PatchStatus, childVars
    <2>2. obj.gen = cr.gen /\ cr'.spec = cr.spec
        <3>1. obj.gen <= cr.gen /\ cr'.gen >= cr.gen /\ cr'.gen = obj.gen
            BY ZenonT(30), <1>1, <1>4, <2>1
        <3>2. cr'.gen <= cr.gen /\ cr.gen <= cr'.gen
            BY <1>1, <2>1, <3>1
        <3>3. cr'.gen = cr.gen /\ ~(cr'.gen > cr.gen)
            BY ZenonT(30), <1>1, <3>2, SameGeneration
        <3> QED BY ZenonT(30), <1>1, <3>1, <3>3
    <2>3. PICK i \in DOMAIN Order : Order[i] = c
        BY ReconcilerAssumption DEF Children
    <2>4. child[c] = DesiredDeployment(c, obj.spec, replicas)
        BY <1>1, <2>1, <2>3 DEF PassedAsWanted, Passed
    <2> QED BY ZenonT(30), <1>2, <2>1, <2>2, <2>4
<1> QED BY <1>3, <1>4, ObservedChange

LEMMA ActedOnStep ==
    ASSUME Inv, ChildrenCoherent, ActedInv, Next
    PROVE  ObservedIsActedOn'
<1> SUFFICES ASSUME cr' # NotFound, cr'.status.observedGeneration = cr'.gen, Undisturbed',
                    NEW c \in Tracked \cap Deployments, child'[c] # Absent
             PROVE  Conforms(c, child'[c], cr'.spec)
    BY DEF ObservedIsActedOn
<1>1. CASE /\ cr # NotFound /\ cr.status.observedGeneration = cr.gen /\ Undisturbed
           /\ cr'.spec = cr.spec /\ child'[c] = child[c]
    BY <1>1 DEF ActedInv, ObservedIsActedOn
<1>2. CASE /\ pc \in {"status", "child"} /\ cr'.spec = obj.spec
           /\ child'[c] = DesiredDeployment(c, obj.spec, replicas)
    <2>1. ~AutoscalingOn(obj.spec) => replicas = Nil
        BY <1>2 DEF ActedInv, OverrideOnlyScaled
    <2> QED BY <1>2, <2>1, WantedConforms
<1> QED BY <1>1, <1>2, ObservedWrite DEF ActedInv

LEMMA InitActed == Init => ActedInv
<1> SUFFICES ASSUME Init PROVE ActedInv
    OBVIOUS
<1>1. pc = "idle" /\ crCache = NotFound
    BY DEF Init
<1>2. cr.status.observedGeneration # cr.gen
    <2>1. cr.gen = 1 /\ cr.status = NewStatus
        BY ZenonT(30), NewResource
    <2> QED BY <2>1 DEF NewStatus
<1> QED BY <1>1, <1>2 DEF ActedInv, SetStaysSet, SpecOfGeneration, OverrideOnlyScaled,
        PassedAsWanted, Passed, ObservedIsActedOn

LEMMA ActedStutter == ActedInv /\ UNCHANGED vars => ActedInv'
<1> SUFFICES ASSUME ActedInv, UNCHANGED vars PROVE ActedInv'
    OBVIOUS
<1>0. /\ cr' = cr /\ crCache' = crCache /\ child' = child /\ pc' = pc /\ at' = at /\ obj' = obj
      /\ held' = held /\ replicas' = replicas /\ budget' = budget
    BY DEF vars, crVars, childVars, workVars
<1>1. SetStaysSet' /\ SpecOfGeneration' /\ OverrideOnlyScaled'
    <2>1. SetStaysSet'
        BY <1>0 DEF ActedInv, SetStaysSet
    <2>2. SpecOfGeneration'
        BY <1>0 DEF ActedInv, SpecOfGeneration
    <2>3. OverrideOnlyScaled'
        BY <1>0 DEF ActedInv, OverrideOnlyScaled
    <2> QED BY <2>1, <2>2, <2>3
<1>2. PassedAsWanted' /\ ObservedIsActedOn'
    BY <1>0 DEF ActedInv, PassedAsWanted, Passed, ObservedIsActedOn, Undisturbed
<1> QED BY <1>1, <1>2 DEF ActedInv

LEMMA ActedInvariance ==
    ASSUME NoRemovals
    PROVE  Spec => []ActedInv
<1>1. Inv /\ CompleteInv /\ ActedInv /\ [Next]_vars => ActedInv'
    <2> SUFFICES ASSUME Inv, CompleteInv, ActedInv, [Next]_vars PROVE ActedInv'
        OBVIOUS
    <2>1. CASE Next
        <3>1. SetStaysSet' /\ SpecOfGeneration' /\ OverrideOnlyScaled'
            BY <2>1, SetStaysSetStep, SpecOfGenerationStep, OverrideStep DEF ActedInv
        <3>2. PassedAsWanted' /\ ObservedIsActedOn'
            BY <2>1, PassedAsWantedStep, ActedOnStep DEF ActedInv, CompleteInv
        <3> QED BY <3>1, <3>2 DEF ActedInv
    <2> QED BY <2>1, ActedStutter
<1> QED BY <1>1, InitActed, Invariance, CompleteInvariance, PTL DEF Spec

\* "observedGeneration is the last generation acted on by the controller": when
\* the user removes no field and nobody else touches the Deployments, a status
\* that observes the current generation never stands beside a Deployment of an
\* earlier spec, whatever is stale, conflicts, fails or restarts.
THEOREM ObservedGenerationIsActedOn ==
    ASSUME NoRemovals
    PROVE  Spec => []ObservedIsActedOn
<1>1. ActedInv => ObservedIsActedOn
    BY DEF ActedInv
<1> QED BY <1>1, ActedInvariance, PTL

-----------------------------------------------------------------------------
(* The Scaling condition *)

\* The Scaling condition on the server is kept, or the worker stores its own.
LEMMA ScalingChange ==
    ASSUME Inv, Next, cr' # NotFound
    PROVE  \/ cr'.status.conditions["Scaling"] = cr.status.conditions["Scaling"]
           \/ /\ pc # "idle" /\ cr'.spec = cr.spec /\ cr'.gen = cr.gen
              /\ cr'.status.conditions["Scaling"] = obj.status.conditions["Scaling"]
<1>1. CASE cr'.status = cr.status
    BY <1>1
<1>2. CASE PatchStatus
    <2>1. IsResource(cr) /\ IsResource(obj) /\ pc # "idle"
        BY <1>2, WorkingFacts DEF PatchStatus, Inv, WorkUnderFinalizer
    <2>2. Reconciled.conditions["Scaling"] = obj.status.conditions["Scaling"]
        BY <2>1, ScalingUntouched DEF Reconciled, IsResource, IsStatus
    <2>3. MergePatched(orig.status, Reconciled, cr.status).conditions
            \in {Reconciled.conditions, cr.status.conditions}
        BY <2>1 DEF MergePatched, IsResource, IsStatus
    <2>4. cr' = cr \/ cr' = [cr EXCEPT !.status = MergePatched(orig.status, Reconciled, @)]
        BY <1>2 DEF PatchStatus, StoreCR, crVars
    <2>5. /\ cr'.spec = cr.spec /\ cr'.gen = cr.gen
          /\ cr'.status = cr.status \/ cr'.status = MergePatched(orig.status, Reconciled, cr.status)
        BY <2>1, <2>4 DEF IsResource
    <2> QED BY <2>1, <2>2, <2>3, <2>5
<1>3. CASE requeueDegraded
    <2>1. IsResource(cr) /\ IsResource(obj) /\ pc # "idle"
        BY <1>3, WorkingFacts DEF requeueDegraded, Inv, WorkUnderFinalizer
    <2> DEFINE conditions == WithConditions(obj.status.conditions, "False", "True")
    <2>2. conditions["Scaling"] = obj.status.conditions["Scaling"]
        BY <2>1, ScalingUntouched DEF IsResource, IsStatus
    <2>3. cr' = cr \/ cr' = [cr EXCEPT !.status = [obj.status EXCEPT !.conditions = conditions]]
        BY <1>3 DEF requeueDegraded, StoreCR, crVars
    <2> HIDE DEF conditions
    <2>4. /\ cr'.spec = cr.spec /\ cr'.gen = cr.gen
          /\ cr'.status = cr.status \/ cr'.status.conditions = conditions
        BY <2>1, <2>3 DEF IsResource, IsStatus
    <2> QED BY <2>1, <2>2, <2>4
<1> QED BY <1>1, <1>2, <1>3, StatusStays

\* The Scaling condition of the worker's copy changes only when autoscaling has
\* decided, and then it is about the copy's generation.
LEMMA ScalingOfCopy ==
    ASSUME Inv, OverrideOnlyScaled, Next, pc # "idle", pc' # "idle", ~AddFinalizer
    PROVE  \/ obj'.status.conditions["Scaling"] = obj.status.conditions["Scaling"]
           \/ obj'.status.conditions["Scaling"].gen = obj.gen /\ AutoscalingOn(obj.spec)
<1>0. IsResource(obj) /\ IsStatus(obj.status) /\ IsConditions(obj.status.conditions)
    BY WorkingFacts DEF IsResource, IsStatus
<1>1. CASE obj' = obj
    BY <1>1
<1>2. CASE ReconcileChild
    <2>1. obj' \in {obj, WithShards(obj)}
        BY <1>2 DEF ReconcileChild
    <2>2. WithShards(obj).status.conditions = obj.status.conditions
        BY <1>0 DEF WithShards, IsResource, IsStatus
    <2> QED BY <2>1, <2>2
<1>3. CASE ReadSignals
    <2>1. AutoscalingOn(obj.spec)
        BY <1>3 DEF ReadSignals, OverrideOnlyScaled
    <2>2. \/ obj' = obj
          \/ \E scaling : obj' = [obj EXCEPT !.status.conditions =
                                    SetStatusCondition(@, "Scaling", scaling, obj.gen, now)]
        BY ZenonT(30), <1>3 DEF ReadSignals
    <2>3. ASSUME NEW scaling
          PROVE  SetStatusCondition(obj.status.conditions, "Scaling", scaling, obj.gen, now)["Scaling"].gen
                    = obj.gen
        BY <1>0 DEF SetStatusCondition, IsConditions
    <2>4. ASSUME NEW cs, obj' = [obj EXCEPT !.status.conditions = cs]
          PROVE  obj'.status.conditions = cs
        BY <1>0, <2>4 DEF IsResource, IsStatus
    <2> QED BY <2>1, <2>2, <2>3, <2>4
<1>4. CASE RemoveFinalizer \/ PatchStatus \/ requeueDegraded \/ BeginReconcile
    BY ZenonT(30), <1>4 DEF RemoveFinalizer, PatchStatus, requeueDegraded, BeginReconcile, ReturnErr,
       ReturnAfter, Finish
<1>5. CASE CacheSync \/ PodSync \/ TimerFires \/ \E d \in Tracked : ChildSync(d)
    BY <1>1, <1>5 DEF CacheSync, PodSync, TimerFires, ChildSync, workVars
<1>6. CASE Environment
    <2>1. UNCHANGED workVars \/ (UNCHANGED <<pc, obj, replicas>> /\ held' = FALSE)
        BY <1>6, ZenonT(30) DEF Environment, UserEdit, UserDelete, ChildDrift, RolloutStatus,
           GarbageCollect, SignalWritten, PodChange, Restart, Tick, Finish
    <2> QED BY <1>1, <2>1 DEF workVars
<1> QED BY ZenonT(30), <1>2, <1>3, <1>4, <1>5, <1>6 DEF Next, Work

\* A generation below another one that is below a third is the third only if all
\* three are the same.
LEMMA BetweenGenerations ==
    ASSUME NEW c \in Nat, NEW g \in Nat, NEW h \in Nat, c <= g, g <= h
    PROVE  c <= h /\ (c = h => g = h /\ c = g)
OBVIOUS

LEMMA ScalingStep ==
    ASSUME Inv, SetStaysSet, SpecOfGeneration, OverrideOnlyScaled, ScalingInv, Next
    PROVE  ScalingInv'
<1>1. ASSUME cr' # NotFound PROVE ScalingTrue(cr')
    <2>1. /\ cr # NotFound /\ IsResource(cr) /\ ScalingTrue(cr)
          /\ cr.gen \in Nat /\ cr'.gen \in Nat /\ cr'.gen >= cr.gen
          /\ cr'.spec # cr.spec => cr'.gen > cr.gen
        BY <1>1, SpecStep DEF ScalingInv, IsResource
    <2>2. cr.status.conditions["Scaling"].gen \in Nat
        BY <2>1 DEF IsResource, IsStatus, IsConditions
    <2>3. CASE cr'.status.conditions["Scaling"] = cr.status.conditions["Scaling"]
        <3> DEFINE c == cr.status.conditions["Scaling"].gen
        <3>1. c \in Nat /\ c <= cr.gen /\ (c = cr.gen => AutoscalingOn(cr.spec))
            BY ZenonT(30), <2>1, <2>2 DEF ScalingTrue
        <3>2. cr.gen <= cr'.gen /\ (cr.gen = cr'.gen => cr'.spec = cr.spec)
            BY <2>1
        <3>3. c <= cr'.gen /\ (c = cr'.gen => cr.gen = cr'.gen /\ c = cr.gen)
            BY ZenonT(30), <2>1, <3>1, <3>2, BetweenGenerations
        <3> QED BY ZenonT(30), <2>3, <3>1, <3>2, <3>3 DEF ScalingTrue
    <2>4. CASE /\ pc # "idle" /\ cr'.spec = cr.spec /\ cr'.gen = cr.gen
               /\ cr'.status.conditions["Scaling"] = obj.status.conditions["Scaling"]
        <3>1. /\ ScalingTrue(obj) /\ obj.gen \in Nat /\ obj.gen <= cr.gen
              /\ obj.status.conditions["Scaling"].gen \in Nat
            BY ZenonT(30), <2>1, <2>4, WorkingFacts DEF ScalingInv, IsResource, IsStatus, IsConditions
        <3>2. obj.gen = cr.gen => obj.spec = cr.spec
            BY <2>1, <2>4 DEF SpecOfGeneration
        <3> DEFINE c == obj.status.conditions["Scaling"].gen
        <3>3. c <= obj.gen /\ (c = obj.gen => AutoscalingOn(obj.spec))
            BY ZenonT(30), <3>1 DEF ScalingTrue
        <3>4. c <= cr.gen /\ (c = cr.gen => obj.gen = cr.gen /\ c = obj.gen)
            BY ZenonT(30), <2>1, <3>1, <3>3, BetweenGenerations
        <3> QED BY ZenonT(30), <2>4, <3>2, <3>3, <3>4 DEF ScalingTrue
    <2> QED BY ZenonT(30), <1>1, <2>3, <2>4, ScalingChange
<1>2. ASSUME pc' # "idle" PROVE ScalingTrue(obj')
    <2>1. CASE /\ crCache # NotFound /\ cr # NotFound
               /\ cr' = DefaultsPatched /\ obj' = DefaultsDecoded
        <3>1. /\ cr' # NotFound /\ obj'.spec = cr'.spec
              /\ obj'.gen = cr'.gen /\ obj'.status = cr'.status
            BY <2>1, DecodedIsPatched, DefaultsFacts, ResourceExists DEF Inv
        <3> QED BY <1>1, <3>1 DEF ScalingTrue
    <2>2. CASE AddFinalizer /\ obj' = cr'
        <3>1. IsResource(obj')
            <4>1. Inv'
                BY NextInv
            <4>2. WorkerTyped'
                BY <4>1 DEF Inv, TypeOK
            <4> QED BY <1>2, <4>2 DEF WorkerTyped
        <3> QED BY <1>1, <2>2, <3>1, ResourceExists
    <2>3. CASE /\ pc # "idle" /\ ~AddFinalizer
               /\ obj'.spec = obj.spec /\ obj'.gen = obj.gen
        <3>1. ScalingTrue(obj) /\ obj.gen \in Nat
            BY <2>3, WorkingFacts DEF ScalingInv
        <3>2. obj.gen <= obj.gen
            BY <3>1
        <3> QED BY ZenonT(30), <1>2, <2>3, <3>1, <3>2, ScalingOfCopy DEF ScalingTrue
    <2> QED BY <1>2, <2>1, <2>2, <2>3, CopyStep
<1> QED BY <1>1, <1>2 DEF ScalingInv, ScalingTrue

\* When the user removes no field, the Scaling condition is about the current
\* generation only if that one has autoscaling: a switch between the decision and
\* the status patch leaves a condition that says it is of an earlier one.
THEOREM ScalingTellsItsGeneration ==
    ASSUME NoRemovals
    PROVE  Spec => []ScalingOfGeneration
<1>1. Init => ScalingInv
    <2> SUFFICES ASSUME Init PROVE ScalingInv
        OBVIOUS
    <2>1. pc = "idle" /\ cr.gen = 1 /\ cr.status.conditions["Scaling"].gen = 0
        <3>1. pc = "idle" /\ cr.gen = 1 /\ cr.status = NewStatus
            BY ZenonT(30), NewResource DEF Init
        <3>2. NewStatus.conditions["Scaling"].gen = 0
            BY DEF NewStatus, NoCondition
        <3> QED BY ZenonT(30), <3>1, <3>2
    <2> QED BY <2>1 DEF ScalingInv, ScalingTrue
<1>2. Inv /\ ActedInv /\ ScalingInv /\ [Next]_vars => ScalingInv'
    <2> SUFFICES ASSUME Inv, ActedInv, ScalingInv, [Next]_vars PROVE ScalingInv'
        OBVIOUS
    <2>1. CASE Next
        BY <2>1, ScalingStep DEF ActedInv
    <2>2. CASE UNCHANGED vars
        BY <2>2 DEF vars, crVars, workVars, ScalingInv, ScalingTrue
    <2> QED BY <2>1, <2>2
<1>3. ScalingInv => ScalingOfGeneration
    BY DEF ScalingInv, ScalingTrue, ScalingOfGeneration
<1> QED BY <1>1, <1>2, <1>3, Invariance, ActedInvariance, PTL DEF Spec

-----------------------------------------------------------------------------
(* Ready, Degraded and the observed generation *)

\* A consistent status stays consistent when the generation grows.
LEMMA ConsistentKept ==
    ASSUME NEW r, NEW q, IsResource(r), IsResource(q), Consistent(r),
           q.status = r.status, r.gen <= q.gen
    PROVE  Consistent(q)
<1> DEFINE g == r.status.conditions["Ready"].gen
<1>1. g \in Nat /\ r.gen \in Nat /\ q.gen \in Nat
    BY DEF IsResource, IsStatus, IsConditions
<1>2. g <= r.gen
    BY ZenonT(30) DEF Consistent
<1>3. g <= q.gen
    BY ZenonT(30), <1>1, <1>2, BetweenGenerations
<1> QED BY ZenonT(30), <1>3 DEF Consistent

\* The patch at the end of a reconciliation that went through: either it carries
\* the conditions, and the observed generation is the worker's; or it carries
\* neither of the two.
LEMMA PatchConsistent ==
    ASSUME Inv, StatusInv, pc = "status"
    PROVE  LET st == MergePatched(orig.status, Reconciled, cr.status)
           IN  \/ st.conditions = cr.status.conditions
                    /\ st.observedGeneration = cr.status.observedGeneration
               \/ st.conditions = Reconciled.conditions /\ st.observedGeneration = obj.gen
<1>1. /\ IsResource(cr) /\ IsResource(obj) /\ IsResource(orig) /\ cr # NotFound
      /\ obj.gen \in Nat /\ cr.status.observedGeneration \in Nat
      /\ cr.status.observedGeneration <= obj.gen
    BY WorkingFacts
<1>2. /\ Consistent(orig) /\ orig.status.observedGeneration \in Nat
      /\ orig.status.observedGeneration <= cr.status.observedGeneration
    BY <1>1 DEF StatusInv, EarlierVersion, IsResource, IsStatus
<1> DEFINE st == MergePatched(orig.status, Reconciled, cr.status)
<1>3. /\ st.conditions = IF Reconciled.conditions # orig.status.conditions
                         THEN Reconciled.conditions ELSE cr.status.conditions
      /\ st.observedGeneration = IF Reconciled.observedGeneration # orig.status.observedGeneration
                                 THEN Reconciled.observedGeneration
                                 ELSE cr.status.observedGeneration
    BY <1>1 DEF MergePatched, IsResource, IsStatus
<1>4. Reconciled.observedGeneration = obj.gen
    BY <1>1 DEF Reconciled, IsResource, IsStatus
<1>5. Reconciled.conditions["Ready"].status = "True" /\ Reconciled.conditions["Ready"].gen = obj.gen
    BY ZenonT(30), <1>1, ReconciledConditions DEF Reporting
<1> HIDE DEF st
<1>6. CASE Reconciled.conditions = orig.status.conditions
    <2>1. orig.status.observedGeneration = obj.gen
        BY ZenonT(30), <1>2, <1>5, <1>6 DEF Consistent
    <2> QED BY ZenonT(30), <1>3, <1>4, <1>6, <2>1 DEF st
<1>7. CASE Reconciled.conditions # orig.status.conditions
    <2>1. CASE obj.gen # orig.status.observedGeneration
        BY ZenonT(30), <1>3, <1>4, <1>7, <2>1 DEF st
    <2>2. CASE obj.gen = orig.status.observedGeneration
        <3>1. cr.status.observedGeneration = obj.gen
            BY ZenonT(30), <1>1, <1>2, <2>2, SameGeneration
        <3> QED BY ZenonT(30), <1>3, <1>4, <1>7, <2>2, <3>1 DEF st
    <2> QED BY <2>1, <2>2
<1> QED BY <1>6, <1>7

\* Both ends of a reconciliation leave a consistent status.
LEMMA ConsistentStep ==
    ASSUME Inv, StatusInv, Next, cr' # NotFound
    PROVE  Consistent(cr')
<1>0. /\ cr # NotFound /\ IsResource(cr) /\ Consistent(cr) /\ cr'.gen \in Nat /\ cr'.gen >= cr.gen
      /\ cr.gen \in Nat
    BY SpecStep DEF StatusInv, StatusConsistent, IsResource
<1>1. IsResource(cr')
    BY NextInv DEF Inv, TypeOK, ResourceTyped
<1>2. CASE cr'.status = cr.status
    <2>1. cr.gen <= cr'.gen
        BY <1>0
    <2> QED BY ZenonT(30), <1>0, <1>1, <1>2, <2>1, ConsistentKept
<1>3. CASE PatchStatus /\ cr'.status # cr.status
    <2>1. pc = "status" /\ IsResource(obj) /\ obj.gen \in Nat /\ obj.gen <= cr.gen
        BY <1>0, <1>3, WorkingFacts DEF PatchStatus
    <2> DEFINE st == MergePatched(orig.status, Reconciled, cr.status)
    <2>2. cr' = [cr EXCEPT !.status = st]
        BY <1>3 DEF PatchStatus, StoreCR, crVars
    <2>3. \/ st.conditions = cr.status.conditions
                /\ st.observedGeneration = cr.status.observedGeneration
          \/ st.conditions = Reconciled.conditions /\ st.observedGeneration = obj.gen
        BY <2>1, PatchConsistent
    <2> HIDE DEF st
    <2>4. cr'.status = st /\ cr'.gen = cr.gen
        BY <1>0, <2>2 DEF IsResource
    <2>5. CASE /\ st.conditions = cr.status.conditions
               /\ st.observedGeneration = cr.status.observedGeneration
        BY ZenonT(30), <1>0, <2>4, <2>5 DEF Consistent
    <2>6. CASE st.conditions = Reconciled.conditions /\ st.observedGeneration = obj.gen
        <3>1. /\ st.conditions["Ready"].status = "True" /\ st.conditions["Ready"].gen = obj.gen
              /\ st.conditions["Degraded"].status = "False" /\ st.conditions["Degraded"].gen = obj.gen
            BY ZenonT(30), <2>1, <2>6, ReconciledConditions DEF Reporting
        <3>2. obj.gen <= obj.gen
            BY <2>1
        <3> QED BY ZenonT(30), <2>1, <2>4, <2>6, <3>1, <3>2 DEF Consistent
    <2> QED BY ZenonT(30), <2>3, <2>5, <2>6
<1>4. CASE requeueDegraded /\ cr'.status # cr.status
    <2>1. /\ pc = "degraded" /\ IsResource(obj) /\ obj.gen \in Nat /\ obj.gen <= cr.gen
          /\ cr.status.observedGeneration <= obj.gen
          /\ obj.status.observedGeneration = cr.status.observedGeneration
        BY <1>0, <1>4, WorkingFacts DEF requeueDegraded
    <2> DEFINE cs == WithConditions(obj.status.conditions, "False", "True")
    <2>2. cr' = [cr EXCEPT !.status = [obj.status EXCEPT !.conditions = cs]]
        BY <1>4 DEF requeueDegraded, StoreCR, crVars
    <2>3. /\ cs["Ready"].status = "False" /\ cs["Ready"].gen = obj.gen
          /\ cs["Degraded"].status = "True" /\ cs["Degraded"].gen = obj.gen
        <3>1. IsConditions(obj.status.conditions)
            BY <2>1 DEF IsResource, IsStatus
        <3>2. Reporting(cs, "False", "True")
            BY ZenonT(30), <3>1, ConditionsSet
        <3> HIDE DEF cs
        <3> QED BY ZenonT(30), <3>2 DEF Reporting
    <2> HIDE DEF cs
    <2>4. /\ cr'.status.conditions = cs /\ cr'.gen = cr.gen
          /\ cr'.status.observedGeneration = obj.status.observedGeneration
        BY <1>0, <2>1, <2>2 DEF IsResource, IsStatus
    <2>5. "False" # "True"
        OBVIOUS
    <2> QED BY ZenonT(30), <2>1, <2>3, <2>4, <2>5 DEF Consistent
<1> QED BY ZenonT(30), <1>2, <1>3, <1>4, StatusStays

\* What was an earlier version remains one: the observed generation only grows.
LEMMA EarlierStep ==
    ASSUME Inv, Next, NEW r, IsResource(r), EarlierVersion(r), cr' # NotFound
    PROVE  r.status.observedGeneration <= cr'.status.observedGeneration
<1>1. cr # NotFound /\ cr.status.observedGeneration <= cr'.status.observedGeneration
    BY StatusStays, ObservedStep
<1>2. /\ r.status.observedGeneration \in Nat /\ cr.status.observedGeneration \in Nat
      /\ cr'.status.observedGeneration \in Nat
    BY <1>1, NextInv DEF Inv, TypeOK, ResourceTyped, IsResource, IsStatus
<1>3. r.status.observedGeneration <= cr.status.observedGeneration
    BY <1>1 DEF EarlierVersion
<1> QED BY <1>1, <1>2, <1>3

LEMMA StatusInvStep ==
    ASSUME Inv, StatusInv, Next
    PROVE  StatusInv'
<1>1. cr' # NotFound => Consistent(cr')
    BY ConsistentStep
<1>2. crCache # NotFound => IsResource(crCache) /\ EarlierVersion(crCache)
    BY DEF Inv, TypeOK, ResourceTyped, StatusInv
<1>3. pc # "idle" => IsResource(orig) /\ EarlierVersion(orig)
    BY WorkingFacts DEF StatusInv
<1>4. ASSUME crCache' # NotFound
      PROVE  /\ Consistent(crCache')
             /\ cr' # NotFound =>
                    crCache'.status.observedGeneration <= cr'.status.observedGeneration
    <2>1. CASE crCache' = crCache
        BY ZenonT(30), <1>2, <1>4, <2>1, EarlierStep DEF EarlierVersion
    <2>2. CASE crCache' = cr /\ cr' = cr
        <3>1. cr'.status.observedGeneration \in Nat
            BY <1>4, <2>2, NextInv DEF Inv, TypeOK, ResourceTyped, IsResource, IsStatus
        <3>2. cr'.status.observedGeneration <= cr'.status.observedGeneration
            BY <3>1
        <3> QED BY ZenonT(30), <1>1, <1>4, <2>2, <3>2
    <2> QED BY ZenonT(30), <2>1, <2>2, CopiesStep
<1>5. ASSUME pc' # "idle"
      PROVE  /\ Consistent(orig')
             /\ cr' # NotFound =>
                    orig'.status.observedGeneration <= cr'.status.observedGeneration
    <2>1. CASE pc # "idle" /\ orig' = orig
        BY ZenonT(30), <1>3, <2>1, EarlierStep DEF EarlierVersion
    <2>2. CASE crCache # NotFound /\ orig' = crCache /\ crCache' = crCache
        BY ZenonT(30), <1>4, <2>2
    <2> QED BY ZenonT(30), <1>5, <2>1, <2>2, CopiesStep
<1> QED BY <1>1, <1>4, <1>5 DEF StatusInv, StatusConsistent, EarlierVersion

\* Ready, Degraded and observedGeneration always are of one reconciliation, for
\* every spec and budget, although the patch that writes them is a difference to
\* a copy that may be stale and need not carry a version.
THEOREM StatusAlwaysConsistent == Spec => []StatusConsistent
<1>1. Init => StatusInv
    <2> SUFFICES ASSUME Init PROVE StatusInv
        OBVIOUS
    <2>1. pc = "idle" /\ crCache = NotFound /\ cr.gen = 1 /\ cr.status = NewStatus
        BY ZenonT(30), NewResource DEF Init
    <2>2. /\ cr.status.observedGeneration = 0
          /\ cr.status.conditions["Ready"] = NoCondition
          /\ cr.status.conditions["Degraded"] = NoCondition
        <3> DEFINE cs == [c \in {"Ready", "Degraded", "Scaling"} |-> NoCondition]
        <3>1. cs["Ready"] = NoCondition /\ cs["Degraded"] = NoCondition
            OBVIOUS
        <3> HIDE DEF cs
        <3>2. NewStatus.observedGeneration = 0 /\ NewStatus.conditions = cs
            BY DEF NewStatus, cs
        <3> QED BY ZenonT(30), <2>1, <3>1, <3>2
    <2>3. NoCondition.status = "Unset" /\ NoCondition.gen = 0
        BY DEF NoCondition
    <2>4. 0 <= 0 /\ 0 <= 1 /\ "Unset" # "True"
        OBVIOUS
    <2>5. Consistent(cr)
        BY ZenonT(30), <2>1, <2>2, <2>3, <2>4 DEF Consistent
    <2> QED BY ZenonT(30), <2>1, <2>5 DEF StatusInv, StatusConsistent
<1>2. Inv /\ StatusInv /\ [Next]_vars => StatusInv'
    <2> SUFFICES ASSUME Inv, StatusInv, [Next]_vars PROVE StatusInv'
        OBVIOUS
    <2>1. CASE UNCHANGED vars
        <3>1. cr' = cr /\ crCache' = crCache /\ pc' = pc /\ orig' = orig
            BY <2>1 DEF vars, crVars, workVars
        <3> QED BY <3>1 DEF StatusInv, StatusConsistent, EarlierVersion
    <2> QED BY <2>1, StatusInvStep
<1>3. StatusInv => StatusConsistent
    BY DEF StatusInv
<1> QED BY <1>1, <1>2, <1>3, Invariance, PTL DEF Spec

-----------------------------------------------------------------------------
(* What becomes of the fields a user has set *)

\* The patch of the defaults changes a set field only to its default, and only if
\* the cache does not have the field.
LEMMA PatchedField ==
    ASSUME Inv, cr # NotFound, crCache # NotFound, NEW f \in Fields
    PROVE  \/ DefaultsPatched.spec[f] = cr.spec[f]
           \/ /\ crCache.spec[f] = Nil /\ f \in DOMAIN Defaults
              /\ DefaultsPatched.spec[f] = Defaults[f]
<1>1. IsResource(cr) /\ IsResource(crCache) /\ IsSpec(cr.spec) /\ IsSpec(crCache.spec)
    BY DEF Inv, TypeOK, ResourceTyped, IsResource
<1> DEFINE filled == WithDefaults(crCache.spec)
<1>2. DefaultsPatched.spec[f] = IF filled[f] # crCache.spec[f] THEN filled[f] ELSE cr.spec[f]
    BY <1>1 DEF DefaultsPatched, WithSpec, MergePatched, IsResource, IsSpec
<1>3. filled[f] # crCache.spec[f] =>
            crCache.spec[f] = Nil /\ f \in DOMAIN Defaults /\ filled[f] = Defaults[f]
    BY <1>1 DEF WithDefaults, Deref, IsSpec
<1> QED BY ZenonT(30), <1>2, <1>3

\* The answer to that patch leaves the worker with every field the server has.
LEMMA DecodedField ==
    ASSUME Inv, cr # NotFound, crCache # NotFound, NEW f \in Fields, DefaultsPatched.spec[f] # Nil
    PROVE  DefaultsDecoded.spec[f] = DefaultsPatched.spec[f]
<1>1. IsResource(DefaultsPatched) /\ IsSpec(DefaultsPatched.spec)
    BY DefaultsFacts DEF Inv, IsResource
<1>2. DefaultsDecoded.spec = DecodeInto(WithDefaults(crCache.spec), DefaultsPatched.spec)
    BY <1>1 DEF DefaultsDecoded, IsResource
<1> QED BY <1>1, <1>2 DEF DecodeInto, IsSpec

LEMMA HeldHasFieldsStep ==
    ASSUME Inv, HeldHasFields, Next
    PROVE  HeldHasFields'
<1> SUFFICES ASSUME held', NEW f \in Fields, cr'.spec[f] # Nil
             PROVE  obj'.spec[f] = cr'.spec[f]
    BY DEF HeldHasFields
<1>1. pc' # "idle" /\ cr' # NotFound
    BY NextInv DEF Inv, WorkUnderFinalizer
<1>2. CASE /\ crCache # NotFound /\ cr # NotFound
           /\ cr' = DefaultsPatched /\ obj' = DefaultsDecoded
    BY <1>2, DecodedField
<1>3. CASE obj' = cr'
    BY <1>3
<1>4. CASE ~BeginReconcile /\ ~AddFinalizer /\ obj'.spec = obj.spec /\ held
    <2>1. cr'.spec = cr.spec \/ \E g \in Fields : \E v \in FieldValues[g] : UserEdit(g, v)
        BY ZenonT(30), <1>1, <1>4, SpecStep
    <2>2. ~(\E g \in Fields : \E v \in FieldValues[g] : UserEdit(g, v))
        BY DEF UserEdit
    <2> QED BY ZenonT(30), <1>4, <2>1, <2>2 DEF HeldHasFields
<1> QED BY ZenonT(30), <1>1, <1>2, <1>3, <1>4, CopyStep

\* For every spec, cache and edit: of what users have set, the operator changes
\* only fields of which its copy knew nothing, and these to their defaults.
THEOREM EditsLostOnlyWhenUnseen == Spec => EditsLostOnlyToDefaults
<1>1. Init => HeldHasFields
    BY DEF Init, HeldHasFields
<1>2. Inv /\ HeldHasFields /\ [Next]_vars => HeldHasFields'
    <2> SUFFICES ASSUME Inv, HeldHasFields, [Next]_vars PROVE HeldHasFields'
        OBVIOUS
    <2>1. CASE UNCHANGED vars
        <3>1. cr' = cr /\ held' = held /\ obj' = obj
            BY <2>1 DEF vars, crVars, workVars
        <3> QED BY <3>1 DEF HeldHasFields
    <2> QED BY <2>1, HeldHasFieldsStep
<1> DEFINE A == Work /\ cr # NotFound /\ cr' # NotFound =>
                    \A f \in Fields : cr.spec[f] # Nil /\ cr'.spec[f] # cr.spec[f] =>
                        /\ pc = "idle" /\ ~crFresh /\ crCache.spec[f] = Nil
                        /\ f \in DOMAIN Defaults /\ cr'.spec[f] = Defaults[f]
<1>3. Inv /\ HeldHasFields /\ [Next]_vars => [A]_vars
    <2> SUFFICES ASSUME Inv, HeldHasFields, Next, Work, cr # NotFound, cr' # NotFound,
                        NEW f \in Fields, cr.spec[f] # Nil, cr'.spec[f] # cr.spec[f]
                 PROVE  /\ pc = "idle" /\ ~crFresh /\ crCache.spec[f] = Nil
                        /\ f \in DOMAIN Defaults /\ cr'.spec[f] = Defaults[f]
        BY ZenonT(30)
    <2>1. CASE BeginReconcile /\ crCache # NotFound /\ cr'.spec = DefaultsPatched.spec
        <3>1. /\ crCache.spec[f] = Nil /\ f \in DOMAIN Defaults
              /\ cr'.spec[f] = Defaults[f]
            BY ZenonT(30), <2>1, PatchedField
        <3>2. ~crFresh
            BY ZenonT(30), <3>1 DEF Inv, CacheCoherent
        <3> QED BY ZenonT(30), <2>1, <3>1, <3>2 DEF BeginReconcile
    <2>2. CASE AddFinalizer /\ held /\ cr'.spec = obj.spec
        BY ZenonT(30), <2>2 DEF HeldHasFields
    <2>3. ASSUME NEW g \in Fields, NEW v \in FieldValues[g], UserEdit(g, v) PROVE FALSE
        <3>1. /\ budget' = [budget EXCEPT !["edit"] = @ - 1] /\ pc' = pc
              /\ obj' = obj /\ held' = FALSE /\ budget["edit"] > 0 /\ queued' = queued
            BY <2>3 DEF UserEdit, Spend, queueVars
        <3>2. budget \in [Events -> Nat]
            BY DEF Inv, TypeOK, CountersTyped
        <3>3. budget' # budget /\ budget'["fault"] = budget["fault"]
            BY <3>1, <3>2 DEF Events
        <3>4. budget' = budget \/ budget' = [budget EXCEPT !["fault"] = @ - 1]
            BY ZenonT(30) DEF Work, BeginReconcile, PersistDefaults, RemoveFinalizer, AddFinalizer,
               ReconcileChild, ReadSignals, PatchStatus, requeueDegraded, Reply
        <3> QED BY <3>1, <3>2, <3>3, <3>4 DEF Events
    <2> QED BY ZenonT(30), <2>1, <2>2, <2>3, SpecStep
<1> QED BY <1>1, <1>2, <1>3, Invariance, PTL DEF Spec, EditsLostOnlyToDefaults

-----------------------------------------------------------------------------
(* The bounds of the autoscaler *)

\* Clamping an integer puts it inside the bounds.
LEMMA ClampBounds ==
    ASSUME NEW n \in Int, NEW lo \in Int, NEW hi \in Int
    PROVE  /\ Clamp(n, lo, hi) \in Int
           /\ IF lo <= hi THEN Clamp(n, lo, hi) >= lo /\ Clamp(n, lo, hi) <= hi
                          ELSE Clamp(n, lo, hi) = hi
BY DEF Clamp

\* What computeDecodeReplicas decides on is inside the bounds of the spec.
LEMMA DecisionBounded ==
    ASSUME IntegerCounts, NEW s, IsSpec(s), NEW depth
    PROVE  /\ computeDecodeReplicas(s, depth) \in Int
           /\ WithinBounds(computeDecodeReplicas(s, depth), s)
<1> DEFINE lo == MinBound(s)
           hi == MaxBound(s)
           step == DesiredStep(s, depth)
<1>1. /\ s.minReplicas \in Int \cup {Nil} /\ s.maxReplicas \in Int \cup {Nil}
      /\ s.decodeReplicas \in Int \cup {Nil}
    BY DEF IsSpec, IntegerCounts, Fields
<1>2. lo \in Int
    BY <1>1 DEF MinBound, Deref
<1>3. hi \in Int
    <2>1. Deref(s.maxReplicas, 10) \in Int
        BY <1>1 DEF Deref
    <2> QED BY <2>1 DEF MaxBound
<1>4. Deref(s.decodeReplicas, 1) \in Int
    BY <1>1 DEF Deref
<1> HIDE DEF lo, hi
<1>5. CurrentReplicas(s) \in Int
    BY <1>2, <1>3, <1>4, ClampBounds DEF CurrentReplicas, lo, hi
<1>6. step \in Int
    <2>1. Add32(CurrentReplicas(s), 1) \in Int /\ Add32(CurrentReplicas(s), -1) \in Int
        BY <1>5, MaxInt32Assumption DEF Add32, Word, MinInt32
    <2> QED BY ZenonT(30), <1>5, <2>1 DEF DesiredStep
<1>7. computeDecodeReplicas(s, depth) = Clamp(step, lo, hi)
    BY DEF computeDecodeReplicas, lo, hi
<1> HIDE DEF step
<1>8. /\ Clamp(step, lo, hi) \in Int
      /\ IF lo <= hi THEN Clamp(step, lo, hi) >= lo /\ Clamp(step, lo, hi) <= hi
                     ELSE Clamp(step, lo, hi) = hi
    BY ZenonT(30), <1>2, <1>3, <1>6, ClampBounds
<1> QED BY ZenonT(30), <1>7, <1>8 DEF WithinBounds, lo, hi

\* With autoscaling, Reconcile begins with the signals.
LEMMA SignalsFirst ==
    ASSUME NEW s, Proceed(0, s), Active("signals", s)
    PROVE  pc' = "child" /\ Order[at'] = "signals"
<1>1. 1 \in StepsAfter(0, s)
    BY OrderLength DEF StepsAfter, Order
<1>2. pc' = "child" /\ at' \in StepsAfter(0, s) /\ at' <= 1
    BY <1>1 DEF Proceed
<1>3. at' \in DOMAIN Order /\ at' > 0
    BY <1>2 DEF StepsAfter
<1>4. at' = 1
    BY <1>2, <1>3, OrderLength
<1> QED BY <1>2, <1>4 DEF Order

LEMMA DecisionStep ==
    ASSUME IntegerCounts, Inv, OverrideOnlyScaled, DecisionWithinBounds, Next
    PROVE  DecisionWithinBounds'
<1> SUFFICES ASSUME pc' = "status" \/ (pc' = "child" /\ Order[at'] # "signals"),
                    Active("signals", obj'.spec)
             PROVE  replicas' \in Int /\ WithinBounds(replicas', obj'.spec)
    BY DEF DecisionWithinBounds, WithinBounds, MinBound, MaxBound, Active, AutoscalingOn
<1>0. pc' # "idle" /\ pc' \in {"child", "status"} /\ pc' \notin {"readSignals", "degraded"}
    OBVIOUS
<1>1. CASE obj' = DefaultsDecoded /\ Proceed(0, DefaultsDecoded.spec)
    BY ZenonT(30), <1>1, SignalsFirst
<1>2. CASE obj'.spec = obj.spec /\ Proceed(0, obj.spec)
    BY ZenonT(30), <1>2, SignalsFirst
<1>3. CASE /\ pc # "idle" /\ ~BeginReconcile /\ ~AddFinalizer
           /\ obj'.spec = obj.spec /\ (replicas' = replicas \/ ReadSignals)
    <2>1. CASE ReadSignals
        <3>1. /\ replicas' = computeDecodeReplicas(obj.spec, ReadQueueDepth(childCache["signals"]))
              /\ IsSpec(obj.spec)
            <4>1. pc = "readSignals" /\ IsResource(obj)
                BY <2>1, WorkingFacts DEF ReadSignals
            <4>2. replicas' = computeDecodeReplicas(obj.spec, ReadQueueDepth(childCache["signals"]))
                BY ZenonT(30), <1>0, <2>1 DEF ReadSignals
            <4> QED BY <4>1, <4>2 DEF IsResource
        <3> QED BY ZenonT(30), <1>3, <3>1, DecisionBounded
    <2>2. CASE replicas' = replicas /\ (pc = "status" \/ (pc = "child" /\ Order[at] # "signals"))
        BY ZenonT(30), <1>3, <2>2 DEF DecisionWithinBounds
    <2>3. CASE ReconcileChild
        <3>1. pc = "child" /\ ~ReadSignals /\ Order[at] # "signals"
            BY <1>0, <2>3 DEF ReconcileChild, ReadSignals
        <3> QED BY <1>3, <2>2, <3>1
    <2>4. CASE UNCHANGED <<pc, at>> /\ ~ReadSignals
        BY <1>3, <2>2, <2>4
    <2>5. CASE RemoveFinalizer \/ PatchStatus \/ requeueDegraded
        BY <1>0, <2>5 DEF RemoveFinalizer, PatchStatus, requeueDegraded, ReturnErr, ReturnAfter, Finish
    <2>6. CASE CacheSync \/ PodSync \/ TimerFires \/ \E d \in Tracked : ChildSync(d)
        BY <2>1, <2>4, <2>6 DEF CacheSync, PodSync, TimerFires, ChildSync, workVars
    <2>7. CASE Environment
        <3>1. UNCHANGED workVars \/ UNCHANGED <<pc, at>>
            BY <1>0, <2>7, ZenonT(30) DEF Environment, UserEdit, UserDelete, ChildDrift, RolloutStatus,
               GarbageCollect, SignalWritten, PodChange, Restart, Tick, Finish
        <3> QED BY <2>1, <2>4, <3>1 DEF workVars
    <2> QED BY ZenonT(30), <1>3, <2>1, <2>3, <2>5, <2>6, <2>7 DEF Next, Work
<1> QED BY ZenonT(30), <1>0, <1>1, <1>2, <1>3, CopyStep

\* A Deployment made with a decision that is inside the bounds.
LEMMA WantedInBounds ==
    ASSUME IntegerCounts, NEW s, NEW n, n \in Int
    PROVE  DesiredDeployment("decodeDeployment", s, n).replicas = n
<1>1. n # Nil
    BY DEF IntegerCounts
<1> QED BY <1>1 DEF DesiredDeployment, Deref

LEMMA ScaledStep ==
    ASSUME IntegerCounts, Inv, ChildrenCoherent, ActedInv, BoundsInv, Next
    PROVE  ScaledWithinBounds'
<1> DEFINE c == "decodeDeployment"
<1> SUFFICES ASSUME cr' # NotFound, cr'.status.observedGeneration = cr'.gen, Undisturbed',
                    Active("signals", cr'.spec), c \in Tracked, child'[c] # Absent
             PROVE  WithinBounds(child'[c].replicas, cr'.spec)
    BY DEF ScaledWithinBounds, WithinBounds, MinBound, MaxBound, Active, AutoscalingOn
<1>0. c \in Tracked \cap Deployments /\ c # "signals"
    BY DEF Deployments
<1>1. CASE /\ cr # NotFound /\ cr.status.observedGeneration = cr.gen /\ Undisturbed
           /\ cr'.spec = cr.spec /\ child'[c] = child[c]
    BY ZenonT(30), <1>1 DEF BoundsInv, ScaledWithinBounds
<1>2. CASE /\ pc = "status" \/ (pc = "child" /\ Order[at] = c)
           /\ cr'.spec = obj.spec /\ child'[c] = DesiredDeployment(c, obj.spec, replicas)
    <2>1. replicas \in Int /\ WithinBounds(replicas, obj.spec)
        BY ZenonT(30), <1>0, <1>2 DEF BoundsInv, DecisionWithinBounds
    <2>2. child'[c].replicas = replicas
        BY <1>2, <2>1, WantedInBounds
    <2> QED BY ZenonT(30), <1>2, <2>1, <2>2
<1> QED BY ZenonT(30), <1>0, <1>1, <1>2, ObservedWrite DEF ActedInv

\* When the user removes no field, a decode Deployment beside an observed current
\* generation is inside the bounds of the current spec: for all bounds, signals
\* and int32 sizes, whatever is edited, stale, lost or restarted in between.
THEOREM ScaledInsideBounds ==
    ASSUME NoRemovals, IntegerCounts
    PROVE  Spec => []ScaledWithinBounds
<1>1. Init => BoundsInv
    <2> SUFFICES ASSUME Init PROVE BoundsInv
        OBVIOUS
    <2>1. pc = "idle"
        BY DEF Init
    <2>2. cr.status.observedGeneration # cr.gen
        <3>1. cr.gen = 1 /\ cr.status = NewStatus
            BY ZenonT(30), NewResource
        <3> QED BY <3>1 DEF NewStatus
    <2> QED BY <2>1, <2>2 DEF BoundsInv, DecisionWithinBounds, ScaledWithinBounds
<1>2. Inv /\ CompleteInv /\ ActedInv /\ BoundsInv /\ [Next]_vars => BoundsInv'
    <2> SUFFICES ASSUME Inv, CompleteInv, ActedInv, BoundsInv, [Next]_vars PROVE BoundsInv'
        OBVIOUS
    <2>1. CASE Next
        <3>1. DecisionWithinBounds'
            BY ZenonT(30), <2>1, DecisionStep DEF ActedInv, BoundsInv
        <3>2. ScaledWithinBounds'
            BY ZenonT(30), <2>1, ScaledStep DEF CompleteInv
        <3> QED BY <3>1, <3>2 DEF BoundsInv
    <2>2. CASE UNCHANGED vars
        <3>1. /\ cr' = cr /\ child' = child /\ pc' = pc /\ at' = at /\ obj' = obj
              /\ replicas' = replicas /\ budget' = budget
            BY <2>2 DEF vars, crVars, childVars, workVars
        <3> QED BY <3>1 DEF BoundsInv, DecisionWithinBounds, ScaledWithinBounds, Undisturbed,
               WithinBounds, MinBound, MaxBound, Active, AutoscalingOn
    <2> QED BY <2>1, <2>2
<1>3. BoundsInv => ScaledWithinBounds
    BY DEF BoundsInv
<1> QED BY <1>1, <1>2, <1>3, Invariance, CompleteInvariance, ActedInvariance, PTL DEF Spec

-----------------------------------------------------------------------------
(* The operator implements ClusterLifecycle *)

\* The ways the resource on the server can change in a step: its contents, by
\* the worker's patches or the user's edit; the finalizer, by the worker; the
\* deletion, by the user.
ContentsChanged ==
    /\ cr # NotFound /\ cr' # NotFound
    /\ cr'.fin = cr.fin /\ cr'.del = cr.del

FinalizerAdded ==
    /\ pc = "addFinalizer" /\ held /\ pc' # pc
    /\ cr # NotFound /\ cr' # NotFound
    /\ cr'.fin = TRUE /\ cr'.del = cr.del

FinalizerRemoved == pc = "removeFinalizer" /\ held /\ cr # NotFound /\ cr' = NotFound

DeletionAsked ==
    /\ cr # NotFound /\ ~cr.del /\ held' = FALSE
    /\ IF cr.fin THEN cr' # NotFound /\ cr'.fin = TRUE /\ cr'.del = TRUE ELSE cr' = NotFound

\* The defaults patch changes the contents of the resource and nothing else.
LEMMA BeginStep ==
    ASSUME Inv, BeginReconcile
    PROVE  cr' = cr \/ ContentsChanged
<1>1. CASE UNCHANGED crVars
    BY <1>1 DEF crVars
<1>2. ASSUME crCache # NotFound, cr # NotFound, NEW r \in Replies, PersistDefaults(r)
      PROVE  cr' = cr \/ ContentsChanged
    <2>1. /\ IsResource(DefaultsPatched)
          /\ DefaultsPatched.fin = cr.fin /\ DefaultsPatched.del = cr.del
        BY <1>2, DefaultsFacts DEF Inv
    <2>2. cr' = cr \/ cr' = DefaultsPatched
        BY <1>2 DEF PersistDefaults, StoreCR
    <2> QED BY <1>2, <2>1, <2>2, ResourceExists DEF ContentsChanged
<1> QED BY <1>1, <1>2 DEF BeginReconcile

\* Storing a status leaves finalizer and deletion mark alone.
LEMMA StatusStep ==
    ASSUME Inv, PatchStatus \/ requeueDegraded
    PROVE  cr' = cr \/ ContentsChanged
<1>1. IsResource(cr) /\ cr # NotFound
    BY WorkingFacts DEF PatchStatus, requeueDegraded
<1>2. cr' = cr \/ \E st : cr' = [cr EXCEPT !.status = st]
    BY DEF PatchStatus, requeueDegraded, StoreCR, crVars
<1>3. ASSUME NEW st, cr' = [cr EXCEPT !.status = st]
      PROVE  ContentsChanged
    <2>1. cr'.fin = cr.fin /\ cr'.del = cr.del /\ DOMAIN cr' = DOMAIN cr
        BY <1>1, <1>3 DEF IsResource
    <2>2. cr' # NotFound
        <3>1. "fin" \notin DOMAIN NotFound
            BY DEF NotFound
        <3>2. "fin" \in DOMAIN cr'
            BY <1>1, <2>1 DEF IsResource
        <3> QED BY ZenonT(30), <3>1, <3>2
    <2> QED BY <1>1, <2>1, <2>2 DEF ContentsChanged
<1> QED BY <1>2, <1>3

\* Adding the finalizer, by an Update the resource version guards.
LEMMA AddFinalizerStep ==
    ASSUME Inv, AddFinalizer
    PROVE  cr' = cr \/ FinalizerAdded
<1> DEFINE updated == [WithSpec(cr, obj.spec) EXCEPT !.fin = TRUE]
<1>1. CASE UNCHANGED crVars
    BY <1>1 DEF crVars
<1>2. ASSUME held, NEW r \in Replies, StoreCR(IF r = "error" THEN cr ELSE updated)
      PROVE  cr' = cr \/ FinalizerAdded
    <2>1. IsResource(cr) /\ cr # NotFound /\ IsSpec(obj.spec)
        BY <1>2, WorkingFacts DEF AddFinalizer, IsResource
    <2>2. IsResource(WithSpec(cr, obj.spec)) /\ WithSpec(cr, obj.spec).del = cr.del
        BY <2>1, WithSpecTyped
    <2>3. IsResource(updated) /\ updated.fin = TRUE /\ updated.del = cr.del
        BY <2>2 DEF IsResource
    <2>4. updated # NotFound
        BY <2>3, ResourceExists
    <2> HIDE DEF updated
    <2>5. cr' = cr \/ cr' = updated
        BY <1>2 DEF StoreCR
    <2>6. pc = "addFinalizer" /\ pc' # pc
        <3>1. pc' \in {"idle", "child", "status"}
            BY ProceedTyped DEF AddFinalizer, ReturnErr, Finish
        <3> QED BY <3>1 DEF AddFinalizer
    <2> QED BY <1>2, <2>1, <2>3, <2>4, <2>5, <2>6 DEF FinalizerAdded
<1> QED BY <1>1, <1>2 DEF AddFinalizer

\* The user's edit and deletion.
LEMMA UserStep ==
    ASSUME Inv, UserDelete \/ \E f \in Fields : \E v \in FieldValues[f] : UserEdit(f, v)
    PROVE  ContentsChanged \/ DeletionAsked
<1>1. cr # NotFound /\ IsResource(cr)
    BY DEF UserDelete, UserEdit, Inv, TypeOK, ResourceTyped
<1>2. CASE UserDelete
    <2>1. cr' = IF cr.fin THEN [cr EXCEPT !.del = TRUE, !.gen = @ + 1] ELSE NotFound
        BY <1>2 DEF UserDelete, StoreCR
    <2>2. CASE cr.fin
        <3>1. cr'.fin = cr.fin /\ cr'.del = TRUE /\ DOMAIN cr' = DOMAIN cr
            BY ZenonT(30), <1>1, <2>1, <2>2 DEF IsResource
        <3>2. cr' # NotFound
            BY <1>1, <3>1 DEF IsResource, NotFound
        <3> QED BY <1>1, <1>2, <2>2, <3>1, <3>2 DEF DeletionAsked, UserDelete, IsResource
    <2> QED BY <1>1, <1>2, <2>1, <2>2 DEF DeletionAsked, UserDelete
<1>3. ASSUME NEW f \in Fields, NEW v \in FieldValues[f], UserEdit(f, v)
      PROVE  ContentsChanged
    <2>1. IsSpec([cr.spec EXCEPT ![f] = v])
        BY <1>1 DEF IsResource, IsSpec, FieldRange
    <2>2. /\ IsResource(WithSpec(cr, [cr.spec EXCEPT ![f] = v]))
          /\ WithSpec(cr, [cr.spec EXCEPT ![f] = v]).fin = cr.fin
          /\ WithSpec(cr, [cr.spec EXCEPT ![f] = v]).del = cr.del
        BY <1>1, <2>1, WithSpecTyped
    <2>3. cr' = WithSpec(cr, [cr.spec EXCEPT ![f] = v])
        BY ZenonT(30), <1>3 DEF UserEdit, StoreCR
    <2> QED BY <1>1, <2>2, <2>3, ResourceExists DEF ContentsChanged
<1> QED BY <1>2, <1>3

\* Every step changes the resource in one of these ways, or not at all.
LEMMA ResourceStep ==
    ASSUME Inv, Next
    PROVE  cr' = cr \/ ContentsChanged \/ FinalizerAdded \/ FinalizerRemoved \/ DeletionAsked
<1>1. CASE RemoveFinalizer
    <2>1. cr' = cr \/ (held /\ cr' = NotFound)
        BY <1>1 DEF RemoveFinalizer, StoreCR, crVars
    <2>2. held => cr # NotFound
        BY <1>1, WorkingFacts DEF RemoveFinalizer
    <2> QED BY <1>1, <2>1, <2>2 DEF RemoveFinalizer, FinalizerRemoved
<1>2. CASE \/ ReconcileChild \/ ReadSignals \/ CacheSync \/ PodSync \/ TimerFires
           \/ \E c \in Tracked : ChildSync(c)
    BY <1>2 DEF ReconcileChild, ReadSignals, CacheSync, PodSync, TimerFires, ChildSync, crVars
<1>3. CASE \/ \E c \in Tracked : \E new \in {Absent, Spoiled} : ChildDrift(c, new)
           \/ \E c \in Tracked : RolloutStatus(c) \/ GarbageCollect(c)
           \/ \E text \in SignalTexts : SignalWritten(text)
           \/ \E p \in Pods, state \in {"none", "unready", "ready"} : PodChange(p, state)
           \/ Restart
           \/ Tick
    BY <1>3 DEF ChildDrift, RolloutStatus, GarbageCollect, SignalWritten, PodChange, Restart,
       Tick, crVars
<1> QED BY ZenonT(30), <1>1, <1>2, <1>3, BeginStep, StatusStep, AddFinalizerStep, UserStep
        DEF Next, Work, Environment

-----------------------------------------------------------------------------
(* The invariant *)

\* When the worker comes to a finalizer step, the server's resource is as the
\* branch it took says: it has just decoded it.
LEMMA BranchTaken ==
    ASSUME Inv, BeginReconcile, pc' \in {"addFinalizer", "removeFinalizer"}
    PROVE  /\ pc' = "addFinalizer" => ~cr'.del /\ ~cr'.fin
           /\ pc' = "removeFinalizer" => cr'.del
<1>1. PICK r \in Replies : crCache # NotFound /\ cr # NotFound /\ PersistDefaults(r)
    BY DEF BeginReconcile, Finish, ReturnErr
<1>2. r = "ok"
    BY <1>1 DEF PersistDefaults, ReturnErr, Finish
<1>3. cr' = DefaultsPatched
    BY <1>1, <1>2 DEF PersistDefaults, StoreCR
<1>4. /\ pc' = "removeFinalizer" => DefaultsPatched.del
      /\ pc' = "addFinalizer" => ~DefaultsPatched.del /\ ~DefaultsPatched.fin
    <2>1. CASE DefaultsPatched.del
        BY <1>1, <1>2, <2>1 DEF PersistDefaults
    <2>2. CASE ~DefaultsPatched.del /\ ~DefaultsPatched.fin
        BY <1>1, <1>2, <2>2 DEF PersistDefaults
    <2>3. CASE ~DefaultsPatched.del /\ DefaultsPatched.fin
        <3>1. Proceed(0, DefaultsDecoded.spec)
            BY ZenonT(30), <1>1, <1>2, <2>3 DEF PersistDefaults
        <3> QED BY <3>1, ProceedTyped
    <2> QED BY <2>1, <2>2, <2>3
<1> QED BY <1>3, <1>4

\* The other steps of the worker do not lead to a finalizer step, and the steps
\* of the others leave the worker where it is and never give it the latest version.
LEMMA FinalizerSteps ==
    ASSUME Inv, Next, pc' \in {"addFinalizer", "removeFinalizer"}, ~BeginReconcile
    PROVE  pc' = pc /\ (held' => held /\ cr' = cr)
<1>1. CASE RemoveFinalizer \/ AddFinalizer \/ PatchStatus \/ requeueDegraded
    BY <1>1, ProceedTyped
    DEF RemoveFinalizer, AddFinalizer, PatchStatus, requeueDegraded, ReturnErr, ReturnAfter, Finish
<1>2. CASE ReconcileChild \/ ReadSignals
    BY <1>2, ProceedTyped DEF ReconcileChild, ReadSignals
<1>3. CASE \/ CacheSync \/ PodSync \/ TimerFires \/ \E c \in Tracked : ChildSync(c)
           \/ \E c \in Tracked : \E new \in {Absent, Spoiled} : ChildDrift(c, new)
           \/ \E c \in Tracked : RolloutStatus(c) \/ GarbageCollect(c)
           \/ \E text \in SignalTexts : SignalWritten(text)
           \/ \E p \in Pods, state \in {"none", "unready", "ready"} : PodChange(p, state)
           \/ Tick
    <2>1. cr' = cr /\ UNCHANGED workVars
        BY <1>3 DEF CacheSync, PodSync, TimerFires, ChildSync, ChildDrift, RolloutStatus,
           GarbageCollect, SignalWritten, PodChange, Tick, crVars
    <2> QED BY <2>1 DEF workVars
<1>4. CASE UserDelete \/ \E f \in Fields : \E v \in FieldValues[f] : UserEdit(f, v)
    BY <1>4 DEF UserDelete, UserEdit
<1>5. CASE Restart
    BY <1>5 DEF Restart, Finish
<1> QED BY ZenonT(30), <1>1, <1>2, <1>3, <1>4, <1>5 DEF Next, Work, Environment

\* LifeInv is preserved by every step.
LEMMA LifeInvStep ==
    ASSUME Inv, LifeInv, Next
    PROVE  LifeInv'
<1>1. DeletedUnderFinalizer'
    BY ResourceStep
    DEF LifeInv, DeletedUnderFinalizer, ContentsChanged, FinalizerAdded, FinalizerRemoved,
        DeletionAsked
<1>2. BranchStillRight'
    <2>1. CASE pc' \notin {"addFinalizer", "removeFinalizer"}
        BY <2>1 DEF BranchStillRight
    <2>2. CASE BeginReconcile /\ pc' \in {"addFinalizer", "removeFinalizer"}
        BY <2>2, BranchTaken DEF BranchStillRight
    <2>3. CASE ~BeginReconcile /\ pc' \in {"addFinalizer", "removeFinalizer"}
        BY <2>3, FinalizerSteps DEF LifeInv, BranchStillRight
    <2> QED BY <2>1, <2>2, <2>3
<1> QED BY <1>1, <1>2 DEF LifeInv

LEMMA LifeInvariance == Spec => []LifeInv
<1>1. Init => LifeInv
    BY DEF Init, LifeInv, DeletedUnderFinalizer, BranchStillRight
<1>2. Inv /\ LifeInv /\ [Next]_vars => LifeInv'
    <2>1. ASSUME LifeInv, UNCHANGED vars PROVE LifeInv'
        BY ZenonT(30), <2>1 DEF LifeInv, DeletedUnderFinalizer, BranchStillRight, vars, crVars, workVars
    <2> QED BY <2>1, LifeInvStep
<1> QED BY <1>1, <1>2, Invariance, PTL DEF Spec

-----------------------------------------------------------------------------
(* The refinement *)

\* A step changes one child at most and not together with the resource, and it
\* creates one only under the finalizer.
LEMMA ChildStep ==
    ASSUME Inv, Next, child' # child
    PROVE  /\ cr' = cr
           /\ \E c \in Tracked : \E o :
                /\ child' = [child EXCEPT ![c] = o]
                /\ child[c] = Absent /\ o # Absent => cr # NotFound /\ cr.fin
<1>1. CASE ReconcileChild
    <2>1. pc = "child" /\ Order[at] \in Tracked /\ cr # NotFound /\ cr.fin
        BY <1>1, WorkingFacts DEF ReconcileChild, WorkerTyped
    <2>2. \E o : child' = [child EXCEPT ![Order[at]] = o]
        BY <1>1 DEF ReconcileChild, StoreChild, childVars
    <2>3. cr' = cr
        BY <1>1 DEF ReconcileChild, crVars
    <2> QED BY ZenonT(30), <2>1, <2>2, <2>3
<1>2. ASSUME NEW c \in Tracked, NEW new, ChildDrift(c, new) \/ GarbageCollect(c)
      PROVE  /\ cr' = cr /\ child[c] # Absent
             /\ \E o : child' = [child EXCEPT ![c] = o]
    BY <1>2 DEF ChildDrift, GarbageCollect, StoreChild, crVars
<1>3. ASSUME NEW text \in SignalTexts, SignalWritten(text)
      PROVE  /\ cr' = cr /\ "signals" \in Tracked /\ child["signals"] # Absent
             /\ \E o : child' = [child EXCEPT !["signals"] = o]
    BY <1>3 DEF SignalWritten, StoreChild, crVars
<1>4. \/ ReconcileChild
      \/ \E c \in Tracked : \E new : ChildDrift(c, new) \/ GarbageCollect(c)
      \/ \E text \in SignalTexts : SignalWritten(text)
    <2>1. CASE Work
        BY <2>1 DEF Work, BeginReconcile, RemoveFinalizer, AddFinalizer, ReadSignals,
           PatchStatus, requeueDegraded, childVars
    <2>2. CASE CacheSync \/ PodSync \/ TimerFires \/ \E d \in Tracked : ChildSync(d)
        BY <2>2 DEF CacheSync, PodSync, TimerFires, ChildSync, childVars
    <2>3. CASE Environment
        BY <2>3 DEF Environment, UserEdit, UserDelete, RolloutStatus, PodChange, Restart, Tick,
           childVars
    <2> QED BY <2>1, <2>2, <2>3 DEF Next
<1> QED BY <1>1, <1>2, <1>3, <1>4

\* A step that changes a child is a step of the abstract specification.
LEMMA ChildStepRefines ==
    ASSUME Inv, LifeInv, Next, child' # child
    PROVE  [Life!Next]_(Life!vars)
<1>0. PICK c \in Tracked : \E o :
        /\ child' = [child EXCEPT ![c] = o]
        /\ child[c] = Absent /\ o # Absent => cr # NotFound /\ cr.fin
    BY ChildStep
<1>1. PICK o :
        /\ child' = [child EXCEPT ![c] = o]
        /\ child[c] = Absent /\ o # Absent => cr # NotFound /\ cr.fin
    BY <1>0
<1>2. Phase' = Phase
    BY ChildStep DEF Phase
<1>3. DOMAIN child = Tracked
    BY DEF Inv, TypeOK, ChildrenTyped
<1>4. CASE child[c] = Absent /\ o # Absent
    <2>1. Existing' = Existing \cup {c} /\ c \notin Existing
        BY <1>1, <1>3, <1>4 DEF Existing
    <2>2. Phase \in {"managed", "deleting"}
        BY <1>1, <1>4 DEF Phase
    <2>3. Life!Provide(c)
        BY <1>2, <2>1, <2>2 DEF Life!Provide
    <2> QED BY <2>3 DEF Life!Next
<1>5. CASE child[c] # Absent /\ o = Absent
    <2>1. Existing' = Existing \ {c} /\ c \in Existing
        BY <1>1, <1>3, <1>5 DEF Existing
    <2>2. Life!Lose(c)
        BY <1>2, <2>1 DEF Life!Lose
    <2> QED BY <2>2 DEF Life!Next
<1>6. CASE (child[c] = Absent) = (o = Absent)
    <2>1. Existing' = Existing
        BY <1>1, <1>3, <1>6 DEF Existing
    <2> QED BY <1>2, <2>1 DEF Life!vars
<1> QED BY <1>4, <1>5, <1>6

\* A step that changes no child is one too.
LEMMA PhaseStepRefines ==
    ASSUME Inv, LifeInv, Next, child' = child
    PROVE  [Life!Next]_(Life!vars)
<1>1. Existing' = Existing
    BY DEF Existing
<1>2. CASE cr' = cr \/ ContentsChanged
    <2>1. Phase' = Phase
        BY <1>2 DEF Phase, ContentsChanged
    <2> QED BY <1>1, <2>1 DEF Life!vars
<1>3. CASE FinalizerAdded
    <2>1. Phase = "new" /\ Phase' = "managed"
        BY <1>3 DEF FinalizerAdded, Phase, LifeInv, BranchStillRight
    <2> QED BY <1>1, <2>1 DEF Life!Next, Life!Adopt
<1>4. CASE FinalizerRemoved
    <2>1. Phase = "deleting" /\ Phase' = "gone"
        BY <1>4 DEF FinalizerRemoved, Phase, LifeInv, BranchStillRight
    <2> QED BY <1>1, <2>1 DEF Life!Next, Life!Release
<1>5. CASE DeletionAsked
    <2>1. CASE cr.fin
        BY <1>1, <1>5, <2>1 DEF DeletionAsked, Phase, Life!Next, Life!Delete
    <2>2. CASE ~cr.fin
        BY <1>1, <1>5, <2>2 DEF DeletionAsked, Phase, Life!Next, Life!Delete
    <2> QED BY <2>1, <2>2
<1> QED BY <1>2, <1>3, <1>4, <1>5, ResourceStep

\* Every behaviour of the reconciler is one of ClusterLifecycle: the resource is
\* adopted before any child exists, released only after its deletion was asked
\* for, and no child is created once it is gone. (Progress is model-checked.)
THEOREM LifecycleSafety == Spec => Life!Safety
<1>1. ASSUME Init PROVE Life!Init
    <2>1. Phase = "new"
        BY ZenonT(30), <1>1, NewResource DEF Phase
    <2>2. \A c \in Tracked : child[c] = Absent
        BY ZenonT(30), <1>1 DEF Init
    <2>3. Existing = {}
        BY ZenonT(30), <2>2 DEF Existing
    <2> QED BY ZenonT(30), <2>1, <2>3 DEF Life!Init
<1>2. Inv /\ LifeInv /\ [Next]_vars => [Life!Next]_(Life!vars)
    <2>1. ASSUME UNCHANGED vars PROVE UNCHANGED Life!vars
        BY <2>1 DEF vars, crVars, childVars, Phase, Existing, Life!vars
    <2> QED BY <2>1, ChildStepRefines, PhaseStepRefines
<1> QED BY <1>1, <1>2, Invariance, LifeInvariance, PTL DEF Spec, Life!Safety
=============================================================================
