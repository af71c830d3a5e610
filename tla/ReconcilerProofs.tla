-------------------------- MODULE ReconcilerProofs --------------------------
(***************************************************************************)
(* Proofs about Reconciler, for every set of children, spec, pod, budget   *)
(* and value the user may write.                                           *)
(***************************************************************************)
EXTENDS Reconciler, TLAPS

-----------------------------------------------------------------------------
(* What the operators on resources return *)

\* Filling in the defaults (Reconcile, lines 86-117) gives a spec.
LEMMA DefaultsTyped ==
    ASSUME NEW s, IsSpec(s)
    PROVE  IsSpec(WithDefaults(s))
<1>1. ASSUME NEW f \in Fields PROVE WithDefaults(s)[f] \in FieldRange[f]
    BY <1>1 DEF IsSpec, WithDefaults, Deref, FieldRange
<1> QED BY <1>1 DEF IsSpec, WithDefaults

\* A merge patch made of two specs, applied to a third, gives a spec.
LEMMA PatchTyped ==
    ASSUME NEW a, NEW b, NEW c, IsSpec(a), IsSpec(b), IsSpec(c)
    PROVE  IsSpec(MergePatched(a, b, c))
BY DEF IsSpec, MergePatched

\* Decoding a spec over another one gives a spec.
LEMMA DecodeTyped ==
    ASSUME NEW a, NEW b, IsSpec(a), IsSpec(b)
    PROVE  IsSpec(DecodeInto(a, b))
BY DEF IsSpec, DecodeInto

\* Storing a spec touches nothing but the spec and the generation.
LEMMA WithSpecTyped ==
    ASSUME NEW r, NEW s, IsResource(r), IsSpec(s)
    PROVE  /\ IsResource(WithSpec(r, s))
           /\ WithSpec(r, s).spec = s
           /\ WithSpec(r, s).gen \in Nat /\ WithSpec(r, s).gen >= r.gen
           /\ WithSpec(r, s).fin = r.fin /\ WithSpec(r, s).del = r.del
           /\ WithSpec(r, s).status = r.status
BY DEF WithSpec, IsResource

\* A generation is no later than those after a later one.
LEMMA LaterGeneration ==
    ASSUME NEW a \in Nat, NEW b \in Nat, NEW c \in Nat, a <= b, c >= b
    PROVE  a <= c
OBVIOUS

LEMMA SameGeneration ==
    ASSUME NEW a \in Nat, NEW b \in Nat, a <= b, b <= a
    PROVE  a = b /\ ~(a > b)
OBVIOUS

\* The resource and its status are new at the start.
LEMMA NewResource ==
    ASSUME Init
    PROVE  /\ cr # NotFound /\ cr.gen = 1 /\ ~cr.fin /\ ~cr.del
           /\ cr = [f \in DOMAIN cr |-> cr[f]] /\ cr.status = NewStatus
<1>1. PICK s : cr = [spec |-> s, gen |-> 1, fin |-> FALSE, del |-> FALSE, status |-> NewStatus]
    BY ZenonT(30) DEF Init
<1>2. cr # NotFound
    BY <1>1 DEF NotFound
<1>3. cr.gen = 1 /\ ~cr.fin /\ ~cr.del /\ cr.status = NewStatus
    BY <1>1
<1>4. cr = [f \in DOMAIN cr |-> cr[f]]
    BY <1>1
<1> QED BY ZenonT(30), <1>2, <1>3, <1>4

\* Setting a condition keeps the conditions well formed.
LEMMA ConditionTyped ==
    ASSUME NEW cs, IsConditions(cs), NEW t \in {"Ready", "Degraded", "Scaling"},
           NEW s \in {"True", "False"}, NEW g \in Nat, NEW n \in Nat
    PROVE  IsConditions(SetStatusCondition(cs, t, s, g, n))
BY DEF IsConditions, SetStatusCondition

\* A resource exists: the absent one has generation 0.
LEMMA ResourceExists ==
    ASSUME NEW r, IsResource(r)
    PROVE  r # NotFound
BY DEF IsResource, NotFound

\* What the patch of the defaults stores and what the worker decodes from the
\* response: both are resources, with the server's finalizer, deletion mark and
\* status, and one generation.
LEMMA DefaultsFacts ==
    ASSUME TypeOK, cr # NotFound, crCache # NotFound
    PROVE  /\ IsResource(DefaultsPatched) /\ IsResource(DefaultsDecoded)
           /\ DefaultsPatched.gen >= cr.gen
           /\ DefaultsPatched.fin = cr.fin /\ DefaultsPatched.del = cr.del
           /\ DefaultsPatched.status = cr.status
           /\ DefaultsDecoded.gen = DefaultsPatched.gen
           /\ DefaultsDecoded.status = DefaultsPatched.status
<1>1. IsResource(cr) /\ IsResource(crCache)
    BY DEF TypeOK, ResourceTyped
<1>2. IsSpec(cr.spec) /\ IsSpec(crCache.spec) /\ IsSpec(WithDefaults(crCache.spec))
    BY <1>1, DefaultsTyped DEF IsResource
<1>3. IsSpec(MergePatched(crCache.spec, WithDefaults(crCache.spec), cr.spec))
    BY <1>2, PatchTyped
<1>4. /\ IsResource(DefaultsPatched)
      /\ DefaultsPatched.gen >= cr.gen
      /\ DefaultsPatched.fin = cr.fin /\ DefaultsPatched.del = cr.del
      /\ DefaultsPatched.status = cr.status
    BY <1>1, <1>3, WithSpecTyped DEF DefaultsPatched
<1>5. IsSpec(DecodeInto(WithDefaults(crCache.spec), DefaultsPatched.spec))
    BY <1>2, <1>4, DecodeTyped DEF IsResource
<1>6. /\ IsResource(DefaultsDecoded)
      /\ DefaultsDecoded.gen = DefaultsPatched.gen
      /\ DefaultsDecoded.status = DefaultsPatched.status
    BY <1>4, <1>5 DEF DefaultsDecoded, IsResource
<1> QED BY <1>4, <1>6

LEMMA OrderLength == Len(Order) = 11 /\ DOMAIN Order = 1 .. 11
BY DEF Order

\* After a step the worker turns to a child of this instance, or to the status.
LEMMA ProceedTyped ==
    ASSUME NEW i, NEW s, Proceed(i, s)
    PROVE  /\ pc' \in {"child", "status"}
           /\ at' \in 0 .. Len(Order)
           /\ pc' = "child" => at' # 0 /\ Order[at'] \in Tracked
<1>1. CASE StepsAfter(i, s) = {}
    BY <1>1, OrderLength DEF Proceed
<1>2. CASE StepsAfter(i, s) # {}
    <2>1. pc' = "child" /\ at' \in StepsAfter(i, s)
        BY <1>2 DEF Proceed
    <2> QED BY <2>1, OrderLength DEF StepsAfter, Active
<1> QED BY <1>1, <1>2

\* The end of a reconciliation, whatever its result.
LEMMA FinishFacts ==
    ASSUME Finish
    PROVE  WorkerTyped' /\ pc' = "idle" /\ held' = FALSE
<1>1. 0 \in 0 .. Len(Order)
    BY OrderLength
<1> QED BY <1>1 DEF Finish, WorkerTyped

\* A write to the resource keeps the types, and never makes the cache pass for
\* fresh when it is not.
LEMMA StoreFacts ==
    ASSUME ResourceTyped, CacheCoherent, NEW r, r = NotFound \/ IsResource(r), StoreCR(r)
    PROVE  ResourceTyped' /\ CacheCoherent' /\ cr' = r
BY DEF ResourceTyped, CacheCoherent, StoreCR

LEMMA StoreChildFacts ==
    ASSUME ChildrenTyped, NEW c \in Tracked, NEW o, StoreChild(c, o)
    PROVE  ChildrenTyped'
BY DEF ChildrenTyped, StoreChild

\* The budget stays a budget.
LEMMA ReplyTyped ==
    ASSUME CountersTyped, NEW r, Reply(r)
    PROVE  budget' \in [Events -> Nat]
BY DEF CountersTyped, Reply, Events

LEMMA SpendTyped ==
    ASSUME CountersTyped, NEW e \in Events, Spend(e)
    PROVE  budget' \in [Events -> Nat]
BY DEF CountersTyped, Spend

-----------------------------------------------------------------------------
(* The initial states *)

LEMMA InitInv == Init => Inv
<1> SUFFICES ASSUME Init PROVE Inv
    OBVIOUS
<1> USE ReconcilerAssumption
<1>1. PICK spec \in InitSpecs :
        cr = [spec |-> spec, gen |-> 1, fin |-> FALSE, del |-> FALSE, status |-> NewStatus]
    BY DEF Init
<1>2. IsSpec(spec)
    BY DEF IsSpec, FieldRange
<1>3. IsStatus(NewStatus)
    BY DEF IsStatus, NewStatus, IsConditions, NoCondition
<1>4. IsResource(cr)
    BY <1>1, <1>2, <1>3 DEF IsResource
<1>5. cr.status.observedGeneration = 0
    BY <1>1 DEF NewStatus
<1>6. TypeOK
    <2>1. at \in 0 .. Len(Order) /\ now \in Nat
        BY OrderLength DEF Init
    <2>2. budget \in [Events -> Nat]
        BY DEF Init
    <2>3. /\ crFresh \in BOOLEAN /\ childFresh \in [Tracked -> BOOLEAN]
          /\ pods \in [Pods -> {"none", "unready", "ready"}]
          /\ podCache \in [Pods -> {"none", "unready", "ready"}]
          /\ DOMAIN child = Tracked /\ DOMAIN childCache = Tracked
        BY DEF Init
    <2>4. /\ queued = FALSE /\ timer = FALSE /\ moved = FALSE /\ held = FALSE /\ pc = "idle"
          /\ crCache = NotFound /\ obj = NotFound /\ orig = NotFound
        BY DEF Init
    <2> QED BY <1>4, <2>1, <2>2, <2>3, <2>4
            DEF TypeOK, ResourceTyped, ChildrenTyped, PodsTyped, WorkerTyped, CountersTyped
<1>7. CacheCoherent /\ NeverForgotten /\ WorkUnderFinalizer
    BY DEF Init, CacheCoherent, NeverForgotten, WorkUnderFinalizer
<1>8. ObservedBounds
    BY <1>4, <1>5 DEF Init, ObservedBounds, IsResource
<1> QED BY <1>6, <1>7, <1>8 DEF Inv

-----------------------------------------------------------------------------
(* The steps of the worker *)

\* A reconciliation that ends with an error leaves the invariant in place: the
\* resource is queued, and the worker holds nothing.
LEMMA ReturnErrInv ==
    ASSUME Inv, ReturnErr, ResourceTyped', CacheCoherent',
           ChildrenTyped', PodsTyped', now' \in Nat, budget' \in [Events -> Nat],
           cr' # NotFound => cr'.status.observedGeneration <= cr'.gen
    PROVE  Inv'
<1>1. WorkerTyped' /\ pc' = "idle" /\ held' = FALSE
    BY FinishFacts DEF ReturnErr
<1>2. queued' = TRUE /\ timer' = timer
    BY DEF ReturnErr
<1>3. CountersTyped'
    BY <1>2 DEF CountersTyped, Inv, TypeOK
<1>4. NeverForgotten' /\ WorkUnderFinalizer' /\ ObservedBounds'
    BY <1>1, <1>2 DEF NeverForgotten, WorkUnderFinalizer, ObservedBounds
<1> QED BY <1>1, <1>3, <1>4 DEF Inv, TypeOK

\* The first step of Reconcile: read the cache, persist the defaults.
LEMMA BeginReconcileInv == Inv /\ BeginReconcile => Inv'
<1> SUFFICES ASSUME Inv, BeginReconcile PROVE Inv'
    OBVIOUS
<1>0. /\ TypeOK /\ ResourceTyped /\ CacheCoherent /\ CountersTyped
      /\ ChildrenTyped' /\ PodsTyped' /\ now' \in Nat /\ timer \in BOOLEAN
      /\ cr # NotFound => cr.status.observedGeneration <= cr.gen
    BY DEF Inv, TypeOK, BeginReconcile, ChildrenTyped, PodsTyped, CountersTyped, ObservedBounds,
           childVars, podVars
<1>1. CASE crCache = NotFound /\ Finish /\ queued' = FALSE /\ UNCHANGED <<crVars, timer, budget>>
    <2>1. WorkerTyped' /\ pc' = "idle" /\ held' = FALSE
        BY <1>1, FinishFacts
    <2>2. ResourceTyped' /\ CacheCoherent' /\ CountersTyped'
        BY <1>0, <1>1 DEF ResourceTyped, CacheCoherent, CountersTyped, crVars
    <2>3. NeverForgotten'
        BY <1>0, <1>1 DEF NeverForgotten, CacheCoherent, crVars
    <2>4. WorkUnderFinalizer' /\ ObservedBounds'
        BY <1>0, <1>1, <2>1 DEF WorkUnderFinalizer, ObservedBounds, crVars
    <2> QED BY <1>0, <2>1, <2>2, <2>3, <2>4 DEF Inv, TypeOK
<1>2. CASE cr = NotFound /\ ReturnErr /\ UNCHANGED <<crVars, budget>>
    <2>1. ResourceTyped' /\ CacheCoherent' /\ budget' \in [Events -> Nat] /\ cr' = NotFound
        BY <1>0, <1>2 DEF ResourceTyped, CacheCoherent, CountersTyped, crVars
    <2> QED BY <1>0, <1>2, <2>1, ReturnErrInv
<1>3. ASSUME crCache # NotFound, cr # NotFound, NEW r \in Replies, PersistDefaults(r)
      PROVE  Inv'
    <2>1. /\ IsResource(DefaultsPatched) /\ IsResource(DefaultsDecoded) /\ IsResource(cr)
          /\ DefaultsPatched.gen >= cr.gen /\ DefaultsPatched.gen \in Nat
          /\ cr.gen \in Nat /\ cr.status.observedGeneration \in Nat
          /\ DefaultsPatched.fin = cr.fin
          /\ DefaultsPatched.status = cr.status
          /\ DefaultsDecoded.gen = DefaultsPatched.gen
          /\ DefaultsDecoded.status = DefaultsPatched.status
        BY <1>0, <1>3, DefaultsFacts DEF ResourceTyped, IsResource, IsStatus
    <2>2. DefaultsPatched # NotFound
        BY <2>1, ResourceExists
    <2>3. budget' \in [Events -> Nat]
        BY <1>0, <1>3, ReplyTyped DEF PersistDefaults
    <2>4. /\ ResourceTyped' /\ CacheCoherent'
          /\ cr' = IF r = "error" THEN cr ELSE DefaultsPatched
        BY <1>0, <1>3, <2>1, StoreFacts DEF PersistDefaults
    <2>5. cr'.status.observedGeneration <= cr'.gen
        BY <1>0, <1>3, <2>1, <2>4
    <2>6. CASE r # "ok"
        <3>1. ReturnErr
            BY <1>3, <2>6 DEF PersistDefaults
        <3> QED BY <1>0, <2>3, <2>4, <2>5, <3>1, ReturnErrInv
    <2>7. CASE r = "ok"
        <3>1. /\ queued' = FALSE /\ timer' = timer
              /\ obj' = DefaultsDecoded /\ orig' = crCache /\ held' = TRUE
              /\ moved' \in BOOLEAN
              /\ cr' = DefaultsPatched
            BY <1>3, <2>4, <2>7 DEF PersistDefaults
        <3>2. /\ pc' \in {"removeFinalizer", "addFinalizer", "child", "status"}
              /\ at' \in 0 .. Len(Order)
              /\ pc' = "child" => at' # 0 /\ Order[at'] \in Tracked
              /\ pc' \in {"child", "status"} => cr'.fin
            <4>1. CASE DefaultsPatched.del
                BY <1>3, <2>7, <4>1, OrderLength DEF PersistDefaults
            <4>2. CASE ~DefaultsPatched.del /\ ~DefaultsPatched.fin
                BY <1>3, <2>7, <4>2, OrderLength DEF PersistDefaults
            <4>3. CASE ~DefaultsPatched.del /\ DefaultsPatched.fin
                <5>1. Proceed(0, DefaultsDecoded.spec)
                    BY <1>3, <2>7, <4>3 DEF PersistDefaults
                <5> QED BY <3>1, <4>3, <5>1, ProceedTyped
            <4> QED BY <2>1, <4>1, <4>2, <4>3 DEF IsResource
        <3>3. WorkerTyped' /\ CountersTyped'
            BY <1>0, <1>3, <2>1, <2>3, <3>1, <3>2
            DEF WorkerTyped, CountersTyped, ResourceTyped
        <3>4. NeverForgotten' /\ WorkUnderFinalizer'
            BY <2>2, <3>1, <3>2 DEF NeverForgotten, WorkUnderFinalizer
        <3>5. ObservedBounds'
            BY <1>0, <1>3, <2>1, <3>1 DEF ObservedBounds
        <3> QED BY <1>0, <2>4, <3>3, <3>4, <3>5 DEF Inv, TypeOK
    <2> QED BY <2>6, <2>7
<1> QED BY <1>1, <1>2, <1>3 DEF BeginReconcile

\* What the steps after the first one can count on.
LEMMA WorkingFacts ==
    ASSUME Inv, pc # "idle"
    PROVE  /\ TypeOK /\ ResourceTyped /\ ChildrenTyped /\ PodsTyped /\ WorkerTyped /\ CountersTyped
           /\ CacheCoherent
           /\ IsResource(obj) /\ IsResource(orig)
           /\ obj.gen \in Nat /\ obj.status.observedGeneration \in Nat
           /\ cr # NotFound =>
                /\ IsResource(cr) /\ cr.gen \in Nat /\ cr.status.observedGeneration \in Nat
                /\ cr.status.observedGeneration <= cr.gen
                /\ cr.status.observedGeneration <= obj.gen /\ obj.gen <= cr.gen
                /\ obj.status.observedGeneration = cr.status.observedGeneration
           /\ held => cr # NotFound
           /\ pc \in {"child", "readSignals", "status", "degraded"} => cr # NotFound /\ cr.fin
<1>1. /\ TypeOK /\ ResourceTyped /\ ChildrenTyped /\ PodsTyped /\ WorkerTyped /\ CountersTyped
      /\ CacheCoherent /\ WorkUnderFinalizer /\ ObservedBounds
    BY DEF Inv, TypeOK
<1>2. IsResource(obj) /\ IsResource(orig) /\ (cr # NotFound => IsResource(cr))
    BY <1>1 DEF WorkerTyped, ResourceTyped
<1>3. obj.gen \in Nat /\ obj.status.observedGeneration \in Nat
    BY <1>2 DEF IsResource, IsStatus
<1>4. cr # NotFound => cr.gen \in Nat /\ cr.status.observedGeneration \in Nat
    BY <1>2 DEF IsResource, IsStatus
<1> QED BY <1>1, <1>2, <1>3, <1>4 DEF WorkUnderFinalizer, ObservedBounds

\* The deletion branch: the finalizer is removed, or the Update fails.
LEMMA RemoveFinalizerInv == Inv /\ RemoveFinalizer => Inv'
<1> SUFFICES ASSUME Inv, RemoveFinalizer PROVE Inv'
    OBVIOUS
<1>0. /\ pc # "idle" /\ ResourceTyped /\ CacheCoherent /\ CountersTyped
      /\ ChildrenTyped' /\ PodsTyped' /\ now' \in Nat
      /\ cr # NotFound => cr.status.observedGeneration <= cr.gen
    BY WorkingFacts
    DEF RemoveFinalizer, ChildrenTyped, PodsTyped, CountersTyped, childVars, podVars
<1>1. CASE ReturnErr /\ UNCHANGED <<crVars, budget>>
    <2>1. ResourceTyped' /\ CacheCoherent' /\ budget' \in [Events -> Nat] /\ cr' = cr
        BY <1>0, <1>1 DEF ResourceTyped, CacheCoherent, CountersTyped, crVars
    <2> QED BY <1>0, <1>1, <2>1, ReturnErrInv
<1>2. ASSUME NEW r \in Replies, Reply(r), StoreCR(IF r = "error" THEN cr ELSE NotFound),
             IF r = "ok" THEN Finish /\ UNCHANGED queueVars ELSE ReturnErr
      PROVE  Inv'
    <2>1. budget' \in [Events -> Nat]
        BY <1>0, <1>2, ReplyTyped
    <2>2. ResourceTyped' /\ CacheCoherent' /\ cr' = IF r = "error" THEN cr ELSE NotFound
        BY <1>0, <1>2, StoreFacts DEF ResourceTyped
    <2>3. CASE r # "ok"
        BY <1>0, <1>2, <2>1, <2>2, <2>3, ReturnErrInv
    <2>4. CASE r = "ok"
        <3>1. WorkerTyped' /\ pc' = "idle" /\ held' = FALSE
            BY <1>2, <2>4, FinishFacts
        <3>2. CountersTyped'
            BY <1>0, <1>2, <2>1, <2>4 DEF CountersTyped, queueVars
        <3>3. NeverForgotten' /\ WorkUnderFinalizer' /\ ObservedBounds'
            BY <2>2, <2>4, <3>1 DEF NeverForgotten, WorkUnderFinalizer, ObservedBounds
        <3> QED BY <1>0, <2>2, <3>1, <3>2, <3>3 DEF Inv, TypeOK
    <2> QED BY <2>3, <2>4
<1> QED BY <1>1, <1>2 DEF RemoveFinalizer

\* The finalizer is added by an Update that the resource version guards.
LEMMA AddFinalizerInv == Inv /\ AddFinalizer => Inv'
<1> SUFFICES ASSUME Inv, AddFinalizer PROVE Inv'
    OBVIOUS
<1> DEFINE updated == [WithSpec(cr, obj.spec) EXCEPT !.fin = TRUE]
<1>0. /\ pc # "idle" /\ ResourceTyped /\ CacheCoherent /\ CountersTyped /\ WorkerTyped
      /\ ChildrenTyped' /\ PodsTyped' /\ now' \in Nat
      /\ held => cr # NotFound
      /\ IsResource(obj) /\ IsResource(orig)
      /\ cr # NotFound =>
            /\ IsResource(cr) /\ cr.gen \in Nat /\ cr.status.observedGeneration \in Nat
            /\ cr.status.observedGeneration <= cr.gen
    BY WorkingFacts
    DEF AddFinalizer, ChildrenTyped, PodsTyped, CountersTyped, childVars, podVars
<1>1. CASE ReturnErr /\ UNCHANGED <<crVars, budget>>
    <2>1. ResourceTyped' /\ CacheCoherent' /\ budget' \in [Events -> Nat] /\ cr' = cr
        BY <1>0, <1>1 DEF ResourceTyped, CacheCoherent, CountersTyped, crVars
    <2> QED BY <1>0, <1>1, <2>1, ReturnErrInv
<1>2. ASSUME held, NEW r \in Replies, Reply(r), StoreCR(IF r = "error" THEN cr ELSE updated),
             IF r # "ok" THEN ReturnErr
             ELSE /\ obj' = updated /\ moved' = TRUE /\ Proceed(0, obj.spec)
                  /\ UNCHANGED <<queueVars, orig, held, replicas>>
      PROVE  Inv'
    <2>1. /\ IsResource(WithSpec(cr, obj.spec))
          /\ WithSpec(cr, obj.spec).gen >= cr.gen
          /\ WithSpec(cr, obj.spec).status = cr.status
        BY <1>0, <1>2, WithSpecTyped DEF IsResource
    <2>2. /\ IsResource(updated) /\ updated.fin = TRUE
          /\ updated.gen >= cr.gen /\ updated.gen \in Nat
          /\ updated.status = cr.status
        BY <2>1 DEF IsResource
    <2>3. updated # NotFound
        BY <2>2, ResourceExists
    <2>4. budget' \in [Events -> Nat]
        BY <1>0, <1>2, ReplyTyped
    <2> HIDE DEF updated
    <2>5. ResourceTyped' /\ CacheCoherent' /\ cr' = IF r = "error" THEN cr ELSE updated
        BY <1>0, <1>2, <2>2, StoreFacts
    <2>6. cr' # NotFound => cr'.status.observedGeneration <= cr'.gen
        <3>1. CASE cr' = cr
            BY ZenonT(30), <1>0, <1>2, <3>1
        <3>2. CASE cr' = updated
            BY ZenonT(30), <1>0, <1>2, <2>2, <3>2, LaterGeneration
        <3> QED BY ZenonT(30), <2>5, <3>1, <3>2
    <2>7. CASE r # "ok"
        BY <1>0, <1>2, <2>4, <2>5, <2>6, <2>7, ReturnErrInv
    <2>8. CASE r = "ok"
        <3>1. /\ obj' = updated /\ orig' = orig /\ moved' = TRUE /\ held' = held
              /\ queued' = queued /\ timer' = timer /\ cr' = updated /\ Proceed(0, obj.spec)
            BY <1>2, <2>5, <2>8 DEF queueVars
        <3>2. /\ pc' \in {"child", "status"}
              /\ at' \in 0 .. Len(Order)
              /\ pc' = "child" => at' # 0 /\ Order[at'] \in Tracked
            BY <3>1, ProceedTyped
        <3>3. WorkerTyped' /\ CountersTyped'
            BY <1>0, <2>2, <2>4, <3>1, <3>2 DEF WorkerTyped, CountersTyped
        <3>4. NeverForgotten' /\ WorkUnderFinalizer' /\ ObservedBounds'
            <4>1. pc' # "idle" /\ cr' # NotFound /\ cr'.fin
                BY <2>2, <2>3, <3>1, <3>2
            <4>2. NeverForgotten' /\ WorkUnderFinalizer'
                BY <4>1 DEF NeverForgotten, WorkUnderFinalizer
            <4>3. cr'.status.observedGeneration <= cr'.gen /\ obj' = cr' /\ cr'.gen \in Nat
                BY <2>2, <2>6, <3>1, <4>1
            <4>4. ObservedBounds'
                BY <4>3 DEF ObservedBounds
            <4> QED BY <4>2, <4>4
        <3> QED BY <1>0, <2>5, <3>3, <3>4 DEF Inv, TypeOK
    <2> QED BY <2>7, <2>8
<1> QED BY <1>1, <1>2 DEF AddFinalizer

\* The worker moves on to another step and touches nothing of the resource on
\* the server: enough that what it holds is still the resource it decoded.
LEMMA MoveOnInv ==
    ASSUME Inv, pc \in {"child", "readSignals", "status", "degraded"},
           pc' \in {"child", "readSignals", "status", "degraded"},
           at' \in 0 .. Len(Order), pc' = "child" => at' # 0 /\ Order[at'] \in Tracked,
           IsResource(obj'), obj'.gen = obj.gen,
           obj'.status.observedGeneration = obj.status.observedGeneration,
           ChildrenTyped', budget' \in [Events -> Nat],
           UNCHANGED <<crVars, podVars, queueVars, orig, moved, held, now>>
    PROVE  Inv'
<1>1. pc # "idle" /\ pc' # "idle"
    OBVIOUS
<1>2. /\ cr' = cr /\ crCache' = crCache /\ crFresh' = crFresh
      /\ orig' = orig /\ moved' = moved /\ held' = held
    BY DEF crVars
<1>3. ResourceTyped' /\ CacheCoherent' /\ PodsTyped' /\ CountersTyped'
    BY <1>1, WorkingFacts
    DEF ResourceTyped, CacheCoherent, PodsTyped, CountersTyped, crVars, podVars, queueVars
<1>4. WorkerTyped'
    BY <1>1, <1>2, WorkingFacts DEF WorkerTyped
<1>5. NeverForgotten' /\ WorkUnderFinalizer' /\ ObservedBounds'
    BY <1>1, <1>2, WorkingFacts DEF NeverForgotten, WorkUnderFinalizer, ObservedBounds
<1> QED BY <1>3, <1>4, <1>5 DEF Inv, TypeOK

\* One child is brought up to date.
LEMMA ReconcileChildInv == Inv /\ ReconcileChild => Inv'
<1> SUFFICES ASSUME Inv, ReconcileChild PROVE Inv'
    OBVIOUS
<1> DEFINE c == Order[at]
           Continue == IF c = "signals" THEN pc' = "readSignals" /\ UNCHANGED at
                       ELSE Proceed(at, obj.spec)
           Fail == pc' = "degraded" /\ UNCHANGED at
<1>1. /\ pc = "child" /\ c \in Tracked /\ at \in 0 .. Len(Order)
      /\ ChildrenTyped /\ CountersTyped /\ IsResource(obj)
    BY WorkingFacts DEF ReconcileChild, WorkerTyped
<1>2. /\ IsResource(WithShards(obj)) /\ WithShards(obj).gen = obj.gen
      /\ WithShards(obj).status.observedGeneration = obj.status.observedGeneration
    BY <1>1 DEF WithShards, IsResource, IsStatus
<1>3. /\ IsResource(obj') /\ obj'.gen = obj.gen
      /\ obj'.status.observedGeneration = obj.status.observedGeneration
    BY <1>1, <1>2 DEF ReconcileChild
<1>4. Continue \/ Fail
    BY DEF ReconcileChild
<1>5. /\ pc' \in {"child", "readSignals", "status", "degraded"}
      /\ at' \in 0 .. Len(Order)
      /\ pc' = "child" => at' # 0 /\ Order[at'] \in Tracked
    <2>1. CASE Proceed(at, obj.spec)
        BY <2>1, ProceedTyped
    <2>2. CASE pc' \in {"readSignals", "degraded"} /\ at' = at
        BY <1>1, <2>2
    <2> QED BY <1>4, <2>1, <2>2
<1>6. ChildrenTyped' /\ budget' \in [Events -> Nat]
    <2>1. CASE UNCHANGED <<childVars, budget>>
        BY <1>1, <2>1 DEF ChildrenTyped, CountersTyped, childVars
    <2>2. ASSUME NEW r, NEW o, Reply(r), StoreChild(c, o)
          PROVE  ChildrenTyped' /\ budget' \in [Events -> Nat]
        BY <1>1, <2>2, ReplyTyped, StoreChildFacts
    <2> QED BY <2>1, <2>2 DEF ReconcileChild
<1> QED BY ZenonT(30), <1>1, <1>3, <1>5, <1>6, MoveOnInv DEF ReconcileChild

\* The signals are read and the Scaling condition is set.
LEMMA ReadSignalsInv == Inv /\ ReadSignals => Inv'
<1> SUFFICES ASSUME Inv, ReadSignals PROVE Inv'
    OBVIOUS
<1>1. /\ pc = "readSignals" /\ at \in 0 .. Len(Order)
      /\ ChildrenTyped' /\ budget' \in [Events -> Nat]
      /\ IsResource(obj) /\ obj.gen \in Nat /\ now \in Nat
    BY WorkingFacts DEF ReadSignals, WorkerTyped, ChildrenTyped, CountersTyped, childVars
<1>2. CASE pc' = "degraded" /\ UNCHANGED <<at, obj, replicas>>
    BY <1>1, <1>2, MoveOnInv DEF ReadSignals
<1>3. ASSUME NEW scaling \in {"True", "False"},
             obj' = [obj EXCEPT !.status.conditions =
                        SetStatusCondition(@, "Scaling", scaling, obj.gen, now)],
             Proceed(at, obj.spec)
      PROVE  Inv'
    <2>1. IsConditions(SetStatusCondition(obj.status.conditions, "Scaling", scaling, obj.gen, now))
        BY <1>1, ConditionTyped DEF IsResource, IsStatus
    <2>2. /\ IsResource(obj') /\ obj'.gen = obj.gen
          /\ obj'.status.observedGeneration = obj.status.observedGeneration
        BY <1>1, <1>3, <2>1 DEF IsResource, IsStatus
    <2>3. /\ pc' \in {"child", "status"} /\ at' \in 0 .. Len(Order)
          /\ pc' = "child" => at' # 0 /\ Order[at'] \in Tracked
        BY <1>3, ProceedTyped
    <2> QED BY <1>1, <2>2, <2>3, MoveOnInv DEF ReadSignals
<1> QED BY <1>2, <1>3 DEF ReadSignals

\* Both conditions of a reconciliation's end are well formed.
LEMMA ConditionsTyped ==
    ASSUME obj.gen \in Nat, now \in Nat, NEW cs, IsConditions(cs),
           NEW ready \in {"True", "False"}, NEW degraded \in {"True", "False"}
    PROVE  IsConditions(WithConditions(cs, ready, degraded))
<1>1. IsConditions(SetStatusCondition(cs, "Ready", ready, obj.gen, now))
    BY ZenonT(30), ConditionTyped
<1> QED BY <1>1, ConditionTyped DEF WithConditions

\* A status is stored, with an observed generation between the old one and the
\* worker's, and the reconciliation ends.
LEMMA StatusStored ==
    ASSUME Inv, pc \in {"status", "degraded"}, NEW st, IsStatus(st), NEW r \in Replies, Reply(r),
           cr.status.observedGeneration <= st.observedGeneration,
           st.observedGeneration <= obj.gen,
           StoreCR(IF r = "error" THEN cr ELSE [cr EXCEPT !.status = st])
    PROVE  /\ ResourceTyped' /\ CacheCoherent' /\ budget' \in [Events -> Nat]
           /\ cr'.status.observedGeneration <= cr'.gen
           /\ cr.status.observedGeneration <= cr'.status.observedGeneration
<1>1. /\ ResourceTyped /\ CacheCoherent /\ CountersTyped
      /\ IsResource(cr) /\ cr.gen \in Nat /\ cr.status.observedGeneration \in Nat
      /\ obj.gen \in Nat /\ obj.gen <= cr.gen /\ cr.status.observedGeneration <= cr.gen
    BY WorkingFacts
<1>2. /\ IsResource([cr EXCEPT !.status = st])
      /\ [cr EXCEPT !.status = st].status = st /\ [cr EXCEPT !.status = st].gen = cr.gen
      /\ st.observedGeneration \in Nat
    BY <1>1 DEF IsResource, IsStatus
<1>3. /\ ResourceTyped' /\ CacheCoherent'
      /\ cr' = IF r = "error" THEN cr ELSE [cr EXCEPT !.status = st]
    BY <1>1, <1>2, StoreFacts
<1>4. budget' \in [Events -> Nat]
    BY <1>1, ReplyTyped
<1> QED BY <1>1, <1>2, <1>3, <1>4

\* The observed generation in the status patch: the worker's generation, or
\* what the server has.
LEMMA ReconciledFacts ==
    ASSUME Inv, pc = "status"
    PROVE  LET st == MergePatched(orig.status, Reconciled, cr.status)
           IN  /\ IsStatus(st)
               /\ cr.status.observedGeneration <= st.observedGeneration
               /\ st.observedGeneration <= obj.gen
<1>1. /\ IsResource(cr) /\ IsResource(obj) /\ IsResource(orig)
      /\ obj.gen \in Nat /\ now \in Nat
      /\ cr.status.observedGeneration \in Nat /\ cr.status.observedGeneration <= obj.gen
    BY WorkingFacts DEF CountersTyped
<1>2. IsConditions(WithConditions(obj.status.conditions, "True", "False"))
    BY <1>1, ConditionsTyped DEF IsResource, IsStatus
<1>3. IsStatus(Reconciled) /\ Reconciled.observedGeneration = obj.gen
    BY <1>1, <1>2 DEF Reconciled, IsResource, IsStatus
<1>4. IsStatus(cr.status)
    BY <1>1 DEF IsResource
<1> DEFINE st == MergePatched(orig.status, Reconciled, cr.status)
<1>5. /\ DOMAIN st = DOMAIN cr.status
      /\ \A f \in DOMAIN cr.status : st[f] \in {Reconciled[f], cr.status[f]}
    BY ZenonT(30) DEF MergePatched
<1> HIDE DEF st
<1>6. /\ st.observedGeneration \in {Reconciled.observedGeneration, cr.status.observedGeneration}
      /\ st.conditions \in {Reconciled.conditions, cr.status.conditions}
    BY <1>4, <1>5 DEF IsStatus
<1>7. IsStatus(st)
    BY ZenonT(30), <1>3, <1>4, <1>5, <1>6 DEF IsStatus
<1>8. st.observedGeneration \in {obj.gen, cr.status.observedGeneration}
    BY ZenonT(30), <1>3, <1>6
<1>9. cr.status.observedGeneration <= st.observedGeneration /\ st.observedGeneration <= obj.gen
    BY <1>1, <1>8
<1> QED BY <1>7, <1>9 DEF st

\* The end of a reconciliation that went through.
LEMMA PatchStatusInv == Inv /\ PatchStatus => Inv'
<1> SUFFICES ASSUME Inv, PatchStatus PROVE Inv'
    OBVIOUS
<1>0. /\ pc = "status" /\ ResourceTyped /\ CacheCoherent /\ CountersTyped
      /\ ChildrenTyped' /\ PodsTyped' /\ now' \in Nat
      /\ cr # NotFound => cr.status.observedGeneration <= cr.gen
    BY WorkingFacts
    DEF PatchStatus, ChildrenTyped, PodsTyped, CountersTyped, childVars, podVars
<1>1. CASE ReturnErr /\ UNCHANGED <<crVars, budget>>
    <2>1. ResourceTyped' /\ CacheCoherent' /\ budget' \in [Events -> Nat] /\ cr' = cr
        BY <1>0, <1>1 DEF ResourceTyped, CacheCoherent, CountersTyped, crVars
    <2> QED BY <1>0, <1>1, <2>1, ReturnErrInv
<1>2. ASSUME NEW r \in Replies, Reply(r),
             StoreCR(IF r = "error" THEN cr
                     ELSE [cr EXCEPT !.status = MergePatched(orig.status, Reconciled, @)]),
             IF r = "ok" THEN ReturnAfter ELSE ReturnErr
      PROVE  Inv'
    <2>1. /\ ResourceTyped' /\ CacheCoherent' /\ budget' \in [Events -> Nat]
          /\ cr'.status.observedGeneration <= cr'.gen
        BY <1>0, <1>2, ReconciledFacts, StatusStored
    <2>2. CASE r # "ok"
        BY <1>0, <1>2, <2>1, <2>2, ReturnErrInv
    <2>3. CASE r = "ok"
        <3>1. WorkerTyped' /\ pc' = "idle" /\ held' = FALSE /\ timer' = TRUE /\ queued' = queued
            BY <1>2, <2>3, FinishFacts DEF ReturnAfter
        <3>2. CountersTyped'
            BY <1>0, <2>1, <3>1 DEF CountersTyped
        <3>3. NeverForgotten' /\ WorkUnderFinalizer' /\ ObservedBounds'
            BY <2>1, <3>1 DEF NeverForgotten, WorkUnderFinalizer, ObservedBounds
        <3> QED BY <1>0, <2>1, <3>1, <3>2, <3>3 DEF Inv, TypeOK
    <2> QED BY <2>2, <2>3
<1> QED BY <1>1, <1>2 DEF PatchStatus

\* The status requeueDegraded writes keeps the observed generation.
LEMMA DegradedFacts ==
    ASSUME Inv, pc = "degraded"
    PROVE  LET st == [obj.status EXCEPT !.conditions = WithConditions(@, "False", "True")]
           IN  /\ IsStatus(st)
               /\ cr.status.observedGeneration <= st.observedGeneration
               /\ st.observedGeneration <= obj.gen
<1>1. /\ IsResource(obj) /\ obj.gen \in Nat /\ now \in Nat
      /\ cr.status.observedGeneration \in Nat /\ cr.status.observedGeneration <= obj.gen
      /\ obj.status.observedGeneration = cr.status.observedGeneration
    BY WorkingFacts DEF CountersTyped
<1>2. IsConditions(WithConditions(obj.status.conditions, "False", "True"))
    BY <1>1, ConditionsTyped DEF IsResource, IsStatus
<1> QED BY <1>1, <1>2 DEF IsResource, IsStatus

\* The end of a reconciliation in which a step failed.
LEMMA requeueDegradedInv == Inv /\ requeueDegraded => Inv'
<1> SUFFICES ASSUME Inv, requeueDegraded PROVE Inv'
    OBVIOUS
<1>0. /\ pc = "degraded" /\ ResourceTyped /\ CacheCoherent /\ CountersTyped
      /\ ChildrenTyped' /\ PodsTyped' /\ now' \in Nat /\ ReturnErr
      /\ cr # NotFound => cr.status.observedGeneration <= cr.gen
    BY WorkingFacts
    DEF requeueDegraded, ChildrenTyped, PodsTyped, CountersTyped, childVars, podVars
<1>1. CASE UNCHANGED <<crVars, budget>>
    <2>1. ResourceTyped' /\ CacheCoherent' /\ budget' \in [Events -> Nat] /\ cr' = cr
        BY <1>0, <1>1 DEF ResourceTyped, CacheCoherent, CountersTyped, crVars
    <2> QED BY <1>0, <1>1, <2>1, ReturnErrInv
<1>2. ASSUME NEW r \in Replies, Reply(r),
             StoreCR(IF r = "error" THEN cr
                     ELSE [cr EXCEPT !.status = [obj.status EXCEPT
                                !.conditions = WithConditions(@, "False", "True")]])
      PROVE  Inv'
    <2>1. /\ ResourceTyped' /\ CacheCoherent' /\ budget' \in [Events -> Nat]
          /\ cr'.status.observedGeneration <= cr'.gen
        BY <1>0, <1>2, DegradedFacts, StatusStored
    <2> QED BY <1>0, <2>1, ReturnErrInv
<1> QED BY <1>1, <1>2 DEF requeueDegraded

-----------------------------------------------------------------------------
(* The informers, the timer and the environment *)

\* Steps that change neither the resource nor the worker, and dequeue nothing.
LEMMA AsideInv ==
    ASSUME Inv, ChildrenTyped', PodsTyped', CountersTyped',
           UNCHANGED <<cr, workVars>>,
           ResourceTyped', CacheCoherent',
           cr # NotFound /\ pc = "idle" => queued' \/ timer' \/ ~crFresh'
    PROVE  Inv'
<1>1. /\ cr' = cr /\ pc' = pc /\ at' = at /\ obj' = obj /\ orig' = orig
      /\ moved' = moved /\ held' = held
    BY DEF workVars
<1>2. WorkerTyped'
    BY <1>1 DEF Inv, TypeOK, WorkerTyped
<1>3. NeverForgotten'
    BY <1>1 DEF NeverForgotten
<1>4. WorkUnderFinalizer' /\ ObservedBounds'
    BY <1>1 DEF Inv, WorkUnderFinalizer, ObservedBounds
<1> QED BY <1>2, <1>3, <1>4 DEF Inv, TypeOK

\* The informers and the timer only ever add to the queue.
LEMMA InformersInv ==
    Inv /\ (CacheSync \/ PodSync \/ TimerFires \/ \E c \in Tracked : ChildSync(c)) => Inv'
<1> SUFFICES ASSUME Inv, CacheSync \/ PodSync \/ TimerFires \/ \E c \in Tracked : ChildSync(c)
             PROVE  Inv'
    OBVIOUS
<1> USE DEF crVars, childVars, podVars, queueVars
<1>0. /\ ResourceTyped /\ ChildrenTyped /\ PodsTyped /\ CountersTyped
      /\ CacheCoherent /\ NeverForgotten
    BY DEF Inv, TypeOK
<1>1. CASE CacheSync
    <2>1. ResourceTyped' /\ CacheCoherent' /\ queued' = TRUE
        BY <1>0, <1>1 DEF CacheSync, ResourceTyped, CacheCoherent
    <2>2. ChildrenTyped' /\ PodsTyped' /\ CountersTyped' /\ UNCHANGED <<cr, workVars>>
        BY <1>0, <1>1 DEF CacheSync, ChildrenTyped, PodsTyped, CountersTyped
    <2> QED BY <2>1, <2>2, AsideInv
<1>2. CASE PodSync
    <2>1. ResourceTyped' /\ CacheCoherent' /\ ChildrenTyped' /\ PodsTyped' /\ CountersTyped'
        BY <1>0, <1>2
        DEF PodSync, ResourceTyped, CacheCoherent, ChildrenTyped, PodsTyped, CountersTyped
    <2>2. UNCHANGED <<cr, workVars>> /\ queued' = queued /\ timer' = timer /\ crFresh' = crFresh
        BY <1>2 DEF PodSync
    <2> QED BY <1>0, <2>1, <2>2, AsideInv DEF NeverForgotten
<1>3. CASE TimerFires
    <2>1. ResourceTyped' /\ CacheCoherent' /\ ChildrenTyped' /\ PodsTyped' /\ CountersTyped'
        BY <1>0, <1>3
        DEF TimerFires, ResourceTyped, CacheCoherent, ChildrenTyped, PodsTyped, CountersTyped
    <2>2. UNCHANGED <<cr, workVars>> /\ queued' = TRUE
        BY <1>3 DEF TimerFires
    <2> QED BY <2>1, <2>2, AsideInv
<1>4. ASSUME NEW c \in Tracked, ChildSync(c) PROVE Inv'
    <2>1. ResourceTyped' /\ CacheCoherent' /\ PodsTyped' /\ ChildrenTyped'
        BY <1>0, <1>4
        DEF ChildSync, ResourceTyped, CacheCoherent, ChildrenTyped, PodsTyped
    <2>2. /\ queued' = (queued \/ c \in Owned) /\ timer' = timer /\ crFresh' = crFresh
          /\ now' = now /\ budget' = budget /\ UNCHANGED <<cr, workVars>>
        BY <1>4 DEF ChildSync
    <2>3. CountersTyped'
        BY <1>0, <2>2 DEF CountersTyped
    <2> QED BY <1>0, <2>1, <2>2, <2>3, AsideInv DEF NeverForgotten
<1> QED BY <1>1, <1>2, <1>3, <1>4

\* The user's changes of the resource: they take the latest version away from
\* the worker, and no finalizer.
LEMMA UserInv ==
    ASSUME Inv, NEW r, r = NotFound \/ IsResource(r), cr # NotFound, StoreCR(r), r # cr,
           r # NotFound => r.gen >= cr.gen /\ r.fin = cr.fin /\ r.status = cr.status,
           cr.fin => r # NotFound,
           budget' \in [Events -> Nat], held' = FALSE,
           UNCHANGED <<childVars, podVars, queueVars, pc, at, obj, orig, moved, now>>
    PROVE  Inv'
<1>0. /\ ResourceTyped /\ ChildrenTyped /\ PodsTyped /\ WorkerTyped /\ CountersTyped
      /\ CacheCoherent /\ WorkUnderFinalizer /\ ObservedBounds
    BY DEF Inv, TypeOK
<1>1. ResourceTyped' /\ CacheCoherent' /\ cr' = r /\ crFresh' = FALSE
    BY ZenonT(30), <1>0, StoreFacts DEF StoreCR
<1>2. ChildrenTyped' /\ PodsTyped' /\ CountersTyped' /\ WorkerTyped'
    BY ZenonT(30), <1>0
    DEF ChildrenTyped, PodsTyped, CountersTyped, WorkerTyped, childVars, podVars, queueVars
<1>3. NeverForgotten' /\ WorkUnderFinalizer'
    BY <1>0, <1>1 DEF NeverForgotten, WorkUnderFinalizer
<1>4. ObservedBounds'
    <2> SUFFICES ASSUME r # NotFound PROVE ObservedBounds'
        BY ZenonT(30), <1>1 DEF ObservedBounds
    <2>1. /\ IsResource(r) /\ IsResource(cr) /\ r.gen \in Nat /\ cr.gen \in Nat
          /\ cr.status.observedGeneration \in Nat
        BY <1>0 DEF ResourceTyped, IsResource, IsStatus
    <2>2. pc # "idle" => obj.gen \in Nat
        BY ZenonT(30), <1>0 DEF WorkerTyped, IsResource
    <2>3. /\ cr.status.observedGeneration <= cr.gen
          /\ pc # "idle" => /\ cr.status.observedGeneration <= obj.gen /\ obj.gen <= cr.gen
                            /\ obj.status.observedGeneration = cr.status.observedGeneration
        BY ZenonT(30), <1>0 DEF ObservedBounds
    <2>4. r.gen >= cr.gen /\ r.status = cr.status
        OBVIOUS
    <2>5. r.status.observedGeneration <= r.gen /\ (pc # "idle" => obj.gen <= r.gen)
        <3>1. cr.status.observedGeneration <= r.gen
            BY ZenonT(30), <2>1, <2>3, <2>4, LaterGeneration
        <3>2. pc # "idle" => obj.gen <= r.gen
            BY ZenonT(30), <2>1, <2>2, <2>3, <2>4, LaterGeneration
        <3> QED BY ZenonT(30), <2>4, <3>1, <3>2
    <2> QED BY ZenonT(30), <1>1, <2>3, <2>4, <2>5 DEF ObservedBounds
<1> QED BY <1>1, <1>2, <1>3, <1>4 DEF Inv, TypeOK

LEMMA UserEditInv ==
    ASSUME Inv, NEW f \in Fields, NEW v \in FieldValues[f], UserEdit(f, v)
    PROVE  Inv'
<1>1. cr # NotFound /\ IsResource(cr) /\ IsSpec(cr.spec) /\ v # cr.spec[f] /\ CountersTyped
    <2>1. cr # NotFound /\ v # cr.spec[f]
        BY DEF UserEdit
    <2>2. IsResource(cr) /\ CountersTyped
        BY <2>1 DEF Inv, TypeOK, ResourceTyped
    <2>3. IsSpec(cr.spec)
        BY <2>2 DEF IsResource
    <2> QED BY <2>1, <2>2, <2>3
<1> DEFINE s == [cr.spec EXCEPT ![f] = v]
<1>2. IsSpec(s) /\ s # cr.spec
    <2>1. DOMAIN cr.spec = Fields /\ \A g \in Fields : cr.spec[g] \in FieldRange[g]
        BY <1>1 DEF IsSpec
    <2>2. v \in FieldRange[f]
        BY DEF FieldRange
    <2> QED BY <1>1, <2>1, <2>2 DEF IsSpec
<1> DEFINE r == WithSpec(cr, s)
<1>6. StoreCR(r)
    BY DEF UserEdit
<1> HIDE DEF s
<1>3. /\ IsResource(r) /\ r.gen >= cr.gen /\ r.fin = cr.fin /\ r.status = cr.status
      /\ r.spec # cr.spec
    BY ZenonT(30), <1>1, <1>2, WithSpecTyped
<1> HIDE DEF r
<1>4. r # NotFound
    BY <1>3, ResourceExists
<1>5. budget' \in [Events -> Nat]
    BY <1>1, SpendTyped DEF UserEdit, Events
<1> QED BY ZenonT(30), <1>1, <1>3, <1>4, <1>5, <1>6, UserInv DEF UserEdit

LEMMA UserDeleteInv ==
    ASSUME Inv, UserDelete
    PROVE  Inv'
<1> DEFINE marked == [cr EXCEPT !.del = TRUE, !.gen = @ + 1]
           r == IF cr.fin THEN marked ELSE NotFound
<1>1. cr # NotFound /\ IsResource(cr) /\ CountersTyped
    BY DEF UserDelete, Inv, TypeOK, ResourceTyped
<1>2. /\ IsResource(marked) /\ marked.gen >= cr.gen /\ marked.gen # cr.gen
      /\ marked.fin = cr.fin /\ marked.status = cr.status
    BY <1>1 DEF IsResource
<1>3. marked # NotFound
    BY <1>2, ResourceExists
<1>4. budget' \in [Events -> Nat]
    BY <1>1, SpendTyped DEF UserDelete, Events
<1>5. StoreCR(r)
    BY DEF UserDelete
<1> HIDE DEF marked
<1>6. r # cr /\ (cr.fin => r # NotFound) /\ (r = NotFound \/ IsResource(r))
    BY <1>1, <1>2, <1>3
<1>7. r # NotFound => r.gen >= cr.gen /\ r.fin = cr.fin /\ r.status = cr.status
    BY <1>2
<1> HIDE DEF r
<1> QED BY <1>1, <1>4, <1>5, <1>6, <1>7, UserInv DEF UserDelete

\* The other events touch children, pods, or nothing but the clock.
LEMMA OthersInv ==
    ASSUME Inv,
           \/ \E c \in Tracked : \E new \in {Absent, Spoiled} : ChildDrift(c, new)
           \/ \E c \in Tracked : RolloutStatus(c) \/ GarbageCollect(c)
           \/ \E text \in SignalTexts : SignalWritten(text)
           \/ \E p \in Pods, state \in {"none", "unready", "ready"} : PodChange(p, state)
           \/ Tick
    PROVE  Inv'
<1> USE DEF crVars, podVars, queueVars
<1>0. /\ ResourceTyped /\ ChildrenTyped /\ PodsTyped /\ CountersTyped
      /\ CacheCoherent /\ NeverForgotten
    BY DEF Inv, TypeOK
<1>1. ASSUME UNCHANGED <<crVars, queueVars, workVars>>, now' \in Nat, budget' \in [Events -> Nat],
             ChildrenTyped', PodsTyped'
      PROVE  Inv'
    <2>1. ResourceTyped' /\ CacheCoherent' /\ CountersTyped'
        BY <1>0, <1>1 DEF ResourceTyped, CacheCoherent, CountersTyped
    <2>2. /\ cr' = cr /\ crFresh' = crFresh /\ queued' = queued /\ timer' = timer
          /\ UNCHANGED <<cr, workVars>>
        BY <1>1
    <2> QED BY <1>0, <1>1, <2>1, <2>2, AsideInv DEF NeverForgotten
<1>2. ASSUME NEW c \in Tracked, NEW new, ChildDrift(c, new) \/ GarbageCollect(c) PROVE Inv'
    <2>1. ChildrenTyped'
        BY <1>0, <1>2, StoreChildFacts DEF ChildDrift, GarbageCollect
    <2>2. budget' \in [Events -> Nat]
        BY <1>0, <1>2, SpendTyped DEF ChildDrift, GarbageCollect, CountersTyped, Events
    <2> QED BY <1>0, <1>1, <1>2, <2>1, <2>2
            DEF ChildDrift, GarbageCollect, PodsTyped, CountersTyped
<1>3. ASSUME NEW c \in Tracked, RolloutStatus(c) PROVE Inv'
    <2>1. ChildrenTyped'
        BY <1>0, <1>3 DEF RolloutStatus, ChildrenTyped
    <2>2. budget' \in [Events -> Nat]
        BY <1>0, <1>3, SpendTyped DEF RolloutStatus, Events
    <2> QED BY ZenonT(30), <1>0, <1>1, <1>3, <2>1, <2>2 DEF RolloutStatus, PodsTyped, CountersTyped
<1>4. ASSUME NEW text \in SignalTexts, SignalWritten(text) PROVE Inv'
    <2>1. ChildrenTyped'
        BY <1>0, <1>4, StoreChildFacts DEF SignalWritten
    <2>2. budget' \in [Events -> Nat]
        BY <1>0, <1>4, SpendTyped DEF SignalWritten, Events
    <2> QED BY <1>0, <1>1, <1>4, <2>1, <2>2 DEF SignalWritten, PodsTyped, CountersTyped
<1>5. ASSUME NEW p \in Pods, NEW state \in {"none", "unready", "ready"}, PodChange(p, state)
      PROVE  Inv'
    <2>1. PodsTyped' /\ ChildrenTyped'
        BY <1>0, <1>5 DEF PodChange, PodsTyped, ChildrenTyped, childVars
    <2>2. budget' \in [Events -> Nat]
        BY <1>0, <1>5, SpendTyped DEF PodChange, Events
    <2> QED BY ZenonT(30), <1>0, <1>1, <1>5, <2>1, <2>2 DEF PodChange, CountersTyped
<1>6. CASE Tick
    <2>1. PodsTyped' /\ ChildrenTyped' /\ now' \in Nat
        <3>1. UNCHANGED <<childVars, podVars>> /\ now' = now + 1 /\ now \in Nat
            BY ZenonT(30), <1>0, <1>6 DEF Tick, CountersTyped
        <3>2. PodsTyped' /\ ChildrenTyped'
            BY ZenonT(30), <1>0, <3>1 DEF PodsTyped, ChildrenTyped, podVars, childVars
        <3> QED BY <3>1, <3>2
    <2>2. budget' \in [Events -> Nat]
        BY <1>0, <1>6, SpendTyped DEF Tick, Events
    <2> QED BY <1>1, <1>6, <2>1, <2>2 DEF Tick
<1> QED BY <1>2, <1>3, <1>4, <1>5, <1>6

\* A restart forgets the queue and the timer, and finds the resource again.
LEMMA RestartInv == Inv /\ Restart => Inv'
<1> SUFFICES ASSUME Inv, Restart PROVE Inv'
    OBVIOUS
<1>0. /\ ResourceTyped /\ ChildrenTyped /\ PodsTyped /\ CountersTyped /\ ObservedBounds
    BY DEF Inv, TypeOK
<1>1. WorkerTyped' /\ pc' = "idle" /\ held' = FALSE
    BY FinishFacts DEF Restart
<1>2. ResourceTyped' /\ CacheCoherent'
    BY <1>0 DEF Restart, ResourceTyped, CacheCoherent
<1>3. ChildrenTyped' /\ PodsTyped'
    BY <1>0 DEF Restart, ChildrenTyped, PodsTyped
<1>4. budget' \in [Events -> Nat]
    BY <1>0, SpendTyped DEF Restart, Events
<1>5. /\ queued' = (cr # NotFound \/ \E c \in Tracked \cap Owned : child[c] # Absent)
      /\ timer' = FALSE /\ now' = now /\ cr' = cr
    BY DEF Restart
<1>6. CountersTyped'
    BY <1>0, <1>4, <1>5 DEF CountersTyped
<1>7. NeverForgotten' /\ WorkUnderFinalizer' /\ ObservedBounds'
    BY <1>0, <1>1, <1>5 DEF NeverForgotten, WorkUnderFinalizer, ObservedBounds
<1> QED BY <1>1, <1>2, <1>3, <1>6, <1>7 DEF Inv, TypeOK

\* A step that changes nothing.
LEMMA StutterInv == Inv /\ UNCHANGED vars => Inv'
<1> SUFFICES ASSUME Inv, UNCHANGED vars PROVE Inv'
    OBVIOUS
<1>0. UNCHANGED <<crVars, childVars, podVars, queueVars, workVars, now, budget>>
    BY DEF vars
<1>1. ResourceTyped'
    BY <1>0 DEF crVars, Inv, TypeOK, ResourceTyped
<1>2. ChildrenTyped'
    BY <1>0 DEF childVars, Inv, TypeOK, ChildrenTyped
<1>3. PodsTyped' /\ CountersTyped'
    BY <1>0 DEF podVars, queueVars, Inv, TypeOK, PodsTyped, CountersTyped
<1>4. WorkerTyped'
    BY <1>0 DEF workVars, Inv, TypeOK, WorkerTyped
<1>5. CacheCoherent' /\ NeverForgotten' /\ WorkUnderFinalizer' /\ ObservedBounds'
    BY <1>0 DEF crVars, queueVars, workVars, Inv, CacheCoherent, NeverForgotten,
       WorkUnderFinalizer, ObservedBounds
<1> QED BY <1>1, <1>2, <1>3, <1>4, <1>5 DEF Inv, TypeOK

LEMMA NextInv == Inv /\ [Next]_vars => Inv'
<1> SUFFICES ASSUME Inv, [Next]_vars PROVE Inv'
    OBVIOUS
<1>1. CASE Work
    BY <1>1, BeginReconcileInv, RemoveFinalizerInv, AddFinalizerInv, ReconcileChildInv,
       ReadSignalsInv, PatchStatusInv, requeueDegradedInv DEF Work
<1>2. CASE CacheSync \/ PodSync \/ TimerFires \/ \E c \in Tracked : ChildSync(c)
    BY ZenonT(30), <1>2, InformersInv
<1>3. CASE Environment
    BY <1>3, UserEditInv, UserDeleteInv, OthersInv, RestartInv DEF Environment
<1>4. CASE UNCHANGED vars
    BY <1>4, StutterInv
<1> QED BY <1>1, <1>2, <1>3, <1>4 DEF Next

-----------------------------------------------------------------------------
(* The theorems *)

\* Inv is an invariant of the operator, for every instance.
THEOREM Invariance == Spec => []Inv
<1>1. Init => Inv
    BY InitInv
<1>2. Inv /\ [Next]_vars => Inv'
    BY NextInv
<1> QED BY <1>1, <1>2, PTL DEF Spec

\* Every variable keeps its type.
THEOREM TypeCorrect == Spec => []TypeOK
<1>1. Inv => TypeOK
    BY DEF Inv
<1> QED BY <1>1, Invariance, PTL

\* The operator never forgets a resource: whatever API call fails and whenever
\* the process restarts, something is left that will make it reconcile again.
THEOREM ResourceNeverForgotten == Spec => []NeverForgotten
<1>1. Inv => NeverForgotten
    BY DEF Inv
<1> QED BY <1>1, Invariance, PTL

\* A child is only ever created by the worker, and only while the finalizer
\* keeps the resource on the server.
THEOREM ChildrenUnderFinalizer == Spec => ChildrenOnlyUnderFinalizer
<1> DEFINE A == \A c \in Tracked :
                    child[c] = Absent /\ child'[c] # Absent => cr # NotFound /\ cr.fin
<1>1. ASSUME Inv, Next PROVE A
    <2> SUFFICES ASSUME NEW c \in Tracked, child[c] = Absent, child'[c] # Absent
                 PROVE  cr # NotFound /\ cr.fin
        OBVIOUS
    <2>0. DOMAIN child = Tracked
        BY <1>1 DEF Inv, TypeOK, ChildrenTyped
    <2>1. child' # child
        OBVIOUS
    <2>2. ASSUME NEW d \in Tracked, NEW new, StoreChild(d, new), new = Absent \/ child[d] # Absent
          PROVE  FALSE
        BY <2>0, <2>2 DEF StoreChild
    <2>3. ASSUME NEW text \in SignalTexts, SignalWritten(text) PROVE FALSE
        BY <2>0, <2>3 DEF SignalWritten, StoreChild
    <2>4. ReconcileChild
        <3>1. CASE Work
            BY <2>1, <3>1 DEF Work, BeginReconcile, RemoveFinalizer, AddFinalizer, ReadSignals,
               PatchStatus, requeueDegraded, childVars
        <3>2. CASE CacheSync \/ PodSync \/ TimerFires \/ \E d \in Tracked : ChildSync(d)
            BY <2>1, <3>2 DEF CacheSync, PodSync, TimerFires, ChildSync, childVars
        <3>3. CASE Environment
            BY <2>1, <2>2, <2>3, <3>3 DEF Environment, UserEdit, UserDelete, ChildDrift,
               RolloutStatus, GarbageCollect, PodChange, Restart, Tick, childVars
        <3> QED BY <1>1, <3>1, <3>2, <3>3 DEF Next
    <2> QED BY <1>1, <2>4 DEF ReconcileChild, Inv, WorkUnderFinalizer
<1>2. Inv /\ [Next]_vars => [A]_vars
    BY <1>1
<1> QED BY <1>2, Invariance, PTL DEF Spec, ChildrenOnlyUnderFinalizer

\* A resource that is gone stays gone, and only the two ends of a
\* reconciliation write its status.
LEMMA StatusStays ==
    ASSUME Inv, Next, cr' # NotFound
    PROVE  cr # NotFound /\ (cr'.status = cr.status \/ PatchStatus \/ requeueDegraded)
<1>0. cr # NotFound
    <2>1. held => cr # NotFound
        BY DEF Inv, WorkUnderFinalizer
    <2>2. pc \in {"child", "readSignals", "status", "degraded"} => cr # NotFound
        BY DEF Inv, WorkUnderFinalizer
    <2>3. CASE Work
        BY ZenonT(30), <2>1, <2>2, <2>3
           DEF Work, BeginReconcile, RemoveFinalizer, AddFinalizer, ReconcileChild,
           ReadSignals, PatchStatus, requeueDegraded, crVars
    <2>4. CASE CacheSync \/ PodSync \/ TimerFires \/ \E c \in Tracked : ChildSync(c)
        BY <2>4 DEF CacheSync, PodSync, TimerFires, ChildSync, crVars
    <2>5. CASE Environment
        BY <2>5 DEF Environment, UserEdit, UserDelete, ChildDrift, RolloutStatus, GarbageCollect,
           SignalWritten, PodChange, Restart, Tick, crVars
    <2> QED BY <2>3, <2>4, <2>5 DEF Next
<1>1. TypeOK /\ IsResource(cr)
    BY <1>0 DEF Inv, TypeOK, ResourceTyped
<1>2. CASE BeginReconcile
    <2>1. CASE cr' = cr
        BY <1>0, <2>1
    <2>2. ASSUME crCache # NotFound, NEW r \in Replies, PersistDefaults(r)
          PROVE  cr'.status = cr.status
        <3>1. DefaultsPatched.status = cr.status
            BY <1>0, <1>1, <2>2, DefaultsFacts
        <3>2. cr' = IF r = "error" THEN cr ELSE DefaultsPatched
            BY <2>2 DEF PersistDefaults, StoreCR
        <3> QED BY <3>1, <3>2
    <2> QED BY <1>0, <1>2, <2>1, <2>2 DEF BeginReconcile, crVars
<1>3. CASE AddFinalizer
    <2>1. IsSpec(obj.spec)
        BY <1>3, WorkingFacts DEF AddFinalizer, IsResource
    <2>2. WithSpec(cr, obj.spec).status = cr.status /\ IsResource(WithSpec(cr, obj.spec))
        BY <1>1, <2>1, WithSpecTyped
    <2>3. [WithSpec(cr, obj.spec) EXCEPT !.fin = TRUE].status = cr.status
        BY <2>2 DEF IsResource
    <2>4. cr' = cr \/ cr' = [WithSpec(cr, obj.spec) EXCEPT !.fin = TRUE]
        BY <1>3 DEF AddFinalizer, StoreCR, crVars
    <2> QED BY <1>0, <2>3, <2>4
<1>4. ASSUME NEW f \in Fields, NEW v \in FieldValues[f], UserEdit(f, v)
      PROVE  cr'.status = cr.status
    <2>1. IsSpec([cr.spec EXCEPT ![f] = v])
        BY ZenonT(30), <1>1 DEF IsResource, IsSpec, FieldRange
    <2>2. WithSpec(cr, [cr.spec EXCEPT ![f] = v]).status = cr.status
        BY <1>1, <2>1, WithSpecTyped
    <2> QED BY <1>4, <2>2 DEF UserEdit, StoreCR
<1>5. CASE UserDelete
    <2>1. cr' = [cr EXCEPT !.del = TRUE, !.gen = @ + 1]
        BY <1>5 DEF UserDelete, StoreCR
    <2> QED BY <1>0, <1>1, <2>1 DEF IsResource
<1>6. CASE RemoveFinalizer \/ ReconcileChild \/ ReadSignals
    <2>1. cr' = cr
        BY ZenonT(30), <1>6 DEF RemoveFinalizer, ReconcileChild, ReadSignals, StoreCR, crVars
    <2> QED BY <1>0, <2>1
<1>7. CASE CacheSync \/ PodSync \/ TimerFires \/ \E c \in Tracked : ChildSync(c)
    <2>1. cr' = cr
        BY <1>7 DEF CacheSync, PodSync, TimerFires, ChildSync, crVars
    <2> QED BY <1>0, <2>1
<1>8. CASE \/ \E c \in Tracked : \E new \in {Absent, Spoiled} : ChildDrift(c, new)
           \/ \E c \in Tracked : RolloutStatus(c) \/ GarbageCollect(c)
           \/ \E text \in SignalTexts : SignalWritten(text)
           \/ \E p \in Pods, state \in {"none", "unready", "ready"} : PodChange(p, state)
           \/ Restart
           \/ Tick
    <2>1. cr' = cr
        BY <1>8 DEF ChildDrift, RolloutStatus, GarbageCollect, SignalWritten, PodChange, Restart,
           Tick, crVars
    <2> QED BY <1>0, <2>1
<1> QED BY <1>0, <1>2, <1>3, <1>4, <1>5, <1>6, <1>7, <1>8 DEF Next, Work, Environment

\* The end of a reconciliation moves the observed generation, and forward.
LEMMA ObservedStep ==
    ASSUME Inv, Next, cr' # NotFound
    PROVE  cr.status.observedGeneration <= cr'.status.observedGeneration
<1>0. cr # NotFound /\ cr.status.observedGeneration \in Nat
    BY StatusStays DEF Inv, TypeOK, ResourceTyped, IsResource, IsStatus
<1>1. CASE cr'.status = cr.status
    BY <1>0, <1>1
<1>2. CASE PatchStatus
    <2>1. CASE UNCHANGED crVars
        BY <1>1, <2>1 DEF crVars
    <2>2. ASSUME NEW r \in Replies, Reply(r),
                 StoreCR(IF r = "error" THEN cr
                         ELSE [cr EXCEPT !.status = MergePatched(orig.status, Reconciled, @)])
          PROVE  cr.status.observedGeneration <= cr'.status.observedGeneration
        BY <1>2, <2>2, ReconciledFacts, StatusStored DEF PatchStatus
    <2> QED BY <1>2, <2>1, <2>2 DEF PatchStatus
<1>3. CASE requeueDegraded
    <2>1. CASE UNCHANGED crVars
        BY <1>1, <2>1 DEF crVars
    <2>2. ASSUME NEW r \in Replies, Reply(r),
                 StoreCR(IF r = "error" THEN cr
                         ELSE [cr EXCEPT !.status = [obj.status EXCEPT
                                    !.conditions = WithConditions(@, "False", "True")]])
          PROVE  cr.status.observedGeneration <= cr'.status.observedGeneration
        BY <1>3, <2>2, DegradedFacts, StatusStored DEF requeueDegraded
    <2> QED BY <1>3, <2>1, <2>2 DEF requeueDegraded
<1> QED BY <1>1, <1>2, <1>3, StatusStays

\* status.observedGeneration only moves forward, and never past the generation
\* of the resource, although the status patch may carry no resource version.
THEOREM ObservedNeverGoesBack == Spec => ObservedGenerationAdvances
<1> DEFINE B == cr # NotFound /\ cr' # NotFound =>
                    /\ cr.status.observedGeneration <= cr'.status.observedGeneration
                    /\ cr'.status.observedGeneration <= cr'.gen
<1>1. Inv /\ Inv' /\ [Next]_vars => [B]_vars
    BY ObservedStep DEF Inv, ObservedBounds
<1> QED BY <1>1, Invariance, PTL DEF Spec, ObservedGenerationAdvances
=============================================================================
