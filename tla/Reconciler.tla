----------------------------- MODULE Reconciler -----------------------------
(***************************************************************************)
(* LLMInferenceClusterReconciler for one LLMInferenceCluster: the worker   *)
(* that runs Reconcile, its work queue, the informer caches it reads from, *)
(* and the API server it writes to, with a user, pods, transient API       *)
(* errors and operator restarts around it.                                 *)
(*                                                                         *)
(* Reads come from the informers' caches, writes go to the API server. One *)
(* step of the worker is one API call with the cache reads before it: a    *)
(* change that falls between a cache read and the call is the same as a    *)
(* cache that was already stale, which the model has anyway.               *)
(***************************************************************************)
EXTENDS KubeClient, Autoscaler, ShardMap

CONSTANTS
    Tracked,        \* the child objects of this instance
    InitSpecs,      \* the specs the resource may be created with
    FieldValues,    \* for each spec field, the values the user may give it
    SignalTexts,    \* what the user may write as queueDepth
    Budget          \* how often each event of the environment may happen

\* The fields Reconcile fills in when they are not set, with their defaults.
Defaults ==
    [ mode |-> "sessionAffinity", hashKey |-> "conversationId", routerReplicas |-> 1,
      decodePort |-> 8000, prefillPort |-> 8001,
      strategy |-> "sharded", numShards |-> 8, evictionPolicy |-> "lru", warmCache |-> "none" ]

\* The fields of spec the controller reads.
Fields ==
    DOMAIN Defaults \cup
    { "image", "decodeReplicas", "prefillReplicas", "enabled", "minReplicas", "maxReplicas",
      "source" }

\* The objects Reconcile keeps in step with the spec, in its order.
Order ==
    << "signals", "decodeService", "prefillService", "routerService",
       "routerServiceAccount", "routerRole", "routerRoleBinding",
       "decodeDeployment", "prefillDeployment", "routerDeployment", "shardmap" >>

Children == { Order[i] : i \in DOMAIN Order }

\* SetupWithManager: a change of one of these wakes the controller up.
Owned == Children \ {"routerServiceAccount", "routerRole", "routerRoleBinding"}

Deployments == {"decodeDeployment", "prefillDeployment", "routerDeployment"}

Mut_Rewritten == {}

\* The mutate functions of the Deployments set container ports without the
\* protocol that the API server fills in, so an Update is always sent.
Rewritten == Deployments

Events == {"edit", "delete", "drift", "rollout", "pod", "signal", "fault", "crash", "tick"}

\* A resource that does not exist: the server counts generations from 1.
NotFound == [gen |-> 0]

\* The values a field of the spec can come to have.
FieldRange ==
    [f \in Fields |->
        {Nil} \cup FieldValues[f] \cup { init[f] : init \in InitSpecs } \cup
        (IF f \in DOMAIN Defaults THEN {Defaults[f]} ELSE {})]

IsSpec(s) == DOMAIN s = Fields /\ \A f \in Fields : s[f] \in FieldRange[f]

ASSUME ReconcilerAssumption ==
    /\ Tracked \subseteq Children
    /\ \A s \in InitSpecs : DOMAIN s = Fields
    /\ DOMAIN FieldValues = Fields
    /\ Budget \in [Events -> Nat]

VARIABLES
    cr,         \* the custom resource on the API server, or NotFound
    crCache,    \* the informer's copy of it
    crFresh,    \* whether that copy is the server's latest version
    child,      \* the child objects on the API server
    childCache, \* the informers' copies of them
    childFresh, \* which of these are the server's latest versions
    pods,       \* the decode pods: "none", "unready" or "ready"
    podCache,   \* the informer's copy of them
    queued,     \* whether the resource is in the work queue
    timer,      \* whether a RequeueAfter is pending
    pc,         \* the API call the worker makes next
    at,         \* the child it works on, as an index of Order
    obj,        \* its in-memory copy of the resource (`cluster')
    orig,       \* the copy it was started with (`original')
    moved,      \* whether obj and orig have different resource versions
    held,       \* whether obj has the server's latest resource version
    replicas,   \* decodeOverrideReplicas
    now,        \* the clock, in the seconds of metav1.Time
    budget      \* what is left of Budget

crVars    == <<cr, crCache, crFresh>>
childVars == <<child, childCache, childFresh>>
podVars   == <<pods, podCache>>
queueVars == <<queued, timer>>
workVars  == <<pc, at, obj, orig, moved, held, replicas>>
vars == <<crVars, childVars, podVars, queueVars, workVars, now, budget>>

-----------------------------------------------------------------------------
(* Pure parts of the controller *)

WithDefaults(spec) ==
    [f \in DOMAIN spec |-> IF f \in DOMAIN Defaults THEN Deref(spec[f], Defaults[f]) ELSE spec[f]]

NoCondition == [status |-> "Unset", gen |-> 0, since |-> 0]

NewStatus ==
    [ observedGeneration |-> 0, decodeService |-> Nil, prefillService |-> Nil, shards |-> Nil,
      conditions |-> [c \in {"Ready", "Degraded", "Scaling"} |-> NoCondition] ]

AutoscalingOn(spec) == spec.enabled = TRUE

Mut_Active(c, spec) ==
    c \in Tracked \ {"prefillDeployment"} /\ (c = "signals" => AutoscalingOn(spec))

\* Whether Reconcile has this child to look after.
Active(c, spec) == c \in Tracked /\ (c = "signals" => AutoscalingOn(spec))

\* The positions of the children that are still to be reconciled after i.
StepsAfter(i, spec) == { j \in DOMAIN Order : j > i /\ Active(Order[j], spec) }

Mut_OwnersFromCache(spec) ==
    IF \A p \in Pods : podCache[p] = "none" THEN << >>
    ELSE computeShardMap(Listing({ p \in Pods : podCache[p] # "none" }),
                         [p \in Pods |-> podCache[p] = "ready"],
                         spec.numShards)

\* computeShardMap on the pods in the cache.
OwnersFromCache(spec) ==
    computeShardMap(Listing({ p \in Pods : podCache[p] # "none" }),
                    [p \in Pods |-> podCache[p] = "ready"],
                    spec.numShards)

\* The signals ConfigMap keeps the keys it has and gets the missing ones.
DesiredSignals(cached) ==
    IF cached = Absent THEN [queueDepth |-> 0, tokensPerSecond |-> 0, memPressure |-> 0]
    ELSE [k \in DOMAIN cached |-> Deref(cached[k], 0)]

\* A Service is its port; the router's are fixed.
DesiredService(c, spec) ==
    CASE c = "decodeService"  -> [port |-> spec.decodePort]
      [] c = "prefillService" -> [port |-> spec.prefillPort]
      [] c = "routerService"  -> [port |-> 8080]

\* The container port: 8000 for either role should the spec have none.
servicePortForRole(c, spec) ==
    Deref(IF c = "decodeDeployment" THEN spec.decodePort ELSE spec.prefillPort, 8000)

\* A Deployment is what its replicas and pods depend on.
DesiredDeployment(c, spec, override) ==
    CASE c = "decodeDeployment" ->
            [ replicas |-> Deref(override, Deref(spec.decodeReplicas, 1)),
              image |-> spec.image, port |-> servicePortForRole(c, spec), shards |-> spec.numShards ]
      [] c = "prefillDeployment" ->
            [ replicas |-> Deref(spec.prefillReplicas, 1),
              image |-> spec.image, port |-> servicePortForRole(c, spec), shards |-> spec.numShards ]
      [] c = "routerDeployment" ->
            [ replicas |-> spec.routerReplicas, hashKey |-> spec.hashKey,
              decodePort |-> spec.decodePort, prefillPort |-> spec.prefillPort ]

\* What the mutate function of a child makes of the cached object.
Desired(c, spec, override, cached) ==
    CASE c = "signals" -> DesiredSignals(cached)
      [] c \in {"decodeService", "prefillService", "routerService"} -> DesiredService(c, spec)
      [] c \in Deployments -> DesiredDeployment(c, spec, override)
      [] c = "shardmap" -> [owners |-> OwnersFromCache(spec)]
      [] OTHER -> [fixed |-> TRUE]      \* the router's RBAC: no field varies

\* The three outcomes of an API call the server would accept: the answer, an
\* error with nothing done, an error although it was done (the answer is lost).
Replies == {"ok", "error", "lost"}

Reply(r) ==
    \/ r = "ok" /\ UNCHANGED budget
    \/ r # "ok" /\ budget["fault"] > 0 /\ budget' = [budget EXCEPT !["fault"] = @ - 1]

Spend(e) == budget[e] > 0 /\ budget' = [budget EXCEPT ![e] = @ - 1]

-----------------------------------------------------------------------------
(* Steps that several actions share *)

\* The API server stores `new'; a write that changes nothing is no new version.
StoreCR(new) ==
    /\ cr' = new
    /\ crFresh' = (crFresh /\ new = cr)
    /\ UNCHANGED crCache

StoreChild(c, new) ==
    /\ child' = [child EXCEPT ![c] = new]
    /\ childFresh' = [childFresh EXCEPT ![c] = @ /\ new = child[c]]
    /\ UNCHANGED childCache

\* The API server counts generations of the spec.
WithSpec(resource, spec) ==
    [resource EXCEPT !.spec = spec, !.gen = IF spec = resource.spec THEN @ ELSE @ + 1]

\* Reconcile returns; its local variables are gone.
Finish ==
    /\ pc' = "idle" /\ at' = 0 /\ obj' = NotFound /\ orig' = NotFound
    /\ moved' = FALSE /\ held' = FALSE /\ replicas' = Nil

Mut_ReturnErr == Finish /\ UNCHANGED <<queued, timer>>

\* return ctrl.Result{}, err: a rate-limited requeue.
ReturnErr == Finish /\ queued' = TRUE /\ UNCHANGED timer

Mut_ReturnAfter == Finish /\ UNCHANGED <<queued, timer>>

\* return ctrl.Result{RequeueAfter: ...}, nil
ReturnAfter == Finish /\ timer' = TRUE /\ UNCHANGED queued

Mut_Proceed(i, spec) ==
    IF i = Len(Order) THEN pc' = "status" /\ at' = 0 ELSE pc' = "child" /\ at' = i + 1

\* The step that follows child number i.
Proceed(i, spec) ==
    LET rest == StepsAfter(i, spec)
    IN  IF rest = {} THEN pc' = "status" /\ at' = 0
                     ELSE pc' = "child" /\ at' \in rest /\ \A j \in rest : at' <= j

-----------------------------------------------------------------------------
(* The worker *)

Mut_DefaultsPatched ==
    [WithSpec(cr, MergePatched(crCache.spec, WithDefaults(crCache.spec), cr.spec))
        EXCEPT !.fin = FALSE]

Mut_WholeSpec == WithSpec(cr, WithDefaults(crCache.spec))

\* The resource that the merge patch of the defaults makes of the server's.
DefaultsPatched ==
    WithSpec(cr, MergePatched(crCache.spec, WithDefaults(crCache.spec), cr.spec))

\* The resource the worker holds once the response is decoded.
DefaultsDecoded ==
    [DefaultsPatched EXCEPT !.spec = DecodeInto(WithDefaults(crCache.spec), @)]

\* Reconcile up to the patch that persists the defaults, for a resource that
\* is in the cache and on the server.
PersistDefaults(r) ==
    /\ Reply(r)
    /\ StoreCR(IF r = "error" THEN cr ELSE DefaultsPatched)
    /\ IF r # "ok" THEN ReturnErr
       ELSE /\ queued' = FALSE
            /\ obj' = DefaultsDecoded
            /\ orig' = crCache
            /\ moved' = ~(crFresh /\ DefaultsPatched = cr)
            /\ held' = TRUE
            /\ replicas' = Nil
            /\ IF DefaultsPatched.del THEN pc' = "removeFinalizer" /\ at' = 0
               ELSE IF ~DefaultsPatched.fin THEN pc' = "addFinalizer" /\ at' = 0
               ELSE Proceed(0, DefaultsDecoded.spec)
            /\ UNCHANGED timer

BeginReconcile ==
    /\ pc = "idle" /\ queued
    /\ \/ /\ crCache = NotFound           \* NotFound from the cache: nothing to do
          /\ Finish /\ queued' = FALSE
          /\ UNCHANGED <<crVars, timer, budget>>
       \/ /\ crCache # NotFound /\ cr = NotFound        \* NotFound from the server
          /\ ReturnErr
          /\ UNCHANGED <<crVars, budget>>
       \/ /\ crCache # NotFound /\ cr # NotFound
          /\ \E r \in Replies : PersistDefaults(r)
    /\ UNCHANGED <<childVars, podVars, now>>

\* Deletion: the finalizer goes, and with it the resource. (A resource marked
\* for deletion that has no finalizer is never seen: the server has removed it.)
RemoveFinalizer ==
    /\ pc = "removeFinalizer"
    /\ IF ~held THEN ReturnErr /\ UNCHANGED <<crVars, budget>>     \* conflict
       ELSE \E r \in Replies :
            /\ Reply(r)
            /\ StoreCR(IF r = "error" THEN cr ELSE NotFound)
            /\ IF r = "ok" THEN Finish /\ UNCHANGED queueVars ELSE ReturnErr
    /\ UNCHANGED <<childVars, podVars, now>>

Mut_AddFinalizer ==
    /\ pc = "addFinalizer"
    /\ obj' = [obj EXCEPT !.fin = TRUE]
    /\ Proceed(0, obj.spec)
    /\ UNCHANGED <<crVars, childVars, podVars, queueVars, orig, moved, held, replicas, now, budget>>

\* An Update: it carries the whole spec the worker holds.
AddFinalizer ==
    /\ pc = "addFinalizer"
    /\ LET updated == [WithSpec(cr, obj.spec) EXCEPT !.fin = TRUE]
       IN  IF ~held THEN ReturnErr /\ UNCHANGED <<crVars, budget>>
           ELSE \E r \in Replies :
                /\ Reply(r)
                /\ StoreCR(IF r = "error" THEN cr ELSE updated)
                /\ IF r # "ok" THEN ReturnErr
                   ELSE /\ obj' = updated
                        /\ moved' = TRUE
                        /\ Proceed(0, obj.spec)
                        /\ UNCHANGED <<queueVars, orig, held, replicas>>
    /\ UNCHANGED <<childVars, podVars, now>>

Mut_BeatAhead(resource) ==
    [resource EXCEPT !.status.shards = [owners |-> OwnersFromCache(resource.spec), beat |-> now + 1]]

\* The worker's copy of the resource after it has computed the shard map: its
\* status has the new map before the ConfigMap is written.
WithShards(resource) ==
    [resource EXCEPT !.status.shards = [owners |-> OwnersFromCache(resource.spec), beat |-> now]]

\* reconcileSignalsConfigMap, reconcileRoleService, reconcileRouterService,
\* reconcileRouterRBAC, the Deployments and the shard map: CreateOrUpdate.
ReconcileChild ==
    /\ pc = "child"
    /\ LET c       == Order[at]
           desired == Desired(c, obj.spec, replicas, childCache[c])
           outcome == CreateOrUpdate(child[c], childCache[c], childFresh[c], desired,
                                     c \in Rewritten)
           Continue == IF c = "signals" THEN pc' = "readSignals" /\ UNCHANGED at
                       ELSE Proceed(at, obj.spec)
           Fail     == pc' = "degraded" /\ UNCHANGED at
       IN  /\ obj' = IF c = "shardmap" THEN WithShards(obj) ELSE obj
           /\ \/ outcome = "unchanged" /\ Continue /\ UNCHANGED <<childVars, budget>>
              \/ outcome = "rejected" /\ Fail /\ UNCHANGED <<childVars, budget>>
              \/ /\ outcome = "written"
                 /\ \E r \in Replies :
                    /\ Reply(r)
                    /\ StoreChild(c, IF r = "error" THEN child[c] ELSE desired)
                    /\ IF r = "ok" THEN Continue ELSE Fail
    /\ UNCHANGED <<crVars, podVars, queueVars, orig, moved, held, replicas, now>>

Mut_Accumulates ==
    /\ pc = "readSignals"
    /\ LET cm    == childCache["signals"]
           depth == ReadQueueDepth(cm)
           scaling == IF IsScaling(obj.spec, depth) THEN "True" ELSE "False"
           decode  == childCache["decodeDeployment"]
           running == IF decode = Absent THEN obj.spec.decodeReplicas ELSE decode.replicas
       IN  IF cm = Absent \/ ~SourceReadable(obj.spec.source)
           THEN pc' = "degraded" /\ UNCHANGED <<at, obj, replicas>>
           ELSE /\ replicas' = computeDecodeReplicas([obj.spec EXCEPT !.decodeReplicas = running], depth)
                /\ obj' = [obj EXCEPT !.status.conditions =
                            SetStatusCondition(@, "Scaling", scaling, obj.gen, now)]
                /\ Proceed(at, obj.spec)
    /\ UNCHANGED <<crVars, childVars, podVars, queueVars, orig, moved, held, now, budget>>

Mut_ReadSignals ==
    /\ pc = "readSignals"
    /\ Proceed(at, obj.spec)
    /\ UNCHANGED <<crVars, childVars, podVars, queueVars, obj, orig, moved, held, replicas, now, budget>>

\* computeDecodeReplicas and the Scaling condition. The signals are read from
\* the cache, which may not have the ConfigMap that was just created.
ReadSignals ==
    /\ pc = "readSignals"
    /\ LET cm    == childCache["signals"]
           depth == ReadQueueDepth(cm)
           scaling == IF IsScaling(obj.spec, depth) THEN "True" ELSE "False"
       IN  IF cm = Absent \/ ~SourceReadable(obj.spec.source)
           THEN pc' = "degraded" /\ UNCHANGED <<at, obj, replicas>>
           ELSE /\ replicas' = computeDecodeReplicas(obj.spec, depth)
                /\ obj' = [obj EXCEPT !.status.conditions =
                            SetStatusCondition(@, "Scaling", scaling, obj.gen, now)]
                /\ Proceed(at, obj.spec)
    /\ UNCHANGED <<crVars, childVars, podVars, queueVars, orig, moved, held, now, budget>>

Mut_WithConditions(conditions, ready, degraded) ==
    [c \in DOMAIN conditions |->
        [conditions[c] EXCEPT !.gen = obj.gen,
                              !.status = CASE c = "Ready" -> ready
                                           [] c = "Degraded" -> degraded
                                           [] OTHER -> @]]

\* setCondition for Ready and Degraded, which are always set together.
WithConditions(conditions, ready, degraded) ==
    SetStatusCondition(SetStatusCondition(conditions, "Ready", ready, obj.gen, now),
                       "Degraded", degraded, obj.gen, now)

\* The status a reconciliation that went through gives the resource.
Reconciled ==
    [ obj.status EXCEPT
        !.observedGeneration = obj.gen,
        !.decodeService = obj.spec.decodePort,
        !.prefillService = obj.spec.prefillPort,
        !.conditions = WithConditions(@, "True", "False") ]

\* Status().Patch(MergeFrom(original)). The patch carries the resource version,
\* and is checked against it, when it differs between the two copies.
PatchStatus ==
    /\ pc = "status"
    /\ IF moved /\ ~held THEN ReturnErr /\ UNCHANGED <<crVars, budget>>
       ELSE \E r \in Replies :
            /\ Reply(r)
            /\ StoreCR(IF r = "error" THEN cr
                       ELSE [cr EXCEPT !.status = MergePatched(orig.status, Reconciled, @)])
            /\ IF r = "ok" THEN ReturnAfter ELSE ReturnErr
    /\ UNCHANGED <<childVars, podVars, now>>

Mut_requeueDegraded ==
    /\ pc = "degraded"
    /\ IF ~held THEN UNCHANGED <<crVars, budget>>
       ELSE \E r \in Replies :
            /\ Reply(r)
            /\ StoreCR(IF r = "error" THEN cr
                       ELSE [cr EXCEPT !.status = [orig.status EXCEPT
                                !.conditions = WithConditions(@, "False", "True")]])
    /\ ReturnErr
    /\ UNCHANGED <<childVars, podVars, now>>

\* requeueDegraded: Status().Update, whose own error is ignored; the error of
\* the step that failed is returned.
requeueDegraded ==
    /\ pc = "degraded"
    /\ IF ~held THEN UNCHANGED <<crVars, budget>>
       ELSE \E r \in Replies :
            /\ Reply(r)
            /\ StoreCR(IF r = "error" THEN cr
                       ELSE [cr EXCEPT !.status = [obj.status EXCEPT
                                !.conditions = WithConditions(@, "False", "True")]])
    /\ ReturnErr
    /\ UNCHANGED <<childVars, podVars, now>>

Work ==
    \/ BeginReconcile \/ RemoveFinalizer \/ AddFinalizer
    \/ ReconcileChild \/ ReadSignals \/ PatchStatus \/ requeueDegraded

-----------------------------------------------------------------------------
(* Informers and timers of the operator *)

\* The informer catches up with the resource and queues it.
CacheSync ==
    /\ ~crFresh
    /\ crCache' = cr /\ crFresh' = TRUE /\ queued' = TRUE
    /\ UNCHANGED <<cr, childVars, podVars, timer, workVars, now, budget>>

\* The informer of a child catches up; the owner is queued if the kind is watched.
ChildSync(c) ==
    /\ ~childFresh[c]
    /\ childCache' = [childCache EXCEPT ![c] = child[c]]
    /\ childFresh' = [childFresh EXCEPT ![c] = TRUE]
    /\ queued' = (queued \/ c \in Owned)
    /\ UNCHANGED <<crVars, child, podVars, timer, workVars, now, budget>>

\* Pods are listed from a cache too, and not watched.
PodSync ==
    /\ podCache # pods
    /\ podCache' = pods
    /\ UNCHANGED <<crVars, childVars, pods, queueVars, workVars, now, budget>>

TimerFires ==
    /\ timer
    /\ timer' = FALSE /\ queued' = TRUE
    /\ UNCHANGED <<crVars, childVars, podVars, workVars, now, budget>>

-----------------------------------------------------------------------------
(* The environment *)

\* The user sets, changes or removes a field of the spec.
UserEdit(f, v) ==
    /\ cr # NotFound /\ v # cr.spec[f]
    /\ Spend("edit")
    /\ StoreCR(WithSpec(cr, [cr.spec EXCEPT ![f] = v]))
    /\ held' = FALSE
    /\ UNCHANGED <<childVars, podVars, queueVars, pc, at, obj, orig, moved, replicas, now>>

\* The user deletes the resource: with a finalizer it is only marked.
UserDelete ==
    /\ cr # NotFound /\ ~cr.del
    /\ Spend("delete")
    /\ StoreCR(IF cr.fin THEN [cr EXCEPT !.del = TRUE, !.gen = @ + 1] ELSE NotFound)
    /\ held' = FALSE
    /\ UNCHANGED <<childVars, podVars, queueVars, pc, at, obj, orig, moved, replicas, now>>

\* Somebody deletes or changes a child behind the operator's back. (Changes of
\* the signals ConfigMap are SignalWritten.)
ChildDrift(c, new) ==
    /\ cr # NotFound /\ child[c] \notin {Absent, new}
    /\ c = "signals" => new = Absent
    /\ Spend("drift")
    /\ StoreChild(c, new)
    /\ UNCHANGED <<crVars, podVars, queueVars, workVars, now>>

\* The deployment controller writes the status of a Deployment: a new version,
\* with nothing changed that the operator sets.
RolloutStatus(c) ==
    /\ c \in Rewritten /\ child[c] # Absent /\ childFresh[c]
    /\ Spend("rollout")
    /\ childFresh' = [childFresh EXCEPT ![c] = FALSE]
    /\ UNCHANGED <<crVars, child, childCache, podVars, queueVars, workVars, now>>

\* Somebody writes queueDepth in the signals ConfigMap, or removes it.
SignalWritten(text) ==
    /\ "signals" \in Tracked /\ child["signals"] # Absent
    /\ child["signals"].queueDepth # text
    /\ Spend("signal")
    /\ StoreChild("signals", [child["signals"] EXCEPT !.queueDepth = text])
    /\ UNCHANGED <<crVars, podVars, queueVars, workVars, now>>

\* A decode pod appears, becomes ready or unready, or goes away.
PodChange(p, state) ==
    /\ pods[p] # state
    /\ Spend("pod")
    /\ pods' = [pods EXCEPT ![p] = state]
    /\ UNCHANGED <<crVars, childVars, podCache, queueVars, workVars, now>>

\* The owner is gone: its children are collected, each in its time.
GarbageCollect(c) ==
    /\ cr = NotFound /\ child[c] # Absent
    /\ StoreChild(c, Absent)
    /\ UNCHANGED <<crVars, podVars, queueVars, workVars, now, budget>>

\* The operator dies and comes back: queue, timers and the worker's state are
\* lost, the caches are listed anew and everything found is queued.
Restart ==
    /\ Spend("crash")
    /\ Finish
    /\ timer' = FALSE
    /\ queued' = (cr # NotFound \/ \E c \in Tracked \cap Owned : child[c] # Absent)
    /\ crCache' = cr /\ crFresh' = TRUE
    /\ childCache' = child /\ childFresh' = [c \in Tracked |-> TRUE]
    /\ podCache' = pods
    /\ UNCHANGED <<cr, child, pods, now>>

Tick ==
    /\ Spend("tick")
    /\ now' = now + 1
    /\ UNCHANGED <<crVars, childVars, podVars, queueVars, workVars>>

Environment ==
    \/ \E f \in Fields : \E v \in FieldValues[f] : UserEdit(f, v)
    \/ UserDelete
    \/ \E c \in Tracked : \E new \in {Absent, Spoiled} : ChildDrift(c, new)
    \/ \E c \in Tracked : RolloutStatus(c) \/ GarbageCollect(c)
    \/ \E text \in SignalTexts : SignalWritten(text)
    \/ \E p \in Pods, state \in {"none", "unready", "ready"} : PodChange(p, state)
    \/ Restart
    \/ Tick

-----------------------------------------------------------------------------
\* The user has just created the resource; the operator is up and idle.
Init ==
    /\ \E spec \in InitSpecs :
        cr = [spec |-> spec, gen |-> 1, fin |-> FALSE, del |-> FALSE, status |-> NewStatus]
    /\ crCache = NotFound /\ crFresh = FALSE
    /\ child = [c \in Tracked |-> Absent]
    /\ childCache = child /\ childFresh = [c \in Tracked |-> TRUE]
    /\ pods = [p \in Pods |-> "none"] /\ podCache = pods
    /\ queued = FALSE /\ timer = FALSE
    /\ pc = "idle" /\ at = 0 /\ obj = NotFound /\ orig = NotFound
    /\ moved = FALSE /\ held = FALSE /\ replicas = Nil
    /\ now = 0
    /\ budget = Budget

Next ==
    \/ Work
    \/ CacheSync \/ PodSync \/ TimerFires \/ (\E c \in Tracked : ChildSync(c))
    \/ Environment

Spec == Init /\ [][Next]_vars

\* The worker, the informers, the timers and the garbage collector keep going;
\* nothing is assumed of users, pods, faults, restarts and the clock.
Fairness ==
    /\ WF_vars(Work)
    /\ WF_vars(CacheSync) /\ WF_vars(PodSync) /\ WF_vars(TimerFires)
    /\ \A c \in Tracked : WF_vars(ChildSync(c)) /\ WF_vars(GarbageCollect(c))

FairSpec == Spec /\ Fairness

-----------------------------------------------------------------------------
(* Properties *)

IsConditions(cs) ==
    /\ DOMAIN cs = {"Ready", "Degraded", "Scaling"}
    /\ \A c \in {"Ready", "Degraded", "Scaling"} :
        cs[c].status \in {"Unset", "True", "False"} /\ cs[c].gen \in Nat /\ cs[c].since \in Nat

IsStatus(s) ==
    /\ DOMAIN s = {"observedGeneration", "decodeService", "prefillService", "shards", "conditions"}
    /\ s.observedGeneration \in Nat
    /\ IsConditions(s.conditions)

IsResource(r) ==
    /\ DOMAIN r = {"spec", "gen", "fin", "del", "status"}
    /\ r.gen \in Nat \ {0} /\ r.fin \in BOOLEAN /\ r.del \in BOOLEAN
    /\ IsSpec(r.spec)
    /\ IsStatus(r.status)

ResourceTyped ==
    /\ cr = NotFound \/ IsResource(cr)
    /\ crCache = NotFound \/ IsResource(crCache)
    /\ crFresh \in BOOLEAN

ChildrenTyped ==
    /\ DOMAIN child = Tracked /\ DOMAIN childCache = Tracked
    /\ childFresh \in [Tracked -> BOOLEAN]

PodsTyped ==
    /\ pods \in [Pods -> {"none", "unready", "ready"}]
    /\ podCache \in [Pods -> {"none", "unready", "ready"}]

WorkerTyped ==
    /\ pc \in {"idle", "removeFinalizer", "addFinalizer", "child", "readSignals",
               "status", "degraded"}
    /\ at \in 0 .. Len(Order)
    /\ pc = "child" => at # 0 /\ Order[at] \in Tracked
    /\ IF pc = "idle" THEN obj = NotFound /\ orig = NotFound ELSE IsResource(obj) /\ IsResource(orig)
    /\ moved \in BOOLEAN /\ held \in BOOLEAN

CountersTyped ==
    /\ queued \in BOOLEAN /\ timer \in BOOLEAN
    /\ now \in Nat
    /\ budget \in [Events -> Nat]

\* Every variable has its type; in particular the worker holds a resource
\* exactly while a reconciliation is under way, and works on tracked children.
TypeOK == ResourceTyped /\ ChildrenTyped /\ PodsTyped /\ WorkerTyped /\ CountersTyped

\* A resource is never forgotten: whatever fails, and whenever the operator
\* restarts, it is queued, being worked on, waiting for its 30 seconds, or has
\* a change the informer has yet to deliver.
NeverForgotten ==
    cr # NotFound => queued \/ timer \/ pc # "idle" \/ ~crFresh

\* No child is created before the finalizer is on the server or after the
\* resource is gone, even when the user deletes it in the middle of Reconcile.
ChildrenOnlyUnderFinalizer ==
    [][ \A c \in Tracked : child[c] = Absent /\ child'[c] # Absent => cr # NotFound /\ cr.fin ]_vars

\* status.observedGeneration never goes back and never runs ahead, although
\* the status patch may be made from a stale copy and without a version check.
ObservedGenerationAdvances ==
    [][ cr # NotFound /\ cr' # NotFound =>
            /\ cr.status.observedGeneration <= cr'.status.observedGeneration
            /\ cr'.status.observedGeneration <= cr'.gen ]_vars

\* Nobody else has deleted or changed a child so far.
Undisturbed == budget["drift"] = Budget["drift"]

\* A Deployment is as the spec wants it, up to replicas the autoscaler decides.
Conforms(c, deployment, spec) ==
    LET override == IF c = "decodeDeployment" /\ AutoscalingOn(spec)
                    THEN deployment.replicas ELSE Nil
    IN  deployment = DesiredDeployment(c, spec, override)

\* "observedGeneration is the last generation acted on by the controller": once
\* it is the current one, no Deployment is left as an earlier spec wanted it,
\* unless somebody else has touched it.
ObservedIsActedOn ==
    cr # NotFound /\ cr.status.observedGeneration = cr.gen /\ Undisturbed =>
        \A c \in Tracked \cap Deployments : child[c] # Absent => Conforms(c, child[c], cr.spec)

\* Reconciling the signals ConfigMap never overwrites a signal somebody wrote,
\* even one written after the informer last saw the ConfigMap.
SignalsKept ==
    [][ ReconcileChild /\ Order[at] = "signals" /\ child["signals"] # Absent =>
            \A k \in DOMAIN child["signals"] :
                child["signals"][k] # Nil => child'["signals"][k] = child["signals"][k] ]_vars

\* The resource is reported Ready only once every child it calls for has been
\* created, whichever step of Reconcile failed or conflicted before.
ReadyMeansComplete ==
    cr # NotFound /\ cr.status.conditions["Ready"].status = "True" /\ Undisturbed
            => \A c \in Tracked \ {"signals"} : child[c] # Absent

\* Nothing resets the Scaling condition when autoscaling is switched off. But it
\* then carries an earlier generation: a reader is never told that the current
\* spec, which does not scale, is scaling, even when the edit comes between the
\* decision and the patch of the status.
ScalingOfGeneration ==
    cr # NotFound /\ cr.status.conditions["Scaling"].gen = cr.gen => AutoscalingOn(cr.spec)

\* Ready and Degraded say the same, of one generation that is neither older than
\* the observed one nor newer than the resource, and true of the observed one only.
Consistent(r) ==
    LET ready    == r.status.conditions["Ready"]
        degraded == r.status.conditions["Degraded"]
    IN  /\ <<ready.status, degraded.status>> \in
                {<<"Unset", "Unset">>, <<"True", "False">>, <<"False", "True">>}
        /\ ready.gen = degraded.gen
        /\ r.status.observedGeneration <= ready.gen /\ ready.gen <= r.gen
        /\ ready.status = "True" => ready.gen = r.status.observedGeneration

\* The status patch carries only the fields that differ from a copy that may be
\* stale, and may carry no version; still the server never gets the outcome of
\* one reconciliation beside the observed generation of another.
StatusConsistent == cr # NotFound => Consistent(cr)

\* What a user has set is lost only to the patch of the defaults, and only when it
\* is made from a stale copy in which that field was not set: the other writes of
\* the operator, the Update that adds the finalizer included, change no set field.
EditsLostOnlyToDefaults ==
    [][ Work /\ cr # NotFound /\ cr' # NotFound =>
            \A f \in Fields : cr.spec[f] # Nil /\ cr'.spec[f] # cr.spec[f] =>
                /\ pc = "idle" /\ ~crFresh /\ crCache.spec[f] = Nil
                /\ f \in DOMAIN Defaults /\ cr'.spec[f] = Defaults[f] ]_vars

\* A count is inside the bounds of the spec, or the maximum if they are crossed.
WithinBounds(n, spec) ==
    IF MinBound(spec) <= MaxBound(spec) THEN n >= MinBound(spec) /\ n <= MaxBound(spec)
                                        ELSE n = MaxBound(spec)

\* With autoscaling, a decode Deployment beside a status that observes the current
\* generation is inside the bounds of that generation's spec, also when bounds and
\* signals change between the decision, the write of the Deployment and the status.
ScaledWithinBounds ==
    cr # NotFound /\ cr.status.observedGeneration = cr.gen /\ Undisturbed =>
        (Active("signals", cr.spec) /\ "decodeDeployment" \in Tracked =>
            (child["decodeDeployment"] # Absent =>
                WithinBounds(child["decodeDeployment"].replicas, cr.spec)))

Reports(ready, degraded) ==
    /\ cr.status.conditions["Ready"].status = ready
    /\ cr.status.conditions["Degraded"].status = degraded

\* The replicas the autoscaler decides on for the signals there are.
Decided ==
    IF Active("signals", cr.spec)
    THEN computeDecodeReplicas(cr.spec, ReadQueueDepth(child["signals"])) ELSE Nil

\* What is on the server is what the spec asks for, and the status says so.
InSync ==
    LET scaled == Active("signals", cr.spec)
        depth  == ReadQueueDepth(child["signals"])
        wanted == { c \in Tracked : Active(c, cr.spec) }
    IN  /\ \A c \in wanted : child[c] # Absent
        /\ \A c \in wanted : child[c] = Desired(c, cr.spec, Decided, child[c])
        /\ cr.status.observedGeneration = cr.gen
        /\ cr.status.decodeService = cr.spec.decodePort
        /\ cr.status.prefillService = cr.spec.prefillPort
        /\ Reports("True", "False")
        /\ scaled => cr.status.conditions["Scaling"].status =
                        IF IsScaling(cr.spec, depth) THEN "True" ELSE "False"
        /\ "shardmap" \in Tracked => cr.status.shards.owners = child["shardmap"].owners

\* Autoscaling wants signals from a source that cannot be read.
Blocked == Active("signals", cr.spec) /\ ~SourceReadable(cr.spec.source)

Settled ==
    IF cr = NotFound THEN \A c \in Tracked : child[c] = Absent
    ELSE /\ ~cr.del /\ cr.fin
         /\ IF Blocked THEN Reports("False", "True") /\ cr.status.observedGeneration # cr.gen
                       ELSE InSync

\* Once users, pods, faults and restarts leave it alone, the system settles:
\* either the resource and all its children are gone, or children and status
\* are what the spec, the signals and the pods call for, or the source of the
\* signals cannot be read and the status reports this, for as long as it lasts.
Converges == <>[]Settled

\* And then, within one second of the clock (lastHeartbeat has no finer unit, and
\* the model's clock ends with its budget), the operator stops writing: a status
\* update queues the resource again, and the reconciliation it causes writes nothing.
Quiesces == <>[][UNCHANGED <<cr, child>>]_vars

\* Setting this condition once more leaves the conditions as they are.
KeepsCondition(type, status) ==
    SetStatusCondition(cr.status.conditions, type, status, cr.gen, now) = cr.status.conditions

\* What Reconcile would make of the resource and of its children is what they are.
FixedPoint ==
    /\ cr # NotFound /\ ~cr.del /\ cr.fin /\ ~Blocked /\ InSync
    /\ WithDefaults(cr.spec) = cr.spec
    /\ KeepsCondition("Ready", "True") /\ KeepsCondition("Degraded", "False")
    /\ Active("signals", cr.spec) =>
            KeepsCondition("Scaling", cr.status.conditions["Scaling"].status)
    /\ "shardmap" \in Tracked =>
            cr.status.shards = [owners |-> child["shardmap"].owners, beat |-> now]

\* A reconciliation that is under way has seen this fixed point.
InLine ==
    /\ pc \in {"child", "readSignals", "status"} /\ obj = cr /\ orig = cr /\ ~moved
    /\ pc \in {"child", "readSignals"} => at \in StepsAfter(0, cr.spec)
    /\ pc = "readSignals" => Order[at] = "signals"
    /\ pc = "child" /\ Order[at] # "signals" => replicas = Decided

\* Server, caches and worker agree on it.
AtRest ==
    /\ crFresh /\ podCache = pods /\ \A c \in Tracked : childFresh[c]
    /\ FixedPoint
    /\ pc # "idle" => InLine

\* Once nothing disturbs it any more, the system comes to rest for good, unless
\* the resource is gone or the source of its signals cannot be read.
Rests == <>[](cr # NotFound /\ ~Blocked => AtRest)

\* Reconcile is idempotent: a system at rest stays at rest, and the reconciliations
\* that timers, informers and restarts still cause change neither the resource nor
\* a child, until the clock, a user, a pod, a signal or a fault disturbs it.
StaysAtRest ==
    [][ (UNCHANGED budget \/ Restart) /\ AtRest => AtRest' /\ UNCHANGED <<cr, child>> ]_vars

\* The resource wants reconciling and can be, and every cache is up to date.
Prepared ==
    /\ pc = "idle" /\ crFresh /\ podCache = pods /\ \A c \in Tracked : childFresh[c]
    /\ cr # NotFound /\ ~cr.del /\ ~Blocked
    /\ Active("signals", cr.spec) => child["signals"] # Absent

\* The worker is done with child number i.
Passed(i) ==
    pc = "status" \/ (pc = "child" /\ i < at) \/ (pc = "readSignals" /\ i <= at)

\* This child is what the spec, the signals and the pods call for.
InPlace(c) == child[c] # Absent /\ child[c] = Desired(c, cr.spec, Decided, child[c])

\* The decision of the autoscaler is the one for the signals on the server.
DecisionTaken ==
    /\ replicas = Decided
    /\ Active("signals", cr.spec) =>
            obj.status.conditions["Scaling"].status =
                IF IsScaling(cr.spec, ReadQueueDepth(child["signals"])) THEN "True" ELSE "False"

\* A reconciliation that nothing has come in the way of: what it is done with is
\* in place, and what it has yet to read is up to date.
OnCourse ==
    /\ pc \in {"addFinalizer", "child", "readSignals", "status"} /\ held /\ podCache = pods
    /\ cr # NotFound /\ ~cr.del /\ ~Blocked
    /\ orig.status = cr.status /\ obj.spec = cr.spec /\ obj.gen = cr.gen
    /\ pc = "addFinalizer" => replicas = Nil
    /\ pc \in {"child", "readSignals"} => at \in StepsAfter(0, cr.spec)
    /\ \A i \in StepsAfter(0, cr.spec) :
            IF Passed(i) THEN InPlace(Order[i]) ELSE childFresh[Order[i]]
    /\ Active("signals", cr.spec) => child["signals"] # Absent
    /\ pc = "readSignals" =>
            /\ Order[at] = "signals" /\ childCache["signals"] # Absent
            /\ ReadQueueDepth(childCache["signals"]) = ReadQueueDepth(child["signals"])
    /\ pc = "status" \/ (pc = "child" /\ Order[at] # "signals") => DecisionTaken
    /\ pc = "status" /\ "shardmap" \in Tracked =>
            obj.status.shards.owners = child["shardmap"].owners

\* One pass is enough: a reconciliation that starts from caches that are up to
\* date, and that no user, pod, signal, fault or restart disturbs, takes no wrong
\* turn at any of its calls, and leaves children and status as they should be.
OnePassSuffices ==
    [][ UNCHANGED budget =>
            /\ Prepared /\ BeginReconcile => OnCourse'
            /\ OnCourse => OnCourse' \/ (PatchStatus /\ InSync') ]_vars

-----------------------------------------------------------------------------
(* The inductive invariant behind the safety properties *)

\* A cached copy that is marked as the latest version is the server's resource.
CacheCoherent == crFresh => crCache = cr

\* While the worker is past the finalizer, the resource stays on the server:
\* nobody but the worker itself can take the finalizer away.
WorkUnderFinalizer ==
    /\ pc \in {"child", "readSignals", "status", "degraded"} => cr # NotFound /\ cr.fin
    /\ held => pc # "idle" /\ cr # NotFound

\* The generation the worker holds lies between the observed and the current
\* one, and the worker knows which one is observed: it alone writes the status.
ObservedBounds ==
    cr # NotFound =>
        /\ cr.status.observedGeneration <= cr.gen
        /\ pc # "idle" =>
            /\ cr.status.observedGeneration <= obj.gen /\ obj.gen <= cr.gen
            /\ obj.status.observedGeneration = cr.status.observedGeneration

Inv == TypeOK /\ CacheCoherent /\ NeverForgotten /\ WorkUnderFinalizer /\ ObservedBounds

-----------------------------------------------------------------------------
(* The inductive invariant behind ReadyMeansComplete and SignalsKept *)

\* A cached child marked as the latest version is the server's, and children do
\* not vanish by themselves: a cache without news of drift is not ahead.
ChildrenCoherent ==
    /\ \A c \in Tracked : childFresh[c] => childCache[c] = child[c]
    /\ budget["drift"] <= Budget["drift"]
    /\ cr # NotFound /\ Undisturbed =>
        \A c \in Tracked \ {"signals"} : childCache[c] # Absent => child[c] # Absent

\* The children it is done with exist, whichever writes were needed for it.
PassedExist ==
    Undisturbed =>
        \A i \in DOMAIN Order :
            Order[i] \in Tracked \ {"signals"} /\ Passed(i) => child[Order[i]] # Absent

CompleteInv == ChildrenCoherent /\ PassedExist /\ ReadyMeansComplete

-----------------------------------------------------------------------------
(* The inductive invariant behind ObservedIsActedOn *)

\* The user never removes a field.
NoRemovals == \A f \in Fields : Nil \notin FieldValues[f]

\* What is set in the cache is set on the server.
SetStaysSet ==
    crCache # NotFound /\ cr # NotFound =>
        \A f \in Fields : crCache.spec[f] # Nil => cr.spec[f] # Nil

\* The worker's copy has the spec that belongs to its generation.
SpecOfGeneration ==
    pc # "idle" /\ cr # NotFound /\ (held \/ obj.gen = cr.gen) => obj.spec = cr.spec

\* There is an override only with autoscaling, decided before the first Deployment.
OverrideOnlyScaled ==
    /\ pc # "idle" /\ ~AutoscalingOn(obj.spec) => replicas = Nil
    /\ pc \in {"child", "readSignals"} /\ Order[at] = "signals" => AutoscalingOn(obj.spec)
    /\ pc = "readSignals" => Order[at] = "signals"

\* The Deployments the worker is done with are what its copy of the spec wants.
PassedAsWanted ==
    Undisturbed =>
        \A i \in DOMAIN Order :
            Order[i] \in Tracked \cap Deployments /\ Passed(i) =>
                child[Order[i]] = DesiredDeployment(Order[i], obj.spec, replicas)

ActedInv ==
    /\ SetStaysSet /\ SpecOfGeneration /\ OverrideOnlyScaled /\ PassedAsWanted
    /\ ObservedIsActedOn

-----------------------------------------------------------------------------
(* The inductive invariant behind ScalingOfGeneration *)

\* The Scaling condition of a resource is about its generation or an earlier one,
\* and about its own only with autoscaling.
ScalingTrue(r) ==
    /\ r.status.conditions["Scaling"].gen <= r.gen
    /\ r.status.conditions["Scaling"].gen = r.gen => AutoscalingOn(r.spec)

ScalingInv == (cr # NotFound => ScalingTrue(cr)) /\ (pc # "idle" => ScalingTrue(obj))

-----------------------------------------------------------------------------
(* The inductive invariants behind StatusConsistent and EditsLostOnlyToDefaults *)

\* An earlier version of the resource: it was consistent, and observed no more.
EarlierVersion(r) ==
    /\ Consistent(r)
    /\ cr # NotFound => r.status.observedGeneration <= cr.status.observedGeneration

StatusInv ==
    /\ StatusConsistent
    /\ crCache # NotFound => EarlierVersion(crCache)
    /\ pc # "idle" => EarlierVersion(orig)

\* While its version is the latest, the worker has every field the server has set.
HeldHasFields ==
    held => \A f \in Fields : cr.spec[f] # Nil => obj.spec[f] = cr.spec[f]

-----------------------------------------------------------------------------
(* The inductive invariant behind ScaledWithinBounds *)

\* The counts of the spec are integers.
IntegerCounts ==
    /\ Nil \notin Int
    /\ \A f \in {"decodeReplicas", "minReplicas", "maxReplicas"} :
            FieldRange[f] \subseteq Int \cup {Nil}

\* Past the signals, the worker has a decision that is inside the bounds.
DecisionWithinBounds ==
    pc = "status" \/ (pc = "child" /\ Order[at] # "signals") =>
        (Active("signals", obj.spec) => replicas \in Int /\ WithinBounds(replicas, obj.spec))

BoundsInv == DecisionWithinBounds /\ ScaledWithinBounds

-----------------------------------------------------------------------------
(* Statements of the documentation that the code does not keep *)

\* "Persist defaults back to spec": the operator fills in fields that are not
\* set, and leaves a field the user has set alone.
ExplicitValuesKept ==
    [][ Work /\ cr # NotFound /\ cr' # NotFound =>
            \A f \in Fields : cr.spec[f] # Nil => cr'.spec[f] = cr.spec[f] ]_vars

\* "shards is the published shard ownership map": a reconciliation that goes
\* through leaves the same map in the status and in the ConfigMap.
StatusShardsArePublished ==
    [][ pc = "status" /\ pc' = "idle" /\ cr' # cr =>
            cr'.status.shards.owners = child["shardmap"].owners ]_vars
=============================================================================
