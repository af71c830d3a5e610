--------------------------- MODULE ChildrenProofs ---------------------------
(***************************************************************************)
(* Proofs about what Reconcile does to the children, for all specs, pods,  *)
(* budgets and sets of children: Ready is reported only for a complete     *)
(* cluster, no signal is overwritten, a cluster at rest stays at rest, and *)
(* an undisturbed pass from up-to-date caches brings it in sync.           *)
(***************************************************************************)
EXTENDS ReconcilerProofs

\* What a mutate function makes of a child is an object.
LEMMA DesiredExists ==
    ASSUME NEW c, c # "signals", NEW s, NEW o, NEW cached
    PROVE  Desired(c, s, o, cached) # Absent
<1>1. CASE c \in {"decodeService", "prefillService", "routerService"}
    BY <1>1 DEF Desired, DesiredService, Deployments, Absent
<1>2. CASE c \in Deployments
    BY <1>2 DEF Desired, DesiredDeployment, Deployments, Absent
<1>3. CASE c = "shardmap"
    BY <1>3 DEF Desired, Deployments, Absent
<1>4. CASE c \notin {"decodeService", "prefillService", "routerService", "shardmap"} \cup Deployments
    BY <1>4 DEF Desired, Deployments, Absent
<1> QED BY <1>1, <1>2, <1>3, <1>4

\* No child comes twice.
LEMMA OrderInjective ==
    ASSUME NEW i \in DOMAIN Order, NEW j \in DOMAIN Order, Order[i] = Order[j]
    PROVE  i = j
BY OrderLength DEF Order

\* The worker turns to the next child it has to look after: the ones it passes
\* on the way are not of this instance.
LEMMA ProceedPasses ==
    ASSUME NEW i \in 0 .. Len(Order), NEW s, Proceed(i, s),
           NEW j \in DOMAIN Order, Order[j] \in Tracked \ {"signals"}, Passed(j)'
    PROVE  j <= i
<1> SUFFICES ASSUME j > i PROVE FALSE
    BY OrderLength
<1>1. j \in StepsAfter(i, s)
    BY DEF StepsAfter, Active
<1>2. pc' = "child" /\ at' \in StepsAfter(i, s) /\ at' <= j
    BY <1>1 DEF Proceed
<1>3. j < at'
    BY <1>2 DEF Passed
<1> QED BY <1>2, <1>3, OrderLength DEF StepsAfter

-----------------------------------------------------------------------------
(* What a step does to the budget, the children and the Ready condition *)

\* The budget for drift only shrinks, and with every drift.
LEMMA DriftStep ==
    ASSUME Inv, Next
    PROVE  /\ budget'["drift"] \in Nat /\ budget["drift"] \in Nat
           /\ budget'["drift"] <= budget["drift"]
           /\ (\E c \in Tracked : \E new : ChildDrift(c, new)) => budget'["drift"] < budget["drift"]
<1>0. budget \in [Events -> Nat] /\ "drift" \in Events
    BY DEF Inv, TypeOK, CountersTyped, Events
<1>1. ASSUME NEW r, Reply(r) PROVE budget'["drift"] = budget["drift"]
    BY <1>0, <1>1 DEF Reply
<1>2. ASSUME NEW e \in Events, Spend(e)
      PROVE  budget'["drift"] = IF e = "drift" THEN budget["drift"] - 1 ELSE budget["drift"]
    BY <1>0, <1>2 DEF Spend
<1>3. ASSUME Spend("drift")
      PROVE  budget["drift"] > 0 /\ budget'["drift"] = budget["drift"] - 1
    BY <1>0, <1>3, <1>2 DEF Spend
<1>4. CASE UNCHANGED budget \/ \E r : Reply(r)
    <2>1. budget'["drift"] = budget["drift"]
        BY <1>1, <1>4
    <2>2. ASSUME NEW c \in Tracked, NEW new, ChildDrift(c, new) PROVE FALSE
        BY <1>0, <1>3, <2>1, <2>2 DEF ChildDrift
    <2> QED BY <1>0, <2>1, <2>2
<1>5. CASE \E e \in Events \ {"drift"} : Spend(e)
    <2>1. budget'["drift"] = budget["drift"]
        BY <1>2, <1>5
    <2>2. ASSUME NEW c \in Tracked, NEW new, ChildDrift(c, new) PROVE FALSE
        BY <1>0, <1>3, <2>1, <2>2 DEF ChildDrift
    <2> QED BY <1>0, <2>1, <2>2
<1>6. CASE \E c \in Tracked : \E new : ChildDrift(c, new)
    BY <1>0, <1>3, <1>6 DEF ChildDrift
<1>7. CASE Work
    <2>1. UNCHANGED budget \/ \E r : Reply(r)
        BY <1>7 DEF Work, BeginReconcile, PersistDefaults, RemoveFinalizer, AddFinalizer,
           ReconcileChild, ReadSignals, PatchStatus, requeueDegraded
    <2> QED BY ZenonT(30), <1>4, <2>1
<1>8. CASE CacheSync \/ PodSync \/ TimerFires \/ \E d \in Tracked : ChildSync(d)
    BY <1>4, <1>8 DEF CacheSync, PodSync, TimerFires, ChildSync
<1>9. CASE Environment
    <2>1. \/ \E c \in Tracked : \E new : ChildDrift(c, new)
          \/ UNCHANGED budget
          \/ \E e \in Events \ {"drift"} : Spend(e)
        BY <1>9 DEF Environment, UserEdit, UserDelete, RolloutStatus, GarbageCollect,
           SignalWritten, PodChange, Restart, Tick, Events
    <2> QED BY <1>4, <1>5, <1>6, <2>1
<1> QED BY <1>7, <1>8, <1>9 DEF Next

\* Without drift, an existing child goes on existing while the resource does:
\* the worker writes objects, and nothing is collected.
LEMMA ChildKept ==
    ASSUME Inv, Next, cr # NotFound, ~(\E d \in Tracked : \E new : ChildDrift(d, new)),
           NEW c \in Tracked \ {"signals"}, child[c] # Absent
    PROVE  child'[c] # Absent
<1>0. DOMAIN child = Tracked
    BY DEF Inv, TypeOK, ChildrenTyped
<1>1. CASE child' = child
    BY <1>1
<1>2. CASE ReconcileChild
    <2>1. \/ child' = child
          \/ \E o : /\ child' = [child EXCEPT ![Order[at]] = o]
                    /\ o \in {child[Order[at]], Desired(Order[at], obj.spec, replicas, childCache[Order[at]])}
        BY <1>2 DEF ReconcileChild, StoreChild, childVars
    <2>2. Order[at] = c => Desired(Order[at], obj.spec, replicas, childCache[Order[at]]) # Absent
        BY DesiredExists
    <2> QED BY <1>0, <2>1, <2>2
<1>3. ASSUME NEW text \in SignalTexts, SignalWritten(text) PROVE child'[c] # Absent
    BY <1>0, <1>3 DEF SignalWritten, StoreChild
<1>4. CASE Work
    BY <1>1, <1>2, <1>4 DEF Work, BeginReconcile, RemoveFinalizer, AddFinalizer, ReadSignals,
       PatchStatus, requeueDegraded, childVars
<1>5. CASE CacheSync \/ PodSync \/ TimerFires \/ \E d \in Tracked : ChildSync(d)
    BY <1>1, <1>5 DEF CacheSync, PodSync, TimerFires, ChildSync, childVars
<1>6. CASE Environment
    BY <1>1, <1>3, <1>6 DEF Environment, UserEdit, UserDelete, RolloutStatus, GarbageCollect,
       PodChange, Restart, Tick, childVars
<1> QED BY <1>4, <1>5, <1>6 DEF Next

\* An informer's copy is what it was, or what the server had.
LEMMA CacheFollows ==
    ASSUME Inv, Next, NEW c \in Tracked
    PROVE  childCache'[c] \in {childCache[c], child[c]}
<1>0. DOMAIN childCache = Tracked
    BY DEF Inv, TypeOK, ChildrenTyped
<1>1. CASE childCache' = childCache
    BY <1>1
<1>2. CASE Work
    BY <1>1, <1>2 DEF Work, BeginReconcile, RemoveFinalizer, AddFinalizer, ReconcileChild,
       ReadSignals, PatchStatus, requeueDegraded, StoreChild, childVars
<1>3. CASE CacheSync \/ PodSync \/ TimerFires \/ \E d \in Tracked : ChildSync(d)
    BY <1>0, <1>1, <1>3 DEF CacheSync, PodSync, TimerFires, ChildSync, childVars
<1>4. CASE Environment
    BY <1>1, <1>4 DEF Environment, UserEdit, UserDelete, ChildDrift, RolloutStatus, GarbageCollect,
       SignalWritten, PodChange, Restart, Tick, StoreChild, childVars
<1> QED BY <1>2, <1>3, <1>4 DEF Next

\* A fresh copy of a child is the server's: every new version makes it stale.
LEMMA FreshStep ==
    ASSUME Inv, \A c \in Tracked : childFresh[c] => childCache[c] = child[c], Next,
           NEW c \in Tracked, childFresh'[c]
    PROVE  childCache'[c] = child'[c]
<1>0. /\ DOMAIN child = Tracked /\ DOMAIN childCache = Tracked
      /\ childFresh \in [Tracked -> BOOLEAN]
    BY DEF Inv, TypeOK, ChildrenTyped
<1>1. CASE UNCHANGED childVars
    BY <1>1 DEF childVars
<1>2. ASSUME NEW d \in Tracked, NEW new, StoreChild(d, new)
      PROVE  childCache'[c] = child'[c]
    BY <1>0, <1>2 DEF StoreChild
<1>3. ASSUME NEW d \in Tracked, ChildSync(d) PROVE childCache'[c] = child'[c]
    BY <1>0, <1>3 DEF ChildSync
<1>4. ASSUME NEW d \in Tracked, RolloutStatus(d) PROVE childCache'[c] = child'[c]
    BY <1>0, <1>4 DEF RolloutStatus
<1>5. CASE Restart
    BY <1>5 DEF Restart
<1>6. CASE ReconcileChild
    <2>1. Order[at] \in Tracked
        BY <1>6, WorkingFacts DEF ReconcileChild, WorkerTyped
    <2> QED BY ZenonT(30), <1>1, <1>2, <1>6, <2>1 DEF ReconcileChild
<1>7. CASE Work
    BY ZenonT(30), <1>1, <1>6, <1>7
       DEF Work, BeginReconcile, RemoveFinalizer, AddFinalizer, ReadSignals,
       PatchStatus, requeueDegraded
<1>8. CASE CacheSync \/ PodSync \/ TimerFires \/ \E d \in Tracked : ChildSync(d)
    BY <1>1, <1>3, <1>8 DEF CacheSync, PodSync, TimerFires
<1>9. CASE Environment
    BY <1>1, <1>2, <1>4, <1>5, <1>9 DEF Environment, UserEdit, UserDelete, ChildDrift,
       GarbageCollect, SignalWritten, PodChange, Tick
<1> QED BY <1>7, <1>8, <1>9 DEF Next

\* Without drift after a step there was none before it nor in it.
LEMMA UndisturbedStep ==
    ASSUME Inv, ChildrenCoherent, Next, Undisturbed'
    PROVE  Undisturbed /\ ~(\E c \in Tracked : \E new : ChildDrift(c, new))
<1>1. Budget["drift"] \in Nat
    BY ReconcilerAssumption DEF Events
<1> QED BY <1>1, DriftStep DEF Undisturbed, ChildrenCoherent

LEMMA CoherentStep ==
    ASSUME Inv, ChildrenCoherent, Next
    PROVE  ChildrenCoherent'
<1>1. \A c \in Tracked : childFresh'[c] => childCache'[c] = child'[c]
    BY FreshStep DEF ChildrenCoherent
<1>2. budget'["drift"] <= Budget["drift"]
    <2>1. Budget["drift"] \in Nat
        BY ReconcilerAssumption DEF Events
    <2> QED BY <2>1, DriftStep DEF ChildrenCoherent
<1>3. ASSUME cr' # NotFound, Undisturbed', NEW c \in Tracked \ {"signals"}, childCache'[c] # Absent
      PROVE  child'[c] # Absent
    <2>1. /\ Undisturbed /\ ~(\E d \in Tracked : \E new : ChildDrift(d, new))
          /\ cr # NotFound
        BY <1>3, UndisturbedStep, StatusStays
    <2>2. child[c] # Absent
        BY <1>3, <2>1, CacheFollows DEF ChildrenCoherent
    <2> QED BY <2>1, <2>2, ChildKept
<1> QED BY <1>1, <1>2, <1>3 DEF ChildrenCoherent

-----------------------------------------------------------------------------
(* Ready is reported only for a complete cluster *)

\* The worker turns to the next child only when the one it leaves exists.
LEMMA LeftBehindExists ==
    ASSUME Inv, ChildrenCoherent, Undisturbed, ReconcileChild,
           Order[at] # "signals", NEW i, Passed(i)'
    PROVE  child'[Order[at]] # Absent
<1> DEFINE c == Order[at]
           desired == Desired(c, obj.spec, replicas, childCache[c])
<1>1. pc = "child" /\ c \in Tracked /\ cr # NotFound /\ DOMAIN child = Tracked
    BY WorkingFacts DEF ReconcileChild, WorkerTyped, ChildrenTyped
<1>2. pc' # "degraded"
    BY DEF Passed
<1>3. desired # Absent
    BY DesiredExists
<1>4. CASE childCache[c] # Absent /\ UNCHANGED childVars
    BY <1>1, <1>4 DEF ChildrenCoherent, childVars
<1>5. CASE StoreChild(c, desired)
    BY <1>1, <1>3, <1>5 DEF StoreChild
<1>6. (childCache[c] # Absent /\ UNCHANGED childVars) \/ StoreChild(c, desired)
    <2>1. CASE CreateOrUpdate(child[c], childCache[c], childFresh[c], desired, c \in Rewritten)
                    = "unchanged"
        <3>1. childCache[c] # Absent
            BY <2>1 DEF CreateOrUpdate
        <3> QED BY <2>1, <3>1 DEF ReconcileChild
    <2>2. CASE CreateOrUpdate(child[c], childCache[c], childFresh[c], desired, c \in Rewritten)
                    # "unchanged"
        BY <1>2, <2>2 DEF ReconcileChild
    <2> QED BY <2>1, <2>2
<1> QED BY ZenonT(30), <1>4, <1>5, <1>6

\* The worker becomes done with a child only by reconciling it, without error.
LEMMA NewlyPassed ==
    ASSUME Inv, Next,
           NEW i \in DOMAIN Order, Order[i] \in Tracked \ {"signals"}, ~Passed(i), Passed(i)'
    PROVE  ReconcileChild /\ at = i
<1>0. i \in Nat /\ i > 0
    BY OrderLength
<1>1. ASSUME NEW s, Proceed(0, s) PROVE FALSE
    BY <1>0, <1>1, ProceedPasses, OrderLength
<1>2. CASE UNCHANGED <<pc, at>>
    BY <1>2 DEF Passed
<1>3. CASE Finish
    BY <1>3 DEF Finish, Passed
<1>4. CASE BeginReconcile \/ AddFinalizer
    BY <1>1, <1>3, <1>4 DEF BeginReconcile, PersistDefaults, AddFinalizer, ReturnErr, Passed
<1>5. CASE RemoveFinalizer \/ PatchStatus \/ requeueDegraded
    BY ZenonT(30), <1>3, <1>5
       DEF RemoveFinalizer, PatchStatus, requeueDegraded, ReturnErr, ReturnAfter
<1>6. CASE ReconcileChild
    <2>1. pc = "child" /\ at \in 0 .. Len(Order) /\ i >= at
        <3>1. pc = "child"
            BY <1>6 DEF ReconcileChild
        <3>2. at \in 0 .. Len(Order)
            BY <3>1, WorkingFacts DEF WorkerTyped
        <3>3. ~(i < at)
            BY <3>1 DEF Passed
        <3>4. QED
            BY <3>1, <3>2, <3>3, OrderLength
    <2>2. CASE /\ pc' \in {"readSignals", "degraded"} /\ at' = at
               /\ pc' = "readSignals" => Order[at] = "signals"
        BY <1>0, <2>1, <2>2 DEF Passed
    <2>3. CASE Proceed(at, obj.spec)
        <3>1. i <= at
            BY <2>1, <2>3, ProceedPasses
        <3> QED BY <1>0, <1>6, <2>1, <3>1
    <2> QED BY <1>6, <2>2, <2>3 DEF ReconcileChild
<1>7. CASE ReadSignals
    <2>1. pc = "readSignals" /\ at \in 0 .. Len(Order) /\ i > at
        BY <1>7, WorkingFacts, OrderLength DEF ReadSignals, WorkerTyped, Passed
    <2>2. CASE pc' = "degraded"
        BY <2>2 DEF Passed
    <2>3. CASE Proceed(at, obj.spec)
        BY <1>0, <2>1, <2>3, ProceedPasses
    <2> QED BY <1>7, <2>2, <2>3 DEF ReadSignals
<1>8. CASE CacheSync \/ PodSync \/ TimerFires \/ \E d \in Tracked : ChildSync(d)
    BY <1>2, <1>8 DEF CacheSync, PodSync, TimerFires, ChildSync, workVars
<1>9. CASE Environment
    BY <1>2, <1>3, <1>9 DEF Environment, UserEdit, UserDelete, ChildDrift, RolloutStatus,
       GarbageCollect, SignalWritten, PodChange, Restart, Tick, workVars
<1> QED BY <1>4, <1>5, <1>6, <1>7, <1>8, <1>9 DEF Next, Work

LEMMA PassedExistStep ==
    ASSUME Inv, ChildrenCoherent, PassedExist, Next
    PROVE  PassedExist'
<1> SUFFICES ASSUME Undisturbed', NEW i \in DOMAIN Order, Order[i] \in Tracked \ {"signals"}, Passed(i)'
             PROVE  child'[Order[i]] # Absent
    BY DEF PassedExist
<1>1. Undisturbed /\ ~(\E c \in Tracked : \E new : ChildDrift(c, new))
    BY UndisturbedStep
<1>2. CASE Passed(i)
    <2>1. child[Order[i]] # Absent
        BY <1>1, <1>2 DEF PassedExist
    <2>2. cr # NotFound
        BY <1>2 DEF Passed, Inv, WorkUnderFinalizer
    <2> QED BY <1>1, <2>1, <2>2, ChildKept
<1>3. CASE ~Passed(i)
    BY <1>1, <1>3, NewlyPassed, LeftBehindExists
<1> QED BY <1>2, <1>3

\* Ready becomes true only at the end of a reconciliation that went through.
LEMMA ReadyStep ==
    ASSUME Inv, Next, cr' # NotFound, cr'.status.conditions["Ready"].status = "True"
    PROVE  cr # NotFound /\ (cr.status.conditions["Ready"].status = "True" \/ PatchStatus)
<1>1. cr # NotFound /\ (cr'.status = cr.status \/ PatchStatus \/ requeueDegraded)
    BY StatusStays
<1>2. CASE requeueDegraded
    <2> DEFINE new == WithConditions(obj.status.conditions, "False", "True")
    <2>1. IsResource(cr) /\ IsResource(obj)
        BY <1>2, WorkingFacts DEF requeueDegraded
    <2>2. IsConditions(obj.status.conditions)
        BY <2>1 DEF IsResource, IsStatus
    <2>3. new["Ready"].status = "False"
        BY <2>2 DEF IsConditions, WithConditions, SetStatusCondition
    <2> HIDE DEF new
    <2>4. cr' = cr \/ cr' = [cr EXCEPT !.status = [obj.status EXCEPT !.conditions = new]]
        BY <1>2 DEF requeueDegraded, StoreCR, crVars, new
    <2>5. [cr EXCEPT !.status = [obj.status EXCEPT !.conditions = new]].status.conditions = new
        BY <2>1 DEF IsResource, IsStatus
    <2>6. cr' = cr
        BY <2>3, <2>4, <2>5
    <2> QED BY <1>1, <2>6
<1> QED BY <1>1, <1>2

LEMMA ReadyMeansCompleteStep ==
    ASSUME Inv, CompleteInv, Next
    PROVE  ReadyMeansComplete'
<1> SUFFICES ASSUME cr' # NotFound, cr'.status.conditions["Ready"].status = "True", Undisturbed',
                    NEW c \in Tracked \ {"signals"}
             PROVE  child'[c] # Absent
    BY DEF ReadyMeansComplete
<1>1. Undisturbed /\ ~(\E d \in Tracked : \E new : ChildDrift(d, new))
    BY UndisturbedStep DEF CompleteInv
<1>2. cr # NotFound
    BY ReadyStep
<1>3. CASE cr.status.conditions["Ready"].status = "True"
    <2>1. child[c] # Absent
        BY <1>1, <1>2, <1>3 DEF CompleteInv, ReadyMeansComplete
    <2> QED BY <1>1, <1>2, <2>1, ChildKept
<1>4. CASE PatchStatus
    <2>1. PICK i \in DOMAIN Order : Order[i] = c
        BY ReconcilerAssumption DEF Children
    <2>2. Passed(i)
        BY <1>4 DEF PatchStatus, Passed
    <2>3. child[c] # Absent
        BY <1>1, <2>1, <2>2 DEF CompleteInv, PassedExist
    <2> QED BY <1>4, <2>3 DEF PatchStatus, childVars
<1> QED BY <1>3, <1>4, ReadyStep

LEMMA InitComplete == Init => CompleteInv
<1> SUFFICES ASSUME Init PROVE CompleteInv
    OBVIOUS
<1>1. Budget["drift"] \in Nat
    BY ReconcilerAssumption DEF Events
<1>2. ChildrenCoherent
    BY <1>1 DEF Init, ChildrenCoherent
<1>3. PassedExist
    BY DEF Init, PassedExist, Passed
<1>4. ReadyMeansComplete
    <2>1. cr.status.conditions["Ready"].status = "Unset"
        BY DEF Init, NewStatus, NoCondition
    <2> QED BY <2>1 DEF ReadyMeansComplete
<1> QED BY <1>2, <1>3, <1>4 DEF CompleteInv

LEMMA CompleteStutter == CompleteInv /\ UNCHANGED vars => CompleteInv'
<1> SUFFICES ASSUME CompleteInv, UNCHANGED vars PROVE CompleteInv'
    OBVIOUS
<1>0. /\ cr' = cr /\ UNCHANGED childVars /\ pc' = pc /\ at' = at /\ budget' = budget
    BY DEF vars, crVars, workVars
<1>1. ChildrenCoherent'
    BY <1>0 DEF CompleteInv, ChildrenCoherent, Undisturbed, childVars
<1>2. PassedExist' /\ ReadyMeansComplete'
    BY <1>0 DEF CompleteInv, PassedExist, Passed, ReadyMeansComplete, Undisturbed, childVars
<1> QED BY <1>1, <1>2 DEF CompleteInv

-----------------------------------------------------------------------------
(* The theorems *)

\* CompleteInv is an invariant, for every instance.
THEOREM CompleteInvariance == Spec => []CompleteInv
<1>1. Inv /\ CompleteInv /\ [Next]_vars => CompleteInv'
    BY CoherentStep, PassedExistStep, ReadyMeansCompleteStep, CompleteStutter DEF CompleteInv
<1> QED BY <1>1, InitComplete, Invariance, PTL DEF Spec

\* As long as nobody else deletes or changes a child, the status reports Ready
\* only when every child Reconcile looks after exists.
THEOREM ReadyOnlyWhenComplete == Spec => []ReadyMeansComplete
<1>1. CompleteInv => ReadyMeansComplete
    BY DEF CompleteInv
<1> QED BY <1>1, CompleteInvariance, PTL

\* reconcileSignalsConfigMap writes only over the version it has read, and keeps
\* every key that version has: no signal is lost, however stale the cache.
THEOREM SignalsNeverOverwritten == Spec => SignalsKept
<1> DEFINE A == ReconcileChild /\ Order[at] = "signals" /\ child["signals"] # Absent =>
                    \A k \in DOMAIN child["signals"] :
                        child["signals"][k] # Nil => child'["signals"][k] = child["signals"][k]
<1>1. ASSUME Inv, CompleteInv PROVE A
    <2> SUFFICES ASSUME ReconcileChild, Order[at] = "signals", child["signals"] # Absent,
                        NEW k \in DOMAIN child["signals"], child["signals"][k] # Nil
                 PROVE  child'["signals"][k] = child["signals"][k]
        BY ZenonT(30)
    <2> DEFINE cached == childCache["signals"]
               outcome == CreateOrUpdate(child["signals"], cached, childFresh["signals"],
                                         DesiredSignals(cached), "signals" \in Rewritten)
    <2>1. "signals" \in Tracked /\ DOMAIN child = Tracked
        BY <1>1, WorkingFacts DEF ReconcileChild, WorkerTyped, ChildrenTyped
    <2>2. Desired("signals", obj.spec, replicas, cached) = DesiredSignals(cached)
        BY DEF Desired, Deployments
    <2>3. CASE UNCHANGED childVars
        BY <2>3 DEF childVars
    <2>4. CASE outcome = "written"
        <3>1. cached # Absent /\ childFresh["signals"]
            BY <2>4 DEF CreateOrUpdate
        <3>2. cached = child["signals"]
            BY <1>1, <2>1, <3>1 DEF CompleteInv, ChildrenCoherent
        <3>3. DesiredSignals(cached)[k] = child["signals"][k]
            BY <3>1, <3>2 DEF DesiredSignals, Deref
        <3>4. \E new \in {child["signals"], DesiredSignals(cached)} : StoreChild("signals", new)
            BY ZenonT(30), <2>2, <2>4 DEF ReconcileChild
        <3> QED BY <2>1, <3>3, <3>4 DEF StoreChild
    <2>5. CASE outcome # "written"
        BY <2>2, <2>3, <2>5 DEF ReconcileChild
    <2> QED BY <2>4, <2>5
<1>2. Inv /\ CompleteInv => [A]_vars
    BY <1>1
<1> QED BY <1>2, Invariance, CompleteInvariance, PTL DEF Spec, SignalsKept

-----------------------------------------------------------------------------
(* A cluster at rest *)

\* The resource, its status and the children are functions of their fields.
WellFormed ==
    /\ child = [c \in Tracked |-> child[c]]
    /\ cr # NotFound =>
        /\ cr = [f \in DOMAIN cr |-> cr[f]]
        /\ cr.status = [f \in DOMAIN cr.status |-> cr.status[f]]

LEMMA WellFormedStep ==
    ASSUME Inv, WellFormed, [Next]_vars
    PROVE  WellFormed'
<1> DEFINE Formed(r) == /\ r = [f \in DOMAIN r |-> r[f]]
                        /\ r.status = [f \in DOMAIN r.status |-> r.status[f]]
<1>0. /\ cr # NotFound => IsResource(cr) /\ Formed(cr)
      /\ DOMAIN child = Tracked
    BY DEF Inv, TypeOK, ResourceTyped, ChildrenTyped, WellFormed
<1>1. child' = [c \in Tracked |-> child'[c]]
    <2>1. CASE UNCHANGED child
        BY <2>1 DEF WellFormed
    <2>2. ASSUME NEW c, NEW o, StoreChild(c, o) PROVE child' = [d \in Tracked |-> child'[d]]
        BY <1>0, <2>2 DEF StoreChild
    <2>3. CASE Work
        BY <2>1, <2>2, <2>3 DEF Work, BeginReconcile, RemoveFinalizer, AddFinalizer, ReconcileChild,
           ReadSignals, PatchStatus, requeueDegraded, childVars
    <2>4. CASE CacheSync \/ PodSync \/ TimerFires \/ \E d \in Tracked : ChildSync(d)
        BY <2>1, <2>4 DEF CacheSync, PodSync, TimerFires, ChildSync, childVars
    <2>5. CASE Environment
        BY <2>1, <2>2, <2>5 DEF Environment, UserEdit, UserDelete, ChildDrift, RolloutStatus,
           GarbageCollect, SignalWritten, PodChange, Restart, Tick, childVars
    <2>6. CASE UNCHANGED vars
        BY <2>1, <2>6 DEF vars, childVars
    <2> QED BY <2>3, <2>4, <2>5, <2>6 DEF Next
<1>2. cr' # NotFound => Formed(cr')
    <2>1. CASE UNCHANGED cr
        BY <1>0, <2>1
    <2>2. ASSUME NEW r, StoreCR(r), r = NotFound \/ r = cr \/ Formed(r)
          PROVE  cr' # NotFound => Formed(cr')
        BY <1>0, <2>2 DEF StoreCR
    <2>3. ASSUME cr # NotFound, NEW s PROVE Formed(WithSpec(cr, s))
        BY <1>0, <2>3 DEF WithSpec, IsResource
    <2>4. ASSUME cr # NotFound, NEW s, s = [f \in DOMAIN s |-> s[f]]
          PROVE  Formed([cr EXCEPT !.status = s])
        BY <1>0, <2>4 DEF IsResource
    <2>5. CASE BeginReconcile
        <3>1. CASE UNCHANGED crVars
            BY <2>1, <3>1 DEF crVars
        <3>2. ASSUME cr # NotFound, NEW r, PersistDefaults(r) PROVE cr' # NotFound => Formed(cr')
            <4>1. Formed(DefaultsPatched)
                BY <2>3, <3>2 DEF DefaultsPatched
            <4>2. \E n \in {cr, DefaultsPatched} : StoreCR(n)
                BY <3>2 DEF PersistDefaults
            <4> HIDE DEF Formed
            <4> QED BY <2>2, <4>1, <4>2
        <3> HIDE DEF Formed
        <3> QED BY <2>5, <3>1, <3>2 DEF BeginReconcile
    <2>6. CASE RemoveFinalizer
        <3>1. UNCHANGED cr \/ \E n \in {cr, NotFound} : StoreCR(n)
            BY <2>6 DEF RemoveFinalizer, crVars
        <3> HIDE DEF Formed
        <3> QED BY <2>1, <2>2, <3>1
    <2>7. CASE AddFinalizer
        <3> DEFINE u == [WithSpec(cr, obj.spec) EXCEPT !.fin = TRUE]
        <3>1. UNCHANGED cr \/ (held /\ \E n \in {cr, u} : StoreCR(n))
            BY <2>7 DEF AddFinalizer, crVars
        <3>2. held => cr # NotFound
            BY DEF Inv, WorkUnderFinalizer
        <3>3. held => Formed(u)
            <4> SUFFICES ASSUME held PROVE Formed(u)
                OBVIOUS
            <4> DEFINE w == WithSpec(cr, obj.spec)
            <4>1. Formed(w)
                <5> HIDE DEF Formed
                <5> QED BY <2>3, <3>2
            <4>2. "status" \in DOMAIN w
                BY <1>0, <3>2 DEF WithSpec, IsResource
            <4> HIDE DEF w
            <4>3. Formed([w EXCEPT !.fin = TRUE])
                BY <4>1, <4>2
            <4> QED BY <4>3 DEF w
        <3> HIDE DEF Formed, u
        <3> QED BY <2>1, <2>2, <3>1, <3>3
    <2>8. CASE PatchStatus
        <3> DEFINE s == MergePatched(orig.status, Reconciled, cr.status)
        <3>1. cr # NotFound
            BY <2>8 DEF PatchStatus, Inv, WorkUnderFinalizer
        <3>2. s = [f \in DOMAIN s |-> s[f]]
            BY DEF MergePatched
        <3>3. UNCHANGED cr \/ \E n \in {cr, [cr EXCEPT !.status = s]} : StoreCR(n)
            BY <2>8 DEF PatchStatus, crVars
        <3> HIDE DEF s
        <3>4. Formed([cr EXCEPT !.status = s])
            BY <2>4, <3>1, <3>2
        <3> HIDE DEF Formed
        <3> QED BY <2>1, <2>2, <3>3, <3>4
    <2>9. CASE requeueDegraded
        <3> DEFINE s == [obj.status EXCEPT !.conditions = WithConditions(@, "False", "True")]
        <3>1. cr # NotFound
            BY <2>9 DEF requeueDegraded, Inv, WorkUnderFinalizer
        <3>2. s = [f \in DOMAIN s |-> s[f]]
            OBVIOUS
        <3>3. UNCHANGED cr \/ \E n \in {cr, [cr EXCEPT !.status = s]} : StoreCR(n)
            BY <2>9 DEF requeueDegraded, crVars
        <3> HIDE DEF s
        <3>4. Formed([cr EXCEPT !.status = s])
            BY <2>4, <3>1, <3>2
        <3> HIDE DEF Formed
        <3> QED BY <2>1, <2>2, <3>3, <3>4
    <2>10. ASSUME NEW f, NEW v, UserEdit(f, v) PROVE cr' # NotFound => Formed(cr')
        <3>1. cr # NotFound /\ StoreCR(WithSpec(cr, [cr.spec EXCEPT ![f] = v]))
            BY <2>10 DEF UserEdit
        <3> HIDE DEF Formed
        <3> QED BY <2>2, <2>3, <3>1
    <2>11. CASE UserDelete
        <3>1. cr # NotFound /\ \E n \in {NotFound, [cr EXCEPT !.del = TRUE, !.gen = @ + 1]} : StoreCR(n)
            BY <2>11 DEF UserDelete
        <3>2. Formed([cr EXCEPT !.del = TRUE, !.gen = @ + 1])
            BY <1>0, <3>1 DEF IsResource
        <3> HIDE DEF Formed
        <3> QED BY <2>2, <3>1, <3>2
    <2> HIDE DEF Formed
    <2>12. CASE Work
        BY <2>1, <2>5, <2>6, <2>7, <2>8, <2>9, <2>12 DEF Work, ReconcileChild, ReadSignals, crVars
    <2>13. CASE CacheSync \/ PodSync \/ TimerFires \/ \E d \in Tracked : ChildSync(d)
        BY <2>1, <2>13 DEF CacheSync, PodSync, TimerFires, ChildSync, crVars
    <2>14. CASE Environment
        BY <2>1, <2>10, <2>11, <2>14 DEF Environment, ChildDrift, RolloutStatus,
           GarbageCollect, SignalWritten, PodChange, Restart, Tick, crVars
    <2>15. CASE UNCHANGED vars
        BY <2>1, <2>15 DEF vars, crVars
    <2> QED BY <2>12, <2>13, <2>14, <2>15 DEF Next
<1> QED BY <1>1, <1>2 DEF WellFormed

LEMMA WellFormedInvariance == Spec => []WellFormed
<1>1. ASSUME Init PROVE WellFormed
    <2>1. child = [c \in Tracked |-> Absent]
        BY ZenonT(30), <1>1 DEF Init
    <2>2. child = [c \in Tracked |-> child[c]]
        BY <2>1
    <2>3. NewStatus = [f \in DOMAIN NewStatus |-> NewStatus[f]]
        BY DEF NewStatus
    <2> QED BY ZenonT(30), <1>1, <2>2, <2>3, NewResource DEF WellFormed
<1>2. Inv /\ WellFormed /\ [Next]_vars => WellFormed'
    BY WellFormedStep
<1> QED BY <1>1, <1>2, Invariance, PTL DEF Spec

-----------------------------------------------------------------------------
(* What Reconcile does at a fixed point *)

\* A fixed point is one of the resource, the children, the pods and the clock.
LEMMA FixedPointKept ==
    ASSUME FixedPoint, UNCHANGED <<cr, child, podCache, now>>
    PROVE  FixedPoint' /\ Decided' = Decided
<1>1. OwnersFromCache(cr.spec)' = OwnersFromCache(cr.spec)
    BY DEF OwnersFromCache
<1>2. Decided' = Decided /\ (Blocked' <=> Blocked)
    BY DEF Decided, Blocked
<1> DEFINE Wanted(c) == Active(c, cr.spec) =>
                            child[c] # Absent /\ child[c] = Desired(c, cr.spec, Decided, child[c])
<1>3. \A c \in Tracked : Wanted(c)'
    <2> SUFFICES ASSUME NEW c \in Tracked PROVE Wanted(c)'
        BY ZenonT(30)
    <2>1. Wanted(c)
        BY DEF FixedPoint, InSync
    <2>2. Desired(c, cr.spec, Decided, child[c])' = Desired(c, cr.spec, Decided, child[c])
        BY ZenonT(30), <1>1, <1>2 DEF Desired
    <2> QED BY <2>1, <2>2
<1>4. InSync'
    <2>1. /\ \A c \in { d \in Tracked : Active(d, cr.spec)' } : (child[c] # Absent)'
          /\ \A c \in { d \in Tracked : Active(d, cr.spec)' } : (child[c] = Desired(c, cr.spec, Decided, child[c]))'
        BY <1>3
    <2>2. \A a, b : Reports(a, b)' <=> Reports(a, b)
        BY DEF Reports
    <2> QED BY <2>1, <2>2 DEF FixedPoint, InSync
<1>5. \A t, v : KeepsCondition(t, v)' <=> KeepsCondition(t, v)
    BY DEF KeepsCondition
<1> QED BY <1>2, <1>4, <1>5 DEF FixedPoint

\* Every call that spends nothing is answered.
LEMMA AnsweredFor ==
    ASSUME Inv, UNCHANGED budget, NEW r, Reply(r)
    PROVE  r = "ok"
<1>1. budget \in [Events -> Nat] /\ "fault" \in Events
    BY DEF Inv, TypeOK, CountersTyped, Events
<1> SUFFICES ASSUME r # "ok" PROVE FALSE
    OBVIOUS
<1>2. budget["fault"] > 0 /\ budget'["fault"] = budget["fault"] - 1
    BY <1>1 DEF Reply
<1> QED BY <1>1, <1>2

LEMMA NothingSpent ==
    ASSUME Inv, UNCHANGED budget, NEW e \in Events
    PROVE  ~Spend(e)
<1>1. budget \in [Events -> Nat]
    BY DEF Inv, TypeOK, CountersTyped
<1> SUFFICES ASSUME Spend(e) PROVE FALSE
    OBVIOUS
<1>2. budget[e] > 0 /\ budget'[e] = budget[e] - 1
    BY <1>1 DEF Spend
<1> QED BY <1>1, <1>2

\* The defaults are there: the patch that fills them in changes nothing, and the
\* worker gets the resource itself.
LEMMA DefaultsThere ==
    ASSUME Inv, WellFormed, AtRest
    PROVE  crCache = cr /\ DefaultsPatched = cr /\ DefaultsDecoded = cr
<1>1. crCache = cr /\ cr # NotFound /\ WithDefaults(cr.spec) = cr.spec
    BY DEF AtRest, FixedPoint, Inv, CacheCoherent
<1>2. IsResource(cr) /\ cr = [f \in DOMAIN cr |-> cr[f]]
    BY <1>1 DEF Inv, TypeOK, ResourceTyped, WellFormed
<1> DEFINE s == cr.spec
<1>3. s = [f \in DOMAIN s |-> s[f]]
    BY <1>1 DEF WithDefaults
<1>4. MergePatched(s, s, s) = s /\ DecodeInto(s, s) = s
    BY <1>3 DEF MergePatched, DecodeInto
<1> HIDE DEF s
<1>5. WithSpec(cr, s) = cr
    BY <1>2 DEF WithSpec, IsResource, s
<1>6. DefaultsPatched = cr
    BY <1>1, <1>4, <1>5 DEF DefaultsPatched, s
<1>7. [cr EXCEPT !.spec = s] = cr
    BY <1>2 DEF IsResource, s
<1> QED BY <1>1, <1>4, <1>6, <1>7 DEF DefaultsDecoded, s

\* The worker goes on to a child it has to look after.
LEMMA ProceedsInLine ==
    ASSUME NEW i \in 0 .. Len(Order), NEW s, Proceed(i, s)
    PROVE  /\ pc' \in {"child", "status"}
           /\ pc' = "child" => at' \in StepsAfter(0, s) /\ at' > i
           /\ i = 0 /\ Active("signals", s) => pc' = "child" /\ Order[at'] = "signals"
<1>1. ASSUME NEW j \in StepsAfter(i, s) PROVE j \in StepsAfter(0, s) /\ j > i
    BY OrderLength DEF StepsAfter
<1>2. i = 0 /\ Active("signals", s) => 1 \in StepsAfter(i, s)
    BY OrderLength DEF StepsAfter, Order
<1>3. /\ pc' \in {"child", "status"}
      /\ pc' = "child" => at' \in StepsAfter(i, s) /\ \A j \in StepsAfter(i, s) : at' <= j
      /\ pc' = "status" => StepsAfter(i, s) = {}
    BY DEF Proceed
<1>4. ASSUME i = 0, Active("signals", s) PROVE pc' = "child" /\ Order[at'] = "signals"
    <2>1. pc' = "child" /\ at' \in StepsAfter(i, s) /\ at' <= 1
        BY <1>2, <1>3, <1>4
    <2>2. at' = 1
        BY <2>1, OrderLength DEF StepsAfter
    <2> QED BY <2>1, <2>2 DEF Order
<1> QED BY <1>1, <1>3, <1>4

\* What AtRest says of the worker and of the child it works on.
LEMMA RestFacts ==
    ASSUME Inv, CompleteInv, AtRest
    PROVE  /\ cr # NotFound /\ IsResource(cr)
           /\ \A c \in Tracked : childCache[c] = child[c] /\ childFresh[c]
           /\ \A c \in Tracked : Active(c, cr.spec) =>
                 child[c] # Absent /\ child[c] = Desired(c, cr.spec, Decided, child[c])
           /\ DOMAIN child = Tracked /\ childFresh \in [Tracked -> BOOLEAN]
<1>1. cr # NotFound /\ InSync
    BY DEF AtRest, FixedPoint
<1>2. IsResource(cr) /\ DOMAIN child = Tracked /\ childFresh \in [Tracked -> BOOLEAN]
    BY <1>1 DEF Inv, TypeOK, ResourceTyped, ChildrenTyped
<1>3. \A c \in Tracked : childCache[c] = child[c] /\ childFresh[c]
    BY ZenonT(30) DEF AtRest, CompleteInv, ChildrenCoherent
<1>4. \A c \in Tracked : Active(c, cr.spec) =>
            child[c] # Absent /\ child[c] = Desired(c, cr.spec, Decided, child[c])
    BY <1>1 DEF InSync
<1> QED BY <1>1, <1>2, <1>3, <1>4

\* What remains to be shown of a step that touches neither server nor caches.
LEMMA StaysInLine ==
    ASSUME AtRest, UNCHANGED <<cr, child, podVars, now, crFresh, childFresh>>, pc' # "idle" => InLine'
    PROVE  AtRest' /\ UNCHANGED <<cr, child>>
<1>1. FixedPoint'
    BY FixedPointKept DEF AtRest, podVars
<1> QED BY <1>1 DEF AtRest, podVars

\* Reconcile starts: the patch of the defaults changes nothing.
LEMMA BeginAtRest ==
    ASSUME Inv, WellFormed, AtRest, UNCHANGED budget, BeginReconcile
    PROVE  AtRest' /\ UNCHANGED <<cr, child>>
<1>1. cr # NotFound /\ ~cr.del /\ cr.fin /\ crFresh
    BY DEF AtRest, FixedPoint
<1>2. crCache = cr /\ DefaultsPatched = cr /\ DefaultsDecoded = cr
    BY DefaultsThere
<1>3. PersistDefaults("ok") /\ UNCHANGED <<childVars, podVars, now>>
    <2>1. \E r \in Replies : PersistDefaults(r)
        BY <1>1, <1>2 DEF BeginReconcile
    <2>2. \A r : PersistDefaults(r) => r = "ok"
        BY AnsweredFor DEF PersistDefaults
    <2> QED BY <2>1, <2>2 DEF BeginReconcile
<1>4. /\ StoreCR(cr)
      /\ obj' = cr /\ orig' = cr /\ moved' = FALSE /\ replicas' = Nil
      /\ Proceed(0, cr.spec)
    BY <1>1, <1>2, <1>3 DEF PersistDefaults
<1>5. cr' = cr /\ crFresh' = crFresh /\ UNCHANGED <<child, childFresh, podVars, now>>
    BY <1>1, <1>3, <1>4 DEF StoreCR, childVars
<1>6. Decided' = Decided
    BY <1>5 DEF Decided
<1>7. InLine'
    <2>1. /\ pc' \in {"child", "status"}
          /\ pc' = "child" => at' \in StepsAfter(0, cr.spec)
          /\ Active("signals", cr.spec) => Order[at'] = "signals"
        BY <1>4, ProceedsInLine, OrderLength
    <2>2. ~Active("signals", cr.spec) => Decided = Nil
        BY DEF Decided
    <2> QED BY <1>4, <1>5, <1>6, <2>1, <2>2 DEF InLine
<1> QED BY <1>5, <1>7, StaysInLine

\* A child is left as it is, even when an Update is sent.
LEMMA ChildAtRest ==
    ASSUME Inv, CompleteInv, WellFormed, AtRest, UNCHANGED budget, ReconcileChild
    PROVE  AtRest' /\ UNCHANGED <<cr, child>>
<1> DEFINE c == Order[at]
           desired == Desired(c, obj.spec, replicas, childCache[c])
           outcome == CreateOrUpdate(child[c], childCache[c], childFresh[c], desired, c \in Rewritten)
<1>1. /\ pc = "child" /\ InLine /\ obj = cr
      /\ at \in StepsAfter(0, cr.spec)
    BY DEF ReconcileChild, AtRest, InLine
<1>2. at \in 1 .. Len(Order) /\ c \in Tracked /\ Active(c, cr.spec)
    BY ZenonT(30), <1>1, OrderLength DEF StepsAfter, Active
<1>3. desired = child[c] /\ childCache[c] = child[c] /\ childFresh[c] /\ child[c] # Absent
    <2>1. /\ childCache[c] = child[c] /\ childFresh[c] /\ child[c] # Absent
          /\ child[c] = Desired(c, cr.spec, Decided, child[c])
        BY <1>2, RestFacts
    <2>2. CASE c = "signals"
        BY ZenonT(30), <1>1, <2>1, <2>2 DEF Desired, Deployments
    <2>3. CASE c # "signals"
        BY <1>1, <2>1, <2>3 DEF InLine
    <2> QED BY ZenonT(30), <2>1, <2>2, <2>3
<1>4. outcome = IF c \in Rewritten THEN "written" ELSE "unchanged"
    BY ZenonT(30), <1>3 DEF CreateOrUpdate
<1>5. /\ UNCHANGED <<crVars, podVars, queueVars, orig, moved, held, replicas, now>>
      /\ obj' = IF c = "shardmap" THEN WithShards(obj) ELSE obj
    BY ZenonT(30) DEF ReconcileChild
<1>6. /\ UNCHANGED childVars \/ StoreChild(c, desired)
      /\ IF c = "signals" THEN pc' = "readSignals" /\ UNCHANGED at ELSE Proceed(at, obj.spec)
    <2>1. CASE outcome = "unchanged"
        BY ZenonT(30), <2>1 DEF ReconcileChild
    <2>2. CASE outcome = "written"
        BY <2>2, AnsweredFor DEF ReconcileChild
    <2> QED BY ZenonT(30), <1>4, <2>1, <2>2
<1> HIDE DEF c, desired, outcome
<1>7. child' = child /\ childFresh' = childFresh
    <2>1. DOMAIN child = Tracked /\ child = [d \in Tracked |-> child[d]] /\ childFresh \in [Tracked -> BOOLEAN]
        BY RestFacts DEF WellFormed
    <2>2. CASE UNCHANGED childVars
        BY <2>2 DEF childVars
    <2>3. CASE StoreChild(c, desired)
        BY <1>2, <1>3, <2>1, <2>3 DEF StoreChild
    <2> QED BY <1>6, <2>2, <2>3
<1>8. obj' = cr
    <2>1. CASE c # "shardmap"
        BY <1>1, <1>5, <2>1
    <2>2. CASE c = "shardmap"
        <3>1. /\ IsResource(cr) /\ cr = [f \in DOMAIN cr |-> cr[f]]
              /\ cr.status = [f \in DOMAIN cr.status |-> cr.status[f]]
            BY RestFacts DEF WellFormed
        <3>2. child["shardmap"] = [owners |-> OwnersFromCache(cr.spec)]
            BY ZenonT(30), <1>2, <2>2, RestFacts DEF Desired, Deployments
        <3>3. cr.status.shards = [owners |-> OwnersFromCache(cr.spec), beat |-> now]
            <4>1. cr.status.shards = [owners |-> child["shardmap"].owners, beat |-> now]
                BY ZenonT(30), <1>2, <2>2 DEF AtRest, FixedPoint
            <4>2. child["shardmap"].owners = OwnersFromCache(cr.spec)
                BY <3>2
            <4> QED BY ZenonT(30), <4>1, <4>2
        <3>4. WithShards(cr) = cr
            BY <3>1, <3>3 DEF WithShards, IsResource, IsStatus
        <3> QED BY <1>1, <1>5, <2>2, <3>4
    <2> QED BY <2>1, <2>2
<1>9. cr' = cr /\ crFresh' = crFresh /\ Decided' = Decided
    BY <1>5, <1>7 DEF crVars, Decided
<1>10. InLine'
    <2>1. obj' = cr' /\ orig' = cr' /\ ~moved'
        BY <1>1, <1>5, <1>8, <1>9 DEF InLine
    <2>2. CASE c = "signals"
        <3>1. pc' = "readSignals" /\ at' = at
            BY <1>6, <2>2
        <3> QED BY <1>1, <1>9, <2>1, <2>2, <3>1 DEF InLine, c
    <2>3. CASE c # "signals"
        <3>1. replicas' = Decided'
            BY <1>1, <1>5, <1>9, <2>3 DEF InLine, c
        <3>2. pc' \in {"child", "status"} /\ (pc' = "child" => at' \in StepsAfter(0, cr.spec))
            BY <1>1, <1>2, <1>6, <2>3, ProceedsInLine
        <3> QED BY <1>9, <2>1, <3>1, <3>2 DEF InLine
    <2> QED BY <2>2, <2>3
<1> QED BY ZenonT(30), <1>5, <1>7, <1>9, <1>10, StaysInLine

\* The autoscaler decides once more as before.
LEMMA SignalsAtRest ==
    ASSUME Inv, CompleteInv, WellFormed, AtRest, ReadSignals
    PROVE  AtRest' /\ UNCHANGED <<cr, child>>
<1>1. /\ pc = "readSignals" /\ obj = cr /\ orig = cr /\ ~moved
      /\ at \in StepsAfter(0, cr.spec) /\ Order[at] = "signals"
    BY DEF ReadSignals, AtRest, InLine
<1>2. at \in 1 .. Len(Order) /\ "signals" \in Tracked /\ Active("signals", cr.spec)
    BY <1>1, OrderLength DEF StepsAfter, Active
<1>3. childCache["signals"] = child["signals"] /\ child["signals"] # Absent
    BY ZenonT(30), <1>2, RestFacts
<1>4. SourceReadable(cr.spec.source)
    BY <1>2 DEF AtRest, FixedPoint, Blocked
<1> DEFINE depth == ReadQueueDepth(child["signals"])
           scaling == IF IsScaling(cr.spec, depth) THEN "True" ELSE "False"
           conditions == SetStatusCondition(cr.status.conditions, "Scaling", scaling, cr.gen, now)
<1>5. /\ replicas' = computeDecodeReplicas(cr.spec, depth)
      /\ obj' = [cr EXCEPT !.status.conditions = conditions]
      /\ Proceed(at, cr.spec)
      /\ UNCHANGED <<crVars, childVars, podVars, queueVars, orig, moved, held, now, budget>>
    BY ZenonT(30), <1>1, <1>3, <1>4 DEF ReadSignals
<1>6. conditions = cr.status.conditions
    <2>1. cr.status.conditions["Scaling"].status = scaling
        BY <1>2 DEF AtRest, FixedPoint, InSync
    <2> QED BY ZenonT(30), <1>2, <2>1 DEF AtRest, FixedPoint, KeepsCondition
<1> HIDE DEF depth, scaling, conditions
<1>7. obj' = cr
    <2>1. /\ IsResource(cr) /\ cr = [f \in DOMAIN cr |-> cr[f]]
          /\ cr.status = [f \in DOMAIN cr.status |-> cr.status[f]]
        BY RestFacts DEF WellFormed
    <2> QED BY <1>5, <1>6, <2>1 DEF IsResource, IsStatus
<1>8. /\ cr' = cr /\ crFresh' = crFresh /\ child' = child /\ childFresh' = childFresh
      /\ Decided' = Decided
    BY <1>5 DEF crVars, childVars, Decided
<1>9. replicas' = Decided
    BY <1>2, <1>5 DEF Decided, depth
<1>10. pc' \in {"child", "status"} /\ (pc' = "child" => at' \in StepsAfter(0, cr.spec))
    BY <1>2, <1>5, ProceedsInLine
<1>11. InLine'
    BY <1>1, <1>5, <1>7, <1>8, <1>9, <1>10 DEF InLine
<1> QED BY <1>5, <1>8, <1>11, StaysInLine

\* The patch of the status changes nothing.
LEMMA PatchAtRest ==
    ASSUME Inv, CompleteInv, WellFormed, AtRest, UNCHANGED budget, PatchStatus
    PROVE  AtRest' /\ UNCHANGED <<cr, child>>
<1>1. pc = "status" /\ obj = cr /\ orig = cr /\ ~moved
    BY ZenonT(30) DEF PatchStatus, AtRest, InLine
<1>2. /\ IsResource(cr) /\ cr = [f \in DOMAIN cr |-> cr[f]]
      /\ cr.status = [f \in DOMAIN cr.status |-> cr.status[f]]
    BY RestFacts DEF WellFormed
<1>3. WithConditions(cr.status.conditions, "True", "False") = cr.status.conditions
    BY <1>1 DEF AtRest, FixedPoint, KeepsCondition, WithConditions
<1>4. Reconciled = cr.status
    <2>1. /\ cr.status.observedGeneration = cr.gen
          /\ cr.status.decodeService = cr.spec.decodePort
          /\ cr.status.prefillService = cr.spec.prefillPort
        BY ZenonT(30) DEF AtRest, FixedPoint, InSync
    <2>2. Reconciled = [cr.status EXCEPT
                            !.observedGeneration = cr.status.observedGeneration,
                            !.decodeService = cr.status.decodeService,
                            !.prefillService = cr.status.prefillService,
                            !.conditions = cr.status.conditions]
        BY ZenonT(30), <1>1, <1>3, <2>1 DEF Reconciled
    <2> DEFINE st == cr.status
    <2>3. st = [f \in DOMAIN st |-> st[f]]
        BY ZenonT(30), <1>2
    <2> HIDE DEF st
    <2>4. st = [st EXCEPT !.observedGeneration = st.observedGeneration,
                          !.decodeService = st.decodeService,
                          !.prefillService = st.prefillService,
                          !.conditions = st.conditions]
        BY <2>3
    <2> QED BY ZenonT(30), <2>2, <2>4 DEF st
<1>5. MergePatched(orig.status, Reconciled, cr.status) = cr.status
    BY <1>1, <1>2, <1>4 DEF MergePatched
<1>6. [cr EXCEPT !.status = MergePatched(orig.status, Reconciled, @)] = cr
    BY <1>2, <1>5 DEF IsResource
<1>7. /\ StoreCR(cr) /\ ReturnAfter
      /\ UNCHANGED <<childVars, podVars, now>>
    BY <1>1, <1>6, AnsweredFor DEF PatchStatus
<1>8. /\ cr' = cr /\ crFresh' = crFresh /\ pc' = "idle"
      /\ UNCHANGED <<child, childFresh, podVars, now>>
    BY <1>7 DEF StoreCR, ReturnAfter, Finish, childVars, AtRest
<1> QED BY <1>8, StaysInLine

\* The operator comes back up and finds everything as it was.
LEMMA RestartAtRest ==
    ASSUME AtRest, Restart
    PROVE  AtRest' /\ UNCHANGED <<cr, child>>
<1>1. UNCHANGED <<cr, child, pods, now>> /\ podCache' = pods
    BY DEF Restart
<1>2. podCache' = podCache /\ podCache' = pods'
    BY <1>1 DEF AtRest
<1>3. FixedPoint'
    BY <1>1, <1>2, FixedPointKept DEF AtRest
<1>4. crFresh' /\ (\A c \in Tracked : childFresh'[c]) /\ pc' = "idle"
    BY DEF Restart, Finish
<1> QED BY <1>1, <1>2, <1>3, <1>4 DEF AtRest

LEMMA RestStep ==
    ASSUME Inv, CompleteInv, WellFormed, AtRest, UNCHANGED budget, Next
    PROVE  AtRest' /\ UNCHANGED <<cr, child>>
<1>1. pc \notin {"removeFinalizer", "addFinalizer", "degraded"}
    BY DEF AtRest, InLine
<1>2. CASE Work
    BY ZenonT(30), <1>1, <1>2, BeginAtRest, ChildAtRest, SignalsAtRest, PatchAtRest
       DEF Work, RemoveFinalizer, AddFinalizer, requeueDegraded
<1>3. CASE CacheSync \/ PodSync \/ \E c \in Tracked : ChildSync(c)
    BY <1>3 DEF CacheSync, PodSync, ChildSync, AtRest
<1>4. CASE TimerFires
    <2>1. UNCHANGED <<cr, child, podVars, now, crFresh, childFresh, workVars>>
        BY <1>4 DEF TimerFires, crVars, childVars
    <2>2. pc' # "idle" => InLine'
        BY <2>1 DEF AtRest, InLine, Decided, workVars
    <2> QED BY <2>1, <2>2, StaysInLine
<1>5. CASE Environment
    <2>1. \A c \in Tracked : ~GarbageCollect(c)
        BY DEF AtRest, FixedPoint, GarbageCollect
    <2>2. \A e \in Events : ~Spend(e)
        BY NothingSpent
    <2> QED BY <1>5, <2>1, <2>2 DEF Environment, UserEdit, UserDelete, ChildDrift, RolloutStatus,
               SignalWritten, PodChange, Restart, Tick, Events
<1> QED BY <1>2, <1>3, <1>4, <1>5 DEF Next

\* Reconcile is idempotent, for every spec, set of children, pods and budgets: once
\* the fixed point is reached and the caches have it, no reconciliation, no
\* timer, no informer and no restart makes the operator change anything.
THEOREM RestIsStable == Spec => StaysAtRest
<1> DEFINE A == (UNCHANGED budget \/ Restart) /\ AtRest => AtRest' /\ UNCHANGED <<cr, child>>
<1>1. ASSUME Inv, CompleteInv, WellFormed, Next PROVE A
    BY <1>1, RestStep, RestartAtRest
<1>2. Inv /\ CompleteInv /\ WellFormed /\ [Next]_vars => [A]_vars
    BY <1>1
<1> QED BY <1>2, Invariance, CompleteInvariance, WellFormedInvariance, PTL DEF Spec, StaysAtRest

\* A step that leaves everything alone leaves the system at rest.
LEMMA RestStutter == AtRest /\ UNCHANGED vars => AtRest'
<1> SUFFICES ASSUME AtRest, UNCHANGED vars PROVE AtRest'
    OBVIOUS
<1>1. UNCHANGED <<cr, child, podVars, now, crFresh, childFresh, workVars>>
    BY DEF vars, crVars, childVars
<1>2. pc' # "idle" => InLine'
    BY <1>1 DEF AtRest, InLine, Decided, workVars
<1> QED BY <1>1, <1>2, StaysInLine

\* So it is enough to come to rest once: if nothing but a restart disturbs the
\* system from then on, it stays at rest, and the operator writes nothing more.
THEOREM RestIsQuiet ==
    Spec /\ <>(AtRest /\ [][UNCHANGED budget \/ Restart]_vars) => <>[]AtRest /\ Quiesces
BY RestStutter, RestIsStable, PTL DEF StaysAtRest, Quiesces

-----------------------------------------------------------------------------
(* One pass from caches that are up to date *)

\* A signals ConfigMap that exists has the key of the queue depth, with a value
\* or without.
IsSignals(o) == o # Absent => "queueDepth" \in DOMAIN o

SignalsFormed ==
    "signals" \in Tracked => IsSignals(child["signals"]) /\ IsSignals(childCache["signals"])

\* Filling in the missing signals is idempotent and changes no signal as it is read.
LEMMA SignalsFilled ==
    ASSUME NEW o, IsSignals(o)
    PROVE  LET filled == DesiredSignals(o)
           IN  /\ filled # Absent /\ "queueDepth" \in DOMAIN filled
               /\ DesiredSignals(filled) = filled
               /\ o # Absent => ReadQueueDepth(filled) = ReadQueueDepth(o)
<1>1. CASE o = Absent
    <2> DEFINE zero == [queueDepth |-> 0, tokensPerSecond |-> 0, memPressure |-> 0]
    <2>1. DesiredSignals(o) = zero
        BY <1>1 DEF DesiredSignals
    <2>2. zero # Absent /\ "queueDepth" \in DOMAIN zero
        BY DEF Absent
    <2>3. [k \in DOMAIN zero |-> Deref(zero[k], 0)] = zero
        BY DEF Deref
    <2>4. DesiredSignals(zero) = zero
        BY <2>2, <2>3 DEF DesiredSignals
    <2> HIDE DEF zero
    <2> QED BY ZenonT(30), <1>1, <2>1, <2>2, <2>4
<1>2. CASE o # Absent
    <2> DEFINE filled == [k \in DOMAIN o |-> Deref(o[k], 0)]
    <2>1. DesiredSignals(o) = filled /\ "queueDepth" \in DOMAIN o
        BY <1>2 DEF DesiredSignals, IsSignals
    <2>2. DOMAIN filled = DOMAIN o
        OBVIOUS
    <2>3. filled # Absent
        BY <2>1, <2>2 DEF Absent
    <2>4. [k \in DOMAIN filled |-> Deref(filled[k], 0)] = filled
        BY DEF Deref
    <2>5. DesiredSignals(filled) = filled
        BY <2>3, <2>4 DEF DesiredSignals
    <2>6. ReadQueueDepth(filled) = ReadQueueDepth(o)
        BY <2>1 DEF ReadQueueDepth, parseFloat, Deref
    <2> HIDE DEF filled
    <2> QED BY ZenonT(30), <2>1, <2>2, <2>3, <2>5, <2>6
<1> QED BY <1>1, <1>2

LEMMA SignalsFormedStep ==
    ASSUME Inv, SignalsFormed, Next
    PROVE  SignalsFormed'
<1> DEFINE c == "signals"
<1> SUFFICES ASSUME c \in Tracked PROVE IsSignals(child'[c]) /\ IsSignals(childCache'[c])
    BY DEF SignalsFormed, IsSignals
<1>1. /\ IsSignals(child[c]) /\ IsSignals(childCache[c]) /\ DOMAIN child = Tracked
      /\ DOMAIN childCache = Tracked
    BY DEF SignalsFormed, Inv, TypeOK, ChildrenTyped
<1>2. IsSignals(childCache'[c])
    BY ZenonT(30), <1>1, CacheFollows
<1>3. IsSignals(child'[c])
    <2>1. CASE UNCHANGED child
        BY <1>1, <2>1
    <2>2. ASSUME NEW d \in Tracked, NEW o, StoreChild(d, o), d = c => IsSignals(o)
          PROVE  IsSignals(child'[c])
        BY <1>1, <2>2 DEF StoreChild
    <2>3. CASE ReconcileChild
        <3> DEFINE d == Order[at]
                   desired == Desired(d, obj.spec, replicas, childCache[d])
        <3>1. d \in Tracked
            BY <2>3, WorkingFacts DEF ReconcileChild, WorkerTyped
        <3>2. d = c => IsSignals(desired)
            <4> SUFFICES ASSUME d = c PROVE IsSignals(desired)
                OBVIOUS
            <4>1. desired = DesiredSignals(childCache[c])
                BY DEF Desired, Deployments
            <4> QED BY <1>1, <4>1, SignalsFilled DEF IsSignals
        <3>3. UNCHANGED childVars \/ \E o \in {child[d], desired} : StoreChild(d, o)
            BY <2>3 DEF ReconcileChild
        <3> HIDE DEF d, desired
        <3>4. ASSUME NEW o \in {child[d], desired}, StoreChild(d, o) PROVE IsSignals(child'[c])
            <4>1. d = c => IsSignals(o)
                BY ZenonT(30), <1>1, <3>2, <3>4
            <4> QED BY ZenonT(30), <2>2, <3>1, <3>4, <4>1
        <3> QED BY ZenonT(30), <2>1, <3>3, <3>4 DEF childVars
    <2>4. ASSUME NEW text \in SignalTexts, SignalWritten(text) PROVE IsSignals(child'[c])
        <3> DEFINE o == [child[c] EXCEPT !.queueDepth = text]
        <3>1. StoreChild(c, o) /\ child[c] # Absent
            BY <2>4 DEF SignalWritten
        <3>2. IsSignals(o)
            BY <1>1, <3>1 DEF IsSignals
        <3> HIDE DEF o
        <3> QED BY ZenonT(30), <2>2, <3>1, <3>2
    <2>5. ASSUME NEW d \in Tracked, NEW new, ChildDrift(d, new) PROVE IsSignals(child'[c])
        BY ZenonT(30), <2>2, <2>5 DEF ChildDrift, IsSignals
    <2>6. ASSUME NEW d \in Tracked, GarbageCollect(d) PROVE IsSignals(child'[c])
        BY ZenonT(30), <2>2, <2>6 DEF GarbageCollect, IsSignals
    <2>7. CASE Work
        BY ZenonT(30), <2>1, <2>3, <2>7
           DEF Work, BeginReconcile, RemoveFinalizer, AddFinalizer, ReadSignals,
           PatchStatus, requeueDegraded, childVars
    <2>8. CASE CacheSync \/ PodSync \/ TimerFires \/ \E d \in Tracked : ChildSync(d)
        BY <2>1, <2>8 DEF CacheSync, PodSync, TimerFires, ChildSync, childVars
    <2>9. CASE Environment
        BY ZenonT(30), <2>1, <2>4, <2>5, <2>6, <2>9
           DEF Environment, UserEdit, UserDelete, RolloutStatus, PodChange, Restart, Tick, childVars
    <2> QED BY ZenonT(30), <2>7, <2>8, <2>9 DEF Next
<1> QED BY <1>2, <1>3

LEMMA SignalsFormedInvariance == Spec => []SignalsFormed
<1>1. Init => SignalsFormed
    BY DEF Init, SignalsFormed, IsSignals
<1>2. Inv /\ SignalsFormed /\ [Next]_vars => SignalsFormed'
    <2> SUFFICES ASSUME Inv, SignalsFormed, [Next]_vars PROVE SignalsFormed'
        OBVIOUS
    <2>1. CASE UNCHANGED vars
        BY <2>1 DEF vars, childVars, SignalsFormed, IsSignals
    <2> QED BY <2>1, SignalsFormedStep
<1> QED BY <1>1, <1>2, Invariance, PTL DEF Spec

\* The worker turns to the next child: of those it has to look after, it is done
\* with the ones up to now. The shard map is the last.
LEMMA ProceedCourse ==
    ASSUME NEW i \in 0 .. Len(Order), NEW s, Proceed(i, s)
    PROVE  /\ pc' \in {"child", "status"}
           /\ pc' = "child" => at' \in StepsAfter(0, s)
           /\ \A j \in StepsAfter(0, s) : Passed(j)' <=> j <= i
           /\ pc' = "status" /\ "shardmap" \in Tracked => i # 0 /\ Order[i] = "shardmap"
           /\ i = 0 /\ Active("signals", s) => pc' = "child" /\ Order[at'] = "signals"
<1>1. /\ pc' \in {"child", "status"}
      /\ pc' = "child" => at' \in StepsAfter(0, s)
      /\ i = 0 /\ Active("signals", s) => pc' = "child" /\ Order[at'] = "signals"
    BY ZenonT(30), ProceedsInLine
<1>2. ASSUME NEW j \in StepsAfter(0, s) PROVE Passed(j)' <=> j <= i
    <2>0. j \in 1 .. 11 /\ i \in 0 .. 11 /\ (j > i => j \in StepsAfter(i, s))
        BY OrderLength DEF StepsAfter
    <2>1. CASE StepsAfter(i, s) = {}
        <3>1. pc' = "status" /\ j <= i
            BY <2>0, <2>1 DEF Proceed
        <3> QED BY <3>1 DEF Passed
    <2>2. CASE StepsAfter(i, s) # {}
        <3>1. /\ pc' = "child" /\ at' \in StepsAfter(i, s)
              /\ j \in StepsAfter(i, s) => at' <= j
            BY ZenonT(30), <2>2 DEF Proceed
        <3>2. at' \in 1 .. 11 /\ at' > i
            BY <3>1, OrderLength DEF StepsAfter
        <3>3. Passed(j)' <=> j < at'
            BY <3>1 DEF Passed
        <3> QED BY <2>0, <3>1, <3>2, <3>3
    <2> QED BY <2>1, <2>2
<1>3. ASSUME pc' = "status", "shardmap" \in Tracked PROVE i # 0 /\ Order[i] = "shardmap"
    <2>1. Order[11] = "shardmap" /\ 11 \in DOMAIN Order
        BY OrderLength DEF Order
    <2>2. 11 \notin StepsAfter(i, s)
        BY <1>3 DEF Proceed
    <2>3. ~(11 > i)
        BY ZenonT(30), <1>3, <2>1, <2>2 DEF StepsAfter, Active
    <2>4. i = 11
        BY <2>3, OrderLength
    <2> QED BY <2>1, <2>4
<1> QED BY ZenonT(30), <1>1, <1>2, <1>3

\* A child that is in place, or that is written as it should be, is in place after
\* a step that changes neither the spec nor the decision nor the listed pods.
LEMMA DesiredKept ==
    ASSUME NEW c, podCache' = podCache, cr'.spec = cr.spec, Decided' = Decided
    PROVE  Desired(c, cr.spec, Decided, child[c])' = Desired(c, cr.spec, Decided, child'[c])
<1>1. OwnersFromCache(cr.spec)' = OwnersFromCache(cr.spec)
    BY DEF OwnersFromCache
<1> QED BY ZenonT(30), <1>1 DEF Desired

LEMMA StaysInPlace ==
    ASSUME NEW c, podCache' = podCache, cr'.spec = cr.spec, Decided' = Decided,
           child'[c] = child[c], InPlace(c)
    PROVE  InPlace(c)'
BY ZenonT(30), DesiredKept DEF InPlace

LEMMA PutInPlace ==
    ASSUME NEW c, podCache' = podCache, cr'.spec = cr.spec, Decided' = Decided,
           NEW o, c = "signals" => IsSignals(o), child'[c] = Desired(c, cr.spec, Decided, o)
    PROVE  InPlace(c)'
<1> DEFINE d == Desired(c, cr.spec, Decided, o)
<1>1. d # Absent /\ Desired(c, cr.spec, Decided, d) = d
    <2>1. CASE c = "signals"
        <3>1. \A x : Desired(c, cr.spec, Decided, x) = DesiredSignals(x)
            BY <2>1 DEF Desired, Deployments
        <3> QED BY ZenonT(30), <2>1, <3>1, SignalsFilled
    <2>2. CASE c # "signals"
        <3>1. Desired(c, cr.spec, Decided, d) = Desired(c, cr.spec, Decided, o)
            BY <2>2 DEF Desired
        <3> QED BY ZenonT(30), <2>2, <3>1, DesiredExists
    <2> QED BY <2>1, <2>2
<1> HIDE DEF d
<1>2. child'[c] = d
    BY DEF d
<1> QED BY ZenonT(30), <1>1, <1>2, DesiredKept DEF InPlace

\* And from the start: it is done with none.
LEMMA ProceedFirst ==
    ASSUME NEW s, Proceed(0, s)
    PROVE  /\ pc' \in {"child", "status"}
           /\ pc' = "child" => at' \in StepsAfter(0, s)
           /\ pc' = "status" => "shardmap" \notin Tracked
           /\ Active("signals", s) => pc' = "child" /\ Order[at'] = "signals"
           /\ \A j \in StepsAfter(0, s) : ~Passed(j)'
<1>1. 0 \in 0 .. Len(Order)
    BY OrderLength
<1>2. \A j \in StepsAfter(0, s) : ~(j <= 0)
    BY OrderLength DEF StepsAfter
<1> QED BY ZenonT(30), <1>1, <1>2, ProceedCourse

\* What OnCourse says of the resource, the worker and the children ahead.
LEMMA CourseFacts ==
    ASSUME Inv, ChildrenCoherent, OnCourse
    PROVE  /\ pc # "idle" /\ held /\ cr # NotFound /\ ~cr.del
           /\ IsResource(cr) /\ IsResource(obj) /\ IsResource(orig)
           /\ obj.spec = cr.spec /\ obj.gen = cr.gen /\ orig.status = cr.status
           /\ DOMAIN child = Tracked /\ childFresh \in [Tracked -> BOOLEAN]
           /\ pc \in {"child", "readSignals"} =>
                /\ at \in StepsAfter(0, cr.spec) /\ at \in 1 .. Len(Order)
                /\ Order[at] \in Tracked /\ Active(Order[at], cr.spec)
<1>1. /\ pc # "idle" /\ held /\ cr # NotFound /\ ~cr.del
      /\ obj.spec = cr.spec /\ obj.gen = cr.gen /\ orig.status = cr.status
      /\ pc \in {"child", "readSignals"} => at \in StepsAfter(0, cr.spec)
    BY DEF OnCourse
<1>2. /\ IsResource(cr) /\ IsResource(obj) /\ IsResource(orig)
      /\ DOMAIN child = Tracked /\ childFresh \in [Tracked -> BOOLEAN]
    BY <1>1, WorkingFacts DEF ChildrenTyped
<1>3. ASSUME NEW i \in StepsAfter(0, cr.spec)
      PROVE  i \in 1 .. Len(Order) /\ Order[i] \in Tracked /\ Active(Order[i], cr.spec)
    BY <1>3, OrderLength DEF StepsAfter, Active
<1> QED BY <1>1, <1>2, <1>3

\* The informers of the children may catch up meanwhile.
LEMMA CourseKept ==
    ASSUME Inv, ChildrenCoherent, OnCourse, UNCHANGED <<cr, child, podVars, workVars>>,
           \A c \in Tracked : childFresh[c] => childFresh'[c],
           \A c \in Tracked : childCache'[c] \in {childCache[c], child[c]}
    PROVE  OnCourse'
<1>0. /\ cr' = cr /\ child' = child /\ podCache' = podCache /\ pods' = pods /\ pc' = pc /\ at' = at
      /\ obj' = obj /\ orig' = orig /\ held' = held /\ replicas' = replicas
    BY DEF podVars, workVars
<1>1. Decided' = Decided /\ (Blocked' <=> Blocked) /\ (DecisionTaken' <=> DecisionTaken)
    BY <1>0 DEF Decided, Blocked, DecisionTaken
<1>2. ASSUME NEW i \in StepsAfter(0, cr.spec)
      PROVE  IF Passed(i)' THEN InPlace(Order[i])' ELSE childFresh'[Order[i]]
    <2>1. Passed(i)' <=> Passed(i)
        BY <1>0 DEF Passed
    <2>2. Order[i] \in Tracked
        BY DEF StepsAfter, Active
    <2>3. IF Passed(i) THEN InPlace(Order[i]) ELSE childFresh[Order[i]]
        BY DEF OnCourse
    <2>4. InPlace(Order[i]) => InPlace(Order[i])'
        BY ZenonT(30), <1>0, <1>1, StaysInPlace
    <2> QED BY ZenonT(30), <2>1, <2>2, <2>3, <2>4
<1>3. pc = "readSignals" =>
            /\ childCache'["signals"] # Absent
            /\ ReadQueueDepth(childCache'["signals"]) = ReadQueueDepth(child["signals"])
    <2> SUFFICES ASSUME pc = "readSignals"
                 PROVE  /\ childCache'["signals"] # Absent
                        /\ ReadQueueDepth(childCache'["signals"]) = ReadQueueDepth(child["signals"])
        OBVIOUS
    <2>1. "signals" \in Tracked /\ child["signals"] # Absent
        BY CourseFacts DEF OnCourse
    <2>2. childCache'["signals"] \in {childCache["signals"], child["signals"]}
        BY ZenonT(30), <2>1
    <2> QED BY <2>1, <2>2 DEF OnCourse
<1> QED BY <1>0, <1>1, <1>2, <1>3 DEF OnCourse

\* Whether a resource is scaled and from which source has no default.
LEMMA DefaultsLeaveAutoscaling ==
    ASSUME NEW s, IsSpec(s)
    PROVE  WithDefaults(s).enabled = s.enabled /\ WithDefaults(s).source = s.source
<1>1. "enabled" \in DOMAIN s /\ "source" \in DOMAIN s
    BY DEF IsSpec, Fields
<1>2. "enabled" \notin DOMAIN Defaults /\ "source" \notin DOMAIN Defaults
    BY DEF Defaults
<1> QED BY <1>1, <1>2 DEF WithDefaults

\* Reconcile starts on caches that are up to date: the server and the worker get
\* the spec with its defaults.
LEMMA BeginCourse ==
    ASSUME Inv, ChildrenCoherent, Prepared, UNCHANGED budget, BeginReconcile
    PROVE  OnCourse'
<1>1. /\ crCache = cr /\ cr # NotFound /\ ~cr.del /\ podCache = pods
      /\ \A c \in Tracked : childFresh[c]
    BY DEF Prepared, Inv, CacheCoherent
<1>2. IsResource(cr) /\ IsSpec(cr.spec)
    BY <1>1 DEF Inv, TypeOK, ResourceTyped, IsResource
<1>3. PersistDefaults("ok") /\ UNCHANGED <<childVars, podVars, now>>
    <2>1. \E r \in Replies : PersistDefaults(r)
        BY <1>1 DEF BeginReconcile
    <2>2. \A r : PersistDefaults(r) => r = "ok"
        BY AnsweredFor DEF PersistDefaults
    <2> QED BY <2>1, <2>2 DEF BeginReconcile
<1> DEFINE s == cr.spec
           w == WithDefaults(cr.spec)
<1>4. /\ DefaultsPatched.gen = DefaultsDecoded.gen
      /\ DefaultsPatched.status = cr.status /\ DefaultsPatched.del = cr.del
      /\ IsResource(DefaultsPatched)
    BY <1>1, DefaultsFacts DEF Inv
<1>5. DefaultsPatched.spec = w /\ DefaultsDecoded.spec = w
    <2>1. DOMAIN s = Fields /\ w = [f \in Fields |-> w[f]] /\ DOMAIN w = Fields
        BY <1>2 DEF WithDefaults, IsSpec
    <2>2. MergePatched(s, w, s) = [f \in Fields |-> w[f]] /\ DecodeInto(w, w) = [f \in Fields |-> w[f]]
        BY <2>1 DEF MergePatched, DecodeInto
    <2> DEFINE m == MergePatched(s, w, s)
    <2>3. DefaultsPatched.spec = m
        <3>1. DefaultsPatched = WithSpec(cr, m)
            BY ZenonT(30), <1>1 DEF DefaultsPatched
        <3>2. DOMAIN cr = {"spec", "gen", "fin", "del", "status"}
            BY <1>2 DEF IsResource
        <3> HIDE DEF m
        <3> QED BY <3>1, <3>2 DEF WithSpec
    <2>4. DefaultsDecoded.spec = DecodeInto(w, DefaultsPatched.spec)
        <3> DEFINE d == DecodeInto(w, DefaultsPatched.spec)
        <3>1. DefaultsDecoded = [DefaultsPatched EXCEPT !.spec = d]
            BY ZenonT(30), <1>1 DEF DefaultsDecoded
        <3> HIDE DEF d
        <3>2. "spec" \in DOMAIN DefaultsPatched
            BY <1>4 DEF IsResource
        <3>3. DefaultsDecoded.spec = d
            BY <3>1, <3>2
        <3> QED BY ZenonT(30), <3>3 DEF d
    <2> QED BY ZenonT(30), <2>1, <2>2, <2>3, <2>4
<1>6. w.enabled = s.enabled /\ w.source = s.source
    BY <1>2, DefaultsLeaveAutoscaling
<1>7. /\ cr' = DefaultsPatched /\ obj' = DefaultsDecoded /\ orig' = cr /\ held' = TRUE
      /\ replicas' = Nil
      /\ (pc' = "addFinalizer" /\ at' = 0) \/ Proceed(0, w)
    BY <1>1, <1>3, <1>4, <1>5 DEF PersistDefaults, StoreCR
<1>8. cr'.spec = w /\ obj'.spec = w /\ cr'.gen = obj'.gen /\ cr'.status = cr.status /\ ~cr'.del
    BY <1>1, <1>4, <1>5, <1>7
<1> HIDE DEF w, s
<1>9. child' = child /\ childFresh' = childFresh /\ podCache' = podCache /\ pods' = pods
    BY <1>3 DEF childVars, podVars
<1>10. \A c : Active(c, w) <=> Active(c, cr.spec)
    BY <1>6 DEF Active, AutoscalingOn, s
<1>11. ~Blocked' /\ (Active("signals", w) => child'["signals"] # Absent)
    BY ZenonT(30), <1>6, <1>8, <1>9, <1>10 DEF Prepared, Blocked, s
<1>12. pc' = "addFinalizer" \/
            /\ pc' \in {"child", "status"}
            /\ pc' = "child" => at' \in StepsAfter(0, w)
            /\ pc' = "status" => "shardmap" \notin Tracked
            /\ Active("signals", w) => pc' = "child" /\ Order[at'] = "signals"
    BY ZenonT(30), <1>7, ProceedFirst
<1>13. ASSUME NEW i \in StepsAfter(0, w)
       PROVE  IF Passed(i)' THEN InPlace(Order[i])' ELSE childFresh'[Order[i]]
    <2>1. Order[i] \in Tracked
        BY DEF StepsAfter, Active
    <2>2. ~Passed(i)'
        <3>1. CASE pc' = "addFinalizer"
            BY <3>1 DEF Passed
        <3>2. CASE Proceed(0, w)
            BY ZenonT(30), <3>2, ProceedFirst
        <3> QED BY <1>7, <3>1, <3>2
    <2> QED BY <1>1, <1>9, <2>1, <2>2
<1>14. ~Active("signals", w) => DecisionTaken'
    <2>1. ~Active("signals", w) => Decided' = Nil
        BY <1>8 DEF Decided
    <2> QED BY <1>7, <1>8, <2>1 DEF DecisionTaken
<1>15. pc' \in {"addFinalizer", "child", "readSignals", "status"} /\ cr' # NotFound
    BY <1>4, <1>7, <1>12, ResourceExists
<1>16. podCache' = pods' /\ orig'.status = cr'.status
    BY <1>1, <1>7, <1>8, <1>9
<1>17. /\ pc' \in {"child", "readSignals"} => at' \in StepsAfter(0, w)
       /\ pc' # "readSignals"
       /\ pc' = "status" => "shardmap" \notin Tracked
       /\ pc' = "status" \/ (pc' = "child" /\ Order[at'] # "signals") => DecisionTaken'
    BY <1>12, <1>14
<1> QED BY ZenonT(30), <1>7, <1>8, <1>11, <1>13, <1>15, <1>16, <1>17 DEF OnCourse

\* The finalizer goes to the server, with the spec as it is there.
LEMMA FinalizerCourse ==
    ASSUME Inv, ChildrenCoherent, OnCourse, UNCHANGED budget, AddFinalizer
    PROVE  OnCourse'
<1>1. /\ pc = "addFinalizer" /\ held /\ cr # NotFound /\ ~cr.del /\ IsResource(cr)
      /\ obj.spec = cr.spec /\ orig.status = cr.status /\ replicas = Nil /\ podCache = pods
    BY CourseFacts DEF AddFinalizer, OnCourse
<1> DEFINE w == WithSpec(cr, cr.spec)
           updated == [w EXCEPT !.fin = TRUE]
<1>2. \E r \in Replies : /\ Reply(r) /\ StoreCR(IF r = "error" THEN cr ELSE updated)
                         /\ IF r # "ok" THEN ReturnErr
                            ELSE /\ obj' = updated /\ Proceed(0, cr.spec)
                                 /\ UNCHANGED <<orig, held, replicas>>
    BY ZenonT(30), <1>1 DEF AddFinalizer
<1>3. /\ cr' = updated /\ obj' = updated /\ Proceed(0, cr.spec)
      /\ orig' = orig /\ held' = held /\ replicas' = replicas
    BY <1>2, AnsweredFor DEF StoreCR
<1>4. child' = child /\ childFresh' = childFresh /\ podCache' = podCache /\ pods' = pods
    BY DEF AddFinalizer, childVars, podVars
<1>5. /\ updated.spec = cr.spec /\ updated.gen = cr.gen /\ updated.status = cr.status
      /\ updated.del = cr.del /\ updated.gen # 0
    BY <1>1 DEF WithSpec, IsResource
<1> HIDE DEF updated
<1>6. /\ cr'.spec = cr.spec /\ obj'.spec = cr'.spec /\ obj'.gen = cr'.gen /\ cr'.status = cr.status
      /\ ~cr'.del /\ cr' # NotFound
    BY <1>1, <1>3, <1>5 DEF NotFound
<1>7. /\ ~Blocked' /\ Decided' = Decided
      /\ Active("signals", cr.spec) => child'["signals"] # Absent
    <2>1. ~Blocked /\ (Active("signals", cr.spec) => child["signals"] # Absent)
        BY ZenonT(30) DEF OnCourse
    <2> QED BY <1>4, <1>6, <2>1 DEF Blocked, Decided
<1>8. /\ pc' \in {"child", "status"}
      /\ pc' = "child" => at' \in StepsAfter(0, cr.spec)
      /\ pc' = "status" => "shardmap" \notin Tracked
      /\ Active("signals", cr.spec) => pc' = "child" /\ Order[at'] = "signals"
    BY ZenonT(30), <1>3, ProceedFirst
<1>9. ASSUME NEW i \in StepsAfter(0, cr.spec)
      PROVE  IF Passed(i)' THEN InPlace(Order[i])' ELSE childFresh'[Order[i]]
    <2>1. ~Passed(i)'
        BY ZenonT(30), <1>3, ProceedFirst
    <2>2. ~Passed(i)
        BY <1>1 DEF Passed
    <2>3. childFresh[Order[i]]
        BY ZenonT(30), <2>2 DEF OnCourse
    <2> QED BY <1>4, <2>1, <2>3
<1>10. ~Active("signals", cr.spec) => DecisionTaken'
    <2>1. ~Active("signals", cr.spec) => Decided' = Nil
        BY <1>6 DEF Decided
    <2> QED BY <1>1, <1>3, <1>6, <2>1 DEF DecisionTaken
<1>11. /\ pc' \in {"addFinalizer", "child", "readSignals", "status"} /\ pc' # "addFinalizer"
       /\ pc' \in {"child", "readSignals"} => at' \in StepsAfter(0, cr'.spec)
       /\ pc' # "readSignals"
       /\ pc' = "status" \/ (pc' = "child" /\ Order[at'] # "signals") => DecisionTaken'
    BY <1>6, <1>8, <1>10
<1>12. held' /\ podCache' = pods' /\ orig'.status = cr'.status
    BY <1>1, <1>3, <1>4, <1>6
<1> QED BY ZenonT(30), <1>6, <1>7, <1>8, <1>9, <1>11, <1>12 DEF OnCourse

\* A child whose cached copy is up to date ends up as the mutate function wants it:
\* the write is needed and accepted, or not needed.
LEMMA ChildWritten ==
    ASSUME Inv, ChildrenCoherent, OnCourse, UNCHANGED budget, ReconcileChild
    PROVE  LET c == Order[at]
           IN  /\ childCache[c] = child[c]
               /\ child'[c] = Desired(c, cr.spec, Decided, child[c])
               /\ \A d \in Tracked \ {c} : child'[d] = child[d] /\ childFresh'[d] = childFresh[d]
               /\ IF c = "signals" THEN pc' = "readSignals" /\ at' = at ELSE Proceed(at, cr.spec)
<1> DEFINE c == Order[at]
           desired == Desired(c, obj.spec, replicas, childCache[c])
           outcome == CreateOrUpdate(child[c], childCache[c], childFresh[c], desired, c \in Rewritten)
<1>1. /\ pc = "child" /\ obj.spec = cr.spec /\ at \in StepsAfter(0, cr.spec) /\ at \in 1 .. Len(Order)
      /\ c \in Tracked /\ DOMAIN child = Tracked /\ childFresh \in [Tracked -> BOOLEAN]
    BY CourseFacts DEF ReconcileChild
<1>2. childFresh[c] /\ childCache[c] = child[c]
    <2>1. ~Passed(at)
        BY <1>1, OrderLength DEF Passed
    <2>2. childFresh[c]
        BY ZenonT(30), <1>1, <2>1 DEF OnCourse
    <2> QED BY <1>1, <2>2 DEF ChildrenCoherent
<1>3. desired = Desired(c, cr.spec, Decided, child[c])
    <2>1. CASE c = "signals"
        BY ZenonT(30), <1>1, <1>2, <2>1 DEF Desired, Deployments
    <2>2. CASE c # "signals"
        <3>1. replicas = Decided
            BY ZenonT(30), <1>1, <2>2 DEF OnCourse, DecisionTaken
        <3> QED BY ZenonT(30), <1>1, <1>2, <3>1
    <2> QED BY <2>1, <2>2
<1>4. outcome = "written" \/ (outcome = "unchanged" /\ child[c] = desired)
    BY ZenonT(30), <1>2 DEF CreateOrUpdate
<1>5. /\ (UNCHANGED childVars /\ child[c] = desired) \/ StoreChild(c, desired)
      /\ IF c = "signals" THEN pc' = "readSignals" /\ at' = at ELSE Proceed(at, obj.spec)
    <2>1. CASE outcome = "unchanged" /\ child[c] = desired
        BY ZenonT(30), <2>1 DEF ReconcileChild
    <2>2. CASE outcome = "written"
        BY <2>2, AnsweredFor DEF ReconcileChild
    <2> QED BY ZenonT(30), <1>4, <2>1, <2>2
<1> HIDE DEF c, desired, outcome
<1>6. /\ child'[c] = desired
      /\ \A d \in Tracked \ {c} : child'[d] = child[d] /\ childFresh'[d] = childFresh[d]
    <2>1. CASE UNCHANGED childVars /\ child[c] = desired
        BY <2>1 DEF childVars
    <2>2. CASE StoreChild(c, desired)
        BY <1>1, <2>2 DEF StoreChild
    <2> QED BY <1>5, <2>1, <2>2
<1> QED BY ZenonT(30), <1>1, <1>2, <1>3, <1>5, <1>6 DEF c

LEMMA ChildCourse ==
    ASSUME Inv, ChildrenCoherent, SignalsFormed, OnCourse, UNCHANGED budget, ReconcileChild
    PROVE  OnCourse'
<1> DEFINE c == Order[at]
<1>1. /\ pc = "child" /\ held /\ cr # NotFound /\ ~cr.del /\ IsResource(cr) /\ IsResource(obj)
      /\ obj.spec = cr.spec /\ obj.gen = cr.gen /\ orig.status = cr.status
      /\ at \in StepsAfter(0, cr.spec) /\ at \in 1 .. Len(Order)
      /\ c \in Tracked /\ Active(c, cr.spec)
    BY CourseFacts DEF ReconcileChild
<1>2. /\ podCache = pods /\ ~Blocked
      /\ Active("signals", cr.spec) => child["signals"] # Absent
      /\ c # "signals" => DecisionTaken
    BY ZenonT(30), <1>1 DEF OnCourse
<1>3. /\ childCache[c] = child[c] /\ child'[c] = Desired(c, cr.spec, Decided, child[c])
      /\ \A d \in Tracked \ {c} : child'[d] = child[d] /\ childFresh'[d] = childFresh[d]
      /\ IF c = "signals" THEN pc' = "readSignals" /\ at' = at ELSE Proceed(at, cr.spec)
    BY ZenonT(30), ChildWritten
<1>4. /\ cr' = cr /\ podCache' = podCache /\ pods' = pods /\ orig' = orig /\ held' = held
      /\ replicas' = replicas /\ obj' = IF c = "shardmap" THEN WithShards(obj) ELSE obj
    BY ZenonT(30) DEF ReconcileChild, crVars, podVars
<1>5. childCache' = childCache
    BY DEF ReconcileChild, childVars, StoreChild
<1>6. /\ obj'.spec = obj.spec /\ obj'.gen = obj.gen
      /\ obj'.status.conditions = obj.status.conditions
      /\ c = "shardmap" => obj'.status.shards.owners = OwnersFromCache(cr.spec)
    <2>1. /\ WithShards(obj).spec = obj.spec /\ WithShards(obj).gen = obj.gen
          /\ WithShards(obj).status.conditions = obj.status.conditions
          /\ WithShards(obj).status.shards.owners = OwnersFromCache(obj.spec)
        BY <1>1 DEF WithShards, IsResource, IsStatus
    <2> QED BY ZenonT(30), <1>1, <1>4, <2>1
<1>7. "signals" \in Tracked => IsSignals(child["signals"])
    BY DEF SignalsFormed
<1>8. Active("signals", cr.spec) =>
            /\ child'["signals"] # Absent
            /\ ReadQueueDepth(child'["signals"]) = ReadQueueDepth(child["signals"])
    <2> SUFFICES ASSUME Active("signals", cr.spec)
                 PROVE  /\ child'["signals"] # Absent
                        /\ ReadQueueDepth(child'["signals"]) = ReadQueueDepth(child["signals"])
        OBVIOUS
    <2>0. "signals" \in Tracked
        BY DEF Active
    <2>1. CASE c = "signals"
        <3>1. child'["signals"] = DesiredSignals(child["signals"])
            BY <1>3, <2>1 DEF Desired, Deployments
        <3> QED BY ZenonT(30), <1>2, <1>7, <2>0, <3>1, SignalsFilled
    <2>2. CASE c # "signals"
        BY ZenonT(30), <1>2, <1>3, <2>0, <2>2
    <2> QED BY <2>1, <2>2
<1>9. Decided' = Decided /\ ~Blocked'
    BY ZenonT(30), <1>2, <1>4, <1>8 DEF Decided, Blocked
<1> HIDE DEF c
<1>10. /\ pc' \in {"child", "readSignals", "status"}
       /\ pc' = "child" => at' \in StepsAfter(0, cr.spec)
       /\ pc' = "readSignals" => c = "signals" /\ at' = at
       /\ c = "signals" => pc' = "readSignals"
       /\ \A j \in StepsAfter(0, cr.spec) : Passed(j)' <=> j <= at
       /\ pc' = "status" /\ "shardmap" \in Tracked => c = "shardmap"
    <2>1. CASE c = "signals"
        <3>1. pc' = "readSignals" /\ at' = at
            BY <1>3, <2>1
        <3> QED BY <2>1, <3>1 DEF Passed
    <2>2. CASE c # "signals"
        <3>1. at \in 0 .. Len(Order)
            BY <1>1, OrderLength
        <3>2. /\ pc' \in {"child", "status"}
              /\ pc' = "child" => at' \in StepsAfter(0, cr.spec)
              /\ \A j \in StepsAfter(0, cr.spec) : Passed(j)' <=> j <= at
              /\ pc' = "status" /\ "shardmap" \in Tracked => Order[at] = "shardmap"
            BY ZenonT(30), <1>3, <2>2, <3>1, ProceedCourse
        <3>3. pc' # "readSignals"
            BY <3>2
        <3> QED BY ZenonT(30), <2>2, <3>2, <3>3 DEF c
    <2> QED BY <2>1, <2>2
<1>11. ASSUME NEW i \in StepsAfter(0, cr.spec)
       PROVE  IF Passed(i)' THEN InPlace(Order[i])' ELSE childFresh'[Order[i]]
    <2>1. i \in DOMAIN Order /\ i \in 1 .. 11 /\ at \in 1 .. 11 /\ Order[i] \in Tracked
        BY <1>1, OrderLength DEF StepsAfter, Active
    <2>2. CASE i = at
        <3>1. Passed(i)'
            BY <1>10, <2>1, <2>2
        <3>2. /\ child'[Order[i]] = Desired(Order[i], cr.spec, Decided, child[Order[i]])
              /\ Order[i] = "signals" => IsSignals(child[Order[i]])
            BY ZenonT(30), <1>3, <1>7, <2>1, <2>2 DEF c
        <3>3. InPlace(Order[i])'
            BY ZenonT(30), <1>4, <1>9, <3>2, PutInPlace
        <3> QED BY ZenonT(30), <3>1, <3>3
    <2>3. CASE i # at
        <3>1. Order[i] \in Tracked \ {c}
            BY <2>1, <2>3, OrderInjective, OrderLength DEF c
        <3>2. Passed(i) <=> i < at
            BY <1>1 DEF Passed
        <3>3. Passed(i)' <=> Passed(i)
            BY <1>10, <2>1, <2>3, <3>2
        <3>4. IF Passed(i) THEN InPlace(Order[i]) ELSE childFresh[Order[i]]
            BY ZenonT(30) DEF OnCourse
        <3>5. child'[Order[i]] = child[Order[i]] /\ childFresh'[Order[i]] = childFresh[Order[i]]
            BY ZenonT(30), <1>3, <3>1
        <3>6. InPlace(Order[i]) => InPlace(Order[i])'
            BY ZenonT(30), <1>4, <1>9, <3>5, StaysInPlace
        <3> QED BY ZenonT(30), <3>3, <3>4, <3>5, <3>6
    <2> QED BY <2>2, <2>3
<1>12. pc' # "readSignals" => DecisionTaken'
    BY ZenonT(30), <1>2, <1>4, <1>6, <1>8, <1>9, <1>10 DEF DecisionTaken
<1>13. pc' = "status" /\ "shardmap" \in Tracked => obj'.status.shards.owners = child'["shardmap"].owners
    <2> SUFFICES ASSUME c = "shardmap" PROVE obj'.status.shards.owners = child'["shardmap"].owners
        BY <1>10
    <2>1. child'["shardmap"] = [owners |-> OwnersFromCache(cr.spec)]
        BY <1>3 DEF Desired, Deployments
    <2> QED BY <1>6, <2>1
<1>14. pc' = "readSignals" =>
            /\ Order[at'] = "signals" /\ childCache'["signals"] # Absent
            /\ ReadQueueDepth(childCache'["signals"]) = ReadQueueDepth(child'["signals"])
    <2> SUFFICES ASSUME pc' = "readSignals", c = "signals", at' = at
                 PROVE  /\ Order[at'] = "signals" /\ childCache'["signals"] # Absent
                        /\ ReadQueueDepth(childCache'["signals"]) = ReadQueueDepth(child'["signals"])
        BY <1>10
    <2> QED BY ZenonT(30), <1>1, <1>2, <1>3, <1>5, <1>8 DEF c
<1>15. /\ pc' \in {"addFinalizer", "child", "readSignals", "status"} /\ pc' # "addFinalizer"
       /\ pc' \in {"child", "readSignals"} => at' \in StepsAfter(0, cr'.spec)
       /\ pc' = "status" \/ (pc' = "child" /\ Order[at'] # "signals") => DecisionTaken'
    BY <1>1, <1>4, <1>10, <1>12
<1> QED BY ZenonT(30), <1>1, <1>2, <1>4, <1>6, <1>8, <1>9, <1>11, <1>13, <1>14, <1>15 DEF OnCourse

\* The autoscaler decides for the signals on the server.
LEMMA SignalsCourse ==
    ASSUME Inv, ChildrenCoherent, OnCourse, ReadSignals
    PROVE  OnCourse'
<1>1. /\ pc = "readSignals" /\ held /\ cr # NotFound /\ ~cr.del /\ IsResource(cr) /\ IsResource(obj)
      /\ obj.spec = cr.spec /\ obj.gen = cr.gen /\ orig.status = cr.status
      /\ at \in StepsAfter(0, cr.spec) /\ at \in 0 .. Len(Order) /\ Active(Order[at], cr.spec)
    BY CourseFacts, OrderLength DEF ReadSignals
<1>2. /\ podCache = pods /\ ~Blocked /\ Order[at] = "signals"
      /\ Active("signals", cr.spec) => child["signals"] # Absent
      /\ childCache["signals"] # Absent
      /\ ReadQueueDepth(childCache["signals"]) = ReadQueueDepth(child["signals"])
    BY ZenonT(30), <1>1 DEF OnCourse
<1>3. SourceReadable(cr.spec.source) /\ Active("signals", cr.spec)
    BY ZenonT(30), <1>1, <1>2 DEF Blocked
<1> DEFINE depth == ReadQueueDepth(child["signals"])
           scaling == IF IsScaling(cr.spec, depth) THEN "True" ELSE "False"
           conditions == SetStatusCondition(obj.status.conditions, "Scaling", scaling, obj.gen, now)
<1>4. /\ replicas' = computeDecodeReplicas(cr.spec, depth)
      /\ obj' = [obj EXCEPT !.status.conditions = conditions]
      /\ Proceed(at, cr.spec)
      /\ UNCHANGED <<crVars, childVars, podVars, orig, held>>
    BY ZenonT(30), <1>1, <1>2, <1>3 DEF ReadSignals
<1>5. conditions["Scaling"].status = scaling
    BY <1>1 DEF SetStatusCondition, IsResource, IsStatus, IsConditions
<1> HIDE DEF conditions, scaling
<1>6. obj'.spec = obj.spec /\ obj'.gen = obj.gen /\ obj'.status.conditions["Scaling"].status = scaling
    BY <1>1, <1>4, <1>5 DEF IsResource, IsStatus
<1>7. /\ cr' = cr /\ child' = child /\ childFresh' = childFresh /\ podCache' = podCache
      /\ pods' = pods /\ orig' = orig /\ held' = held
    BY <1>4 DEF crVars, childVars, podVars
<1>8. Decided' = Decided /\ ~Blocked'
    BY ZenonT(30), <1>2, <1>7 DEF Decided, Blocked
<1>9. DecisionTaken'
    BY ZenonT(30), <1>3, <1>4, <1>6, <1>7, <1>8 DEF DecisionTaken, Decided, scaling
<1>10. /\ pc' \in {"child", "status"}
       /\ pc' = "child" => at' \in StepsAfter(0, cr.spec)
       /\ \A j \in StepsAfter(0, cr.spec) : Passed(j)' <=> j <= at
       /\ pc' = "status" /\ "shardmap" \in Tracked => Order[at] = "shardmap"
    BY ZenonT(30), <1>1, <1>4, ProceedCourse
<1>11. ASSUME NEW i \in StepsAfter(0, cr.spec)
       PROVE  IF Passed(i)' THEN InPlace(Order[i])' ELSE childFresh'[Order[i]]
    <2>1. Passed(i) <=> i <= at
        BY <1>1 DEF Passed
    <2>2. IF Passed(i) THEN InPlace(Order[i]) ELSE childFresh[Order[i]]
        BY ZenonT(30) DEF OnCourse
    <2>3. InPlace(Order[i]) => InPlace(Order[i])'
        BY ZenonT(30), <1>7, <1>8, StaysInPlace
    <2> QED BY ZenonT(30), <1>7, <1>10, <2>1, <2>2, <2>3
<1>12. /\ pc' \in {"addFinalizer", "child", "readSignals", "status"} /\ pc' # "addFinalizer"
       /\ pc' \in {"child", "readSignals"} => at' \in StepsAfter(0, cr'.spec)
       /\ pc' # "readSignals"
       /\ ~(pc' = "status" /\ "shardmap" \in Tracked)
    BY <1>2, <1>7, <1>10
<1> QED BY ZenonT(30), <1>1, <1>2, <1>6, <1>7, <1>8, <1>9, <1>11, <1>12 DEF OnCourse

\* setCondition for Ready and Degraded leaves the Scaling condition alone.
LEMMA ScalingUntouched ==
    ASSUME NEW cs, IsConditions(cs), NEW ready, NEW degraded
    PROVE  WithConditions(cs, ready, degraded)["Scaling"] = cs["Scaling"]
BY DEF WithConditions, SetStatusCondition, IsConditions

\* These conditions report this, for the worker's generation.
Reporting(cs, ready, degraded) ==
    /\ cs["Ready"].status = ready /\ cs["Ready"].gen = obj.gen
    /\ cs["Degraded"].status = degraded /\ cs["Degraded"].gen = obj.gen

\* setCondition for Ready and Degraded sets both.
LEMMA ConditionsSet ==
    ASSUME NEW cs, IsConditions(cs), NEW ready, NEW degraded
    PROVE  Reporting(WithConditions(cs, ready, degraded), ready, degraded)
BY DEF Reporting, WithConditions, SetStatusCondition, IsConditions

\* The conditions of a reconciliation that went through.
LEMMA ReconciledConditions ==
    ASSUME IsResource(obj)
    PROVE  /\ Reporting(Reconciled.conditions, "True", "False")
           /\ Reconciled.conditions["Scaling"] = obj.status.conditions["Scaling"]
<1> DEFINE cs  == obj.status.conditions
           new == WithConditions(cs, "True", "False")
<1>1. Reconciled.conditions = new
    BY DEF Reconciled, IsResource, IsStatus
<1>2. IsConditions(cs)
    BY DEF IsResource, IsStatus
<1> HIDE DEF cs
<1>3. Reporting(new, "True", "False")
    BY ZenonT(30), <1>2, ConditionsSet
<1>4. new["Scaling"] = cs["Scaling"]
    BY ZenonT(30), <1>2, ScalingUntouched
<1> HIDE DEF new
<1> QED BY ZenonT(30), <1>1, <1>3, <1>4 DEF cs

\* The patch of the status is accepted, and the server has what was reconciled.
LEMMA StatusWritten ==
    ASSUME Inv, ChildrenCoherent, OnCourse, UNCHANGED budget, PatchStatus
    PROVE  /\ cr'.spec = cr.spec /\ cr'.gen = cr.gen
           /\ cr'.status.observedGeneration = cr.gen
           /\ cr'.status.decodeService = cr.spec.decodePort
           /\ cr'.status.prefillService = cr.spec.prefillPort
           /\ cr'.status.shards = obj.status.shards
           /\ cr'.status.conditions["Ready"].status = "True"
           /\ cr'.status.conditions["Degraded"].status = "False"
           /\ cr'.status.conditions["Scaling"] = obj.status.conditions["Scaling"]
<1>1. /\ held /\ IsResource(cr) /\ IsResource(obj)
      /\ obj.spec = cr.spec /\ obj.gen = cr.gen /\ orig.status = cr.status
    BY CourseFacts
<1> DEFINE st == MergePatched(orig.status, Reconciled, cr.status)
<1>2. cr' = [cr EXCEPT !.status = st]
    BY <1>1, AnsweredFor DEF PatchStatus, StoreCR
<1>3. \A f \in DOMAIN cr.status : st[f] = Reconciled[f]
    BY <1>1 DEF MergePatched
<1>4. DOMAIN cr.status = {"observedGeneration", "decodeService", "prefillService", "shards", "conditions"}
    BY <1>1 DEF IsResource, IsStatus
<1> HIDE DEF st
<1>5. /\ st.observedGeneration = Reconciled.observedGeneration
      /\ st.decodeService = Reconciled.decodeService
      /\ st.prefillService = Reconciled.prefillService
      /\ st.shards = Reconciled.shards
      /\ st.conditions = Reconciled.conditions
    BY <1>3, <1>4
<1>6. cr'.spec = cr.spec /\ cr'.gen = cr.gen /\ cr'.status = st
    BY <1>1, <1>2 DEF IsResource
<1>7. /\ Reconciled.observedGeneration = obj.gen
      /\ Reconciled.decodeService = obj.spec.decodePort
      /\ Reconciled.prefillService = obj.spec.prefillPort
      /\ Reconciled.shards = obj.status.shards
    BY <1>1 DEF Reconciled, IsResource, IsStatus
<1>8. /\ Reconciled.conditions["Ready"].status = "True"
      /\ Reconciled.conditions["Degraded"].status = "False"
      /\ Reconciled.conditions["Scaling"] = obj.status.conditions["Scaling"]
    BY ZenonT(30), <1>1, ReconciledConditions DEF Reporting
<1> QED BY ZenonT(30), <1>1, <1>5, <1>6, <1>7, <1>8

LEMMA PatchCourse ==
    ASSUME Inv, ChildrenCoherent, OnCourse, UNCHANGED budget, PatchStatus
    PROVE  InSync'
<1>1. pc = "status" /\ DecisionTaken
    BY ZenonT(30) DEF PatchStatus, OnCourse
<1>2. /\ cr'.spec = cr.spec /\ cr'.gen = cr.gen
      /\ cr'.status.observedGeneration = cr.gen
      /\ cr'.status.decodeService = cr.spec.decodePort
      /\ cr'.status.prefillService = cr.spec.prefillPort
      /\ cr'.status.shards = obj.status.shards
      /\ cr'.status.conditions["Ready"].status = "True"
      /\ cr'.status.conditions["Degraded"].status = "False"
      /\ cr'.status.conditions["Scaling"] = obj.status.conditions["Scaling"]
    BY ZenonT(30), StatusWritten
<1>3. child' = child /\ podCache' = podCache
    BY DEF PatchStatus, childVars, podVars
<1>4. Decided' = Decided
    BY <1>2, <1>3 DEF Decided
<1>5. ASSUME NEW c \in Tracked, Active(c, cr.spec) PROVE InPlace(c)'
    <2>1. PICK i \in DOMAIN Order : Order[i] = c
        BY ReconcilerAssumption DEF Children
    <2>2. i > 0
        BY OrderLength
    <2>3. i \in StepsAfter(0, cr.spec) /\ Passed(i)
        BY ZenonT(30), <1>1, <1>5, <2>1, <2>2 DEF StepsAfter, Passed
    <2>4. InPlace(c)
        BY ZenonT(30), <2>1, <2>3 DEF OnCourse
    <2> QED BY ZenonT(30), <1>2, <1>3, <1>4, <2>4, StaysInPlace
<1>6. Active("signals", cr.spec) =>
        cr'.status.conditions["Scaling"].status =
            IF IsScaling(cr.spec, ReadQueueDepth(child["signals"])) THEN "True" ELSE "False"
    BY ZenonT(30), <1>1, <1>2 DEF DecisionTaken
<1>7. "shardmap" \in Tracked => cr'.status.shards.owners = child["shardmap"].owners
    BY ZenonT(30), <1>1, <1>2 DEF OnCourse
<1>8. Reports("True", "False")'
    BY ZenonT(30), <1>2 DEF Reports
<1>9. /\ \A c \in { d \in Tracked : Active(d, cr.spec)' } : (child[c] # Absent)'
      /\ \A c \in { d \in Tracked : Active(d, cr.spec)' } : (child[c] = Desired(c, cr.spec, Decided, child[c]))'
    BY ZenonT(30), <1>2, <1>5 DEF InPlace
<1> QED BY ZenonT(30), <1>2, <1>3, <1>6, <1>7, <1>8, <1>9 DEF InSync

LEMMA CourseStep ==
    ASSUME Inv, ChildrenCoherent, SignalsFormed, OnCourse, UNCHANGED budget, Next
    PROVE  OnCourse' \/ (PatchStatus /\ InSync')
<1>1. pc \in {"addFinalizer", "child", "readSignals", "status"} /\ cr # NotFound /\ podCache = pods
    BY DEF OnCourse
<1>2. CASE Work
    <2>1. pc \notin {"idle", "removeFinalizer", "degraded"}
        BY <1>1
    <2> QED BY ZenonT(30), <1>2, <2>1, FinalizerCourse, ChildCourse, SignalsCourse, PatchCourse
               DEF Work, BeginReconcile, RemoveFinalizer, requeueDegraded
<1>3. CASE PodSync
    BY <1>1, <1>3 DEF PodSync
<1>4. CASE CacheSync \/ TimerFires \/ \E c \in Tracked : ChildSync(c)
    <2>1. UNCHANGED <<cr, child, podVars, workVars>>
        BY <1>4 DEF CacheSync, TimerFires, ChildSync, crVars, childVars
    <2>2. \A c \in Tracked : childCache'[c] \in {childCache[c], child[c]}
        BY CacheFollows
    <2>3. \A c \in Tracked : childFresh[c] => childFresh'[c]
        <3>1. childFresh \in [Tracked -> BOOLEAN]
            BY CourseFacts
        <3> QED BY <1>4, <3>1 DEF CacheSync, TimerFires, ChildSync, childVars
    <2> QED BY ZenonT(30), <2>1, <2>2, <2>3, CourseKept
<1>5. CASE Environment
    <2>1. \A c \in Tracked : ~GarbageCollect(c)
        BY <1>1 DEF GarbageCollect
    <2>2. \A e \in Events : ~Spend(e)
        BY NothingSpent
    <2> QED BY <1>5, <2>1, <2>2 DEF Environment, UserEdit, UserDelete, ChildDrift, RolloutStatus,
               SignalWritten, PodChange, Restart, Tick, Events
<1> QED BY ZenonT(30), <1>2, <1>3, <1>4, <1>5 DEF Next

\* The safety half of convergence, for every spec, set of children, pods, signals
\* and budgets: a reconciliation that starts from up-to-date caches and is left
\* alone stays on course from call to call, and its last call leaves everything in
\* sync. (That it gets there is a matter of fairness.)
THEOREM OnePassIsEnough == Spec => OnePassSuffices
<1> DEFINE A == UNCHANGED budget =>
                    /\ Prepared /\ BeginReconcile => OnCourse'
                    /\ OnCourse => OnCourse' \/ (PatchStatus /\ InSync')
<1>1. ASSUME Inv, CompleteInv, SignalsFormed, Next PROVE A
    BY ZenonT(30), <1>1, BeginCourse, CourseStep DEF CompleteInv
<1>2. Inv /\ CompleteInv /\ SignalsFormed /\ [Next]_vars => [A]_vars
    BY <1>1
<1> QED BY <1>2, Invariance, CompleteInvariance, SignalsFormedInvariance, PTL DEF Spec, OnePassSuffices
=============================================================================
