---------------------------- MODULE SystemProofs ----------------------------
(***************************************************************************)
(* Proofs about operator and routers together: the operator is the         *)
(* environment that Router assumes, conversations keep their shard from    *)
(* one end to the other, and a system at rest serves from its ready pods   *)
(* and stays at rest.                                                      *)
(***************************************************************************)
EXTENDS System, ResourceProofs, ShardMapProofs

-----------------------------------------------------------------------------
(* The two components inside the system *)

\* Without the routers, a step of the system is a step of the operator or none.
LEMMA OperatorSteps == [SystemNext]_systemVars => [Next]_vars
BY DEF SystemNext, OperatorStep, RouterStep, systemVars

\* What holds of the operator alone holds of it in the system.
LEMMA OperatorInv == SystemSpec => []Inv
<1>1. SystemInit => Init
    BY DEF SystemInit
<1>2. Init => Inv
    BY InitInv
<1>3. Inv /\ [Next]_vars => Inv'
    BY NextInv
<1> QED BY <1>1, <1>2, <1>3, OperatorSteps, PTL DEF SystemSpec

-----------------------------------------------------------------------------
(* The number of shards *)

\* Filling in the defaults leaves a number that is set, and sets one that is not.
LEMMA CountFilled ==
    ASSUME NEW s, IsSpec(s), s.numShards \in ShardCounts
    PROVE  WithDefaults(s).numShards \in ShardCounts \ {Nil}
<1>1. "numShards" \in Fields /\ "numShards" \in DOMAIN Defaults
    BY DEF Fields, Defaults
<1>2. WithDefaults(s).numShards = IF s.numShards = Nil THEN Defaults.numShards ELSE s.numShards
    BY <1>1 DEF WithDefaults, Deref, IsSpec
<1>3. Nil \in ShardCounts => Defaults.numShards \in ShardCounts
    BY DEF ShardCounts
<1> QED BY <1>2, <1>3, SystemAssumption

\* So the patch of the defaults stores a number that the spec can have, and the
\* worker decodes one that is set.
LEMMA CountPatched ==
    ASSUME Inv, CountsHeld, cr # NotFound, crCache # NotFound
    PROVE  /\ DefaultsPatched.spec.numShards \in ShardCounts
           /\ DefaultsDecoded.spec.numShards \in ShardCounts \ {Nil}
<1> DEFINE filled == WithDefaults(crCache.spec)
<1>1. IsResource(cr) /\ IsResource(crCache) /\ IsSpec(cr.spec) /\ IsSpec(crCache.spec)
    BY DEF Inv, TypeOK, ResourceTyped, IsResource
<1>2. filled.numShards \in ShardCounts \ {Nil}
    BY <1>1, CountFilled DEF CountsHeld
<1>3. "numShards" \in Fields
    BY DEF Fields, Defaults
<1>4. DefaultsPatched.spec.numShards \in {filled.numShards, cr.spec.numShards}
    BY <1>1, <1>3 DEF DefaultsPatched, WithSpec, MergePatched, IsResource, IsSpec
<1>5. DefaultsPatched.spec.numShards \in ShardCounts
    BY <1>2, <1>4 DEF CountsHeld
<1>6. IsResource(DefaultsPatched) /\ IsSpec(DefaultsPatched.spec)
    BY DefaultsFacts DEF Inv, IsResource
<1>7. DefaultsDecoded.spec = DecodeInto(filled, DefaultsPatched.spec)
    BY <1>6 DEF DefaultsDecoded, IsResource
<1>8. DefaultsDecoded.spec.numShards =
        IF DefaultsPatched.spec.numShards = Nil THEN filled.numShards
        ELSE DefaultsPatched.spec.numShards
    BY <1>3, <1>6, <1>7 DEF DecodeInto, IsSpec
<1> QED BY <1>2, <1>5, <1>8

\* The informer's copy of the resource is the one it had or the server's.
LEMMA CopyFollows ==
    ASSUME Next
    PROVE  crCache' \in {crCache, cr}
<1>1. CASE Work
    BY ZenonT(30), <1>1 DEF Work, BeginReconcile, PersistDefaults, RemoveFinalizer, AddFinalizer,
       ReconcileChild, ReadSignals, PatchStatus, requeueDegraded, StoreCR, crVars
<1>2. CASE ~Work
    BY ZenonT(30), <1>2 DEF Next, CacheSync, PodSync, TimerFires, ChildSync, Environment, UserEdit,
       UserDelete, ChildDrift, RolloutStatus, GarbageCollect, SignalWritten, PodChange,
       Restart, Tick, StoreCR, crVars
<1> QED BY ZenonT(30), <1>1, <1>2

LEMMA CountsStep ==
    ASSUME Inv, CountsHeld, Next
    PROVE  CountsHeld'
<1>1. ASSUME cr' # NotFound PROVE cr'.spec.numShards \in ShardCounts
    <2>1. cr # NotFound /\ IsSpec(cr.spec)
        BY <1>1, SpecStep DEF IsResource
    <2>2. ASSUME NEW f \in Fields, NEW v \in FieldValues[f], cr'.spec = [cr.spec EXCEPT ![f] = v]
          PROVE  cr'.spec.numShards \in ShardCounts
        <3>1. v \in ShardCounts \/ f # "numShards"
            BY <2>2 DEF ShardCounts
        <3>2. "numShards" \in DOMAIN cr.spec
            BY <2>1 DEF IsSpec, Fields, Defaults
        <3>3. cr'.spec.numShards \in {v, cr.spec.numShards}
              /\ (f # "numShards" => cr'.spec.numShards = cr.spec.numShards)
            BY <2>2, <3>2
        <3> QED BY ZenonT(30), <2>1, <3>1, <3>3 DEF CountsHeld
    <2>3. CASE crCache # NotFound /\ cr'.spec = DefaultsPatched.spec
        BY <2>1, <2>3, CountPatched
    <2>4. CASE AddFinalizer /\ cr'.spec = obj.spec
        BY <2>4 DEF CountsHeld, AddFinalizer
    <2>5. CASE cr'.spec = cr.spec
        BY <2>1, <2>5 DEF CountsHeld
    <2> QED BY <1>1, <2>2, <2>3, <2>4, <2>5, SpecStep
<1>2. crCache' # NotFound => crCache'.spec.numShards \in ShardCounts
    BY CopyFollows DEF CountsHeld
<1>3. ASSUME pc' # "idle" PROVE obj'.spec.numShards \in ShardCounts \ {Nil}
    <2>1. CASE crCache # NotFound /\ cr # NotFound /\ obj' = DefaultsDecoded
        BY <2>1, CountPatched
    <2>2. CASE pc # "idle" /\ obj'.spec = obj.spec
        BY <2>2 DEF CountsHeld
    <2>3. AddFinalizer => pc # "idle"
        BY DEF AddFinalizer
    <2> QED BY <1>3, <2>1, <2>2, <2>3, CopyStep
<1> QED BY <1>1, <1>2, <1>3 DEF CountsHeld

-----------------------------------------------------------------------------
(* The shard map on the server *)

\* What the worker computes from its cache is one of its maps.
LEMMA ComputedMap ==
    ASSUME Inv, CountsHeld, pc # "idle"
    PROVE  OwnersFromCache(obj.spec) \in ItsMaps
<1> DEFINE S == { p \in Pods : podCache[p] # "none" }
           isReady == [p \in Pods |-> podCache[p] = "ready"]
           n == obj.spec.numShards
<1>1. n \in ShardCounts \ {Nil} /\ n \in 1 .. MaxShards
    BY SystemAssumption DEF CountsHeld
<1>2. S \in SUBSET Pods /\ isReady \in [Pods -> BOOLEAN]
    OBVIOUS
<1>3. OwnersFromCache(obj.spec) = computeShardMap(Listing(S), isReady, n)
    BY DEF OwnersFromCache
<1>4. DOMAIN computeShardMap(Listing(S), isReady, n) = 0 .. n - 1
    BY DEF computeShardMap
<1> HIDE DEF S, isReady, n
<1>5. computeShardMap(Listing(S), isReady, n) \in OperatorMaps
    BY ZenonT(30), <1>1, <1>2, ComputedIsOperators
<1> QED BY <1>1, <1>3, <1>4, <1>5 DEF ItsMaps

\* The ways the shard map on the server changes: the worker writes one of its
\* maps, somebody spoils it or deletes it, or it is collected.
LEMMA MapStep ==
    ASSUME Inv, CountsHeld, Next, child'["shardmap"] # child["shardmap"]
    PROVE  \/ \E m \in ItsMaps : child'["shardmap"] = [owners |-> m]
           \/ child["shardmap"] # Absent /\ child'["shardmap"] \in {Absent, Spoiled}
<1>0. "shardmap" \in Tracked /\ DOMAIN child = Tracked
    BY SystemAssumption DEF Inv, TypeOK, ChildrenTyped
<1>1. ASSUME NEW c \in Tracked, NEW new, StoreChild(c, new)
      PROVE  c = "shardmap" /\ child'["shardmap"] = new
    BY <1>0, <1>1 DEF StoreChild
<1>2. CASE ReconcileChild
    <2>1. pc = "child" /\ Order[at] \in Tracked
        BY ZenonT(30), <1>2 DEF ReconcileChild, Inv, TypeOK, WorkerTyped
    <2>2. \/ child' = child
          \/ StoreChild(Order[at], child[Order[at]])
          \/ StoreChild(Order[at], Desired(Order[at], obj.spec, replicas, childCache[Order[at]]))
        BY <1>2 DEF ReconcileChild, childVars
    <2>3. Desired("shardmap", obj.spec, replicas, childCache["shardmap"]) =
            [owners |-> OwnersFromCache(obj.spec)]
        BY DEF Desired, Deployments
    <2>4. OwnersFromCache(obj.spec) \in ItsMaps
        BY <2>1, ComputedMap
    <2> QED BY ZenonT(30), <1>0, <1>1, <2>1, <2>2, <2>3, <2>4
<1>3. CASE \E c \in Tracked : \E new \in {Absent, Spoiled} : ChildDrift(c, new)
    BY <1>1, <1>3 DEF ChildDrift
<1>4. CASE \E c \in Tracked : GarbageCollect(c)
    BY <1>1, <1>4 DEF GarbageCollect
<1>5. CASE \E text \in SignalTexts : SignalWritten(text)
    BY <1>1, <1>5 DEF SignalWritten
<1>6. CASE child' = child
    BY ZenonT(30), <1>6
<1>7. CASE Work /\ ~ReconcileChild
    BY ZenonT(30), <1>6, <1>7 DEF Work, BeginReconcile, RemoveFinalizer, AddFinalizer,
       ReadSignals, PatchStatus, requeueDegraded, childVars
<1>8. CASE CacheSync \/ PodSync \/ TimerFires \/ \E c \in Tracked : ChildSync(c)
    BY ZenonT(30), <1>6, <1>8 DEF CacheSync, PodSync, TimerFires, ChildSync, childVars
<1>9. CASE \/ \E f \in Fields : \E v \in FieldValues[f] : UserEdit(f, v)
           \/ UserDelete
           \/ \E c \in Tracked : RolloutStatus(c)
           \/ \E p \in Pods, state \in {"none", "unready", "ready"} : PodChange(p, state)
           \/ Restart
           \/ Tick
    BY <1>6, <1>9 DEF UserEdit, UserDelete, RolloutStatus, PodChange, Restart, Tick, childVars
<1> QED BY ZenonT(30), <1>2, <1>3, <1>4, <1>5, <1>7, <1>8, <1>9 DEF Next, Environment

\* The three kinds of objects are served as three kinds of data.
LEMMA ServedKinds ==
    /\ Served(Absent) = NotServed
    /\ Served(Spoiled) = Garbled
    /\ \A m : Served([owners |-> m]) = m
<1>1. Absent # Spoiled /\ \A m : [owners |-> m] # Absent /\ [owners |-> m] # Spoiled
    BY DEF Absent, Spoiled
<1> QED BY <1>1 DEF Served

\* A map is neither of the other two.
LEMMA MapsAreData ==
    ASSUME NEW m \in ItsMaps
    PROVE  m # NotServed /\ m # Garbled /\ m \in OperatorMaps
BY SystemAssumption DEF ItsMaps

-----------------------------------------------------------------------------
(* The contract *)

LEMMA ContractInit == SystemInit => ContractInv
<1> SUFFICES ASSUME SystemInit PROVE ContractInv
    OBVIOUS
<1>1. PICK spec \in InitSpecs :
        cr = [spec |-> spec, gen |-> 1, fin |-> FALSE, del |-> FALSE, status |-> NewStatus]
    BY DEF SystemInit, Init
<1>2. CountsHeld
    BY <1>1 DEF SystemInit, Init, CountsHeld, ShardCounts
<1>3. child["shardmap"] = Absent /\ cm.data = NotServed
    BY SystemAssumption DEF SystemInit, Init, Rt!Init
<1> QED BY <1>2, <1>3, ServedKinds DEF ContractInv

LEMMA ContractStep ==
    ASSUME Inv, ContractInv, [SystemNext]_systemVars
    PROVE  ContractInv'
<1>1. CASE UNCHANGED <<vars, cm>>
    <2>1. UNCHANGED <<cr, crCache, pc, obj, child, cm>>
        BY <1>1 DEF vars, crVars, childVars, workVars
    <2> QED BY <2>1 DEF ContractInv, CountsHeld, Served
<1>2. CASE OperatorStep
    <2>1. CountsHeld'
        BY <1>2, CountsStep DEF OperatorStep, ContractInv
    <2>2. CASE child'["shardmap"] = child["shardmap"]
        BY <1>2, <2>1, <2>2 DEF OperatorStep, ContractInv, Served
    <2>3. CASE child'["shardmap"] # child["shardmap"]
        <3>1. child'["shardmap"] \in {Absent, Spoiled} \cup { [owners |-> m] : m \in ItsMaps }
            BY ZenonT(30), <1>2, <2>3, MapStep DEF OperatorStep, ContractInv
        <3>2. cm'.data = Served(child'["shardmap"])
            BY <1>2, <2>3 DEF OperatorStep
        <3> QED BY <2>1, <3>1, <3>2 DEF ContractInv, Served
    <2> QED BY <2>2, <2>3
<1>3. CASE RouterStep
    BY ZenonT(30), <1>1, <1>3 DEF RouterStep, Rt!PollGet, Rt!PollStore, Rt!Restart
<1> QED BY <1>1, <1>2, <1>3 DEF SystemNext, systemVars

\* A step of the operator that touches the ConfigMap is a write that Router has.
LEMMA WriteStep ==
    ASSUME Inv, ContractInv, OperatorStep, child'["shardmap"] # child["shardmap"]
    PROVE  Rt!Next
<1>1. /\ cm' = [rv |-> cm.rv + 1, data |-> Served(child'["shardmap"])]
      /\ Rt!Spend("write")
      /\ UNCHANGED <<sm, polled, req, decodeUp>>
    BY DEF OperatorStep, Rt!Spend
<1>2. /\ cm.data = Served(child["shardmap"])
      /\ child["shardmap"] \in {Absent, Spoiled} \cup { [owners |-> m] : m \in ItsMaps }
    BY DEF ContractInv
<1>3. ASSUME NEW m \in ItsMaps, child'["shardmap"] = [owners |-> m]
      PROVE  Rt!Next
    <2>1. m # cm.data
        BY ZenonT(30), <1>2, <1>3, ServedKinds, MapsAreData
    <2>2. Rt!Publish(m)
        BY <1>1, <1>3, <2>1, ServedKinds DEF Rt!Publish, Rt!WriteConfigMap
    <2> QED BY ZenonT(30), <2>2, MapsAreData DEF Rt!Next
<1>4. ASSUME child["shardmap"] # Absent, child'["shardmap"] \in {Absent, Spoiled}
      PROVE  Rt!Next
    <2> DEFINE data == Served(child'["shardmap"])
    <2>1. data \in {NotServed, Garbled} /\ data # cm.data /\ cm.data # NotServed
        <3>1. NotServed # Garbled
            BY SystemAssumption
        <3>2. CASE child["shardmap"] = Spoiled
            <4>1. child'["shardmap"] = Absent
                BY ZenonT(30), <1>4, <3>2
            <4>2. cm.data = Garbled /\ data = NotServed
                BY ZenonT(30), <1>2, <3>2, <4>1, ServedKinds
            <4> QED BY ZenonT(30), <3>1, <4>2
        <3>3. ASSUME NEW m \in ItsMaps, child["shardmap"] = [owners |-> m]
              PROVE  data \in {NotServed, Garbled} /\ data # cm.data /\ cm.data # NotServed
            <4>1. cm.data = m
                BY ZenonT(30), <1>2, <3>3, ServedKinds
            <4>2. data \in {NotServed, Garbled}
                BY ZenonT(30), <1>4, ServedKinds
            <4>3. m # NotServed /\ m # Garbled
                BY ZenonT(30), MapsAreData
            <4> QED BY ZenonT(30), <4>1, <4>2, <4>3
        <3> QED BY ZenonT(30), <1>2, <1>4, <3>2, <3>3
    <2>2. cm' = [rv |-> cm.rv + 1, data |-> data]
        BY <1>1
    <2> HIDE DEF data
    <2>3. Rt!Drift(data)
        BY <1>1, <2>1, <2>2 DEF Rt!Drift, Rt!WriteConfigMap
    <2> QED BY ZenonT(30), <2>1, <2>3 DEF Rt!Next
<1> QED BY <1>3, <1>4, MapStep DEF OperatorStep, ContractInv

\* The operator is the environment Router takes for granted: for any pods, specs,
\* edits, drift, faults and restarts, the whole system implements Router's
\* specification, so that what is proved of the routers there holds here.
THEOREM OperatorKeepsContract == SystemSpec => KeepsRouterContract
<1>1. SystemInit => Rt!Init
    BY DEF SystemInit
<1>2. SystemInit => ContractInv
    BY ContractInit
<1>3. Inv /\ ContractInv /\ [SystemNext]_systemVars => ContractInv'
    BY ContractStep
<1>4. Inv /\ ContractInv /\ [SystemNext]_systemVars => [Rt!Next]_(Rt!vars)
    <2> SUFFICES ASSUME Inv, ContractInv, [SystemNext]_systemVars
                 PROVE  Rt!Next \/ UNCHANGED Rt!vars
        OBVIOUS
    <2>1. CASE UNCHANGED systemVars
        BY <2>1 DEF systemVars, Rt!vars
    <2>2. CASE OperatorStep /\ child'["shardmap"] = child["shardmap"]
        BY <2>2 DEF OperatorStep, Rt!vars
    <2>3. CASE OperatorStep /\ child'["shardmap"] # child["shardmap"]
        BY <2>3, WriteStep
    <2>4. CASE RouterStep
        BY <2>4 DEF RouterStep, Rt!Next
    <2> QED BY <2>1, <2>2, <2>3, <2>4 DEF SystemNext
<1> QED BY <1>1, <1>2, <1>3, <1>4, OperatorInv, PTL DEF SystemSpec, KeepsRouterContract, Rt!Spec

-----------------------------------------------------------------------------
(* Affinity *)

LEMMA OnTheirWayInit == SystemInit => MapsOnTheirWay
BY ZenonT(30) DEF SystemInit, Rt!Init, MapsOnTheirWay

LEMMA OnTheirWayStep ==
    ASSUME ContractInv, MapsOnTheirWay, DOMAIN sm = Routers, DOMAIN polled = Routers,
           [SystemNext]_systemVars
    PROVE  MapsOnTheirWay' /\ DOMAIN sm' = Routers /\ DOMAIN polled' = Routers
<1>1. CASE UNCHANGED <<sm, polled>>
    BY <1>1 DEF MapsOnTheirWay, Rt!NoMap, Rt!NotPolling
<1>2. cm.data \notin {NotServed, Garbled} => cm.data \in ItsMaps
    BY ServedKinds DEF ContractInv
<1>3. ASSUME NEW r \in Routers, Rt!PollGet(r)
      PROVE  MapsOnTheirWay' /\ DOMAIN sm' = Routers /\ DOMAIN polled' = Routers
    BY ZenonT(30), <1>2, <1>3 DEF Rt!PollGet, Rt!NotPolling, MapsOnTheirWay, Rt!NoMap
<1>4. ASSUME NEW r \in Routers, Rt!PollStore(r)
      PROVE  MapsOnTheirWay' /\ DOMAIN sm' = Routers /\ DOMAIN polled' = Routers
    BY <1>4 DEF Rt!PollStore, Rt!ParseShardMapJSON, Rt!NotPolling, MapsOnTheirWay, Rt!NoMap
<1>5. ASSUME NEW r \in Routers, Rt!Restart(r)
      PROVE  MapsOnTheirWay' /\ DOMAIN sm' = Routers /\ DOMAIN polled' = Routers
    BY <1>5 DEF Rt!Restart, Rt!NotPolling, MapsOnTheirWay, Rt!NoMap
<1> QED BY ZenonT(30), <1>1, <1>3, <1>4, <1>5 DEF SystemNext, OperatorStep, RouterStep, systemVars

\* For any number of routers and pods, a conversation keeps its shard throughout,
\* provided that the spec has one number of shards all the time: pods come and
\* go, the ConfigMap is deleted and spoiled, operator and routers restart.
THEOREM ConversationsKeepTheirShard ==
    ASSUME NEW n, n # Nil, ShardCounts = {n}
    PROVE  SystemSpec => []AffinityThroughout
<1> DEFINE J == ContractInv /\ MapsOnTheirWay /\ DOMAIN sm = Routers /\ DOMAIN polled = Routers
<1>1. SystemInit => J
    BY ZenonT(30), ContractInit, OnTheirWayInit DEF SystemInit, Rt!Init
<1>2. Inv /\ J /\ [SystemNext]_systemVars => J'
    BY ZenonT(30), ContractStep, OnTheirWayStep
<1>3. J => AffinityThroughout
    <2> SUFFICES ASSUME J, NEW r \in Routers, NEW conv \in DOMAIN ConvHash,
                        cr # NotFound, sm[r] # Rt!NoMap
                 PROVE  Rt!ShardFor(sm[r].owners, conv) =
                            Rt!pickShardForConversation(0 .. cr.spec.numShards - 1, ConvHash[conv])
        BY DEF AffinityThroughout
    <2>1. cr.spec.numShards = n /\ n \in Nat /\ n >= 1
        <3>1. cr.spec.numShards \in ShardCounts
            BY ZenonT(30) DEF ContractInv, CountsHeld
        <3>2. cr.spec.numShards = n
            BY ZenonT(30), <3>1
        <3>3. n \in ShardCounts \ {Nil}
            BY ZenonT(30)
        <3>4. n \in 1 .. MaxShards /\ MaxShards \in Nat
            BY ZenonT(30), <3>3, SystemAssumption, ShardMapAssumption
        <3>5. n \in Nat /\ n >= 1
            BY <3>4
        <3> QED BY ZenonT(30), <3>2, <3>5
    <2>2. DOMAIN sm[r].owners = 0 .. n - 1
        BY DEF MapsOnTheirWay, ItsMaps
    <2>3. 0 .. n - 1 # {}
        BY <2>1
    <2> QED BY <2>1, <2>2, <2>3 DEF Rt!ShardFor
<1> QED BY <1>1, <1>2, <1>3, OperatorInv, PTL DEF SystemSpec

-----------------------------------------------------------------------------
(* The system at rest *)

\* The operator in the system is the operator.
LEMMA OperatorAlone == SystemSpec => Spec
<1>1. SystemInit => Init
    BY DEF SystemInit
<1> QED BY <1>1, OperatorSteps, PTL DEF SystemSpec, Spec

\* At rest, the routers use the map of the pods and of the spec.
LEMMA MapAtRest ==
    ASSUME Inv, ContractInv, SystemAtRest
    PROVE  /\ cr.spec.numShards \in 1 .. MaxShards
           /\ child["shardmap"] = [owners |-> MapOfPods]
           /\ cm.data = MapOfPods
           /\ \A r \in Routers : sm[r].owners = MapOfPods
<1>1. cr # NotFound /\ WithDefaults(cr.spec) = cr.spec /\ InSync /\ podCache = pods
    BY DEF SystemAtRest, AtRest, FixedPoint
<1>0. IsResource(cr)
    BY <1>1 DEF Inv, TypeOK, ResourceTyped
<1>2. cr.spec.numShards \in ShardCounts
    BY <1>1 DEF ContractInv, CountsHeld
<1>3. cr.spec.numShards # Nil
    <2>1. "numShards" \in Fields /\ "numShards" \in DOMAIN Defaults
        BY DEF Fields, Defaults
    <2>2. "numShards" \in DOMAIN cr.spec
        BY <1>0, <2>1 DEF IsResource, IsSpec
    <2>3. WithDefaults(cr.spec).numShards = Deref(cr.spec.numShards, Defaults.numShards)
        BY <2>1, <2>2 DEF WithDefaults
    <2> QED BY <1>1, <2>3, SystemAssumption DEF Deref
<1>4. cr.spec.numShards \in 1 .. MaxShards
    BY <1>2, <1>3, SystemAssumption
<1>5. Active("shardmap", cr.spec)
    BY SystemAssumption DEF Active
<1>6. child["shardmap"] = [owners |-> OwnersFromCache(cr.spec)]
    BY <1>1, <1>5, SystemAssumption DEF InSync, Desired, Deployments
<1>7. OwnersFromCache(cr.spec) = MapOfPods
    BY <1>1 DEF OwnersFromCache, MapOfPods
<1>8. cm.data = MapOfPods
    BY <1>6, <1>7, ServedKinds DEF ContractInv
<1>9. \A r \in Routers : sm[r].owners = cm.data
    BY DEF SystemAtRest, RoutersInStep
<1> QED BY <1>4, <1>6, <1>7, <1>8, <1>9

\* For any pods, shards, hash function, specs and routers: a system at rest serves
\* every shard as long as a pod exists, and from ready pods if there is one.
THEOREM RestServesReadyPods == SystemSpec => []ReadyPodsServe
<1>1. Inv /\ ContractInv => ReadyPodsServe
    <2> DEFINE up == { p \in Pods : pods[p] # "none" }
               isReady == [p \in Pods |-> pods[p] = "ready"]
               ready == { p \in Pods : pods[p] = "ready" }
               n == cr.spec.numShards
    <2> SUFFICES ASSUME Inv, ContractInv, SystemAtRest, NEW r \in Routers
                 PROVE  /\ DOMAIN sm[r].owners = 0 .. n - 1
                        /\ \A i \in DOMAIN sm[r].owners :
                            /\ sm[r].owners[i] = NoOwner <=> up = {}
                            /\ ready # {} => sm[r].owners[i] \in ready
        BY DEF ReadyPodsServe
    <2>1. n \in 1 .. MaxShards /\ sm[r].owners = computeShardMap(Listing(up), isReady, n)
        BY MapAtRest DEF MapOfPods
    <2>2. DOMAIN sm[r].owners = 0 .. n - 1
        BY <2>1 DEF computeShardMap
    <2>3. /\ Cardinality(up) \in Nat
          /\ IsListing(Listing(up), Cardinality(up))
          /\ Names(Listing(up)) = up
        BY ListingOf
    <2>4. { p \in up : isReady[p] } = ready
        OBVIOUS
    <2> HIDE DEF up, isReady, ready, n
    <2>5. ASSUME NEW i \in 0 .. n - 1
          PROVE  /\ sm[r].owners[i] = NoOwner <=> up = {}
                 /\ ready # {} => sm[r].owners[i] \in ready
        <3> DEFINE l == Listing(up)
                   o == computeShardMap(l, isReady, n)[i]
        <3>1. /\ o = NoOwner <=> Names(l) = {}
              /\ { p \in Names(l) : isReady[p] } # {} => o \in { p \in Names(l) : isReady[p] }
            BY ZenonT(30), <2>1, <2>3, MapServes
        <3> HIDE DEF l
        <3>2. Names(l) = up
            BY ZenonT(30), <2>3 DEF l
        <3>3. sm[r].owners[i] = o
            BY ZenonT(30), <2>1 DEF l
        <3> HIDE DEF o
        <3> QED BY ZenonT(30), <2>4, <3>1, <3>2, <3>3
    <2> QED BY <2>2, <2>5
<1> QED BY <1>1, ContractInit, ContractStep, OperatorInv, PTL DEF SystemSpec

\* The routers' tables: a map and a poll for each of them, and their budget.
RouterTables ==
    /\ sm = [r \in Routers |-> sm[r]]
    /\ polled = [r \in Routers |-> polled[r]]
    /\ routerBudget \in [Rt!Events -> Nat]

LEMMA RouterTablesStep == RouterTables /\ [SystemNext]_systemVars => RouterTables'
<1> SUFFICES ASSUME RouterTables, [SystemNext]_systemVars PROVE RouterTables'
    OBVIOUS
<1>1. CASE UNCHANGED systemVars
    BY <1>1 DEF systemVars, RouterTables
<1>2. CASE OperatorStep
    BY <1>2 DEF OperatorStep, RouterTables, Rt!Events
<1>3. ASSUME NEW r \in Routers, Rt!PollGet(r) PROVE RouterTables'
    BY <1>3 DEF Rt!PollGet, RouterTables
<1>4. ASSUME NEW r \in Routers, Rt!PollStore(r) PROVE RouterTables'
    BY <1>4 DEF Rt!PollStore, RouterTables
<1>5. ASSUME NEW r \in Routers, Rt!Restart(r) PROVE RouterTables'
    <2>1. routerBudget' \in [Rt!Events -> Nat]
        BY <1>5 DEF Rt!Restart, Rt!Spend, Rt!Events, RouterTables
    <2>2. sm' = [s \in Routers |-> sm'[s]] /\ polled' = [s \in Routers |-> polled'[s]]
        BY <1>5 DEF Rt!Restart, RouterTables
    <2> QED BY <2>1, <2>2 DEF RouterTables
<1> QED BY <1>1, <1>2, <1>3, <1>4, <1>5 DEF SystemNext, RouterStep

\* A poll of the ConfigMap that a router already uses changes nothing.
LEMMA PollAtRest ==
    ASSUME RoutersInStep, RouterTables, NEW r \in Routers, Rt!PollGet(r) \/ Rt!PollStore(r)
    PROVE  RoutersInStep' /\ UNCHANGED <<cm, sm>>
<1>1. CASE Rt!PollGet(r)
    BY <1>1 DEF Rt!PollGet, RoutersInStep, RouterTables
<1>2. CASE Rt!PollStore(r)
    <2>1. polled[r] = cm /\ sm[r] = [rv |-> cm.rv, owners |-> cm.data]
        BY <1>2 DEF Rt!PollStore, RoutersInStep
    <2>2. sm' = sm
        BY <1>2, <2>1 DEF Rt!PollStore, RouterTables
    <2> QED BY <1>2, <2>2 DEF Rt!PollStore, RoutersInStep, RouterTables
<1> QED BY <1>1, <1>2

LEMMA SystemRestStep ==
    ASSUME Inv, CompleteInv, WellFormed, RouterTables, SystemAtRest, Calm, SystemNext
    PROVE  SystemAtRest' /\ UNCHANGED <<cm, sm>>
<1>0. AtRest /\ RoutersInStep
    BY DEF SystemAtRest
<1>1. CASE OperatorStep
    <2>1. AtRest' /\ UNCHANGED <<cr, child>>
        BY <1>0, <1>1, RestStep, RestartAtRest DEF OperatorStep, Calm
    <2>2. UNCHANGED <<cm, sm, polled>>
        BY <1>1, <2>1 DEF OperatorStep
    <2>3. RoutersInStep'
        BY <1>0, <2>2 DEF RoutersInStep, Rt!NotPolling
    <2> QED BY <2>1, <2>2, <2>3 DEF SystemAtRest
<1>2. CASE RouterStep
    <2>1. AtRest'
        BY <1>0, <1>2, RestStutter DEF RouterStep
    <2>2. UNCHANGED budget
        BY <1>2 DEF RouterStep, vars
    <2>3. ~Restart
        BY <2>2, NothingSpent DEF Restart, Events
    <2>4. ~Rt!Spend("fault")
        BY <2>3 DEF Calm, Rt!Spend, RouterTables, Rt!Events
    <2>5. PICK r \in Routers : Rt!PollGet(r) \/ Rt!PollStore(r)
        BY <1>2, <2>4 DEF RouterStep, Rt!Restart
    <2> QED BY <1>0, <2>1, <2>5, PollAtRest DEF SystemAtRest
<1> QED BY <1>1, <1>2 DEF SystemNext

\* For any pods, specs and routers: a system at rest stays at rest; neither the
\* ConfigMap nor a router's map changes until something disturbs the system.
THEOREM SystemRestIsStable == SystemSpec => SystemStaysAtRest
<1> DEFINE A == Calm /\ SystemAtRest => SystemAtRest' /\ UNCHANGED <<cm, sm>>
<1>1. SystemInit => RouterTables
    BY SystemAssumption DEF SystemInit, Rt!Init, RouterTables
<1>2. Inv /\ CompleteInv /\ WellFormed /\ RouterTables /\ [SystemNext]_systemVars
        => [A]_systemVars
    BY SystemRestStep
<1> QED BY <1>1, <1>2, RouterTablesStep, OperatorAlone, Invariance, CompleteInvariance,
           WellFormedInvariance, PTL DEF SystemSpec, SystemStaysAtRest

\* So it is enough to come to rest once: from then on, as long as nothing but a
\* restart of the operator disturbs the system, every router serves the map of
\* the pods that exist.
THEOREM RestKeepsServing ==
    SystemSpec /\ <>(SystemAtRest /\ [][Calm]_systemVars)
        => <>[]SystemAtRest /\ RoutersServePods
<1>1. SystemAtRest /\ UNCHANGED systemVars => SystemAtRest'
    BY RestStutter DEF systemVars, SystemAtRest, RoutersInStep, Rt!NotPolling
<1>2. Inv /\ ContractInv /\ SystemAtRest =>
        (cr # NotFound => \A r \in Routers : sm[r].owners = MapOfPods)
    BY MapAtRest
<1> QED BY <1>1, <1>2, SystemRestIsStable, ContractInit, ContractStep, OperatorInv, PTL
        DEF SystemSpec, SystemStaysAtRest, RoutersServePods
=============================================================================
