------------------------------- MODULE System -------------------------------
(***************************************************************************)
(* The operator and the routers together: Reconciler and Router, joined by *)
(* the ConfigMap with the shard map, which the one writes when pods and    *)
(* spec call for it and the others poll.                                   *)
(***************************************************************************)
EXTENDS Reconciler

CONSTANTS
    Routers, NewIDs, ConvHash,      \* as in Router
    Malformed,
    NotServed,      \* what a Get of a missing ConfigMap returns
    Garbled,        \* a ConfigMap whose shardmap.json does not parse
    RouterBudget    \* Router's Budget

VARIABLES
    cm,             \* the ConfigMap as the API server serves it to the routers
    sm, polled,     \* the routers
    req, decodeUp,  \* their requests, of which there are none here
    routerBudget    \* what is left of RouterBudget

systemVars == <<vars, cm, sm, polled, req, decodeUp, routerBudget>>

\* Requests leave no trace in what the two sides share, so there are none here.
\* Nobody but the operator puts a map that parses into the ConfigMap.
Rt == INSTANCE Router WITH
        Requests <- {}, Bodies <- {}, Absent <- NotServed,
        PublishedMaps <- OperatorMaps, ForeignMaps <- {},
        Budget <- RouterBudget, budget <- routerBudget

\* The values numShards can come to have.
ShardCounts ==
    LET given == FieldValues["numShards"] \cup { s.numShards : s \in InitSpecs }
    IN  IF Nil \in given THEN given \cup {Defaults.numShards} ELSE given

ASSUME SystemAssumption ==
    /\ "shardmap" \in Tracked
    /\ ShardCounts \ {Nil} \subseteq 1 .. MaxShards
    /\ Defaults.numShards # Nil
    /\ NotServed # Garbled /\ {NotServed, Garbled} \cap OperatorMaps = {}
    /\ RouterBudget \in [Rt!Events -> Nat]

\* The data of the object the operator keeps as the child "shardmap".
Served(object) ==
    CASE object = Absent  -> NotServed
      [] object = Spoiled -> Garbled
      [] OTHER            -> object.owners

\* A step of the operator and of what is around it. The ConfigMap the routers
\* see is the one it has written; RouterBudget bounds how often.
OperatorStep ==
    /\ Next
    /\ IF child'["shardmap"] = child["shardmap"] THEN UNCHANGED <<cm, routerBudget>>
       ELSE /\ routerBudget["write"] > 0
            /\ cm' = [rv |-> cm.rv + 1, data |-> Served(child'["shardmap"])]
            /\ routerBudget' = [routerBudget EXCEPT !["write"] = @ - 1]
    /\ UNCHANGED <<sm, polled, req, decodeUp>>

\* A step of a router.
RouterStep ==
    /\ \E r \in Routers : Rt!PollGet(r) \/ Rt!PollStore(r) \/ Rt!Restart(r)
    /\ UNCHANGED vars

SystemInit == Init /\ Rt!Init

SystemNext == OperatorStep \/ RouterStep

\* The fairness of the operator's parts and of the pollers, as each has it in its
\* own module.
SystemSpec ==
    /\ SystemInit /\ [][SystemNext]_systemVars
    /\ Fairness
    /\ Rt!Fairness

-----------------------------------------------------------------------------
\* The map the decode pods there are call for.
MapOfPods ==
    computeShardMap(Listing({ p \in Pods : pods[p] # "none" }),
                    [p \in Pods |-> pods[p] = "ready"],
                    cr.spec.numShards)

\* The operator is the environment that Router takes for granted: what it writes
\* is a map for some set of pods, in one piece and one version at a time, so
\* that everything Router promises holds in the whole system.
KeepsRouterContract == Rt!Spec

\* From the pods to the routers: once pods, spec and failures come to rest, every
\* router uses the map of the pods that exist, although neither the operator
\* watches pods nor the routers the ConfigMap.
RoutersServePods == <>[](cr # NotFound => \A r \in Routers : sm[r].owners = MapOfPods)

\* A conversation keeps its shard from one end to the other: as long as the spec
\* has the same numShards, every router that holds a map sends it to the same
\* shard, whichever pods came and went and whatever happened to the ConfigMap.
AffinityThroughout ==
    \A r \in Routers, conv \in DOMAIN ConvHash :
        cr # NotFound /\ sm[r] # Rt!NoMap =>
            Rt!ShardFor(sm[r].owners, conv) =
                Rt!pickShardForConversation(0 .. cr.spec.numShards - 1, ConvHash[conv])

\* Every router uses the latest version of the ConfigMap, and a poll that is under
\* way has read that version too.
RoutersInStep ==
    \A r \in Routers :
        /\ sm[r] = [rv |-> cm.rv, owners |-> cm.data]
        /\ polled[r] \in {Rt!NotPolling, cm}

SystemAtRest == RoutersInStep /\ AtRest

\* Nothing but the operator's, the informers' and the routers' own steps, and
\* restarts of the operator.
Calm == UNCHANGED <<budget, routerBudget>> \/ Restart

\* From the pods to the routers, what it is good for: with operator and routers at
\* rest, every router has an owner for each of the numShards shards as long as a
\* pod exists, and it is a ready pod if one is ready.
ReadyPodsServe ==
    LET up    == { p \in Pods : pods[p] # "none" }
        ready == { p \in Pods : pods[p] = "ready" }
    IN  SystemAtRest => \A r \in Routers :
            /\ DOMAIN sm[r].owners = 0 .. cr.spec.numShards - 1
            /\ \A i \in DOMAIN sm[r].owners :
                /\ sm[r].owners[i] = NoOwner <=> up = {}
                /\ ready # {} => sm[r].owners[i] \in ready

\* The system stays at rest as long as nothing disturbs it: further reconciliations
\* do not touch the ConfigMap and further polls do not change a router's map.
SystemStaysAtRest ==
    [][ Calm /\ SystemAtRest => SystemAtRest' /\ UNCHANGED <<cm, sm>> ]_systemVars

-----------------------------------------------------------------------------
(* The inductive invariants behind KeepsRouterContract and AffinityThroughout *)

\* Every copy of the spec has one of the numbers of shards it can have, and the
\* worker never goes on without one.
CountsHeld ==
    /\ cr # NotFound => cr.spec.numShards \in ShardCounts
    /\ crCache # NotFound => crCache.spec.numShards \in ShardCounts
    /\ pc # "idle" => obj.spec.numShards \in ShardCounts \ {Nil}

\* The maps with one of these numbers of shards.
ItsMaps == { m \in OperatorMaps : \E n \in ShardCounts \ {Nil} : DOMAIN m = 0 .. n - 1 }

\* What the worker leaves on the server is one of them, and it is what the
\* routers are served.
ContractInv ==
    /\ CountsHeld
    /\ child["shardmap"] \in {Absent, Spoiled} \cup { [owners |-> m] : m \in ItsMaps }
    /\ cm.data = Served(child["shardmap"])

\* So is what the routers have read and what they use.
MapsOnTheirWay ==
    \A r \in Routers :
        /\ polled[r] # Rt!NotPolling => polled[r].data \in ItsMaps \cup {Garbled}
        /\ sm[r] # Rt!NoMap => sm[r].owners \in ItsMaps
=============================================================================
