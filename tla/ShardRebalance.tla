--------------------------- MODULE ShardRebalance ---------------------------
(***************************************************************************)
(* The shard map over time: every reconcile lists the decode pods, in      *)
(* whatever order the informer's index yields them, and recomputes the     *)
(* owners of the shards from scratch.                                      *)
(***************************************************************************)
EXTENDS ShardMap

VARIABLES
    listing,    \* the pods as the last List call returned them
    isReady,    \* their PodReady condition at that time
    numShards,  \* spec.kvCache.numShards at that time
    owners      \* status.shards and shardmap.json

vars == <<listing, isReady, numShards, owners>>

Listed(l) == { l[i] : i \in DOMAIN l }

\* Only a listed pod has a condition to look at.
Readiness(l) == { r \in [Pods -> BOOLEAN] : \A p \in Pods \ Listed(l) : ~r[p] }

Init ==
    /\ listing = << >>
    /\ isReady = [p \in Pods |-> FALSE]
    /\ numShards = MaxShards
    /\ owners = computeShardMap(listing, isReady, numShards)

\* A reconcile after any change of the pods or of spec.kvCache.numShards.
Recompute(l, r, n) ==
    /\ listing' = l
    /\ isReady' = r
    /\ numShards' = n
    /\ owners' = computeShardMap(l, r, n)

Next == \E l \in AllListings, n \in 1 .. MaxShards : \E r \in Readiness(l) : Recompute(l, r, n)

Spec == Init /\ [][Next]_vars

-----------------------------------------------------------------------------
Serving == { p \in Listed(listing) : isReady[p] }

\* Type invariant of the published map.
TypeOK ==
    /\ listing \in AllListings
    /\ isReady \in Readiness(listing)
    /\ numShards \in 1 .. MaxShards
    /\ owners \in [0 .. numShards - 1 -> Pods \cup {NoOwner}]

\* The map covers exactly the shards 0 .. numShards - 1; a shard is left without
\* an owner only when there is no decode pod at all, and goes to a pod that is
\* not ready only when no listed pod is (the fallback of computeShardMap).
OwnersServe ==
    /\ DOMAIN owners = 0 .. numShards - 1
    /\ \A i \in DOMAIN owners :
        /\ owners[i] = NoOwner <=> listing = << >>
        /\ Serving # {} => owners[i] \in Serving

\* The order in which the API lists the pods never moves a shard: two
\* reconciles that see the same pods publish the same map (NewRing sorts).
ListingOrderIrrelevant ==
    [][ (/\ Listed(listing') = Listed(listing)
         /\ isReady' = isReady
         /\ numShards' = numShards) => owners' = owners ]_vars

\* Changing numShards alone never moves a shard both maps have: an owner depends
\* on the shard and the pods only (Ring.Pick hashes the shard number).
ResizeKeepsOwners ==
    [][ (listing' = listing /\ isReady' = isReady) =>
            \A i \in DOMAIN owners \cap DOMAIN owners' : owners'[i] = owners[i] ]_vars

\* "Ring is a minimal consistent-hash ring" (consistenthash.go): when the pods
\* that serve change, a shard moves only away from a pod that left or to a pod
\* that joined.
ConsistentHashing ==
    [][ (Serving # {} /\ Serving' # {}) =>
            \A i \in DOMAIN owners \cap DOMAIN owners' :
                \/ owners'[i] = owners[i]
                \/ owners[i] \notin Serving'
                \/ owners'[i] \notin Serving ]_vars
=============================================================================
