------------------------ MODULE ShardRebalanceProofs ------------------------
(* Proofs about the shard map over time, for any pods and hash function. *)
EXTENDS ShardRebalance, ShardMapProofs

\* The published owners are always those of the pods last listed; nothing of an
\* earlier map survives a reconcile.
Current == owners = computeShardMap(listing, isReady, numShards)

LEMMA AlwaysCurrent == Spec => []Current
<1>1. Init => Current
    BY DEF Init, Current
<1>2. Current /\ [Next]_vars => Current'
    <2> SUFFICES ASSUME Current, [Next]_vars PROVE Current'
        OBVIOUS
    <2>1. CASE Next
        BY <2>1 DEF Next, Recompute, Current
    <2>2. CASE UNCHANGED vars
        BY <2>2 DEF vars, Current
    <2> QED BY <2>1, <2>2
<1> QED BY <1>1, <1>2, PTL DEF Spec

\* For any number of pods and shards, and whatever the hash function: a change of
\* numShards alone leaves every shard that both maps have with its owner.
THEOREM OwnersSurviveResize == Spec => ResizeKeepsOwners
<1> DEFINE A == (listing' = listing /\ isReady' = isReady) =>
                    \A i \in DOMAIN owners \cap DOMAIN owners' : owners'[i] = owners[i]
<1>1. Current /\ Current' => A
    <2> SUFFICES ASSUME Current, Current', listing' = listing, isReady' = isReady,
                        NEW i \in DOMAIN owners, i \in DOMAIN owners'
                 PROVE  owners'[i] = owners[i]
        OBVIOUS
    <2> DEFINE ring == NewRing(Candidates(listing, isReady))
    <2>1. owners = [j \in 0 .. numShards - 1 |-> Pick(ring, j)]
        BY DEF Current, computeShardMap
    <2>2. owners' = [j \in 0 .. numShards' - 1 |-> Pick(ring, j)]
        BY DEF Current, computeShardMap
    <2> HIDE DEF ring
    <2> QED BY <2>1, <2>2
<1>2. Current /\ Current' /\ [Next]_vars => [A]_vars
    BY <1>1
<1> QED BY <1>2, AlwaysCurrent, PTL DEF Spec, ResizeKeepsOwners

\* What a reconcile has listed.
ListedInv ==
    /\ listing \in AllListings
    /\ isReady \in Readiness(listing)
    /\ numShards \in 1 .. MaxShards

LEMMA AlwaysListed == Spec => []ListedInv
<1>1. Init => ListedInv
    <2> SUFFICES ASSUME Init PROVE ListedInv
        OBVIOUS
    <2>1. listing \in Listings({})
        BY FS_EmptySet DEF Init, Listings
    <2>2. listing \in AllListings
        BY <2>1 DEF AllListings
    <2>3. isReady \in Readiness(listing) /\ numShards \in 1 .. MaxShards
        BY ShardMapAssumption DEF Init, Readiness
    <2> QED BY <2>2, <2>3 DEF ListedInv
<1>2. ListedInv /\ [Next]_vars => ListedInv'
    BY DEF ListedInv, Next, Recompute, vars
<1> QED BY <1>1, <1>2, PTL DEF Spec

\* For any pods, shards and hash function: the published map has a shard for
\* each number below numShards, each with an owner among the pods or with none.
THEOREM MapTyped == Spec => []TypeOK
<1>1. ListedInv /\ Current => TypeOK
    <2> SUFFICES ASSUME ListedInv, Current PROVE TypeOK
        OBVIOUS
    <2>1. PICK n \in Nat : IsListing(listing, n)
        BY ListingsAreLists DEF ListedInv
    <2>2. \E m \in Nat : Candidates(listing, isReady) \in [1 .. m -> Pods]
        BY <2>1, CandidatesAre DEF IsListing
    <2>3. Names(Candidates(listing, isReady)) \subseteq Pods
        BY <2>2 DEF Names
    <2>4. \A i \in 0 .. numShards - 1 :
            computeShardMap(listing, isReady, numShards)[i] \in Pods \cup {NoOwner}
        BY <2>1, <2>3, OwnerOf DEF ListedInv
    <2>5. owners = [i \in 0 .. numShards - 1 |-> computeShardMap(listing, isReady, numShards)[i]]
        BY DEF Current, computeShardMap
    <2> QED BY <2>4, <2>5 DEF ListedInv, TypeOK
<1> QED BY <1>1, AlwaysCurrent, AlwaysListed, PTL

\* For any pods, shards and hash function: no shard is ever without an owner
\* while a pod is listed, and none goes to a pod that is not ready while one is.
THEOREM OwnersAlwaysServe == Spec => []OwnersServe
<1>1. ListedInv /\ Current => OwnersServe
    <2> SUFFICES ASSUME ListedInv, Current PROVE OwnersServe
        OBVIOUS
    <2>1. PICK n \in Nat : IsListing(listing, n)
        BY ListingsAreLists DEF ListedInv
    <2>2. DOMAIN owners = 0 .. numShards - 1
        BY DEF Current, computeShardMap
    <2>3. Names(listing) = Listed(listing) /\ (Names(listing) = {} <=> listing = << >>)
        BY <2>1 DEF IsListing, Names, Listed
    <2>4. Serving = { p \in Names(listing) : isReady[p] }
        BY <2>3 DEF Serving
    <2>5. ASSUME NEW i \in 0 .. numShards - 1
          PROVE  /\ owners[i] = NoOwner <=> listing = << >>
                 /\ Serving # {} => owners[i] \in Serving
        BY <2>1, <2>3, <2>4, MapServes DEF Current, ListedInv
    <2> QED BY <2>2, <2>5 DEF OwnersServe
<1> QED BY <1>1, AlwaysCurrent, AlwaysListed, PTL

\* For any pods, shards and hash function: two reconciles that see the same pods
\* publish the same map, whatever order the API lists them in.
THEOREM ListingOrderNeverMatters == Spec => ListingOrderIrrelevant
<1> DEFINE A == (/\ Listed(listing') = Listed(listing)
                 /\ isReady' = isReady
                 /\ numShards' = numShards) => owners' = owners
<1>1. ListedInv /\ ListedInv' /\ Current /\ Current' => A
    <2> SUFFICES ASSUME ListedInv, ListedInv', Current, Current',
                        Listed(listing') = Listed(listing), isReady' = isReady,
                        numShards' = numShards
                 PROVE  owners' = owners
        OBVIOUS
    <2>1. listing \in AllListings /\ listing' \in AllListings
        BY DEF ListedInv
    <2>2. PICK n \in Nat : IsListing(listing, n)
        BY <2>1, ListingsAreLists
    <2>3. PICK m \in Nat : IsListing(listing', m)
        BY <2>1, ListingsAreLists
    <2>4. Names(listing') = Names(listing)
        BY DEF Names, Listed
    <2>5. computeShardMap(listing', isReady, numShards) = computeShardMap(listing, isReady, numShards)
        BY <2>2, <2>3, <2>4, SameMap
    <2> QED BY <2>5 DEF Current
<1>2. ListedInv /\ ListedInv' /\ Current /\ Current' /\ [Next]_vars => [A]_vars
    BY <1>1
<1> QED BY <1>2, AlwaysCurrent, AlwaysListed, PTL DEF Spec, ListingOrderIrrelevant
=============================================================================
