------------------------------ MODULE ShardMap ------------------------------
(***************************************************************************)
(* The shard map: which decode pod owns which KV shard (the ring of        *)
(* internal/routing and computeShardMap of the controller), and which      *)
(* shard a conversation hashes to (the router).                            *)
(*                                                                         *)
(* A pod name is a positive number: sort.Strings only needs the order.     *)
(* FNV-1a is an arbitrary function ShardHash of the shard number: nothing  *)
(* here depends on its values.                                             *)
(***************************************************************************)
EXTENDS Int32, Sequences, FiniteSets, TLC

CONSTANTS
    Pods,           \* the names decode pods may have
    MaxShards,      \* bound on spec.kvCache.numShards
    ShardHash       \* fnv32a(strconv.Itoa(shard)), for each shard number

ASSUME ShardMapAssumption ==
    /\ Pods \subseteq Nat \ {0} /\ IsFiniteSet(Pods)
    /\ MaxShards \in Nat \ {0}
    /\ DOMAIN ShardHash = 0 .. MaxShards - 1
    /\ \A i \in DOMAIN ShardHash : ShardHash[i] \in Nat

\* The empty owner name of a shard nobody owns.
NoOwner == 0

\* The orders in which the informer may list a set of pods.
Listings(S) ==
    { s \in [1 .. Cardinality(S) -> S] : \A i, j \in DOMAIN s : s[i] = s[j] => i = j }

\* One of them, for where the order makes no difference (ListingOrderIrrelevant).
Listing(S) == CHOOSE s \in Listings(S) : TRUE

\* Every order in which every set of pods may be listed.
AllListings == UNION { Listings(S) : S \in SUBSET Pods }

\* sort.Strings on each of them: the same pods in increasing order.
Sorted ==
    [nodes \in AllListings |->
        CHOOSE ring \in { [i \in DOMAIN nodes |-> nodes[order[i]]] :
                            order \in Listings(DOMAIN nodes) } :
            \A i, j \in DOMAIN nodes : i < j => ring[i] <= ring[j]]

Mut_UnsortedRing(nodes) == nodes

\* routing.NewRing: the nodes, copied and sorted.
NewRing(nodes) == Sorted[nodes]

\* Ring.Empty
Empty(ring) == Len(ring) = 0

\* Ring.Pick: plain hash-mod-length, counted from 0 in the source.
Pick(ring, shard) ==
    IF Empty(ring) THEN NoOwner ELSE ring[(ShardHash[shard] % Len(ring)) + 1]

\* The loop over the listed pods: the ready ones among the first k, for each k.
ReadyAmong(listing, isReady) ==
    LET ready[k \in 0 .. Len(listing)] ==
            IF k = 0 THEN << >>
            ELSE IF isReady[listing[k]] THEN Append(ready[k - 1], listing[k])
            ELSE ready[k - 1]
    IN  ready

Mut_AllListed(listing, isReady) == listing

Mut_ReadyOnly(listing, isReady) == ReadyAmong(listing, isReady)[Len(listing)]

\* The pods that may own shards: the ready ones or, when none is ready, all.
Candidates(listing, isReady) ==
    LET ready == ReadyAmong(listing, isReady)[Len(listing)]
    IN  IF ready = << >> THEN listing ELSE ready

Mut_OneShardShort(listing, isReady, numShards) ==
    LET ring == NewRing(Candidates(listing, isReady))
    IN  [i \in 0 .. numShards - 2 |-> Pick(ring, i)]

Mut_CountsDown(listing, isReady, numShards) ==
    LET ring == NewRing(Candidates(listing, isReady))
    IN  [i \in 0 .. numShards - 1 |-> Pick(ring, numShards - 1 - i)]

\* computeShardMap, for the pods in the order the List call returned them.
\* A shard's phase is Pending exactly when its owner is NoOwner.
computeShardMap(listing, isReady, numShards) ==
    LET ring == NewRing(Candidates(listing, isReady))
    IN  [i \in 0 .. numShards - 1 |-> Pick(ring, i)]

\* The maps the operator publishes: for some pods, some of them ready.
OperatorMaps ==
    { computeShardMap(Listing(S), isReady, n) :
        S \in SUBSET Pods, isReady \in [Pods -> BOOLEAN], n \in 1 .. MaxShards }

\* The largest shard number of a map, 0 for a map without a positive one.
maxShardID(ids) == CHOOSE m \in ids \cup {0} : \A i \in ids \cup {0} : i <= m

Mut_ModMaxID(ids, hash) ==
    IF maxShardID(ids) <= 0 THEN 0
    ELSE ToInt32(hash % ToUint32(Add32(maxShardID(ids), 2)))

\* The router's pickShardForConversation: ids are the shard numbers of the map
\* the router holds, hash is fnv32a(conversationID).
pickShardForConversation(ids, hash) ==
    IF maxShardID(ids) <= 0 THEN 0
    ELSE ToInt32(hash % ToUint32(Add32(maxShardID(ids), 1)))
=============================================================================
