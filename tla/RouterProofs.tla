---------------------------- MODULE RouterProofs ----------------------------
(* Proofs about the router, for any routers, requests and shard maps. *)
EXTENDS Router, TLAPS

-----------------------------------------------------------------------------
(* The shard a conversation hashes to *)

\* The maps a router may come to hold have a largest int32 shard number.
LEMMA MapsHaveLargest ==
    ASSUME NEW m \in Maps \cup {<< >>}
    PROVE  DOMAIN m \subseteq Int32Values /\ HasLargest(DOMAIN m)
<1>1. CASE m = << >>
  <2>1. DOMAIN m = {}
    BY <1>1
  <2> QED
    BY <2>1 DEF HasLargest
<1>2. CASE m \in Maps
  BY <1>2, RouterAssumption
<1> QED
  BY <1>1, <1>2

\* maxShardID is the largest number of the map, and at least 0.
LEMMA LargestShard ==
    ASSUME NEW ids, ids \subseteq Int32Values, HasLargest(ids)
    PROVE  maxShardID(ids) \in 0 .. MaxInt32
<1> DEFINE Largest(m) == \A i \in ids \cup {0} : i <= m
           max == CHOOSE m \in ids \cup {0} : Largest(m)
<1>1. \E m \in ids \cup {0} : Largest(m)
  BY DEF HasLargest
<1>2. max \in ids \cup {0} /\ Largest(max)
  <2> HIDE DEF Largest
  <2> QED
    BY <1>1
<1>3. max \in Int32Values /\ 0 <= max
  <2> HIDE DEF max
  <2> QED
    BY <1>2, MaxInt32Assumption DEF Int32Values, MinInt32
<1>4. maxShardID(ids) = max
  BY DEF maxShardID
<1> HIDE DEF max
<1> QED
  BY <1>3, <1>4, MaxInt32Assumption DEF Int32Values, MinInt32

\* uint32(maxShardID + 1) is right even where the int32 sum wraps.
LEMMA ModulusIsExact ==
    ASSUME NEW max \in 0 .. MaxInt32
    PROVE  ToUint32(Add32(max, 1)) = max + 1
BY MaxInt32Assumption DEF ToUint32, Add32, Word, MinInt32

\* A conversation's shard lies in the range of the map, for every hash.
LEMMA PickInRange ==
    ASSUME NEW ids, ids \subseteq Int32Values, HasLargest(ids), NEW hash \in Nat
    PROVE  pickShardForConversation(ids, hash) \in 0 .. maxShardID(ids)
<1> DEFINE max == maxShardID(ids)
<1> SUFFICES pickShardForConversation(ids, hash) \in 0 .. max
  OBVIOUS
<1>1. max \in 0 .. MaxInt32
  BY LargestShard
<1>2. ToUint32(Add32(max, 1)) = max + 1
  BY <1>1, ModulusIsExact
<1>3. hash % (max + 1) \in 0 .. max
  <2> HIDE DEF max
  <2> QED
    BY <1>1, MaxInt32Assumption
<1>4. ToInt32(hash % (max + 1)) = hash % (max + 1)
  <2> HIDE DEF max
  <2> QED
    BY <1>1, <1>3, MaxInt32Assumption DEF ToInt32
<1>5. CASE max <= 0
  <2>1. pickShardForConversation(ids, hash) = 0
    BY <1>5 DEF pickShardForConversation
  <2> HIDE DEF max
  <2> QED
    BY <1>1, <2>1, MaxInt32Assumption
<1>6. CASE ~(max <= 0)
  <2>1. pickShardForConversation(ids, hash) = ToInt32(hash % ToUint32(Add32(max, 1)))
    BY <1>6 DEF pickShardForConversation
  <2> HIDE DEF max
  <2> QED
    BY <2>1, <1>2, <1>3, <1>4
<1> QED
  BY <1>5, <1>6

\* The same for ShardFor, which has no map to go by at first.
LEMMA ShardForInRange ==
    ASSUME NEW m \in Maps \cup {<< >>}, NEW conv \in DOMAIN ConvHash
    PROVE  ShardFor(m, conv) \in 0 .. maxShardID(DOMAIN m)
<1>1. DOMAIN m \subseteq Int32Values /\ HasLargest(DOMAIN m)
  BY MapsHaveLargest
<1>2. ConvHash[conv] \in Nat
  BY RouterAssumption
<1>3. maxShardID(DOMAIN m) \in 0 .. MaxInt32
  BY <1>1, LargestShard
<1>4. pickShardForConversation(DOMAIN m, ConvHash[conv]) \in 0 .. maxShardID(DOMAIN m)
  BY <1>1, <1>2, PickInRange
<1> QED
  BY <1>3, <1>4, MaxInt32Assumption DEF ShardFor

-----------------------------------------------------------------------------
(* The inductive invariant *)

\* It holds at the start.
LEMMA RouterInit == Init => Inv
<1> SUFFICES ASSUME Init PROVE Inv
  OBVIOUS
<1> USE DEF Init, NoMap, NotPolling, NoRequest
<1>1. TypeOK
  BY RouterAssumption DEF TypeOK, RoutersTyped, RequestsTyped
<1>2. PollsInOrder
  BY DEF PollsInOrder
<1> QED
  BY <1>1, <1>2 DEF Inv

\* Every identifier a request is handled under has a hash.
LEMMA ConversationsHash ==
    ASSUME NEW body \in Bodies, NEW conv \in ConversationIDs(body)
    PROVE  conv \in DOMAIN ConvHash
BY RouterAssumption DEF ConversationIDs, extractConversationID

\* The counters stay natural numbers.
LEMMA SpendTyped ==
    ASSUME budget \in [Events -> Nat], NEW e \in Events, Spend(e)
    PROVE  budget' \in [Events -> Nat]
<1>1. budget[e] \in Nat /\ budget[e] > 0
  BY DEF Spend
<1>2. budget[e] - 1 \in Nat
  BY <1>1
<1> QED
  BY <1>2 DEF Spend

\* Every step preserves the invariant.
LEMMA RouterStep == Inv /\ [Next]_vars => Inv'
<1> SUFFICES ASSUME Inv, [Next]_vars PROVE Inv'
  OBVIOUS
<1> USE DEF Inv
<1>1. ASSUME NEW r \in Routers, PollGet(r) PROVE Inv'
  <2>1. RoutersTyped'
    BY <1>1 DEF PollGet, TypeOK, RoutersTyped
  <2>2. TypeOK'
    BY <1>1, <2>1 DEF PollGet, TypeOK, RequestsTyped
  <2>3. PollsInOrder'
    BY <1>1 DEF PollGet, TypeOK, RoutersTyped, PollsInOrder
  <2> QED
    BY <2>2, <2>3
<1>2. ASSUME NEW r \in Routers, PollStore(r) PROVE Inv'
  <2>1. RoutersTyped'
    BY <1>2 DEF PollStore, ParseShardMapJSON, TypeOK, RoutersTyped
  <2>2. TypeOK'
    BY <1>2, <2>1 DEF PollStore, ParseShardMapJSON, TypeOK, RequestsTyped
  <2>3. PollsInOrder'
    BY <1>2 DEF PollStore, ParseShardMapJSON, TypeOK, RoutersTyped, PollsInOrder
  <2> QED
    BY <2>2, <2>3
<1>3. ASSUME NEW r \in Routers, Restart(r) PROVE Inv'
  <2>1. RoutersTyped'
    BY <1>3 DEF Restart, TypeOK, RoutersTyped, NoMap
  <2>2. RequestsTyped'
    <3> SUFFICES ASSUME NEW q \in Requests, req[q].stage = "sent"
                 PROVE  IsRouted([req[q] EXCEPT !.stage = "lost"])
      BY <1>3 DEF Restart, TypeOK, RequestsTyped
    <3>1. IsRouted(req[q])
      BY DEF TypeOK, RequestsTyped, NoRequest
    <3> QED
      BY <3>1 DEF IsRouted
  <2>3. budget' \in [Events -> Nat]
    BY <1>3, SpendTyped DEF Restart, TypeOK, Events
  <2>4. TypeOK'
    BY <1>3, <2>1, <2>2, <2>3 DEF Restart, TypeOK
  <2>5. PollsInOrder'
    BY <1>3 DEF Restart, TypeOK, RoutersTyped, PollsInOrder, NoMap
  <2> QED
    BY <2>4, <2>5
<1>4. ASSUME NEW q \in Requests, NEW r \in Routers, NEW body \in Bodies, Handle(q, r, body)
      PROVE  Inv'
  <2>1. RequestsTyped'
    BY <1>4, ConversationsHash DEF Handle, TypeOK, RequestsTyped, RoutersTyped, IsRouted
  <2>2. TypeOK'
    BY <1>4, <2>1 DEF Handle, TypeOK, RoutersTyped
  <2>3. PollsInOrder'
    BY <1>4 DEF Handle, PollsInOrder
  <2> QED
    BY <2>2, <2>3
<1>5. ASSUME NEW q \in Requests, BadRequest(q) \/ Upstream(q) PROVE Inv'
  <2>1. CASE BadRequest(q)
    BY <2>1 DEF BadRequest, TypeOK, RequestsTyped, RoutersTyped, PollsInOrder
  <2>2. CASE Upstream(q)
    <3>1. IsRouted(req[q])
      BY <2>2 DEF Upstream, TypeOK, RequestsTyped, NoRequest
    <3>2. \A stage \in {"done", "failed"} : IsRouted([req[q] EXCEPT !.stage = stage])
      BY <3>1 DEF IsRouted
    <3>3. RequestsTyped'
      BY <2>2, <3>2 DEF Upstream, TypeOK, RequestsTyped
    <3> QED
      BY <2>2, <3>3 DEF Upstream, TypeOK, RoutersTyped, PollsInOrder
  <2> QED
    BY <1>5, <2>1, <2>2
<1>6. ASSUME NEW data \in Maps \cup {Absent, Garbled}, WriteConfigMap(data) PROVE Inv'
  <2>1. budget' \in [Events -> Nat]
    BY <1>6, SpendTyped DEF WriteConfigMap, TypeOK, Events
  <2>2. TypeOK'
    BY <1>6, <2>1 DEF WriteConfigMap, TypeOK, RoutersTyped, RequestsTyped
  <2>3. PollsInOrder'
    BY <1>6 DEF WriteConfigMap, TypeOK, RoutersTyped, PollsInOrder
  <2> QED
    BY <2>2, <2>3
<1>7. CASE DecodeChange
  <2>1. budget' \in [Events -> Nat]
    BY <1>7, SpendTyped DEF DecodeChange, TypeOK, Events
  <2> QED
    BY <1>7, <2>1 DEF DecodeChange, TypeOK, RoutersTyped, RequestsTyped, PollsInOrder
<1>8. CASE UNCHANGED vars
  BY <1>8 DEF vars, TypeOK, RoutersTyped, RequestsTyped, PollsInOrder
<1> QED
  BY <1>1, <1>2, <1>3, <1>4, <1>5, <1>6, <1>7, <1>8 DEF Next, Publish, Drift, Maps

\* Inv holds throughout: every variable keeps its type, and each router's map is
\* no newer than its poll in flight, which is no newer than the ConfigMap.
THEOREM RouterInvariance == Spec => []Inv
BY RouterInit, RouterStep, PTL DEF Spec

-----------------------------------------------------------------------------
(* The properties *)

\* TypeOK, which says in particular that a routed request has the shard of its
\* conversation in the map its handler loaded, is an invariant of the router.
THEOREM RouterTyped == Spec => []TypeOK
<1>1. Inv => TypeOK
  BY DEF Inv
<1> QED
  BY <1>1, RouterInvariance, PTL

\* X-KV-Shard is always in the range of the loaded map, for every hash function,
\* every int32 width and every map with int32 shard numbers.
THEOREM HeadersInRange == Spec => []ShardInRange
<1>1. Inv => ShardInRange
  <2> SUFFICES ASSUME TypeOK, NEW q \in Routed
               PROVE  0 <= req[q].shard /\ req[q].shard <= maxShardID(DOMAIN req[q].owners)
    BY DEF Inv, ShardInRange
  <2>1. IsRouted(req[q])
    BY DEF TypeOK, RequestsTyped, Routed, NoRequest
  <2>2. req[q].shard \in 0 .. maxShardID(DOMAIN req[q].owners)
    BY <2>1, ShardForInRange DEF IsRouted
  <2> QED
    BY <2>2
<1> QED
  BY <1>1, RouterInvariance, PTL

\* Rebalancing the owners of the shards never moves a conversation, for any
\* number of routers, requests and changes of the map.
THEOREM AffinitySurvivesRebalance == Spec => []RebalanceKeepsAffinity
<1>1. Inv => RebalanceKeepsAffinity
  <2> SUFFICES ASSUME TypeOK, NEW p \in Routed, NEW q \in Routed,
                      req[p].conv = req[q].conv,
                      DOMAIN req[p].owners = DOMAIN req[q].owners
               PROVE  req[p].shard = req[q].shard
    BY DEF Inv, RebalanceKeepsAffinity
  <2>1. IsRouted(req[p]) /\ IsRouted(req[q])
    BY DEF TypeOK, RequestsTyped, Routed, NoRequest
  <2> QED
    BY <2>1 DEF IsRouted, ShardFor
<1> QED
  BY <1>1, RouterInvariance, PTL

\* A router that is not restarted never goes back to an older map.
THEOREM RouterMapsMoveForward == Spec => MapsMoveForward
<1>1. Inv /\ [Next]_vars => [\A r \in Routers : sm'[r].rv < sm[r].rv => Restart(r)]_vars
  <2> SUFFICES ASSUME Inv, Next, NEW r \in Routers, sm'[r].rv < sm[r].rv
               PROVE  Restart(r)
    BY DEF vars
  <2>1. CASE \E s \in Routers : PollStore(s)
    BY <2>1 DEF PollStore, ParseShardMapJSON, Inv, TypeOK, RoutersTyped, PollsInOrder
  <2>2. CASE \E s \in Routers : Restart(s)
    <3>1. PICK s \in Routers : Restart(s)
      BY <2>2
    <3>2. CASE s # r
      BY <3>1, <3>2 DEF Restart, Inv, TypeOK, RoutersTyped
    <3> QED
      BY <3>1, <3>2
  <2>3. CASE sm' = sm
    BY <2>3 DEF Inv, TypeOK, RoutersTyped
  <2> QED
    BY <2>1, <2>2, <2>3
       DEF Next, PollGet, Handle, BadRequest, Upstream, Publish, Drift, WriteConfigMap, DecodeChange
<1> QED
  BY <1>1, RouterInvariance, PTL DEF Spec, MapsMoveForward
=============================================================================
