------------------------------- MODULE Router -------------------------------
(***************************************************************************)
(* The router (cmd/router): a few replicas, each with a poller goroutine   *)
(* that copies the shard map from the ConfigMap into an atomic pointer,    *)
(* and one goroutine per request that loads the pointer, chooses a shard   *)
(* for the conversation and forwards the request to the decode Service.    *)
(*                                                                         *)
(* The body of a request is a record with the conversationId, which may be *)
(* Nil, or Malformed.  --hash-key has no part in this: the handler never   *)
(* reads it.  The owners of a request and the version rv of the map that a *)
(* router holds are kept only to state properties.                         *)
(***************************************************************************)
EXTENDS ShardMap, Optional

CONSTANTS
    Routers,        \* the replicas of the router Deployment
    Requests,       \* the requests clients make
    Bodies,         \* what they may contain
    Malformed,      \* a body that is not a JSON object
    NewIDs,         \* the identifiers newConversationID may draw
    ConvHash,       \* fnv32a of each conversation identifier
    Absent,         \* a ConfigMap that does not exist
    Garbled,        \* a ConfigMap without shardmap.json, or not JSON there
    PublishedMaps,  \* maps that the operator may publish
    ForeignMaps,    \* maps that somebody else may put into the ConfigMap
    Budget          \* how often each event of the environment may happen

Events == {"write", "fault"}

\* The largest shard number exists: in Go, because a slice is finite.
HasLargest(ids) == \E m \in ids \cup {0} : \A i \in ids \cup {0} : i <= m

Maps == PublishedMaps \cup ForeignMaps

ASSUME RouterAssumption ==
    /\ \A m \in Maps : DOMAIN m \subseteq Int32Values /\ HasLargest(DOMAIN m)
    /\ \A c \in DOMAIN ConvHash : ConvHash[c] \in Nat
    /\ NewIDs \subseteq DOMAIN ConvHash
    /\ \A b \in Bodies \ {Malformed} : b.conversationId \in DOMAIN ConvHash \cup {Nil}
    /\ {Absent, Garbled} \cap Maps = {}
    /\ Budget \in [Events -> Nat]

VARIABLES
    cm,         \* the ConfigMap: its version, and its data or Absent
    sm,         \* currentShardMap of each router
    polled,     \* the ConfigMap a poller has read and not yet stored
    req,        \* the requests
    decodeUp,   \* whether the decode Service answers
    budget      \* what is left of Budget

vars == <<cm, sm, polled, req, decodeUp, budget>>

\* The nil pointer a router starts with, and a poller between two polls.
NoMap == [rv |-> 0, owners |-> << >>]
NotPolling == [rv |-> 0, data |-> Absent]

NoRequest == [stage |-> "new"]

Spend(e) == budget[e] > 0 /\ budget' = [budget EXCEPT ![e] = @ - 1]

-----------------------------------------------------------------------------
(* The router *)

Mut_PollGet(r) ==
    /\ polled[r] = NotPolling
    /\ polled' = [polled EXCEPT ![r] = cm]
    /\ UNCHANGED <<cm, sm, req, decodeUp, budget>>

Mut_ClearsFirst(r) ==
    /\ polled[r] = NotPolling
    /\ polled' = [polled EXCEPT ![r] = IF cm.data = Absent THEN @ ELSE cm]
    /\ sm' = [sm EXCEPT ![r] = NoMap]
    /\ UNCHANGED <<cm, req, decodeUp, budget>>

\* The poller's Get, straight from the API server. An error, such as a missing
\* ConfigMap, is counted and the next tick tries again.
PollGet(r) ==
    /\ polled[r] = NotPolling
    /\ polled' = [polled EXCEPT ![r] = IF cm.data = Absent THEN @ ELSE cm]
    /\ UNCHANGED <<cm, sm, req, decodeUp, budget>>

\* Whether ParseShardMapJSON accepts what shardmap.json holds. A document without
\* shards is accepted.
ParseShardMapJSON(data) == data # Garbled

Mut_PollStore(r) ==
    /\ polled[r] # NotPolling
    /\ polled' = [polled EXCEPT ![r] = NotPolling]
    /\ sm' = [sm EXCEPT ![r] = IF polled[r].data = Garbled THEN NoMap
                               ELSE [rv |-> polled[r].rv, owners |-> polled[r].data]]
    /\ UNCHANGED <<cm, req, decodeUp, budget>>

Mut_NotStored(r) ==
    /\ polled[r] # NotPolling
    /\ polled' = [polled EXCEPT ![r] = NotPolling]
    /\ UNCHANGED <<cm, sm, req, decodeUp, budget>>

\* The document is parsed and stored; what does not parse leaves the old map.
PollStore(r) ==
    /\ polled[r] # NotPolling
    /\ polled' = [polled EXCEPT ![r] = NotPolling]
    /\ sm' = [sm EXCEPT ![r] = IF ParseShardMapJSON(polled[r].data)
                               THEN [rv |-> polled[r].rv, owners |-> polled[r].data] ELSE @]
    /\ UNCHANGED <<cm, req, decodeUp, budget>>

extractConversationID(body) == IF body = Malformed THEN Nil ELSE body.conversationId

\* The identifier a request is handled under: its own or a new one.
ConversationIDs(body) ==
    IF extractConversationID(body) = Nil THEN NewIDs ELSE {extractConversationID(body)}

Mut_ShardFor(owners, conv) ==
    LET owned == { i \in DOMAIN owners : owners[i] # NoOwner }
    IN  IF owned = {} THEN 0 ELSE pickShardForConversation(owned, ConvHash[conv])

\* The shard chosen with the map that was loaded; 0 without a map.
ShardFor(owners, conv) ==
    IF DOMAIN owners = {} THEN 0 ELSE pickShardForConversation(DOMAIN owners, ConvHash[conv])

\* The handler up to the call of the decode Service: the map is loaded once.
Handle(q, r, body) ==
    /\ req[q] = NoRequest
    /\ \E conv \in ConversationIDs(body) :
        req' = [req EXCEPT ![q] =
            [ stage |-> "sent", router |-> r, body |-> body, conv |-> conv,
              shard |-> ShardFor(sm[r].owners, conv),
              owners |-> sm[r].owners ]]
    /\ UNCHANGED <<cm, sm, polled, decodeUp, budget>>

\* The body cannot be read: 400, without a shard.
BadRequest(q) ==
    /\ req[q] = NoRequest
    /\ req' = [req EXCEPT ![q] = [stage |-> "refused"]]
    /\ UNCHANGED <<cm, sm, polled, decodeUp, budget>>

Mut_Upstream(q) ==
    /\ req[q].stage = "sent" /\ decodeUp
    /\ req' = [req EXCEPT ![q].stage = "done"]
    /\ UNCHANGED <<cm, sm, polled, decodeUp, budget>>

\* The call of the decode Service returns: its answer is passed on, or, when
\* it is down or the 60 seconds of httpClient are over, 502.
Upstream(q) ==
    /\ req[q].stage = "sent"
    /\ \/ decodeUp /\ req' = [req EXCEPT ![q].stage = "done"]
       \/ req' = [req EXCEPT ![q].stage = "failed"]
    /\ UNCHANGED <<cm, sm, polled, decodeUp, budget>>

-----------------------------------------------------------------------------
(* The environment *)

\* A router is restarted: its map and the requests it was handling are lost.
Restart(r) ==
    /\ Spend("fault")
    /\ sm' = [sm EXCEPT ![r] = NoMap]
    /\ polled' = [polled EXCEPT ![r] = NotPolling]
    /\ req' = [q \in Requests |->
                IF req[q].stage = "sent" /\ req[q].router = r
                THEN [req[q] EXCEPT !.stage = "lost"] ELSE req[q]]
    /\ UNCHANGED <<cm, decodeUp>>

WriteConfigMap(data) ==
    /\ data # cm.data
    /\ Spend("write")
    /\ cm' = [rv |-> cm.rv + 1, data |-> data]
    /\ UNCHANGED <<sm, polled, req, decodeUp>>

\* The operator publishes a map; something else spoils or deletes it.
Publish(m) == WriteConfigMap(m)
Drift(data) == cm.data # Absent /\ WriteConfigMap(data)

DecodeChange ==
    /\ Spend("fault")
    /\ decodeUp' = ~decodeUp
    /\ UNCHANGED <<cm, sm, polled, req>>

Init ==
    /\ cm = [rv |-> 0, data |-> Absent]
    /\ sm = [r \in Routers |-> NoMap]
    /\ polled = [r \in Routers |-> NotPolling]
    /\ req = [q \in Requests |-> NoRequest]
    /\ decodeUp = TRUE
    /\ budget = Budget

Next ==
    \/ \E r \in Routers : PollGet(r) \/ PollStore(r) \/ Restart(r)
    \/ \E q \in Requests, r \in Routers, body \in Bodies : Handle(q, r, body)
    \/ \E q \in Requests : BadRequest(q) \/ Upstream(q)
    \/ \E m \in PublishedMaps : Publish(m)
    \/ \E data \in ForeignMaps \cup {Absent, Garbled} : Drift(data)
    \/ DecodeChange

Spec == Init /\ [][Next]_vars

\* The ticker keeps the pollers going, and httpClient's timeout ends every call;
\* nothing is assumed of clients, the operator and failures.
Fairness ==
    /\ \A r \in Routers : WF_vars(PollGet(r)) /\ WF_vars(PollStore(r))
    /\ \A q \in Requests : WF_vars(Upstream(q))

FairSpec == Spec /\ Fairness

-----------------------------------------------------------------------------
(* Properties *)

Routed == { q \in Requests : req[q].stage \in {"sent", "done", "failed", "lost"} }

IsRouted(q) ==
    /\ DOMAIN q = {"stage", "router", "body", "conv", "shard", "owners"}
    /\ q.stage \in {"sent", "done", "failed", "lost"}
    /\ q.router \in Routers /\ q.body \in Bodies
    /\ q.conv \in DOMAIN ConvHash
    /\ q.owners \in Maps \cup {<< >>}
    /\ q.shard = ShardFor(q.owners, q.conv)

RoutersTyped ==
    /\ DOMAIN sm = Routers /\ DOMAIN polled = Routers
    /\ \A r \in Routers :
        /\ sm[r].rv \in Nat /\ sm[r].owners \in Maps \cup {<< >>}
        /\ \/ polled[r] = NotPolling
           \/ polled[r].rv \in Nat /\ polled[r].data \in Maps \cup {Garbled}

RequestsTyped ==
    /\ DOMAIN req = Requests
    /\ \A q \in Requests : req[q] \in {NoRequest, [stage |-> "refused"]} \/ IsRouted(req[q])

\* Every variable has its type, and a routed request has the shard that the map
\* its handler loaded gives its conversation.
TypeOK ==
    /\ cm.rv \in Nat /\ cm.data \in Maps \cup {Absent, Garbled}
    /\ RoutersTyped
    /\ RequestsTyped
    /\ decodeUp \in BOOLEAN
    /\ budget \in [Events -> Nat]

\* Whatever the ConfigMap holds and whatever it changes to while a request is
\* handled, X-KV-Shard is a number of the range the loaded map spans, also when
\* the arithmetic of pickShardForConversation wraps at the largest int32.
ShardInRange ==
    \A q \in Routed : 0 <= req[q].shard /\ req[q].shard <= maxShardID(DOMAIN req[q].owners)

\* Session affinity survives rebalancing: two requests of a conversation, on any
\* routers and at any time, go to the same shard as long as the maps they were
\* routed with number the same shards, whoever owns these.
RebalanceKeepsAffinity ==
    \A p, q \in Routed :
        req[p].conv = req[q].conv /\ DOMAIN req[p].owners = DOMAIN req[q].owners
            => req[p].shard = req[q].shard

\* A running router never loses its map or goes back to an older one: not when
\* the ConfigMap is deleted, spoiled or republished between Get and Store.
MapsMoveForward ==
    [][ \A r \in Routers : sm'[r].rv < sm[r].rv => Restart(r) ]_vars

\* No forwarded request is left hanging: whatever becomes of its router, the map
\* and the decode Service, each call ends, with an answer, with 502, or without
\* either when the router itself is gone.
RequestsEnd ==
    (\E q \in Requests : req[q].stage = "sent") ~> (\A q \in Requests : req[q].stage # "sent")

-----------------------------------------------------------------------------
(* The inductive invariant behind MapsMoveForward *)

\* What a poller has read is no newer than the ConfigMap and no older than what
\* the router holds: there is one poller per router, and it does one poll at a time.
PollsInOrder ==
    \A r \in Routers :
        /\ sm[r].rv <= cm.rv
        /\ polled[r] # NotPolling => sm[r].rv <= polled[r].rv /\ polled[r].rv <= cm.rv

Inv == TypeOK /\ PollsInOrder
=============================================================================
