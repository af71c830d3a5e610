------------------------------ MODULE MCRouter ------------------------------
(* Instances of Router for TLC. *)
EXTENDS Router

\* fnv32a of the shard numbers, modulo 12 (as in MCReconciler).
MCShardHash == 0 :> 3 @@ 1 :> 4

\* A conversation of a client and one that the router makes up.
MCConvHash == "c1" :> 3 @@ "new" :> 2

\* A body with a conversation, and one that is not JSON.
ChatBodies == {[conversationId |-> "c1"], Malformed}

\* The maps of two shards, with and without an owner: the largest shard number
\* is MaxInt32, so that the number of shards wraps. And a document without shards.
TwoShardMaps == { m \in OperatorMaps : DOMAIN m = {0, 1} }
MCForeignMaps == {<< >>}

\* Two changes of the ConfigMap, and a restart or an outage of the decode Service.
RoutingBudget == [write |-> 2, fault |-> 1]
=============================================================================
