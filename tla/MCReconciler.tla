---------------------------- MODULE MCReconciler ----------------------------
(* Instances of Reconciler for TLC. *)
EXTENDS LifecycleRefinement

\* fnv32a of the shard numbers "0" ... "7", modulo 12: all that Pick can tell
\* apart with up to four pods.
MCShardHash ==
    0 :> 3 @@ 1 :> 4 @@ 2 :> 1 @@ 3 :> 2 @@ 4 :> 7 @@ 5 :> 8 @@ 6 :> 5 @@ 7 :> 6

Minimal == [f \in Fields |-> IF f = "image" THEN "v1" ELSE Nil]

\* The resource as the user creates it: with every defaulted field set, with
\* autoscaling on, or with few fields.
FilledSpecs == {[WithDefaults(Minimal) EXCEPT !.numShards = 2]}
ScaledSpecs ==
    {[WithDefaults(Minimal) EXCEPT !.numShards = 1, !.enabled = TRUE, !.decodeReplicas = 2,
                                   !.source = "fake"]}
SmallSpecs == {[Minimal EXCEPT !.numShards = 2]}
TwoPrefillSpecs == {[WithDefaults(Minimal) EXCEPT !.numShards = 1, !.prefillReplicas = 2]}
MinimalSpecs == {Minimal}

\* What the user changes: nothing, the decode port, the port or the image, the
\* number of shards; or autoscaling, its source and its maximum; or removes a
\* replica count.
NoEdits == [f \in Fields |-> {}]
PortEdits == [NoEdits EXCEPT !.decodePort = {8000, 9000}]
PortAndImageEdits == [PortEdits EXCEPT !.image = {"v1", "v2"}]
ShardEdits == [NoEdits EXCEPT !.numShards = {2}]
ScalingEdits ==
    [NoEdits EXCEPT !.enabled = {TRUE, FALSE}, !.source = {"fake", "prometheus"},
                    !.maxReplicas = {2}]
RemovalEdits == [NoEdits EXCEPT !.prefillReplicas = {Nil}]

Quiet == [e \in Events |-> 0]
Once(events) == [e \in Events |-> IF e \in events THEN 1 ELSE 0]

LifecycleBudget == Once({"edit", "delete", "fault", "crash"})
StaleEditsBudget == [Once({"fault", "rollout"}) EXCEPT !["edit"] = 2]
RepairBudget == Once({"drift", "pod", "tick"})
ScalingBudget == [Once({"edit"}) EXCEPT !["signal"] = 2]
OneEdit == Once({"edit"})
TwoPodChanges == [Quiet EXCEPT !["pod"] = 2]
=============================================================================
