------------------------------ MODULE MCSystem ------------------------------
(* Instances of System for TLC. *)
EXTENDS System

\* fnv32a of the shard numbers, modulo 12 (as in MCReconciler).
MCShardHash == 0 :> 3 @@ 1 :> 4

\* A conversation of a client and one that the router makes up.
MCConvHash == "c1" :> 5 @@ "new" :> 3

\* A resource with every field set.
FilledSpecs ==
    {[WithDefaults([f \in Fields |-> IF f = "image" THEN "v1" ELSE Nil]) EXCEPT !.numShards = 2]}

NoEdits == [f \in Fields |-> {}]

\* Pods change twice, at any point, and a router restarts; "write" is more than
\* the operator needs.
SystemBudget == [e \in Events |-> IF e = "pod" THEN 2 ELSE 0]
MCRouterBudget == [write |-> 9, fault |-> 1]
=============================================================================
