SPECIFICATION FairSpec
CONSTANTS
    Nil = Nil
    Absent = Absent
    Garbled = Garbled
    Malformed = Malformed
    MaxInt32 = 1
    Pods = {1}
    MaxShards = 2
    ShardHash <- MCShardHash
    ConvHash <- MCConvHash
    NewIDs = {"new"}
    Routers = {r1, r2}
    Requests = {q1, q2}
    Bodies <- ChatBodies
    PublishedMaps <- TwoShardMaps
    ForeignMaps <- MCForeignMaps
    Budget <- RoutingBudget
INVARIANT TypeOK
INVARIANT ShardInRange
INVARIANT RebalanceKeepsAffinity
PROPERTY MapsMoveForward
 
