SPECIFICATION Spec
CONSTANTS
    MaxInt32 = 7
    Pods = {1, 2, 3}
    MaxShards = 4
    ShardHash <- MCShardHash
INVARIANTS
    TypeOK
    OwnersServe
PROPERTIES
    ListingOrderIrrelevant
    ResizeKeepsOwners
