SPECIFICATION Spec
CONSTANTS
    Nil = Nil
    Garbage = Garbage
    NotANumber = NotANumber
    MaxInt32 = 127
    Pods = {1}
    MaxShards = 8
    ShardHash <- MCShardHash
    Tracked = {"shardmap"}
    InitSpecs <- SmallSpecs
    FieldValues <- NoEdits
    SignalTexts = {}
    Budget <- TwoPodChanges
PROPERTY StatusShardsArePublished
