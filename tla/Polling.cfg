SPECIFICATION SystemSpec
CONSTANTS
    Nil = Nil
    Garbage = Garbage
    NotANumber = NotANumber
    Malformed = Malformed
    NotServed = NotServed
    Garbled = Garbled
    MaxInt32 = 127
    Pods = {1}
    MaxShards = 2
    ShardHash <- MCShardHash
    ConvHash <- MCConvHash
    NewIDs = {"new"}
    Routers = {r1}
    Tracked = {"shardmap"}
    InitSpecs <- FilledSpecs
    FieldValues <- NoEdits
    SignalTexts = {}
    Budget <- SystemBudget
    RouterBudget <- MCRouterBudget
INVARIANT AffinityThroughout
 
PROPERTY KeepsRouterContract
PROPERTY RoutersServePods
PROPERTY SystemStaysAtRest
