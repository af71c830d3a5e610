SPECIFICATION FairSpec
CONSTANTS
    Nil = Nil
    Garbage = Garbage
    NotANumber = NotANumber
    MaxInt32 = 127
    Pods = {1}
    MaxShards = 8
    ShardHash <- MCShardHash
    Tracked = {"routerRole", "shardmap"}
    InitSpecs <- FilledSpecs
    FieldValues <- NoEdits
    SignalTexts = {}
    Budget <- RepairBudget
PROPERTY Rests
 
PROPERTY StaysAtRest
PROPERTY OnePassSuffices
