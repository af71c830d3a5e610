SPECIFICATION Spec
CONSTANTS
    Nil = Nil
    Garbage = Garbage
    NotANumber = NotANumber
    MaxInt32 = 127
    Pods = {1}
    MaxShards = 8
    ShardHash <- MCShardHash
    Tracked = {}
    InitSpecs <- MinimalSpecs
    FieldValues <- ShardEdits
    SignalTexts = {}
    Budget <- OneEdit
PROPERTY ExplicitValuesKept
