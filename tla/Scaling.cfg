SPECIFICATION FairSpec
CONSTANTS
    Nil = Nil
    Garbage = Garbage
    NotANumber = NotANumber
    MaxInt32 = 127
    Pods = {1}
    MaxShards = 8
    ShardHash <- MCShardHash
    Tracked = {"signals", "decodeDeployment"}
    InitSpecs <- ScaledSpecs
    FieldValues <- ScalingEdits
    SignalTexts = {Nil, 150}
    Budget <- ScalingBudget
INVARIANT ScalingOfGeneration
INVARIANT ScaledWithinBounds
PROPERTY SignalsKept
PROPERTY Converges
PROPERTY StaysAtRest
PROPERTY OnePassSuffices
