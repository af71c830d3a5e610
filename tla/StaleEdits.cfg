SPECIFICATION Spec
CONSTANTS
    Nil = Nil
    Garbage = Garbage
    NotANumber = NotANumber
    MaxInt32 = 127
    Pods = {1}
    MaxShards = 8
    ShardHash <- MCShardHash
    Tracked = {"decodeService", "prefillDeployment"}
    InitSpecs <- SmallSpecs
    FieldValues <- PortAndImageEdits
    SignalTexts = {}
    Budget <- StaleEditsBudget
INVARIANT ObservedIsActedOn
INVARIANT StatusConsistent
PROPERTY ObservedGenerationAdvances
PROPERTY EditsLostOnlyToDefaults
