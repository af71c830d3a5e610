SPECIFICATION FairSpec
CONSTANTS
    Nil = Nil
    Garbage = Garbage
    NotANumber = NotANumber
    MaxInt32 = 127
    Pods = {1}
    MaxShards = 8
    ShardHash <- MCShardHash
    Tracked = {"decodeService", "prefillDeployment"}
    InitSpecs <- FilledSpecs
    FieldValues <- PortEdits
    SignalTexts = {}
    Budget <- LifecycleBudget
INVARIANT TypeOK
INVARIANT NeverForgotten
INVARIANT ReadyMeansComplete
PROPERTY ChildrenOnlyUnderFinalizer
PROPERTY Converges
PROPERTY ImplementsLifecycle
CHECK_DEADLOCK FALSE
