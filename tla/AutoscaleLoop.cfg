SPECIFICATION Spec
CONSTANTS
    MaxInt32 = 10
    Nil = Nil
    Garbage = Garbage
    NotANumber = NotANumber
    ReplicaValues = {0, 1, 2, 5, 9, 10}
    SignalTexts = {0, 9, 10, 100, 101, Nil, Garbage, NotANumber}
INVARIANT
    TypeOK
PROPERTIES
    ReconcileRespectsBounds
    NeverAccumulates
    FollowsSignal
