SPECIFICATION Spec
CONSTANTS
    p1 = p1
    p2 = p2
    c1 = c1
    c2 = c2
    Poppers <- TwoPoppers
    Closers <- TwoClosers
    PreparedBatches = 2
    Slots = 2
    MaxRefs = 2
    SamplesPerBatch = 2
    Lookahead = 3
    MaxPushed = 9
    MaxLost = 1
SYMMETRY ThreadSymmetry
INVARIANTS
    TypeOK
    InPushOrder
    EveryPlanOwnedOnce
    NoMissedWakeup
    NoUseAfterStop
    StoppedIsQuiet
PROPERTIES
    FailureIsFinal
