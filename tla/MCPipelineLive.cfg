SPECIFICATION FairSpec
CONSTANTS
    p1 = p1
    p2 = p2
    c1 = c1
    c2 = c2
    Poppers <- OnePopper
    Closers <- TwoClosers
    PreparedBatches = 1
    Slots = 2
    MaxRefs = 1
    SamplesPerBatch = 1
    Lookahead = 1
    MaxPushed = 3
    MaxLost = 1
PROPERTIES
    ShutdownReturns
    EveryBatchDelivered
