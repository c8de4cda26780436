SPECIFICATION Spec
CONSTANTS
    p1 = p1
    p2 = p2
    c1 = c1
    c2 = c2
    Poppers <- OnePopper
    Closers <- OneCloser
    PreparedBatches = 1
    Slots = 2
    MaxRefs = 1
    SamplesPerBatch = 2
    Lookahead = 2
    MaxPushed = 4
    MaxLost = 1
INVARIANTS
    NoSampleSkipped
