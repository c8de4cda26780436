SPECIFICATION Spec
CONSTANTS
    Plans <- SmallPlans
    Reads <- SmallReads
    ChunkCap = 2
    MaxInflight = 1
    Memory = 9
    MaxBatches = 3
    MaxRefs = 1
INVARIANTS
    ReadyIsComplete
    ThreadsOwnTheirBuffers
    HeldBufferUntouched
    MemoryAccounted
PROPERTIES
    ImplementsExecutor
