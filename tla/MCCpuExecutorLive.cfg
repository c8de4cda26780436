SPECIFICATION FairSpec
CONSTANTS
    Plans <- SmallPlans
    Reads <- SmallReads
    ChunkCap = 2
    MaxInflight = 1
    Memory = 9
    MaxBatches = 2
    MaxRefs = 1
PROPERTIES
    EveryBatchRendered
    StopReturns
