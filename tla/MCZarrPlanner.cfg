CONSTANTS
    a1 = a1
    a2 = a2
    a3 = a3
    s1 = s1
    s2 = s2
    s3 = s3
    Lookahead = 2
    MaxPushed = 2
    SamplesPerBatch = 2
    OwnerSlack = 0
    ArrayKeys = {a1, a2, a3}
    ShardKeys = {s1, s2, s3}
    ArrayOf <- SharedArrayOf
    ShardsOf <- SharedShardsOf
    ShardArray <- SharedShardArray
    ArrayEntries = 4
    ShardEntries = 8
    MaxProbe = 16
    GenMod = 4
SPECIFICATION LiveSpec
INVARIANT GatesOutliveWaiters
PROPERTIES SamplesLeave TeardownReturns ImplementsPlanner
CHECK_DEADLOCK FALSE
