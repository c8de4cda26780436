CONSTANTS
    a1 = a1
    a2 = a2
    a3 = a3
    s1 = s1
    s2 = s2
    s3 = s3
    Lookahead = 1
    MaxPushed = 4
    SamplesPerBatch = 1
    OwnerSlack = 0
    ArrayKeys = {a1, a2, a3}
    ShardKeys = {s1, s2, s3}
    ArrayOf <- RoundArrayOf
    ShardsOf <- RoundShardsOf
    ShardArray <- RoundShardArray
    ArrayEntries = 2
    ShardEntries = 2
    MaxProbe = 16
    GenMod = 2
SPECIFICATION Spec
INVARIANTS  StagedResolved ShardFetchFindsArray NoSaturation
CHECK_DEADLOCK FALSE
