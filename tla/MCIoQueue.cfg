SPECIFICATION FairSpec
CONSTANTS
    w1 = w1
    w2 = w2
    w3 = w3
    c1 = c1
    c2 = c2
    Workers <- ThreeWorkers
    Clients <- TwoClients
    MaxPosts = 3
INVARIANTS
    TypeOK
    RetiredJobsFinished
    WaitMeansFinished
    
    NoLostSignal

    
