SPECIFICATION Spec
CONSTANTS
    w1 = w1
    w2 = w2
    c1 = c1
    Workers <- TwoWorkers
    Clients <- OneClient
    MaxPosts = 6
    InitialCap = 2
PROPERTIES
    ImplementsIoQueue
