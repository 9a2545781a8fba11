SPECIFICATION FairSpec
CONSTANTS
    a = a
    b = b
    c = c
    Workers = 2
    Flows <- ThreeFlows
    SidOf <- OneClient
    NoHeader = NoHeader
    RouteOf <- Spread
    MaxSeq = 3
    MaxDatagrams = 5
    QueueSize = 2
    Batch = 2
INVARIANTS EveryDatagramCounted DropsExact
PROPERTY DatagramsProcessed
