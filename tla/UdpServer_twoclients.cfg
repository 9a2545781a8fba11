SPECIFICATION Spec
CONSTANTS
    a = a
    b = b
    c = c
    Workers = 2
    Flows <- TwoFlows
    SidOf <- TwoClients
    NoHeader = NoHeader
    RouteOf <- Together
    MaxSeq = 3
    MaxDatagrams = 6
    QueueSize = 2
    Batch = 2
INVARIANT ReportedLossIsLoss
