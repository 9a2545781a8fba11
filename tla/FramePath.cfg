SPECIFICATION PathSpec
CONSTANTS
    Lens = {8, 31, 40, 86, 87, 70000}
    Threads = {0, 1, 5, 250}
    Rates = {0, 3, 100}
    CpuLists <- SomeCpuLists
    Onlines <- SomeOnlines
    QueueCounts = {1, 2, 64}
    Mems = {400000, 40000000}
    DefaultCap = 200000
    WordMod = 1048576
    FrameSize = 128
    AddressWords = {15028, 65535}
    ForeignLens = {13, 33, 41, 42, 45, 53, 58, 61, 62, 78}
INVARIANTS PinsBalanced  BuffersUnderCap CopyExact LengthsTrue ChecksumVerifies OwnFramesParsed RedirectedIsUdp
 
