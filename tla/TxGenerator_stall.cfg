SPECIFICATION FairSpec
CONSTANTS
    Frames = {f1, f2}
    NoFrame = NoFrame
    RingSize = 2
    CompSize = 2
    TxBatch = 2
    PpsPer = 0
    CounterMod = 3
    KickMayFail = TRUE
PROPERTY FramesReturn
