SPECIFICATION StreamSpec
CONSTANTS
    Frames = {f1, f2}
    NoFrame = NoFrame
    RingSize = 2
    CompSize = 2
    TxBatch = 2
    PpsPer = 3
    CounterMod = 12
    KickMayFail = FALSE
    Sid = 0
    MaxSeq = 7
INVARIANT NoPhantomLoss
