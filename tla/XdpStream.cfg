SPECIFICATION StreamSpec
CONSTANTS
    Frames = {f1, f2}
    NoFrame = NoFrame
    RingSize = 2
    CompSize = 2
    TxBatch = 2
    PpsPer = 3
    CounterMod = 12
    KickMayFail = TRUE
    Sid = 0
    MaxSeq = 7
SYMMETRY FrameSymmetry
INVARIANTS CountedIsSent RingsNeverFull
PROPERTY StreamInOrder
