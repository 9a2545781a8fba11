SPECIFICATION FairSpec
CONSTANTS
    Frames = {f1, f2}
    NoFrame = NoFrame
    RingSize = 1
    CompSize = 2
    TxBatch = 2
    PpsPer = 1
    CounterMod = 4
    KickMayFail = TRUE
INVARIANTS FrameConservation PacedBurstBound
PROPERTIES TxExchange FramesReturnOrStall
