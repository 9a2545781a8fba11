SPECIFICATION FairSpec
CONSTANTS
    Frames = {f1, f2}
    RingSize = 2
    Streams = {s1, s2}
    Runt = Runt
    MaxSeq = 3
    MaxPackets = 4
INVARIANTS RxFrameConservation EveryDeliveredPacketCounted DropsExact LossNeverMissed
PROPERTIES RxExchange RxFramesReturn
