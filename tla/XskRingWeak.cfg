SPECIFICATION WeakSpec
CONSTANTS
    RingSize = 2
    CursorMod = 6
    Values = {a, b}
    MaxBatch = 2
INVARIANT ReadsPublished
