SPECIFICATION Spec
CONSTANTS
    RingSize = 4
    CursorMod = 8
    Values = {a, b}
    MaxBatch = 2
INVARIANTS RingBounds ReadsPublished
PROPERTY RefinesFifo
