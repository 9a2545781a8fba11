SPECIFICATION SessionSpec
CONSTANTS
    Threads = {t1, t2}
    Batch = 2
    PpsPerThread = 3
    MaxSeq = 4
    MaxChunks = 2
    Workers = 2
    Window = 1
INVARIANTS SummaryExact  AtMostOneLateSleep DropsAreUnsent EndsAgree
PROPERTIES DeltasNeverNegative ClientEnds
