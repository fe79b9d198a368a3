\* Buffers of one unit, channels of two chunks: every hand-over can be full and
\* empty, and a writer can fail while the limit is not reached.
SPECIFICATION FairSpec
CONSTANTS
    Capacity = 2
    RxSize = 1
    TxSize = 1
    Window = 1
    ChunkSizes = {1, 2}
    MaxUnits = 3
INVARIANTS StreamsIntact FinInOrder
PROPERTIES StreamsFlow ThreadsEnd AbandonedDropped
CHECK_DEADLOCK FALSE
