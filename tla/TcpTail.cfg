SPECIFICATION Spec
CONSTANTS
    Capacity = 1
    RxSize = 1
    TxSize = 1
    Window = 1
    ChunkSizes = {1, 2}
    MaxUnits = 3
INVARIANT TailDelivered
CHECK_DEADLOCK FALSE
