SPECIFICATION MCSpec
CONSTANTS
    NBaselines = 3
    MaxFactor = 3
    MaxElements = 2
    LastSlot = 7
    Uniform = TRUE
    Kinds = {"predict", "averager", "group"}
    None = None
    InputOf <- AveragerInput
INVARIANTS
    SlotsAreTheirRows
    NothingReadyWaits
    EverySlotOnceInOrder
    MCShapesAreKept
    RowsAreKept
    
PROPERTIES
    MCImplementsStream
    MCEveryBufferReturns
CHECK_DEADLOCK FALSE
