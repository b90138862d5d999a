SPECIFICATION MCSpec
CONSTANTS
    NBaselines = 2
    MaxFactor = 2
    MaxElements = 1
    LastSlot = 4
    Uniform = TRUE
    Kinds = {"predict"}
    None = None
    InputOf <- ReaderInput
INVARIANTS
    MCShapesAreKept
CHECK_DEADLOCK FALSE
