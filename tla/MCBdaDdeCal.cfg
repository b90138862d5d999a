SPECIFICATION CalSpec
CONSTANTS
    b1 = b1
    b2 = b2
    Baselines = {b1, b2}
    SolInt = 3
    LastSlot = 6
    InputBuffers <- MCInputBuffers
    Directions = {d1, d2}
    None = None
INVARIANTS
    NothingIsLost
    ModelMatchesData
    IntervalsAreWhole
    ForwardedIsSolved
PROPERTIES
    ImplementsStream
    Terminates
CHECK_DEADLOCK FALSE
