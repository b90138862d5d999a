SPECIFICATION AloneSpec
CONSTANTS
    b1 = b1
    b2 = b2
    Baselines = {b1, b2}
    SolInt = 2
    LastSlot = 4
    InputBuffers <- AnyInputBuffers
    Directions = {d1}
    None = None
CONSTRAINT
    Bounded
INVARIANTS
    NeverFails
    RowsOfIntervalsAreOwned
    FrontIsNeeded
CHECK_DEADLOCK FALSE
SYMMETRY MCSymmetry
