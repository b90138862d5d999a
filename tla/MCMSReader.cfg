SPECIFICATION MCSpec
CONSTANTS
    Interval = 5
    Tolerance = 1
    Ticks = {6, 7, 8, 10, 11, 12, 15, 16, 17}
    MaxSlots = 4
    Unordered = 3
    MultiSlots = 3
    StartSlots <- MCStartSlots
    EndSlots <- MCEndSlots
    NTimes = {0, 2}
    TimeLists <- MCTimeLists
INVARIANTS
    TimesIncrease
    DataKeepsItsTime
    GapsAreFilled
    
PROPERTIES
    MCTerminates
CHECK_DEADLOCK FALSE
