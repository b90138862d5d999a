SPECIFICATION MCSpec
CONSTANTS
    PoolSizes = {1, 2, 3}
    Sources <- MCSources
    Idle = Idle
    ThreadCounts = {1, 2, 3, 4}
    LoopSizes = {0, 1, 2, 3}
    NRuns = 3
    WindowSize = 3
    NChan = 5
    FlagLists <- MCFlagLists
    MaxTimes = 4
    MaxFlagged = 2
    Interpolators = {t1, t2}
    Main = Main
    BufferSize = 2
    NoElement = NoElement
INVARIANTS
    ForWaits
    ThreadIdsAreExclusive
    SamplesAreInterpolated
    LoopsAreDone
PROPERTIES
    PoolTerminates
    EveryBufferIsSent
CHECK_DEADLOCK FALSE
