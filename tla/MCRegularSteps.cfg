SPECIFICATION MCSpec
CONSTANTS
    MaxSlots = 6
    TimeWindows = {1, 2, 3, 5, 8}
    GivenSizes <- MCGivenSizes
    UpsampleFactors = {2, 3}
    Jitter = {0, 3}
    TimeSteps = {1, 2, 3, 4}
    MinPoints = {1, 2}
    MemorySlots = {3, 6, 11}
    BlockSizes = {1, 2, 3, 4, 10}
    Interval = 8
    Moves = {0, 1, 3}
    SolInts = {0, 2, 3}
    SolIntCounts = {1, 2}
    MinVisRatios = {0, 60}
    Modes <- MCModes
    GainSolInts = {0, 1, 2, 3}
    ChunkSizes = {1, 2}
    NCells = 1
    NStations = 3
    MaxIter = 7
    NSolutions = 3
    DemixTimeSteps = {1, 2, 3, 4}
    OutputTimeSteps = {1, 2, 3}
    TimeChunks = {1, 2, 3}
    MaxIterations = {1, 2, 3, 13, 33}
    MaxApproxIterations = {0, 1, 3, 40}
    NIntervals = 2
    ChainKinds = {
        "counter", "preflagger", "preflagger_clear", "uvwflagger", "phaseshift", "applycal",
        "applybeam_weights", "scaledata", "columnreader", "predict",
        "predict_add", "h5parmpredict", "filter_baselines", "filter_channels",
        "stationadder", "gaincal", "gaincal_apply", "ddecal", "aoflagger",
        "idgpredict_one", "msupdater", "mswriter"}
    BranchKinds = {"counter", "phaseshift", "applycal", "filter_channels", "ddecal"}
    ChainEnds = {"update", "new", "columns"}
INVARIANTS
    
    
    SolutionsMeetTheirInterval
    SolutionsAreExact
    SelectionIsFlagged
    ChangesAreWritten
    TrueSolutionsAreFound
    
    FieldsAreOfTheSlot
CHECK_DEADLOCK FALSE
