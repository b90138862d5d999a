SPECIFICATION Spec
INVARIANTS
    ReadIsWhatWasWritten
    PatchesAreWhatTheLinesSay
    ParametersAreAsMeant
CHECK_DEADLOCK FALSE
