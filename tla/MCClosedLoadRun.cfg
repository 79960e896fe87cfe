CONSTANTS
    Count = 2
    Durations = {0, 2}
    MaxTime = 3
    MayPanic = TRUE
    Warmups = {0, 1, 2}
    StatusCodes = {0, 200, 404}
    Threshold = 1

SPECIFICATION RunSpec

INVARIANTS
    VerdictSpeaksForTheSurvivors
