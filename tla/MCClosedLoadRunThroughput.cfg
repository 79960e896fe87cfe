CONSTANTS
    Count = 1
    Durations = {3}
    MaxTime = 4
    MayPanic = FALSE
    Warmups = {2}
    StatusCodes = {200}
    Threshold = 2

SPECIFICATION RunSpec

INVARIANTS
    ThroughputIsOfTheWindow
