CONSTANTS
    Runners = {r1, r2}
    NoOne = NoOne
    NumProbes = 2
    Reports <- MCReports
    MayRaise = TRUE

SPECIFICATION Spec

INVARIANTS
    EveryProbeHasAVerdict
