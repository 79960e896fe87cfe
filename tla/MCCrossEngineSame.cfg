CONSTANTS
    NULL = NULL
    NaN = NaN
    PerSecond = 2
    Schema <- MCSchema
    Assertions <- MCAssertions
    Rows <- MCRows
    Declarations <- MCDeclarations
    MaxBatch = 2
    MaxRows = 2
    MaxPulls = 2
    Start = 4
    MaxTime = 6

SPECIFICATION Spec

INVARIANTS
    SameVerdicts
