CONSTANTS
    NULL = NULL
    NaN = NaN
    PerSecond = 2
    Schema <- MCSchema
    Assertions <- MCAssertions
    Rows <- MCRows
    Declarations <- MCDeclarations
    MaxBatch = 2
    MaxRows = 4
    MaxPulls = 4
    Start = 4
    MaxTime = 6

SPECIFICATION Spec

INVARIANTS
    VerdictsMatchTheTable
    FreshnessErrsByLessThanASecond
    AgreeOffTheEdges
    PushdownIsStricter
    DerivedProbeJudgesTheDeclaration

PROPERTIES
    FailIsForGood
