CONSTANTS
    NULL = NULL
    NaN = NaN
    PerSecond = 2
    Schema <- MCSchema
    Plans <- MCPlans
    Rows <- MCRows
    MaxRows = 2
    MaxWrites = 2
    Start = 4
    MaxTime = 6

SPECIFICATION Spec

INVARIANTS
    OkAnswersThePlan
    FailsOutliveInserts
    QuietRunsAreConsistent
