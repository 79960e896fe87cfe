CONSTANTS
    Res = 4
    Rps = 3
    Duration = 4
    StartBy = 1
    MaxTime = 5
    MayPanic = TRUE
    Warmups = {0, 1, 3, 4}
    StatusCodes = {0, 200}

SPECIFICATION RunFairSpec

INVARIANTS
    TypeOK
    NeverEarly
    EveryTickOnce
    OutcomeIsHonest
    PassCoversTheSchedule
    FailHasAWitness

PROPERTIES
    HangsOnlyOnACall
    ImplementsCollection
