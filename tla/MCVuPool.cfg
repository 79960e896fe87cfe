CONSTANTS
    Count = 3
    Durations = {0, 2}
    MaxTime = 3
    MayPanic = TRUE

SPECIFICATION FairSpec

INVARIANTS
    TypeOK
    EachTickClaimedOnce
    ReturnsEverySurvivingSample
    AtMostOneLateCall

PROPERTIES
    HangsOnlyOnACall
    ImplementsCollection
