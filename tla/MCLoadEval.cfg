CONSTANTS
    PerSecond = 2
    PctNum = 3
    PctDen = 4
    Scale = 4
    MaxSamples = 6
    Plans <- MCPlans
    Answers <- MCAnswers

SPECIFICATION EvalSpec

INVARIANTS
    NoVacuousPass
    BrokenPlanIsAnError
    P99Reference

PROPERTIES
    FailingMoreNeverHelps
    LatencyIsMonotone

\* The machine stops when the list is full.
CHECK_DEADLOCK FALSE
