----------------------------- MODULE LoadEvalRun ----------------------------
(***************************************************************************)
(* The load evaluator on every list of up to MaxSamples samples: the list  *)
(* grows one sample at a time, in tick order as the collectors deliver it, *)
(* and the plan is evaluated on every prefix.                              *)
(***************************************************************************)
EXTENDS LoadEval

CONSTANTS
    Plans,       \* the plans that are evaluated
    Answers,     \* what a sample may carry beside its tick
    MaxSamples

LoadAssertion(a) ==
    /\ a.kind \in {"P99Under", "ErrorRateBelow", "ThroughputAbove", "StatusCodeIn"}
    /\ a.kind # "StatusCodeIn" => a.threshold \in Int
    /\ a.kind = "StatusCodeIn" => NoStatus \notin a.allowed

ASSUME PlansAssumption ==
    \A p \in Plans :
        /\ p.duration \in Nat /\ p.warmup \in Nat
        /\ p.rps \in Nat \cup {NoRps}
        /\ \A i \in DOMAIN p.assertions : LoadAssertion(p.assertions[i])

ASSUME AnswersAssumption ==
    \A a \in Answers : a.latency \in Int /\ a.status_code \in Int /\ a.error \in BOOLEAN

VARIABLES
    plan,
    delivered,  \* the list of samples
    judgement   \* what evaluate_load says of the plan and the list

evalVars == <<plan, delivered, judgement>>

EvalInit ==
    /\ plan \in Plans
    /\ delivered = <<>>
    /\ judgement = EvaluateLoad(plan, delivered)

Deliver(a) ==
    /\ Len(delivered) < MaxSamples
    /\ delivered' = Append(delivered,
          [tick_index |-> Len(delivered), latency |-> a.latency,
           status_code |-> a.status_code, error |-> a.error])
    /\ judgement' = EvaluateLoad(plan, delivered')
    /\ UNCHANGED plan

EvalNext == \E a \in Answers : Deliver(a)

EvalSpec == EvalInit /\ [][EvalNext]_evalVars

-----------------------------------------------------------------------------
Window == Measured(plan, delivered)
Assertion(i) == plan.assertions[i]
Judges(i, verdict) == judgement.assertions[i] = verdict

\* An empty measured window proves nothing: no assertion passes on it, whether the
\* warmup covers the plan, drops every sample, or nothing was collected.
NoVacuousPass ==
    plan.warmup >= plan.duration \/ Window = <<>> =>
        \A i \in DOMAIN plan.assertions : Judges(i, "Error")

\* An unknown metric, a threshold out of range, an empty set of statuses.
NeverJudged(a) ==
    \/ a.kind = "P99Under" /\ a.metric # "latency_ms"
    \/ a.kind = "ErrorRateBelow" /\ a.threshold \notin 0 .. Scale
    \/ a.kind = "ThroughputAbove" /\ a.threshold < 0
    \/ a.kind = "StatusCodeIn" /\ a.allowed = {}

\* An assertion that can never be judged makes the run an Error whatever the samples
\* say: it is not masked by assertions that pass or fail next to it.
BrokenPlanIsAnError ==
    (\E i \in DOMAIN plan.assertions : NeverJudged(Assertion(i))) => judgement.verdict = "Error"

\* P99Under passes exactly when at most a 1 - p share of the answered requests, in
\* whole requests of the n - 1 others, was slower than the threshold.
P99Reference ==
    \A i \in DOMAIN plan.assertions :
        LET answered == Select(Window, HasLatency)
            n    == Len(answered)
            slow == Cardinality({k \in DOMAIN answered : answered[k].latency > Assertion(i).threshold})
        IN  /\ Assertion(i).kind = "P99Under" /\ ~NeverJudged(Assertion(i))
            /\ plan.warmup < plan.duration /\ n > 0
            => (Judges(i, "Pass") <=> slow <= (n - 1) - ((PctNum * (n - 1)) \div PctDen))

Newest == delivered[Len(delivered)]

\* One more bad sample never turns an assertion about errors or status codes from
\* not passing to passing, and a connection failure never changes the latency
\* verdict: a target cannot buy a Pass by failing more.
FailingMoreNeverHelps ==
    [][ \A i \in DOMAIN plan.assertions :
          /\ Assertion(i).kind = "ErrorRateBelow" /\ Bad(Newest') /\ ~Judges(i, "Pass")
               => ~Judges(i, "Pass")'
          /\ Assertion(i).kind = "StatusCodeIn" /\ ~Judges(i, "Pass") /\ Window # <<>>
               => ~Judges(i, "Pass")'
          /\ Assertion(i).kind = "P99Under" /\ Newest'.error =>
               judgement'.assertions[i] = judgement.assertions[i] ]_evalVars

\* One more slow answer never turns a failing latency assertion into a passing one,
\* one more fast answer never a passing one into a failing one, although the index
\* of the percentile moves with the number of answers.
LatencyIsMonotone ==
    [][ \A i \in DOMAIN plan.assertions :
          Assertion(i).kind = "P99Under" /\ ~Newest'.error =>
            /\ Newest'.latency > Assertion(i).threshold /\ Judges(i, "Fail") => Judges(i, "Fail")'
            /\ Newest'.latency <= Assertion(i).threshold /\ Judges(i, "Pass") => Judges(i, "Pass")' ]_evalVars
=============================================================================
