------------------------------ MODULE LoadEval ------------------------------
(***************************************************************************)
(* evaluate_load and the four load assertions.                             *)
(*                                                                         *)
(* A sample is [tick_index, latency, status_code, error]: latency in       *)
(* clock units, status_code an integer or NoStatus, error a Boolean (a     *)
(* connection-level failure).  A plan is [duration, warmup, rps,           *)
(* assertions]: times in clock units of which there are PerSecond to the   *)
(* second, rps an integer or NoRps (virtual users have no fixed rate).     *)
(* Floats are ratios of integers: a threshold of ErrorRateBelow is         *)
(* threshold / Scale, and the percentile of P99Under is PctNum / PctDen.   *)
(***************************************************************************)
EXTENDS Integers, Sequences, FiniteSets, TickLists, Verdicts

CONSTANTS
    PerSecond,  \* clock units per second
    PctNum,     \* the percentile: 99 of 100 in the code; smaller numbers let
    PctDen,     \*   short lists exercise the index computation
    Scale       \* denominator of the error-rate thresholds

ASSUME PercentileAssumption ==
    PctDen \in Nat \ {0} /\ PctNum \in 0 .. PctDen /\ Scale \in Nat \ {0} /\ PerSecond \in Nat \ {0}

NoStatus == 0
NoRps == -1

Count_(S(_), samples) == Cardinality({i \in DOMAIN samples : S(samples[i])})
Select(samples, S(_)) == Picked(samples, {i \in DOMAIN samples : S(samples[i])})

\* A connection failure and a non-2xx answer are both errors.
Is2xx(c) == c \in 200 .. 299
Bad(s) == s.error \/ ~Is2xx(s.status_code)
HasLatency(s) == ~s.error

-----------------------------------------------------------------------------
(* The evaluators.  Each has its own rule for a plan or a sample list that *)
(* it cannot judge, and answers Error there, never Pass.                   *)

PassIf(b) == IF b THEN "Pass" ELSE "Fail"

\* Plausible bug: the index is that of the list's length.
PercentileIndexOfLength(n) == ((PctNum * n) \div PctDen) + 1

\* floor(p * (n - 1)), one-based.
PercentileIndex(n) == ((PctNum * (n - 1)) \div PctDen) + 1

\* Plausible bug: connection failures count as requests with a latency.
LatenciesOfAll(samples) == [i \in DOMAIN samples |-> samples[i].latency]

Latencies(samples) ==
    LET answered == Select(samples, HasLatency)
    IN  [i \in DOMAIN answered |-> answered[i].latency]

P99Under(a, samples) ==
    LET ls == Sorted(Latencies(samples)) IN
    IF a.metric # "latency_ms" \/ ls = <<>> THEN "Error"
    ELSE PassIf(ls[PercentileIndex(Len(ls))] <= a.threshold)

ErrorRateBelow(a, samples) ==
    IF a.threshold \notin 0 .. Scale \/ samples = <<>> THEN "Error"
    ELSE PassIf(Count_(Bad, samples) * Scale < a.threshold * Len(samples))

ThroughputAbove(a, effective, samples) ==
    IF a.threshold < 0 \/ samples = <<>> \/ effective <= 0 THEN "Error"
    ELSE PassIf(Len(samples) * PerSecond >= a.threshold * effective)

\* Plausible bug: a sample without a status is skipped.
StatusCodeInIfAny(a, samples) ==
    IF a.allowed = {} \/ samples = <<>> THEN "Error"
    ELSE PassIf(\A i \in DOMAIN samples :
                   samples[i].status_code \in a.allowed \cup {NoStatus})

StatusCodeIn(a, samples) ==
    IF a.allowed = {} \/ samples = <<>> THEN "Error"
    ELSE PassIf(\A i \in DOMAIN samples : samples[i].status_code \in a.allowed)

EvalOne(a, effective, samples) ==
    CASE a.kind = "P99Under"        -> P99Under(a, samples)
      [] a.kind = "ErrorRateBelow"  -> ErrorRateBelow(a, samples)
      [] a.kind = "ThroughputAbove" -> ThroughputAbove(a, effective, samples)
      [] a.kind = "StatusCodeIn"    -> StatusCodeIn(a, samples)

-----------------------------------------------------------------------------
(* The run.                                                                *)

\* floor(warmup_secs * rps); no tick is dropped without a fixed rate.
WarmupTicks(plan) ==
    IF plan.rps = NoRps THEN 0 ELSE (plan.warmup * plan.rps) \div PerSecond

\* Plausible bug: the warmup shortens the time but drops no sample.
MeasuredUnfiltered(plan, samples) == samples

\* Plausible bug: the tick at the end of the warmup is dropped with it.
MeasuredStrictly(plan, samples) ==
    Select(samples, LAMBDA s : s.tick_index > WarmupTicks(plan))

Measured(plan, samples) ==
    Select(samples, LAMBDA s : s.tick_index >= WarmupTicks(plan))

\* Plausible bug: the guard against an empty measurable window is missing.
EvaluateWithoutGuard(plan, samples) ==
    [i \in DOMAIN plan.assertions |->
        EvalOne(plan.assertions[i], plan.duration, samples)]

EvaluateEach(plan, samples) ==
    [i \in DOMAIN plan.assertions |->
        IF plan.warmup >= plan.duration THEN "Error"
        ELSE EvalOne(plan.assertions[i], plan.duration - plan.warmup, Measured(plan, samples))]

EvaluateLoad(plan, samples) ==
    LET results == EvaluateEach(plan, samples)
    IN  [verdict |-> Reduce(results), assertions |-> results]
=============================================================================
