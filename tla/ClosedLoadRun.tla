--------------------------- MODULE ClosedLoadRun ----------------------------
(***************************************************************************)
(* A virtual-users load run from its first call to its verdict: VuPool,    *)
(* whose calls now have answers, followed by evaluate_load on what the     *)
(* pool returned.  The closed model has no fixed rate, so that the warmup  *)
(* filter of the evaluator drops nothing.                                  *)
(***************************************************************************)
EXTENDS VuPool, FiniteSets, Verdicts

CONSTANTS
    Warmups,      \* the plan's warmup times explored, in clock units
    StatusCodes,  \* the answers a target may give
    Threshold     \* of the throughput assertion, in calls per clock unit

\* A warmup is a std::time::Duration.
ASSUME WarmupsAssumption == Warmups \subseteq Nat

Eval == INSTANCE LoadEval WITH PerSecond <- 1, PctNum <- 99, PctDen <- 100, Scale <- 100

VARIABLES
    warmup,   \* plan.warmup
    answers,  \* what each answered call was answered: a function of its tick index
    summary,  \* of evaluate_load; NoSummary before
    warming   \* history: the ticks whose calls were over before the warmup was

run == <<warmup, answers, summary, warming>>
allVars == <<vars, run>>

NoSummary == [verdict |-> "none", assertions |-> <<>>]

Status == 1
Throughput == 2

Plan ==
    [duration |-> duration, warmup |-> warmup, rps |-> Eval!NoRps,
     assertions |-> <<[kind |-> "StatusCodeIn", allowed |-> {200}],
                      [kind |-> "ThroughputAbove", threshold |-> Threshold]>>]

RunInit ==
    /\ Init
    /\ warmup \in Warmups
    /\ answers = <<>>
    /\ summary = NoSummary
    /\ warming = {}

-----------------------------------------------------------------------------
AnswerCall(w) ==
    /\ FinishWork(w)
    /\ \E code \in StatusCodes :
         answers' = [t \in DOMAIN answers \cup {idx[w]} |->
                       IF t = idx[w] THEN code ELSE answers[t]]
    /\ warming' = IF now < warmup THEN warming \cup {idx[w]} ELSE warming
    /\ UNCHANGED <<warmup, summary>>

PoolStep ==
    /\ \/ ReturnEmpty \/ SpawnNext \/ JoinNext \/ ReturnSorted \/ Advance
       \/ \E w \in Workers : CheckDeadline(w) \/ ClaimTick(w) \/ PanicInWork(w)
    /\ UNCHANGED run

Content(tick) ==
    [tick_index  |-> tick,
     latency     |-> 0,
     status_code |-> answers[tick],
     error       |-> answers[tick] = Eval!NoStatus]

Evaluate ==
    /\ returned
    /\ summary = NoSummary
    /\ summary' = Eval!EvaluateLoad(Plan, [k \in DOMAIN all |-> Content(all[k])])
    /\ UNCHANGED <<vars, warmup, answers, warming>>

Ended == summary # NoSummary /\ UNCHANGED allVars

RunNext ==
    \/ \E w \in Workers : AnswerCall(w)
    \/ PoolStep
    \/ Evaluate
    \/ Ended

RunSpec == RunInit /\ [][RunNext]_allVars

-----------------------------------------------------------------------------
Judged == summary # NoSummary
Passed(a) == Judged /\ summary.assertions[a] = "Pass"

SurvivingTicks == UNION {Elements(samples[w]) : w \in Survivors}

\* The status verdict is about every call of every worker that did not panic, the
\* ones answered after the deadline and those of the warmup included: it passes
\* exactly when there is such a call, all were answered with an allowed status, and
\* the warmup leaves time to measure: a run that measured nothing does not pass.
VerdictSpeaksForTheSurvivors ==
    Judged =>
        (Passed(Status) <=>
           /\ warmup < duration /\ SurvivingTicks # {}
           /\ \A t \in SurvivingTicks : answers[t] = 200)

-----------------------------------------------------------------------------
(* A claim of the documentation that the code does not keep.               *)

\* "Throughput's denominator becomes (duration - warmup)" so that a probe "measures
\* against the 5 samples in the post-warmup window, not all 10": a run whose throughput
\* assertion passes achieved the rate within the measured window.  A call belongs to the
\* window unless it was over before the warmup was; one that began in the warmup and was
\* answered later counts, so that a filter by the beginning of the calls keeps the claim,
\* and so does one by their end.
ThroughputIsOfTheWindow ==
    Passed(Throughput) =>
        Cardinality({k \in DOMAIN all : all[k] \notin warming}) >= Threshold * (duration - warmup)
=============================================================================
