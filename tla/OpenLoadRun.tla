---------------------------- MODULE OpenLoadRun -----------------------------
(***************************************************************************)
(* A constant-rate load run from the first tick to its verdict: the        *)
(* collector of ConstantRate, whose calls now have answers, followed by    *)
(* evaluate_load on the samples it returned.  The collector and the        *)
(* evaluator know nothing of each other: the evaluator sees the plan and   *)
(* a list of samples, neither the clock nor how late a tick was fired.     *)
(***************************************************************************)
EXTENDS ConstantRate, Verdicts

CONSTANTS
    Warmups,     \* the plan's warmup times explored, in clock units
    StatusCodes  \* the answers a target may give

\* A warmup is a std::time::Duration.
ASSUME WarmupsAssumption == Warmups \subseteq Nat

Eval == INSTANCE LoadEval WITH PerSecond <- Res, PctNum <- 99, PctDen <- 100, Scale <- 100

VARIABLES
    warmup,   \* plan.warmup
    answers,  \* what each call was answered, by handle
    summary   \* of evaluate_load; NoSummary before, and for ever after an Err

run == <<warmup, answers, summary>>
allVars == <<vars, run>>

NoAnswer == [latency |-> -1, status_code |-> Eval!NoStatus, error |-> FALSE]
NoSummary == [verdict |-> "none", assertions |-> <<>>]

\* The assertion whose verdict depends on which ticks were measured, and on each.
Status == 1

Plan ==
    [duration |-> Duration, warmup |-> warmup, rps |-> Rps,
     assertions |-> <<[kind |-> "StatusCodeIn", allowed |-> {200}]>>]

RunInit ==
    /\ Init
    /\ warmup \in Warmups
    /\ answers = <<>>
    /\ summary = NoSummary

-----------------------------------------------------------------------------
FireCall ==
    /\ Fire
    /\ answers' = Append(answers, NoAnswer)
    /\ UNCHANGED <<warmup, summary>>

\* request_to_sample: a response of any status is a sample with that status, a
\* connection-level failure one without.
SampleOf(code) == [latency |-> 0, status_code |-> code, error |-> code = Eval!NoStatus]

AnswerCall(h) ==
    /\ Settle(h)
    /\ \E code \in StatusCodes : answers' = [answers EXCEPT ![h] = SampleOf(code)]
    /\ UNCHANGED <<warmup, summary>>

PanicCall(h) == Panic(h) /\ UNCHANGED run

Collector ==
    /\ BeginTick \/ Wake \/ JoinOk \/ JoinErr \/ Return \/ Advance
    /\ UNCHANGED run

\* The sample of a tick, with the latency and the answer its call recorded.
Content(tick) ==
    [tick_index  |-> tick,
     latency     |-> answers[tick + 1].latency,
     status_code |-> answers[tick + 1].status_code,
     error       |-> answers[tick + 1].error]

Evaluate ==
    /\ outcome = "ok"
    /\ summary = NoSummary
    /\ summary' = Eval!EvaluateLoad(Plan, [k \in DOMAIN samples |-> Content(samples[k])])
    /\ UNCHANGED <<vars, warmup, answers>>

Ended ==
    /\ outcome = "err" \/ summary # NoSummary
    /\ UNCHANGED allVars

RunNext ==
    \/ FireCall
    \/ \E h \in DOMAIN tasks : AnswerCall(h)
    \/ \E h \in DOMAIN tasks : PanicCall(h)
    \/ Collector
    \/ Evaluate
    \/ Ended

RunSpec == RunInit /\ [][RunNext]_allVars

\* The fairness of the collector; that the verdict is asked for is up to the caller.
RunFairSpec == RunSpec /\ RuntimeFairness

-----------------------------------------------------------------------------
Judged == summary # NoSummary
Passed(a) == Judged /\ summary.assertions[a] = "Pass"

\* A passing StatusCodeIn speaks for the whole schedule: every tick of the plan
\* scheduled after the warmup was fired, and its call was answered with an allowed
\* status.  No panic, late tick, order of the answers or of the joins can hide one.
PassCoversTheSchedule ==
    Passed(Status) =>
        \A i \in TicksInPlan :
            i * TickPeriod >= warmup =>
                i + 1 \in DOMAIN tasks /\ answers[i + 1].status_code = 200

\* A failing StatusCodeIn has a witness no more than one period inside the warmup:
\* some tick from there on was answered with another status, or not at all.  (A
\* period, not less: the floor of a floating-point product may be one too low.)
FailHasAWitness ==
    Judged /\ summary.assertions[Status] = "Fail" =>
        \E h \in DOMAIN tasks :
            /\ (h - 1) * TickPeriod >= warmup - TickPeriod
            /\ answers[h].status_code # 200
=============================================================================
