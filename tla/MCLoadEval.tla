----------------------------- MODULE MCLoadEval -----------------------------
(***************************************************************************)
(* Four kinds of answers; plans of assertions that can be judged, with     *)
(* several warmups and rates, and plans with one that never can.           *)
(***************************************************************************)
EXTENDS LoadEvalRun

\* The answers a sample can carry; the last three are the ways to be bad.
Fast       == [latency |-> 1, status_code |-> 200, error |-> FALSE]
Slow       == [latency |-> 9, status_code |-> 204, error |-> FALSE]
NotFound   == [latency |-> 1, status_code |-> 404, error |-> FALSE]
Refused    == [latency |-> 9, status_code |-> NoStatus, error |-> TRUE]
MCAnswers  == {Fast, Slow, NotFound, Refused}

P99(t)        == [kind |-> "P99Under", metric |-> "latency_ms", threshold |-> t]
ErrorRate(t)  == [kind |-> "ErrorRateBelow", threshold |-> t]
Throughput(t) == [kind |-> "ThroughputAbove", threshold |-> t]
Status(S)     == [kind |-> "StatusCodeIn", allowed |-> S]

\* Assertions that can be judged, and one of each kind that never can.
Judgeable == <<P99(5), ErrorRate(1), ErrorRate(3), Throughput(2), Status({200, 204})>>
Broken    == {[P99(5) EXCEPT !.metric = "ttfb_ms"], ErrorRate(Scale + 1), Throughput(-1), Status({})}

MCPlans ==
    {[duration |-> 4, warmup |-> w, rps |-> r, assertions |-> Judgeable] :
        w \in {0, 1, 3, 4}, r \in {NoRps, 1, 2}}
    \cup
    {[duration |-> 4, warmup |-> 0, rps |-> 1, assertions |-> Append(Judgeable, b)] : b \in Broken}
=============================================================================
