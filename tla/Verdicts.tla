------------------------------ MODULE Verdicts ------------------------------
(***************************************************************************)
(* The outcome of an assertion and of a run, shared by the data probes and *)
(* the load probes.  The results of a run are the sequence of the verdicts *)
(* of its assertions, in plan order (assertion_index is the position).     *)
(***************************************************************************)
EXTENDS Sequences

Verdict == {"Pass", "Fail", "Error"}

HasVerdict(results, v) == \E i \in DOMAIN results : results[i] = v

\* Plausible bug: a failed assertion is reported before a broken one.
ReduceFailFirst(results) ==
    IF HasVerdict(results, "Fail") THEN "Fail"
    ELSE IF HasVerdict(results, "Error") THEN "Error"
    ELSE "Pass"

\* reduce_verdict: any Error, else any Fail, else Pass (of no assertion too).
Reduce(results) ==
    IF HasVerdict(results, "Error") THEN "Error"
    ELSE IF HasVerdict(results, "Fail") THEN "Fail"
    ELSE "Pass"
=============================================================================
