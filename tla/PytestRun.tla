----------------------------- MODULE PytestRun ------------------------------
(***************************************************************************)
(* A pytest session over the probes of its test modules.  Every DataProbe  *)
(* is a collector, with one item per assertion of its plan.  The items of  *)
(* a collector share its _cached: the first of them to run, whichever it   *)
(* is, executes the probe, and the others read the report, or are given    *)
(* the same exception again.                                               *)
(*                                                                         *)
(* pytest is external: it deselects items (-k, --lf), runs the others in   *)
(* any order (--ff mixes those of different probes), goes on after a       *)
(* failure or stops (-x), and is ended by a KeyboardInterrupt.             *)
(***************************************************************************)
EXTENDS Integers, Sequences, Verdicts

CONSTANTS
    Collectors,  \* the DataProbes of the session
    Arity        \* how many assertions each has

ASSUME ArityAssumption == Arity \in [Collectors -> Nat]

VARIABLES
    selected,  \* the items that pytest kept
    cached,    \* self._cached of each collector: NotRun, or what p.run() came to
    outcome,   \* of each item: "pending", "passed" or "failed"
    session,   \* "running", "over" or "interrupted"
    executed   \* history: what every p.run() of a collector came to

vars == <<selected, cached, outcome, session, executed>>

Items == UNION {{c} \X (1 .. Arity[c]) : c \in Collectors}

NotRun == [kind |-> "none", report |-> <<>>]

\* A report with a verdict per assertion, an exception of the adapter, or Ctrl-C.
Results(c) ==
    [kind : {"ok"}, report : [1 .. Arity[c] -> Verdict]]
      \cup [kind : {"err", "interrupt"}, report : {<<>>}]

Init ==
    /\ selected \in SUBSET Items
    /\ cached = [c \in Collectors |-> NotRun]
    /\ outcome = [item \in Items |-> "pending"]
    /\ session = "running"
    /\ executed = [c \in Collectors |-> <<>>]

-----------------------------------------------------------------------------
\* Plausible bug: an exception is not remembered, and the next item runs the probe
\* again.
MemoOfReports(result) == IF result.kind = "ok" THEN result ELSE NotRun

Memo(result) == result

\* Plausible bug: an assertion that could not be judged does not fail its item.
PassedUnlessFailed(verdict) == verdict # "Fail"

PassedItem(verdict) == verdict = "Pass"

\* What runtest makes of run_probe's result; a KeyboardInterrupt is no outcome of the
\* item, it ends the session.
Judge(item, result) ==
    /\ outcome' =
         [outcome EXCEPT ![item] =
            CASE result.kind = "ok" -> IF PassedItem(result.report[item[2]]) THEN "passed" ELSE "failed"
              [] result.kind = "err" -> "failed"
              [] result.kind = "interrupt" -> @]
    /\ session' = IF result.kind = "interrupt" THEN "interrupted" ELSE session

Turn(item) == session = "running" /\ item \in selected /\ outcome[item] = "pending"

\* runtest of the first item of a collector: p.run(), whatever it raises.
RunFirst(item) ==
    LET c == item[1] IN
    /\ Turn(item)
    /\ cached[c] = NotRun
    /\ \E result \in Results(c) :
         /\ cached' = [cached EXCEPT ![c] = Memo(result)]
         /\ executed' = [executed EXCEPT ![c] = Append(@, result)]
         /\ Judge(item, result)
    /\ UNCHANGED selected

\* runtest of the others.
RunCached(item) ==
    /\ Turn(item)
    /\ cached[item[1]] # NotRun
    /\ Judge(item, cached[item[1]])
    /\ UNCHANGED <<selected, cached, executed>>

\* Every item has run, or pytest stops at a failure.
EndSession ==
    /\ session = "running"
    /\ \/ \A item \in selected : outcome[item] # "pending"
       \/ \E item \in selected : outcome[item] = "failed"
    /\ session' = "over"
    /\ UNCHANGED <<selected, cached, outcome, executed>>

Terminated == session # "running" /\ UNCHANGED vars

Next ==
    \/ \E item \in Items : RunFirst(item) \/ RunCached(item)
    \/ EndSession
    \/ Terminated

Spec == Init /\ [][Next]_vars

-----------------------------------------------------------------------------
(* Correctness.                                                            *)

Ran(c) == {i \in 1 .. Arity[c] : outcome[<<c, i>>] # "pending"}

\* "Invoked exactly once even when a probe has N assertions": however the items are
\* ordered, deselected or stopped, a probe is executed once, for the first of its
\* items, and all that the session says of it is what that one execution found; it is
\* not executed for none.
OneExecution ==
    \A c \in Collectors :
        /\ Len(executed[c]) <= 1
        /\ executed[c] = <<>> => Ran(c) = {}
        /\ \A i \in Ran(c) :
             outcome[<<c, i>>] = "passed" <=>
                executed[c][1].kind = "ok" /\ executed[c][1].report[i] = "Pass"

\* "Same probe code, same verdicts": for a probe with assertions whose items all ran,
\* they are green together exactly when the CLI, for that execution, would count a
\* pass; with some deselected, a pass still leaves no item red.
GreenMeansPass ==
    \A c \in Collectors :
        LET green == \A i \in Ran(c) : outcome[<<c, i>>] = "passed"
            passes == executed[c][1].kind = "ok" /\ Reduce(executed[c][1].report) = "Pass"
        IN  Ran(c) # {} =>
              /\ passes => green
              /\ Ran(c) = 1 .. Arity[c] => (green => passes)
=============================================================================
