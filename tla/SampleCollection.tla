-------------------------- MODULE SampleCollection --------------------------
(***************************************************************************)
(* What a load adapter's collect_samples promises its caller, whatever the *)
(* scheduling discipline behind it: ticks are numbered 0, 1, 2, ... in the *)
(* order they are handed out, every tick is one call on the target, every  *)
(* answered call is one sample, and the caller gets the samples in tick    *)
(* order once nothing is in flight.                                        *)
(*                                                                         *)
(* The two disciplines treat a call whose task panics differently.  The    *)
(* closed model (VuPool::run) has no error channel: it drops samples and   *)
(* still returns (TolerateLoss = TRUE).  The open model                    *)
(* (collect_constant_rate) refuses to return a partial list: it reports    *)
(* AdapterError::Connection, possibly with calls still in flight           *)
(* (TolerateLoss = FALSE).                                                 *)
(***************************************************************************)
EXTENDS Integers, TickLists

CONSTANT TolerateLoss

VARIABLES
    issued,     \* how many ticks have been handed out
    open,       \* ticks whose call has not been answered
    kept,       \* ticks whose sample has been recorded
    outcome,    \* "running", "ok" or "err"
    result      \* tick indices of the returned samples, in order

vars == <<issued, open, kept, outcome, result>>

Init ==
    /\ issued = 0
    /\ open = {}
    /\ kept = {}
    /\ outcome = "running"
    /\ result = <<>>

Lost == (0 .. issued - 1) \ (open \cup kept)

Issue ==
    /\ outcome = "running"
    /\ issued' = issued + 1
    /\ open' = open \cup {issued}
    /\ UNCHANGED <<kept, outcome, result>>

Settle(t) ==
    /\ t \in open
    /\ open' = open \ {t}
    /\ kept' = kept \cup {t}
    /\ UNCHANGED <<issued, outcome, result>>

\* A panic takes the call it happened in and may take, with it, samples that
\* were already recorded but not yet returned.
Lose(S) ==
    /\ S # {}
    /\ S \cap open # {}
    /\ TolerateLoss \/ S \subseteq open
    /\ open' = open \ S
    /\ kept' = kept \ S
    /\ UNCHANGED <<issued, outcome, result>>

ReturnOk ==
    /\ outcome = "running"
    /\ open = {}
    /\ TolerateLoss \/ Lost = {}
    /\ outcome' = "ok"
    /\ StrictlyIncreasing(result') /\ Elements(result') = kept
    /\ UNCHANGED <<issued, open, kept>>

ReturnErr ==
    /\ outcome = "running"
    /\ ~TolerateLoss
    /\ Lost # {}
    /\ outcome' = "err"
    /\ UNCHANGED <<issued, open, kept, result>>

Next ==
    \/ Issue
    \/ \E t \in open : Settle(t)
    \/ \E S \in SUBSET (open \cup kept) : Lose(S)
    \/ ReturnOk
    \/ ReturnErr

Spec == Init /\ [][Next]_vars
=============================================================================
