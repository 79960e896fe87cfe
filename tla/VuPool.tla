------------------------------- MODULE VuPool -------------------------------
(***************************************************************************)
(* The closed-model load pool, VuPool::run: `Count` workers on a           *)
(* multi-threaded runtime, each looping "check the deadline, claim the     *)
(* next tick index from a shared atomic counter, call the target, record   *)
(* the sample", while the caller spawns them, joins them in spawn order    *)
(* and sorts what they return.  A sample is its tick index.                *)
(*                                                                         *)
(* The clock is discrete and counts from the moment run() fixes its        *)
(* deadline.  One unit is at most the duration of the shortest call, so a  *)
(* call that starts at time t is answered at t + 1 or later.               *)
(***************************************************************************)
EXTENDS Integers, Sequences, TickLists

CONSTANTS
    Count,      \* number of virtual users
    Durations,  \* the plan durations explored, in clock units
    MaxTime,    \* bound on the clock, not before any deadline
    MayPanic    \* whether a call may panic inside its task

ASSUME CountAssumption == Count \in Nat
ASSUME TimeAssumption == MaxTime \in Nat /\ Durations \subseteq 0 .. MaxTime
ASSUME MayPanicAssumption == MayPanic \in BOOLEAN

Workers == 1 .. Count

VARIABLES
    now,         \* Instant::now(), relative to the start of run()
    duration,    \* self.duration; also the deadline, since run() starts at 0
    spawned,     \* how many workers the spawn loop has started
    next_index,  \* the shared AtomicU64
    pc,          \* where each worker is in its loop
    idx,         \* the tick index of the worker's current call
    started,     \* when that call began
    samples,     \* each worker's local Vec<Sample>
    joined,      \* how many handles have been awaited
    all,         \* the Vec<Sample> that run() returns
    returned,    \* run() has returned
    late         \* history: calls each worker began at or after the deadline

timing == <<now, duration>>
caller == <<spawned, joined, all, returned>>
loop   == <<next_index, pc, idx, started, samples, late>>
vars   == <<timing, caller, loop>>

Init ==
    /\ now = 0
    /\ duration \in Durations
    /\ spawned = 0
    /\ next_index = 0
    /\ pc = [w \in Workers |-> "unspawned"]
    /\ idx = [w \in Workers |-> 0]
    /\ started = [w \in Workers |-> 0]
    /\ samples = [w \in Workers |-> <<>>]
    /\ joined = 0
    /\ all = <<>>
    /\ returned = FALSE
    /\ late = [w \in Workers |-> 0]

-----------------------------------------------------------------------------
(* The caller: spawn loop, join loop, sort.                                *)

\* A zero duration returns an empty list before anything is spawned.
ReturnEmpty ==
    /\ duration = 0
    /\ ~returned
    /\ returned' = TRUE
    /\ UNCHANGED <<timing, loop, spawned, joined, all>>

SpawnNext ==
    /\ duration > 0
    /\ spawned < Count
    /\ spawned' = spawned + 1
    /\ pc' = [pc EXCEPT ![spawned + 1] = "check"]
    /\ UNCHANGED <<timing, next_index, idx, started, samples, late, joined, all, returned>>

\* Plausible bug: the caller waits for a list that a panicked worker never sends.
JoinableIfFinished(w) == pc[w] = "finished"

Joinable(w) == pc[w] \in {"finished", "panicked"}

\* Plausible bug: the chunk replaces what was collected instead of extending it.
CollectReplaces(w) == samples[w]

\* `if let Ok(mut chunk)`: the chunk of a panicked worker is dropped whole.
Collect(w) == IF pc[w] = "panicked" THEN all ELSE all \o samples[w]

JoinNext ==
    /\ spawned = Count
    /\ joined < Count
    /\ Joinable(joined + 1)
    /\ all' = Collect(joined + 1)
    /\ joined' = joined + 1
    /\ UNCHANGED <<timing, loop, spawned, returned>>

ReturnSorted ==
    /\ duration > 0
    /\ joined = Count
    /\ ~returned
    /\ all' = Sorted(all)
    /\ returned' = TRUE
    /\ UNCHANGED <<timing, loop, spawned, joined>>

-----------------------------------------------------------------------------
(* A worker.                                                               *)

PastDeadline == now >= duration

\* Plausible bug: the deadline is looked at before the first call only.
StopsBeforeFirstCall(w) == PastDeadline /\ samples[w] = <<>>

Stops(w) == PastDeadline

CheckDeadline(w) ==
    /\ pc[w] = "check"
    /\ pc' = [pc EXCEPT ![w] = IF Stops(w) THEN "finished" ELSE "claim"]
    /\ UNCHANGED <<timing, caller, next_index, idx, started, samples, late>>

\* Plausible bug: each worker counts its own calls instead of sharing a counter.
FetchAddLocal(w) == Len(samples[w])

\* Plausible bug: the counter is taken to be one ahead of the index.
FetchAddOneAhead(w) == next_index - 1

FetchAdd(w) == next_index

\* fetch_add, then the call; the clock may have moved since the check.
ClaimTick(w) ==
    /\ pc[w] = "claim"
    /\ idx' = [idx EXCEPT ![w] = FetchAdd(w)]
    /\ next_index' = next_index + 1
    /\ started' = [started EXCEPT ![w] = now]
    /\ late' = [late EXCEPT ![w] = IF PastDeadline THEN @ + 1 ELSE @]
    /\ pc' = [pc EXCEPT ![w] = "work"]
    /\ UNCHANGED <<timing, caller, samples>>

\* A call takes at least one unit, except at the bound of the clock.
CallCanEnd(w) == pc[w] = "work" /\ (now > started[w] \/ now = MaxTime)

FinishWork(w) ==
    /\ CallCanEnd(w)
    /\ samples' = [samples EXCEPT ![w] = Append(@, idx[w])]
    /\ pc' = [pc EXCEPT ![w] = "check"]
    /\ UNCHANGED <<timing, caller, next_index, idx, started, late>>

PanicInWork(w) ==
    /\ MayPanic
    /\ CallCanEnd(w)
    /\ pc' = [pc EXCEPT ![w] = "panicked"]
    /\ UNCHANGED <<timing, caller, next_index, idx, started, samples, late>>

-----------------------------------------------------------------------------
Advance ==
    /\ now < MaxTime
    /\ now' = now + 1
    /\ UNCHANGED <<duration, caller, loop>>

Terminated == returned /\ UNCHANGED vars

WorkerStep(w) ==
    \/ CheckDeadline(w)
    \/ ClaimTick(w)
    \/ FinishWork(w)
    \/ PanicInWork(w)

Next ==
    \/ ReturnEmpty
    \/ SpawnNext
    \/ JoinNext
    \/ ReturnSorted
    \/ \E w \in Workers : WorkerStep(w)
    \/ Advance
    \/ Terminated

Spec == Init /\ [][Next]_vars

(***************************************************************************)
(* The runtime runs every task that can make a step, and time passes.      *)
(* Nothing is assumed of the calls: only the HTTP adapter gives them a     *)
(* timeout, the Postgres adapter does not.                                 *)
(***************************************************************************)
RuntimeFairness ==
    /\ WF_vars(ReturnEmpty)
    /\ WF_vars(SpawnNext)
    /\ WF_vars(JoinNext)
    /\ WF_vars(ReturnSorted)
    /\ WF_vars(Advance)
    /\ \A w \in Workers : WF_vars(CheckDeadline(w)) /\ WF_vars(ClaimTick(w))

FairSpec == Spec /\ RuntimeFairness

-----------------------------------------------------------------------------
(* Correctness.                                                            *)

\* Every variable of run() and of its workers has its type; in particular a
\* claimed tick index is a natural number and a chunk holds only such indices.
TypeOK ==
    /\ now \in 0 .. MaxTime
    /\ duration \in Durations
    /\ spawned \in 0 .. Count
    /\ next_index \in Nat
    /\ pc \in [Workers -> {"unspawned", "check", "claim", "work", "finished", "panicked"}]
    /\ idx \in [Workers -> Nat]
    /\ started \in [Workers -> 0 .. MaxTime]
    /\ samples \in [Workers -> Seq(Nat)]
    /\ joined \in 0 .. Count
    /\ all \in Seq(Nat)
    /\ returned \in BOOLEAN
    /\ late \in [Workers -> Nat]

\* The ticks a worker has claimed: recorded, in flight, or lost in a panic.
Held(w) ==
    Elements(samples[w]) \cup (IF pc[w] \in {"work", "panicked"} THEN {idx[w]} ELSE {})

\* "Per-tick tick_index is assigned by an atomic counter so workers never
\* collide": the indices handed out so far are exactly 0 .. next_index - 1, no
\* two workers hold the same one, and no worker holds one twice.
EachTickClaimedOnce ==
    /\ UNION {Held(w) : w \in Workers} = 0 .. next_index - 1
    /\ \A v, w \in Workers : v # w => Held(v) \cap Held(w) = {}
    /\ \A w \in Workers :
         /\ StrictlyIncreasing(samples[w])
         /\ pc[w] \in {"work", "panicked"} => \A i \in DOMAIN samples[w] : samples[w][i] < idx[w]

Survivors == {w \in Workers : pc[w] # "panicked"}

\* What run() returns is sorted by tick_index without duplicates, no call is in
\* flight, and it has every sample of every worker that did not panic: nothing
\* is lost between a worker's local list, the join loop and the sort.
ReturnsEverySurvivingSample ==
    returned =>
        /\ StrictlyIncreasing(all)
        /\ Elements(all) = UNION {Elements(samples[w]) : w \in Survivors}
        /\ duration > 0 => \A w \in Workers : pc[w] \in {"finished", "panicked"}
        /\ Survivors = Workers => Elements(all) = 0 .. next_index - 1

\* "Stops accepting new work once now >= start + duration": the deadline is read
\* before the tick is claimed, so a worker may still begin a call after it, but
\* never more than one.
AtMostOneLateCall == \A w \in Workers : late[w] <= 1

\* run() returns, unless some call is never answered: a panicked worker, an
\* unlucky schedule or the order of the joins cannot hang it.
HangsOnlyOnACall ==
    <>returned \/ \E w \in Workers : <>[](pc[w] = "work")

\* run() implements what a load adapter promises of its samples: one sample per
\* answered call, each tick handed out once, the returned list sorted and
\* complete, losses only through a panic.
Collection == INSTANCE SampleCollection WITH
    TolerateLoss <- TRUE,
    issued  <- next_index,
    open    <- {idx[w] : w \in {v \in Workers : pc[v] = "work"}},
    kept    <- UNION {Elements(samples[w]) : w \in Survivors},
    outcome <- IF returned THEN "ok" ELSE "running",
    result  <- IF returned THEN all ELSE <<>>

ImplementsCollection == Collection!Spec
=============================================================================
