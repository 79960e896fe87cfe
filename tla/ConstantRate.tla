---------------------------- MODULE ConstantRate ----------------------------
(***************************************************************************)
(* The open-model load collector: ConstantRateScheduler::next_tick and     *)
(* collect_constant_rate of the HTTP and of the Postgres load adapter      *)
(* (the two are the same loop around a different call).                    *)
(*                                                                         *)
(* The scheduler hands out tick i at start + i * period, or later on a     *)
(* busy runner; each tick spawns a task that makes one call; when the      *)
(* scheduler has ended, the tasks are awaited in tick order.  A call       *)
(* answered late, or a scheduler that fell behind, holds up nothing: ticks *)
(* that are due are handed out back to back.                               *)
(*                                                                         *)
(* The clock is discrete, Res units to the second.  It stands for the      *)
(* nanoseconds of std::time::Duration, so that a period is rounded to      *)
(* whole units as from_secs_f64 rounds it to whole nanoseconds.            *)
(***************************************************************************)
EXTENDS Integers, Sequences, TickLists

CONSTANTS
    Res,       \* clock units per second
    Rps,       \* target ticks per second
    Duration,  \* plan duration, in clock units
    StartBy,   \* bound: the first call of next_tick happens by then
    MaxTime,   \* bound on the clock
    MayPanic   \* whether a call may panic inside its task

\* Duration::from_secs_f64(1.0 / rps), to the nearest unit.
TickPeriod == (2 * Res + Rps) \div (2 * Rps)

ASSUME RateAssumption == Res \in Nat \ {0} /\ Rps \in Nat \ {0}
\* A rate beyond two ticks per unit rounds the period to zero: next_tick would
\* then never end.  It is two billion ticks per second in the code.
ASSUME PeriodAssumption == TickPeriod \in Nat \ {0}
ASSUME TimeAssumption ==
    /\ Duration \in Nat /\ StartBy \in Nat /\ MaxTime \in Nat
    /\ StartBy + Duration <= MaxTime
ASSUME MayPanicAssumption == MayPanic \in BOOLEAN

NotStarted == -1

VARIABLES
    now,         \* Instant::now()
    start,       \* self.start: NotStarted, or the time of the first next_tick
    sched,       \* where next_tick is: "ready", "sleeping", "firing", "ended"
    next_index,  \* self.next_index
    fired,       \* fired_at of the ticks handed out
    tasks,       \* the spawned tasks, by handle: "running", "done", "panicked"
    samples,     \* the Vec<Sample> being collected, as tick indices
    outcome      \* of collect_constant_rate: "running", "ok" or "err"

scheduler == <<start, sched, next_index, fired>>
vars == <<now, scheduler, tasks, samples, outcome>>

Init ==
    /\ now = 0
    /\ start = NotStarted
    /\ sched = "ready"
    /\ next_index = 0
    /\ fired = <<>>
    /\ tasks = <<>>
    /\ samples = <<>>
    /\ outcome = "running"

-----------------------------------------------------------------------------
(* The scheduler.                                                          *)

\* Plausible bug: each tick is scheduled one period after the last one fired.
ScheduledAfterLast(from, i) ==
    IF i = 0 THEN from ELSE fired[i] + TickPeriod

ScheduledAt(from, i) == from + i * TickPeriod

\* Plausible bug: the first period begins at the first call, and the first tick ends it.
BaselineDeferred == IF start = NotStarted THEN now + TickPeriod ELSE start

Baseline == IF start = NotStarted THEN now ELSE start

BeginTick ==
    /\ sched = "ready"
    /\ start' = Baseline
    /\ sched' =
         LET at == ScheduledAt(Baseline, next_index) IN
         IF at >= Baseline + Duration THEN "ended"
         ELSE IF at > now THEN "sleeping" ELSE "firing"
    /\ UNCHANGED <<now, next_index, fired, tasks, samples, outcome>>

\* Plausible bug: the timer may round the remaining sleep down.
SleptEnoughRounded == now + 1 >= ScheduledAt(start, next_index)

SleptEnough == now >= ScheduledAt(start, next_index)

Wake ==
    /\ sched = "sleeping"
    /\ SleptEnough
    /\ sched' = "firing"
    /\ UNCHANGED <<now, start, next_index, fired, tasks, samples, outcome>>

\* next_tick returns the tick; the collector spawns its task and comes back.
Fire ==
    /\ sched = "firing"
    /\ fired' = Append(fired, now)
    /\ next_index' = next_index + 1
    /\ tasks' = Append(tasks, "running")
    /\ sched' = "ready"
    /\ UNCHANGED <<now, start, samples, outcome>>

-----------------------------------------------------------------------------
(* The tasks.  A task outlives the collector when that one gave up.        *)

Settle(h) ==
    /\ tasks[h] = "running"
    /\ tasks' = [tasks EXCEPT ![h] = "done"]
    /\ UNCHANGED <<now, scheduler, samples, outcome>>

Panic(h) ==
    /\ MayPanic
    /\ tasks[h] = "running"
    /\ tasks' = [tasks EXCEPT ![h] = "panicked"]
    /\ UNCHANGED <<now, scheduler, samples, outcome>>

-----------------------------------------------------------------------------
(* The collector, once the scheduler has ended.                            *)

NextHandle == Len(samples) + 1

Joining ==
    /\ sched = "ended"
    /\ outcome = "running"
    /\ NextHandle <= Len(tasks)

\* Plausible bug: the answer is not waited for.
AnsweredOrNot(h) == tasks[h] # "panicked"

Answered(h) == tasks[h] = "done"

JoinOk ==
    /\ Joining
    /\ Answered(NextHandle)
    /\ samples' = Append(samples, NextHandle - 1)
    /\ UNCHANGED <<now, scheduler, tasks, outcome>>

\* Plausible bug: a panicked task is waited for forever.
NeverJoined(h) == FALSE

Broken(h) == tasks[h] = "panicked"

\* `h.await.map_err(..)?`: the first handle that fails to join ends the run;
\* the samples collected so far are dropped and later calls stay in flight.
JoinErr ==
    /\ Joining
    /\ Broken(NextHandle)
    /\ outcome' = "err"
    /\ samples' = <<>>
    /\ UNCHANGED <<now, scheduler, tasks>>

Return ==
    /\ sched = "ended"
    /\ outcome = "running"
    /\ Len(samples) = Len(tasks)
    /\ samples' = Sorted(samples)
    /\ outcome' = "ok"
    /\ UNCHANGED <<now, scheduler, tasks>>

-----------------------------------------------------------------------------
\* Before the first tick the clock is bounded by StartBy: the start is the only
\* moment the schedule depends on.
Advance ==
    /\ now < (IF start = NotStarted THEN StartBy ELSE MaxTime)
    /\ now' = now + 1
    /\ UNCHANGED <<scheduler, tasks, samples, outcome>>

Terminated ==
    /\ outcome # "running"
    /\ UNCHANGED vars

Next ==
    \/ BeginTick
    \/ Wake
    \/ Fire
    \/ \E h \in DOMAIN tasks : Settle(h)
    \/ \E h \in DOMAIN tasks : Panic(h)
    \/ JoinOk
    \/ JoinErr
    \/ Return
    \/ Advance
    \/ Terminated

Spec == Init /\ [][Next]_vars

(***************************************************************************)
(* The runtime polls the collector when it can make a step, and time       *)
(* passes.  Nothing is assumed of the calls (see VuPool).                  *)
(***************************************************************************)
RuntimeFairness ==
    /\ WF_vars(BeginTick)
    /\ WF_vars(Wake)
    /\ WF_vars(Fire)
    /\ WF_vars(JoinOk)
    /\ WF_vars(JoinErr)
    /\ WF_vars(Return)
    /\ WF_vars(Advance)

FairSpec == Spec /\ RuntimeFairness

-----------------------------------------------------------------------------
(* Correctness.                                                            *)

\* Types of the scheduler's and of the collector's state; one handle and one
\* firing time per tick handed out, and no more joined than spawned.
TypeOK ==
    /\ now \in 0 .. MaxTime
    /\ start \in {NotStarted} \cup (0 .. StartBy)
    /\ sched \in {"ready", "sleeping", "firing", "ended"}
    /\ next_index \in Nat
    /\ fired \in Seq(0 .. MaxTime) /\ Len(fired) = next_index
    /\ tasks \in Seq({"running", "done", "panicked"}) /\ Len(tasks) = next_index
    /\ samples \in Seq(Nat) /\ Len(samples) <= next_index
    /\ outcome \in {"running", "ok", "err"}

\* "The scheduler may run late but never early": tick i does not fire before
\* start + i * period however the sleeps and the catch-up bursts interleave with
\* the clock, and the ticks fire in order.
NeverEarly ==
    /\ \A i \in DOMAIN fired : fired[i] >= ScheduledAt(start, i - 1)
    /\ \A i, j \in DOMAIN fired : i < j => fired[i] <= fired[j]

TicksInPlan == {i \in 0 .. Duration : i * TickPeriod < Duration}

\* A run that ends in Ok has exactly one sample for every tick scheduled before
\* the end of the plan, in tick order, however far the scheduler fell behind:
\* drift delays ticks, it never drops one.
EveryTickOnce ==
    outcome = "ok" =>
        /\ StrictlyIncreasing(samples)
        /\ Elements(samples) = TicksInPlan

\* The collector answers Ok only when no call is in flight and none panicked, and
\* Err only when one panicked; after an Err no sample is visible.
OutcomeIsHonest ==
    /\ outcome = "ok" => \A h \in DOMAIN tasks : tasks[h] = "done"
    /\ outcome = "err" => (\E h \in DOMAIN tasks : tasks[h] = "panicked") /\ samples = <<>>

\* The collector ends unless some call is never answered: catching up, sleeping and
\* joining in tick order cannot hang it, and a panic does not either.
HangsOnlyOnACall ==
    \/ <>(outcome # "running")
    \/ \E h \in 1 .. Duration : <>[](h \in DOMAIN tasks /\ tasks[h] = "running")

\* collect_constant_rate implements what a load adapter promises of its samples,
\* without tolerating a loss: the list is complete or there is none.
Collection == INSTANCE SampleCollection WITH
    TolerateLoss <- FALSE,
    issued <- next_index,
    open   <- {h - 1 : h \in {k \in DOMAIN tasks : tasks[k] = "running"}},
    kept   <- {h - 1 : h \in {k \in DOMAIN tasks : tasks[k] = "done"}},
    result <- IF outcome = "ok" THEN samples ELSE <<>>

ImplementsCollection == Collection!Spec
=============================================================================
