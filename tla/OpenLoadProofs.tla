-------------------------- MODULE OpenLoadProofs ----------------------------
(***************************************************************************)
(* Theorems about the open-model collector, for every rate whose period is *)
(* not rounded to zero, every duration and every bound of the clock, with  *)
(* and without panicking calls; about the verdict of a run (OpenLoadRun);  *)
(* and about the load evaluator (LoadEvalRun), for every plan, every       *)
(* percentile and every list of samples.                                   *)
(***************************************************************************)
EXTENDS OpenLoadRun, LoadEvalRun, TickListsProofs

-----------------------------------------------------------------------------
(* Multiples of the period.                                                *)

LEMMA Multiples ==
    ASSUME NEW i \in Nat, NEW n \in Nat, NEW p \in Nat \ {0}
    PROVE  /\ i * p \in Nat
           /\ i >= n => i * p >= n * p
           /\ i <= i * p
<1>1. ASSUME NEW a \in Nat, NEW b \in Nat PROVE a * b \in Nat
  OBVIOUS
<1>2. ASSUME i >= n PROVE i * p >= n * p
  <2>1. i - n \in Nat /\ i = n + (i - n)
    BY <1>2
  <2>2. (i - n) * p \in Nat
    BY <1>1, <2>1
  <2>3. i * p = n * p + (i - n) * p
    OBVIOUS
  <2> QED BY <1>1, <2>2, <2>3
<1>3. i <= i * p
  <2>1. p - 1 \in Nat
    OBVIOUS
  <2>2. i * (p - 1) \in Nat
    BY <1>1, <2>1
  <2>3. i * p = i + i * (p - 1)
    OBVIOUS
  <2> QED BY <2>2, <2>3, <1>1
<1> QED BY <1>1, <1>2, <1>3

\* Once the next tick is due at or after the end and every earlier one was due
\* before it, the earlier ones are the ticks of the plan.
LEMMA PlanIsAnInterval ==
    ASSUME NEW n \in Nat, n * TickPeriod >= Duration,
           \A i \in 0 .. n - 1 : i * TickPeriod < Duration
    PROVE  TicksInPlan = 0 .. n - 1
<1> DEFINE P == TickPeriod
<1>0. P \in Nat \ {0} /\ Duration \in Nat
  BY PeriodAssumption, TimeAssumption
<1>1. n * P >= Duration /\ \A i \in 0 .. n - 1 : i * P < Duration
  OBVIOUS
<1>2. TicksInPlan = {i \in 0 .. Duration : i * P < Duration}
  BY DEF TicksInPlan
<1> HIDE DEF P
<1>3. ASSUME NEW i \in Nat, i * P < Duration PROVE i \in 0 .. n - 1
  <2>1. ~(i >= n)
    <3>1. i * P \in Nat /\ n * P \in Nat /\ (i >= n => i * P >= n * P)
      BY <1>0, Multiples
    <3> QED BY <1>0, <1>1, <1>3, <3>1
  <2> QED BY <2>1
<1>4. ASSUME NEW i \in 0 .. n - 1 PROVE i \in 0 .. Duration /\ i * P < Duration
  <2>1. i * P < Duration /\ i <= i * P /\ i * P \in Nat
    BY <1>0, <1>1, <1>4, Multiples
  <2> QED BY <1>0, <2>1
<1> QED BY <1>0, <1>2, <1>3, <1>4

-----------------------------------------------------------------------------
(* Types.                                                                  *)

\* The clock does not pass StartBy before the scheduler has a baseline.
StartsInTime == start = NotStarted => now <= StartBy

LEMMA TypeInvariant == Spec => [](TypeOK /\ StartsInTime)
<1> USE TimeAssumption DEF scheduler
<1>1. Init => TypeOK /\ StartsInTime
  BY DEF Init, TypeOK, StartsInTime
<1>2. TypeOK /\ StartsInTime /\ [Next]_vars => (TypeOK /\ StartsInTime)'
  <2> SUFFICES ASSUME TypeOK, StartsInTime, [Next]_vars PROVE (TypeOK /\ StartsInTime)'
    OBVIOUS
  <2>1. CASE BeginTick
    <3>1. Baseline \in 0 .. StartBy
      BY DEF TypeOK, StartsInTime, Baseline, NotStarted
    <3>2. sched' \in {"ready", "sleeping", "firing", "ended"}
      BY <2>1 DEF BeginTick
    <3>3. start' = Baseline /\ start' # NotStarted
          /\ UNCHANGED <<now, next_index, fired, tasks, samples, outcome>>
      BY <2>1, <3>1 DEF BeginTick, NotStarted
    <3> QED BY <3>1, <3>2, <3>3 DEF TypeOK, StartsInTime
  <2>2. CASE Wake
    BY <2>2 DEF TypeOK, StartsInTime, Wake
  <2>3. CASE Fire
    <3>1. fired' \in Seq(0 .. MaxTime) /\ Len(fired') = next_index + 1
      BY <2>3 DEF TypeOK, Fire
    <3>2. tasks' \in Seq({"running", "done", "panicked"}) /\ Len(tasks') = next_index + 1
      BY <2>3 DEF TypeOK, Fire
    <3>3. next_index' = next_index + 1 /\ sched' = "ready"
          /\ UNCHANGED <<now, start, samples, outcome>>
      BY <2>3 DEF Fire
    <3>4. Len(samples) <= next_index + 1
      BY DEF TypeOK
    <3> QED BY <3>1, <3>2, <3>3, <3>4 DEF TypeOK, StartsInTime
  <2>4. ASSUME NEW h \in DOMAIN tasks, Settle(h) \/ Panic(h) PROVE (TypeOK /\ StartsInTime)'
    <3>1. \/ tasks' = [tasks EXCEPT ![h] = "done"]
          \/ tasks' = [tasks EXCEPT ![h] = "panicked"]
      BY <2>4 DEF Settle, Panic
    <3>2. tasks' \in Seq({"running", "done", "panicked"}) /\ Len(tasks') = Len(tasks)
      <4>1. tasks \in Seq({"running", "done", "panicked"}) /\ h \in 1 .. Len(tasks)
        BY <2>4 DEF TypeOK
      <4>2. CASE tasks' = [tasks EXCEPT ![h] = "done"]
        <5>1. "done" \in {"running", "done", "panicked"}
          OBVIOUS
        <5> QED BY <4>1, <4>2, <5>1, ExceptSeq
      <4>3. CASE tasks' = [tasks EXCEPT ![h] = "panicked"]
        <5>1. "panicked" \in {"running", "done", "panicked"}
          OBVIOUS
        <5> QED BY <4>1, <4>3, <5>1, ExceptSeq
      <4> QED BY <3>1, <4>2, <4>3
    <3> QED BY <2>4, <3>2 DEF TypeOK, StartsInTime, Settle, Panic
  <2>5. CASE JoinOk
    <3>1. /\ Len(samples) \in Nat /\ Len(samples) + 1 <= Len(tasks)
          /\ samples' = Append(samples, Len(samples))
          /\ UNCHANGED <<now, scheduler, tasks, outcome>>
      BY <2>5 DEF TypeOK, JoinOk, Joining, NextHandle
    <3>2. samples' \in Seq(Nat) /\ Len(samples') = Len(samples) + 1
      BY <3>1 DEF TypeOK
    <3> QED BY <3>1, <3>2 DEF TypeOK, StartsInTime
  <2>6. CASE JoinErr
    BY <2>6 DEF TypeOK, StartsInTime, JoinErr
  <2>7. CASE Return
    <3>1. Sorted(samples) \in Seq(Nat)
      BY SortTicks DEF TypeOK
    <3>2. Len(Sorted(samples)) = Len(samples)
      BY SortTicks DEF TypeOK
    <3> QED BY <2>7, <3>1, <3>2 DEF TypeOK, StartsInTime, Return
  <2>8. CASE Advance
    BY <2>8 DEF TypeOK, StartsInTime, Advance
  <2>9. CASE UNCHANGED vars
    BY <2>9 DEF TypeOK, StartsInTime, vars
  <2> QED BY <2>1, <2>2, <2>3, <2>4, <2>5, <2>6, <2>7, <2>8, <2>9 DEF Next, Terminated
<1> QED BY <1>1, <1>2, PTL DEF Spec

\* Types of the scheduler's and the collector's state; the lists that describe the
\* ticks handed out have one entry each per tick.
THEOREM TypeCorrect == Spec => []TypeOK
BY TypeInvariant, PTL

-----------------------------------------------------------------------------
(* The schedule.                                                           *)

ScheduleInv ==
    /\ start = NotStarted => next_index = 0 /\ sched = "ready"
    /\ start # NotStarted => start <= now
    /\ sched \in {"sleeping", "firing"} => next_index * TickPeriod < Duration
    /\ sched = "firing" => now >= ScheduledAt(start, next_index)
    /\ sched = "ended" => next_index * TickPeriod >= Duration
    /\ \A i \in 0 .. next_index - 1 : i * TickPeriod < Duration
    /\ \A i \in DOMAIN fired : fired[i] <= now

LEMMA ScheduleStep ==
    ASSUME TypeOK, StartsInTime, ScheduleInv, NeverEarly, [Next]_vars
    PROVE  ScheduleInv' /\ NeverEarly'
<1> USE TimeAssumption DEF scheduler
<1>0. /\ TickPeriod \in Nat \ {0} /\ now \in Nat
      /\ start \in {NotStarted} \cup Nat /\ next_index \in Nat
      /\ fired \in Seq(0 .. MaxTime) /\ DOMAIN fired = 1 .. next_index
      /\ next_index * TickPeriod \in Nat
  <2>1. /\ TickPeriod \in Nat \ {0} /\ now \in Nat
        /\ start \in {NotStarted} \cup Nat /\ next_index \in Nat
        /\ fired \in Seq(0 .. MaxTime) /\ DOMAIN fired = 1 .. next_index
    BY PeriodAssumption DEF TypeOK
  <2> QED BY <2>1, Multiples
<1>1. CASE BeginTick
  <2>1. /\ start' = Baseline /\ Baseline \in Nat /\ Baseline <= now
        /\ Baseline # NotStarted
        /\ start # NotStarted => Baseline = start
        /\ start = NotStarted => DOMAIN fired = {}
        /\ UNCHANGED <<now, next_index, fired>>
    BY <1>0, <1>1 DEF BeginTick, Baseline, NotStarted, ScheduleInv
  <2>2. /\ sched' \in {"sleeping", "firing"} => next_index * TickPeriod < Duration
        /\ sched' = "firing" => now >= ScheduledAt(Baseline, next_index)
        /\ sched' = "ended" => next_index * TickPeriod >= Duration
    <3>1. ScheduledAt(Baseline, next_index) = Baseline + next_index * TickPeriod
      BY DEF ScheduledAt
    <3> DEFINE at == ScheduledAt(Baseline, next_index)
    <3>2. at \in Nat
      BY <1>0, <2>1, <3>1
    <3>3. sched' = IF at >= Baseline + Duration THEN "ended"
                   ELSE IF at > now THEN "sleeping" ELSE "firing"
      BY <1>1 DEF BeginTick
    <3> HIDE DEF at
    <3>4. at = Baseline + next_index * TickPeriod
      BY <3>1 DEF at
    <3>5. at >= Baseline + Duration <=> next_index * TickPeriod >= Duration
      BY <1>0, <2>1, <3>4
    <3> QED BY <1>0, <3>2, <3>3, <3>5 DEF at
  <2>3. ScheduleInv'
    BY <2>1, <2>2 DEF ScheduleInv, ScheduledAt
  <2>4. NeverEarly'
    BY <2>1 DEF NeverEarly, ScheduledAt
  <2> QED BY <2>3, <2>4
<1>2. CASE Wake
  <2>1. /\ UNCHANGED <<now, start, next_index, fired>>
        /\ sched = "sleeping" /\ sched' = "firing"
        /\ now >= ScheduledAt(start, next_index)
    BY <1>2 DEF Wake, SleptEnough
  <2>2. ScheduleInv'
    BY <2>1 DEF ScheduleInv, ScheduledAt
  <2> QED BY <2>1, <2>2 DEF NeverEarly, ScheduledAt
<1>3. CASE Fire
  <2>1. /\ sched = "firing" /\ sched' = "ready"
        /\ fired' = Append(fired, now) /\ next_index' = next_index + 1
        /\ UNCHANGED <<now, start>>
    BY <1>3 DEF Fire
  <2>2. /\ DOMAIN fired' = 1 .. next_index + 1
        /\ \A i \in 1 .. next_index : fired'[i] = fired[i]
        /\ fired'[next_index + 1] = now
    BY <1>0, <2>1
  <2>3. \A i \in 1 .. next_index + 1 : i \in 1 .. next_index \/ i = next_index + 1
    BY <1>0
  <2>4. \A i \in DOMAIN fired' : fired'[i] <= now
    BY <1>0, <2>2, <2>3 DEF ScheduleInv
  <2>5. \A i \in 0 .. next_index : i * TickPeriod < Duration
    <3>1. \A i \in 0 .. next_index : i \in 0 .. next_index - 1 \/ i = next_index
      BY <1>0
    <3> QED BY <2>1, <3>1 DEF ScheduleInv
  <2>6. ScheduleInv'
    <3>1. 0 .. next_index' - 1 = 0 .. next_index
      BY <1>0, <2>1
    <3>2. start # NotStarted
      BY <2>1 DEF ScheduleInv
    <3> QED BY <2>1, <2>4, <2>5, <3>1, <3>2 DEF ScheduleInv
  <2>7. ASSUME NEW i \in DOMAIN fired' PROVE fired'[i] >= ScheduledAt(start, i - 1)
    <3>1. CASE i \in 1 .. next_index
      BY <1>0, <2>2, <3>1 DEF NeverEarly
    <3>2. CASE i = next_index + 1
      <4>1. i - 1 = next_index
        BY <1>0, <3>2
      <4> QED BY <2>1, <2>2, <3>2, <4>1 DEF ScheduleInv
    <3> QED BY <2>2, <2>3, <2>7, <3>1, <3>2
  <2>8. ASSUME NEW i \in DOMAIN fired', NEW j \in DOMAIN fired', i < j
        PROVE  fired'[i] <= fired'[j]
    <3>1. i \in 1 .. next_index
      BY <1>0, <2>2, <2>8
    <3>2. CASE j \in 1 .. next_index
      BY <1>0, <2>2, <2>8, <3>1, <3>2 DEF NeverEarly
    <3>3. CASE j = next_index + 1
      BY <1>0, <2>2, <3>1, <3>3 DEF ScheduleInv
    <3> QED BY <2>2, <2>3, <2>8, <3>2, <3>3
  <2>9. NeverEarly'
    BY <2>1, <2>7, <2>8 DEF NeverEarly, ScheduledAt
  <2> QED BY <2>6, <2>9
<1>4. CASE Advance
  <2>1. now' = now + 1 /\ UNCHANGED <<start, sched, next_index, fired>>
    BY <1>4 DEF Advance
  <2>2. ScheduledAt(start, next_index) \in Int
    BY <1>0 DEF ScheduledAt, NotStarted
  <2>3. sched = "firing" => now + 1 >= ScheduledAt(start, next_index)
    BY <1>0, <2>2 DEF ScheduleInv
  <2>4. \A i \in DOMAIN fired : fired[i] <= now + 1
    BY <1>0 DEF ScheduleInv
  <2>5. start # NotStarted => start <= now + 1
    BY <1>0 DEF ScheduleInv
  <2> QED BY <2>1, <2>3, <2>4, <2>5 DEF ScheduleInv, NeverEarly, ScheduledAt
<1>5. CASE UNCHANGED <<now, scheduler>>
  BY <1>5 DEF ScheduleInv, NeverEarly, ScheduledAt
<1>6. ASSUME NEW h \in DOMAIN tasks, Settle(h) \/ Panic(h) PROVE UNCHANGED <<now, scheduler>>
  BY <1>6 DEF Settle, Panic
<1>7. CASE JoinOk \/ JoinErr \/ Return \/ UNCHANGED vars
  BY <1>5, <1>7 DEF JoinOk, JoinErr, Return, vars
<1> QED BY <1>1, <1>2, <1>3, <1>4, <1>5, <1>6, <1>7 DEF Next, Terminated

-----------------------------------------------------------------------------
(* The join loop.                                                          *)

JoinInv ==
    /\ sched # "ended" => samples = <<>> /\ outcome = "running"
    /\ outcome = "running" =>
         \A h \in DOMAIN samples : samples[h] = h - 1 /\ tasks[h] = "done"
    /\ outcome = "ok" =>
         /\ StrictlyIncreasing(samples)
         /\ Elements(samples) = 0 .. next_index - 1
    /\ OutcomeIsHonest

LEMMA JoinStep ==
    ASSUME TypeOK, JoinInv, [Next]_vars PROVE JoinInv'
<1> USE DEF scheduler
<1>0. /\ next_index \in Nat /\ samples \in Seq(Nat) /\ Len(samples) \in Nat
      /\ tasks \in Seq({"running", "done", "panicked"})
      /\ DOMAIN tasks = 1 .. next_index /\ Len(tasks) = next_index
      /\ DOMAIN samples = 1 .. Len(samples) /\ Len(samples) <= next_index
  BY DEF TypeOK
<1>1. CASE BeginTick
  <2>1. sched = "ready" /\ UNCHANGED <<next_index, tasks, samples, outcome>>
    BY <1>1 DEF BeginTick
  <2>2. samples = <<>> /\ outcome = "running"
    BY <2>1 DEF JoinInv
  <2> QED BY <2>1, <2>2 DEF JoinInv, OutcomeIsHonest
<1>2. CASE Wake
  BY <1>2 DEF Wake, JoinInv, OutcomeIsHonest
<1>3. CASE Fire
  <2>1. samples = <<>> /\ outcome = "running" /\ UNCHANGED <<samples, outcome>> /\ sched' = "ready"
    BY <1>3 DEF Fire, JoinInv
  <2> QED BY <2>1 DEF JoinInv, OutcomeIsHonest
<1>4. ASSUME NEW h \in DOMAIN tasks, Settle(h) \/ Panic(h) PROVE JoinInv'
  <2>1. /\ tasks[h] = "running" /\ DOMAIN tasks' = DOMAIN tasks
        /\ \A k \in DOMAIN tasks : k # h => tasks'[k] = tasks[k]
        /\ UNCHANGED <<sched, next_index, samples, outcome>>
    BY <1>0, <1>4 DEF Settle, Panic
  <2>2. \A k \in DOMAIN samples : k \in DOMAIN tasks
    BY <1>0
  <2>3. outcome # "ok"
    BY <2>1 DEF JoinInv, OutcomeIsHonest
  <2>4. \A k \in DOMAIN tasks : tasks[k] = "panicked" => tasks'[k] = "panicked"
    BY <2>1
  <2>5. outcome = "running" => \A k \in DOMAIN samples : samples[k] = k - 1 /\ tasks'[k] = "done"
    BY <2>1, <2>2 DEF JoinInv
  <2> QED BY <2>1, <2>3, <2>4, <2>5 DEF JoinInv, OutcomeIsHonest
<1>5. CASE JoinOk
  <2>1. /\ sched = "ended" /\ outcome = "running"
        /\ Len(samples) + 1 \in DOMAIN tasks /\ tasks[Len(samples) + 1] = "done"
        /\ samples' = Append(samples, Len(samples))
        /\ UNCHANGED <<sched, next_index, tasks, outcome>>
    BY <1>0, <1>5 DEF JoinOk, Joining, NextHandle, Answered
  <2>2. /\ DOMAIN samples' = 1 .. Len(samples) + 1
        /\ \A h \in 1 .. Len(samples) : samples'[h] = samples[h]
        /\ samples'[Len(samples) + 1] = Len(samples)
    BY <1>0, <2>1, AppendTick
  <2>3. ASSUME NEW h \in DOMAIN samples' PROVE samples'[h] = h - 1 /\ tasks'[h] = "done"
    <3>1. CASE h \in 1 .. Len(samples)
      BY <1>0, <2>1, <2>2, <3>1 DEF JoinInv
    <3>2. CASE h = Len(samples) + 1
      BY <1>0, <2>1, <2>2, <3>2
    <3> QED BY <1>0, <2>2, <2>3, <3>1, <3>2
  <2> QED BY <2>1, <2>3 DEF JoinInv, OutcomeIsHonest
<1>6. CASE JoinErr
  <2>1. /\ sched = "ended" /\ sched' = "ended" /\ outcome' = "err" /\ samples' = <<>>
        /\ Len(samples) + 1 \in DOMAIN tasks /\ tasks[Len(samples) + 1] = "panicked"
        /\ tasks' = tasks
    BY <1>0, <1>6 DEF JoinErr, Joining, NextHandle, Broken
  <2> QED BY <2>1 DEF JoinInv, OutcomeIsHonest
<1>7. CASE Return
  <2>1. /\ sched = "ended" /\ outcome = "running" /\ outcome' = "ok"
        /\ Len(samples) = next_index
        /\ samples' = Sorted(samples)
        /\ UNCHANGED <<sched, next_index, tasks>>
    BY <1>0, <1>7 DEF Return
  <2>2. \A h \in 1 .. next_index : samples[h] = h - 1 /\ tasks[h] = "done"
    BY <1>0, <2>1 DEF JoinInv
  <2>3. NoDuplicates(samples)
    BY <1>0, <2>1, <2>2 DEF NoDuplicates
  <2>4. Elements(samples) = 0 .. next_index - 1
    <3>1. ASSUME NEW i \in 0 .. next_index - 1 PROVE i \in Elements(samples)
      <4>1. i + 1 \in DOMAIN samples /\ samples[i + 1] = i
        BY <1>0, <2>1, <2>2
      <4> QED BY <4>1 DEF Elements
    <3>2. ASSUME NEW x \in Elements(samples) PROVE x \in 0 .. next_index - 1
      BY <1>0, <2>1, <2>2 DEF Elements
    <3> QED BY <3>1, <3>2
  <2>5. StrictlyIncreasing(samples') /\ Elements(samples') = 0 .. next_index - 1
    BY <1>0, <2>1, <2>3, <2>4, SortTicks
  <2> QED BY <1>0, <2>1, <2>2, <2>5 DEF JoinInv, OutcomeIsHonest
<1>8. CASE Advance
  BY <1>8 DEF Advance, JoinInv, OutcomeIsHonest
<1>9. CASE UNCHANGED vars
  BY <1>9 DEF vars, JoinInv, OutcomeIsHonest
<1> QED BY <1>1, <1>2, <1>3, <1>4, <1>5, <1>6, <1>7, <1>8, <1>9 DEF Next, Terminated

-----------------------------------------------------------------------------
(* The theorems.                                                           *)

LEMMA Inductive == Spec => [](ScheduleInv /\ NeverEarly /\ JoinInv)
<1>1. Init => ScheduleInv /\ NeverEarly /\ JoinInv
  BY DEF Init, ScheduleInv, NeverEarly, JoinInv, OutcomeIsHonest, NotStarted
<1>2. TypeOK /\ StartsInTime /\ ScheduleInv /\ NeverEarly /\ JoinInv /\ [Next]_vars
        => (ScheduleInv /\ NeverEarly /\ JoinInv)'
  BY ScheduleStep, JoinStep
<1> QED BY <1>1, <1>2, TypeInvariant, PTL DEF Spec

\* No tick fires before its schedule and none overtakes another, for every rate.
THEOREM TicksAreNotEarly == Spec => []NeverEarly
BY Inductive, PTL

\* An Ok answer has one sample for every tick of the plan, whatever the drift.
THEOREM CompleteOnOk == Spec => []EveryTickOnce
<1>1. TypeOK /\ ScheduleInv /\ JoinInv => EveryTickOnce
  <2> SUFFICES ASSUME TypeOK, ScheduleInv, JoinInv, outcome = "ok"
               PROVE  StrictlyIncreasing(samples) /\ Elements(samples) = TicksInPlan
    BY DEF EveryTickOnce
  <2>1. sched = "ended" /\ next_index \in Nat
    BY DEF JoinInv, TypeOK
  <2>2. TicksInPlan = 0 .. next_index - 1
    BY <2>1, PlanIsAnInterval DEF ScheduleInv
  <2> QED BY <2>2 DEF JoinInv
<1> QED BY <1>1, TypeInvariant, Inductive, PTL

\* Ok means that nothing is in flight and nothing panicked; Err that something did.
THEOREM HonestOutcome == Spec => []OutcomeIsHonest
<1>1. JoinInv => OutcomeIsHonest
  BY DEF JoinInv
<1> QED BY <1>1, Inductive, PTL

-----------------------------------------------------------------------------
(* Refinement of SampleCollection.                                         *)

Open == {h - 1 : h \in {k \in DOMAIN tasks : tasks[k] = "running"}}
Kept == {h - 1 : h \in {k \in DOMAIN tasks : tasks[k] = "done"}}

\* Every step of the collector is a step of the collection it implements, or
\* changes nothing the collection sees.
LEMMA CollectionStep ==
    ASSUME TypeOK, JoinInv, JoinInv', [Next]_vars
    PROVE  [Collection!Next]_(Collection!vars)
<1> USE DEF scheduler
<1>0. /\ next_index \in Nat /\ samples \in Seq(Nat)
      /\ tasks \in Seq({"running", "done", "panicked"})
      /\ DOMAIN tasks = 1 .. next_index /\ Len(tasks) = next_index
      /\ \A h \in 1 .. next_index : tasks[h] \in {"running", "done", "panicked"}
  BY DEF TypeOK
<1>1. ASSUME UNCHANGED <<next_index, tasks, outcome>>, samples' = samples \/ outcome # "ok"
      PROVE  UNCHANGED Collection!vars
  BY <1>1 DEF Collection!vars
<1>2. CASE Fire
  <2>1. /\ next_index' = next_index + 1 /\ tasks' = Append(tasks, "running")
        /\ UNCHANGED <<samples, outcome>> /\ outcome = "running"
    BY <1>2 DEF Fire, JoinInv
  <2>2. /\ DOMAIN tasks' = 1 .. next_index + 1
        /\ \A h \in 1 .. next_index : tasks'[h] = tasks[h]
        /\ tasks'[next_index + 1] = "running"
    BY <1>0, <2>1
  <2>3. 1 .. next_index + 1 = (1 .. next_index) \cup {next_index + 1}
    BY <1>0
  <2>4. {k \in DOMAIN tasks' : tasks'[k] = "running"}
          = {k \in DOMAIN tasks : tasks[k] = "running"} \cup {next_index + 1}
    BY <1>0, <2>2, <2>3
  <2>5. {k \in DOMAIN tasks' : tasks'[k] = "done"} = {k \in DOMAIN tasks : tasks[k] = "done"}
    BY <1>0, <2>2, <2>3
  <2>6. Open' = Open \cup {next_index}
    <3>1. (next_index + 1) - 1 = next_index
      BY <1>0
    <3> QED BY <2>4, <3>1 DEF Open
  <2>7. Kept' = Kept
    BY <2>5 DEF Kept
  <2>8. Collection!Issue
    BY <2>1, <2>6, <2>7 DEF Collection!Issue, Open, Kept
  <2> QED BY <2>8 DEF Collection!Next
<1>3. ASSUME NEW h \in DOMAIN tasks, Settle(h) \/ Panic(h)
      PROVE  [Collection!Next]_(Collection!vars)
  <2>1. /\ UNCHANGED <<next_index, samples, outcome>>
        /\ tasks[h] = "running" /\ DOMAIN tasks' = DOMAIN tasks
        /\ \A k \in DOMAIN tasks : k # h => tasks'[k] = tasks[k]
    BY <1>0, <1>3 DEF Settle, Panic
  <2>2. h - 1 \in Open
    BY <2>1 DEF Open
  <2>3. ASSUME tasks'[h] # "running" PROVE Open' = Open \ {h - 1}
    <3>1. {k \in DOMAIN tasks' : tasks'[k] = "running"}
            = {k \in DOMAIN tasks : tasks[k] = "running"} \ {h}
      BY <2>1, <2>3
    <3>2. \A k \in DOMAIN tasks : k - 1 = h - 1 => k = h
      BY <1>0
    <3> QED BY <3>1, <3>2 DEF Open
  <2>4. CASE Settle(h)
    <3>1. tasks'[h] = "done"
      BY <2>4 DEF Settle
    <3>2. {k \in DOMAIN tasks' : tasks'[k] = "done"}
            = {k \in DOMAIN tasks : tasks[k] = "done"} \cup {h}
      BY <2>1, <3>1
    <3>3. Kept' = Kept \cup {h - 1}
      BY <3>2 DEF Kept
    <3>4. Open' = Open \ {h - 1}
      BY <2>3, <3>1
    <3>5. \E t \in Open : Collection!Settle(t)
      BY <2>1, <2>2, <3>3, <3>4 DEF Collection!Settle, Open, Kept
    <3> QED BY <3>5 DEF Collection!Next, Open
  <2>5. CASE Panic(h)
    <3>1. tasks'[h] = "panicked"
      BY <2>5 DEF Panic
    <3>2. {k \in DOMAIN tasks' : tasks'[k] = "done"} = {k \in DOMAIN tasks : tasks[k] = "done"}
      BY <2>1, <3>1
    <3>3. Kept' = Kept
      BY <3>2 DEF Kept
    <3>4. Open' = Open \ {h - 1}
      BY <2>3, <3>1
    <3>5. h - 1 \notin Kept
      <4>1. ~ \E k \in DOMAIN tasks : k - 1 = h - 1 /\ tasks[k] = "done"
        BY <1>0, <2>1
      <4> QED BY <4>1 DEF Kept
    <3> DEFINE S == {h - 1}
    <3>6. S \in SUBSET (Open \cup Kept) /\ S # {} /\ S \cap Open # {} /\ S \subseteq Open
      BY <2>2
    <3>7. Open' = Open \ S /\ Kept' = Kept \ S
      BY <3>3, <3>4, <3>5
    <3>8. \E T \in SUBSET (Open \cup Kept) : Collection!Lose(T)
      <4> HIDE DEF S
      <4> QED BY <2>1, <3>6, <3>7 DEF Collection!Lose, Open, Kept
    <3> QED BY <3>8 DEF Collection!Next, Open, Kept
  <2> QED BY <1>3, <2>4, <2>5
<1>4. CASE JoinErr
  <2>1. /\ UNCHANGED <<next_index, tasks>> /\ outcome = "running" /\ outcome' = "err"
        /\ \E h \in 1 .. next_index : tasks[h] = "panicked"
    <3>1. NextHandle \in 1 .. next_index
      BY <1>0, <1>4 DEF JoinErr, Joining, NextHandle
    <3> QED BY <1>4, <3>1 DEF JoinErr, Joining, Broken
  <2>2. PICK h \in 1 .. next_index : tasks[h] = "panicked"
    BY <2>1
  <2>3. h - 1 \in 0 .. next_index - 1
    BY <1>0
  <2>4. h - 1 \notin Open \cup Kept
    <3>1. ~ \E k \in DOMAIN tasks : k - 1 = h - 1 /\ tasks[k] \in {"running", "done"}
      BY <1>0, <2>2
    <3> QED BY <3>1 DEF Open, Kept
  <2>5. Collection!Lost # {}
    BY <2>3, <2>4 DEF Collection!Lost, Open, Kept
  <2>6. Collection!ReturnErr
    BY <2>1, <2>5 DEF Collection!ReturnErr
  <2> QED BY <2>6 DEF Collection!Next
<1>5. CASE Return
  <2>1. /\ UNCHANGED <<next_index, tasks>> /\ outcome = "running" /\ outcome' = "ok"
        /\ StrictlyIncreasing(samples') /\ Elements(samples') = 0 .. next_index - 1
        /\ \A h \in DOMAIN tasks : tasks[h] = "done"
    BY <1>5 DEF Return, JoinInv, OutcomeIsHonest
  <2>2. Open = {}
    <3>1. {k \in DOMAIN tasks : tasks[k] = "running"} = {}
      BY <2>1
    <3> QED BY <3>1 DEF Open
  <2>3. Kept = 0 .. next_index - 1
    <3>1. {k \in DOMAIN tasks : tasks[k] = "done"} = 1 .. next_index
      BY <1>0, <2>1
    <3>2. Kept = {h - 1 : h \in 1 .. next_index}
      BY <3>1 DEF Kept
    <3>3. ASSUME NEW i \in 0 .. next_index - 1 PROVE \E h \in 1 .. next_index : i = h - 1
      <4>1. i + 1 \in 1 .. next_index /\ i = (i + 1) - 1
        BY <1>0
      <4> QED BY <4>1
    <3>4. \A h \in 1 .. next_index : h - 1 \in 0 .. next_index - 1
      BY <1>0
    <3> QED BY <3>2, <3>3, <3>4
  <2>4. Collection!Lost = {}
    BY <2>3 DEF Collection!Lost, Kept
  <2>5. Collection!ReturnOk
    BY <2>1, <2>2, <2>3, <2>4 DEF Collection!ReturnOk, Open, Kept,
       Collection!StrictlyIncreasing, StrictlyIncreasing, Collection!Elements, Elements
  <2> QED BY <2>5 DEF Collection!Next
<1>6. CASE BeginTick \/ Wake \/ JoinOk \/ Advance \/ UNCHANGED vars
  BY <1>1, <1>6 DEF BeginTick, Wake, JoinOk, Joining, Advance, vars
<1> QED BY <1>2, <1>3, <1>4, <1>5, <1>6 DEF Next, Terminated

\* The open-model collector keeps the promise of a load adapter without tolerating
\* a loss: a list complete and in tick order, or none at all.
THEOREM Implements == Spec => ImplementsCollection
<1>1. Init => Collection!Init
  BY DEF Init, Collection!Init
<1>2. TypeOK /\ JoinInv /\ JoinInv' /\ [Next]_vars => [Collection!Next]_(Collection!vars)
  BY CollectionStep
<1> QED BY <1>1, <1>2, TypeInvariant, Inductive, PTL
        DEF Spec, ImplementsCollection, Collection!Spec

-----------------------------------------------------------------------------
(***************************************************************************)
(* The verdict of a constant-rate run.                                     *)
(*                                                                         *)
(* The evaluator drops floor(warmup * rps) samples, the scheduler spaces   *)
(* the ticks by a period that is 1 / rps rounded to a unit of the clock.   *)
(* The two agree on which ticks belong to the warmup as long as what the   *)
(* rounding adds up to over the plan stays below one tick (one unit, when  *)
(* the period was rounded down): at a nanosecond per unit, for every rate  *)
(* that divides a billion however long the plan, and for the others over   *)
(* plans that are not too long.  Beyond that a tick at the edge of the     *)
(* warmup may be dropped, or measured, against the clock: with Res = 3,    *)
(* Rps = 2, Duration = 9 and a warmup of 6 the tick due at 6 is dropped.   *)
(***************************************************************************)
RoundedUpByLessThanATick ==
    \A i \in TicksInPlan : i * (TickPeriod * Rps - Res) < Res

RoundedDownByAtMostAUnit ==
    \A i \in TicksInPlan : (i + 1) * (Res - TickPeriod * Rps) <= Rps

\* A tick due after the warmup is measured.
LEMMA DueIsMeasured ==
    ASSUME NEW i \in Nat, NEW p \in Nat \ {0}, NEW r \in Nat \ {0}, NEW n \in Nat \ {0},
           NEW w \in Nat, i * p >= w, i * (p * r - n) < n
    PROVE  i >= (w * r) \div n
<1> SUFFICES ASSUME NEW q \in Nat, q * n <= w * r, i + 1 <= q PROVE FALSE
  <2>1. w * r \in Nat
    BY Multiples
  <2>2. (w * r) \div n \in Nat /\ ((w * r) \div n) * n <= w * r
    BY <2>1, Quotient
  <2> QED BY <2>2
<1>1. (i + 1) * n <= q * n
  BY Multiples
<1>2. w * r <= (i * p) * r
  BY Multiples
<1>3. (i * p) * r = i * (p * r - n) + i * n
  OBVIOUS
<1>4. (i + 1) * n = i * n + n
  OBVIOUS
<1> QED
  <2>1. /\ (i + 1) * n \in Int /\ q * n \in Int /\ w * r \in Int /\ i * n \in Int
        /\ (i * p) * r \in Int /\ i * (p * r - n) \in Int
    OBVIOUS
  <2> QED BY <1>1, <1>2, <1>3, <1>4, <2>1

\* A measured tick is due no more than one period before the end of the warmup.
LEMMA MeasuredIsDue ==
    ASSUME NEW i \in Nat, NEW p \in Nat \ {0}, NEW r \in Nat \ {0}, NEW n \in Nat \ {0},
           NEW w \in Nat, i >= (w * r) \div n, (i + 1) * (n - p * r) <= r
    PROVE  i * p >= w - p
<1>1. PICK q \in Nat : q <= i /\ w * r < (q + 1) * n
  <2>1. w * r \in Nat
    BY Multiples
  <2>2. (w * r) \div n \in Nat /\ w * r < ((w * r) \div n + 1) * n
    BY <2>1, Quotient
  <2> QED BY <2>2
<1>2. (q + 1) * n <= (i + 1) * n
  BY <1>1, Multiples
<1>3. (i + 1) * n = (i + 1) * (n - p * r) + ((i + 1) * p) * r
  OBVIOUS
<1>4. (i + 1) * p = i * p + p /\ i * p \in Nat /\ (i + 1) * p \in Nat
  <2>1. i * p \in Nat /\ (i + 1) * p \in Nat
    BY Multiples
  <2> QED BY <2>1
<1> SUFFICES ASSUME NEW d \in Nat, d = (i + 1) * p, w >= d + 1 PROVE FALSE
  BY <1>4
<1>5. w * r >= (d + 1) * r
  BY Multiples
<1>6. (d + 1) * r = d * r + r
  OBVIOUS
<1> QED
  <2>1. /\ w * r \in Int /\ (q + 1) * n \in Int /\ (i + 1) * n \in Int
        /\ (i + 1) * (n - p * r) \in Int /\ d * r \in Int /\ (d + 1) * r \in Int
    BY <1>1
  <2> QED BY <1>1, <1>2, <1>3, <1>5, <1>6, <2>1

\* Filtering by tick index does not change what a sample says, so that the status
\* verdict is about the measured samples themselves.
LEMMA StatusVerdict ==
    ASSUME NEW S, NEW s \in Seq(S), NEW K \in SUBSET DOMAIN s,
           NEW a, a.allowed = {200}
    PROVE  /\ Eval!StatusCodeIn(a, Eval!Picked(s, K)) = "Pass"
                => \A i \in K : s[i].status_code = 200
           /\ Eval!StatusCodeIn(a, Eval!Picked(s, K)) = "Fail"
                => \E i \in K : s[i].status_code # 200
<1> DEFINE t == Picked(s, K)
<1>1. Eval!Picked(s, K) = t
  BY Zenon DEF Eval!Picked, Picked, Eval!Cardinality, Cardinality
<1>2. t \in Seq(S) /\ Elements(t) = {s[i] : i \in K}
  BY PickedTicks
<1> HIDE DEF t
<1>3. (\A i \in DOMAIN t : t[i].status_code \in {200}) <=> \A i \in K : s[i].status_code = 200
  <2>1. (\A i \in DOMAIN t : t[i].status_code \in {200}) <=> \A x \in Elements(t) : x.status_code = 200
    BY DEF Elements
  <2> QED BY <1>2, <2>1
<1>4. Eval!StatusCodeIn(a, t) =
        IF t = <<>> THEN "Error"
        ELSE IF \A i \in DOMAIN t : t[i].status_code \in {200} THEN "Pass" ELSE "Fail"
  <2>1. {200} # {}
    OBVIOUS
  <2> QED BY <2>1 DEF Eval!StatusCodeIn, Eval!PassIf
<1> QED BY <1>1, <1>3, <1>4

MeasuredTicks == {i \in 0 .. next_index - 1 : i >= (warmup * Rps) \div Res}

\* The status verdict passes only if every measured tick was answered with an
\* allowed status, and fails only if one was not.
LEMMA RateStatus ==
    ASSUME NEW S, NEW c \in Seq(S), DOMAIN c = DOMAIN samples,
           Elements(samples) = 0 .. next_index - 1,
           \A k \in DOMAIN samples : /\ c[k].tick_index = samples[k]
                                     /\ c[k].status_code = answers[samples[k] + 1].status_code
    PROVE  /\ Eval!EvaluateEach(Plan, c)[Status] = "Pass"
                => \A i \in MeasuredTicks : answers[i + 1].status_code = 200
           /\ Eval!EvaluateEach(Plan, c)[Status] = "Fail"
                => \E i \in MeasuredTicks : answers[i + 1].status_code # 200
<1> DEFINE K == {i \in DOMAIN c : c[i].tick_index >= Eval!WarmupTicks(Plan)}
           a == Plan.assertions[Status]
<1>1. K = {k \in DOMAIN samples : samples[k] \in MeasuredTicks}
  <2>1. Eval!WarmupTicks(Plan) = (warmup * Rps) \div Res
    <3>1. Plan.rps = Rps /\ Plan.warmup = warmup /\ Rps # -1
      BY RateAssumption DEF Plan
    <3> QED BY <3>1 DEF Eval!WarmupTicks, Eval!NoRps
  <2>2. \A k \in DOMAIN samples : samples[k] \in 0 .. next_index - 1
    BY DEF Elements
  <2> QED BY <2>1, <2>2 DEF MeasuredTicks
<1>2. Eval!Measured(Plan, c) = Eval!Picked(c, K)
  BY DEF Eval!Measured, Eval!Select
<1>3. a.kind = "StatusCodeIn" /\ a.allowed = {200} /\ Status \in DOMAIN Plan.assertions
  BY DEF Plan, Status
<1>4. Plan.warmup = warmup /\ Plan.duration = Duration
  BY DEF Plan
<1> HIDE DEF K, a
<1>5. Eval!EvaluateEach(Plan, c)[Status] =
        IF warmup >= Duration THEN "Error"
        ELSE Eval!EvalOne(a, Duration - warmup, Eval!Picked(c, K))
  BY <1>2, <1>3, <1>4 DEF Eval!EvaluateEach, a
<1>6. Eval!EvalOne(a, Duration - warmup, Eval!Picked(c, K)) = Eval!StatusCodeIn(a, Eval!Picked(c, K))
  BY <1>3 DEF Eval!EvalOne
<1>7. /\ Eval!StatusCodeIn(a, Eval!Picked(c, K)) = "Pass" => \A i \in K : c[i].status_code = 200
      /\ Eval!StatusCodeIn(a, Eval!Picked(c, K)) = "Fail" => \E i \in K : c[i].status_code # 200
  <2>1. K \in SUBSET DOMAIN c
    BY <1>1
  <2> QED BY <1>3, <2>1, StatusVerdict
<1>8. \A i \in MeasuredTicks : \E k \in DOMAIN samples : samples[k] = i
  BY DEF MeasuredTicks, Elements
<1>9. /\ (\A i \in K : c[i].status_code = 200)
           => \A i \in MeasuredTicks : answers[i + 1].status_code = 200
      /\ (\E i \in K : c[i].status_code # 200)
           => \E i \in MeasuredTicks : answers[i + 1].status_code # 200
  BY <1>1, <1>8
<1> QED BY <1>5, <1>6, <1>7, <1>9

\* A step of a run is a step of its collector or none, so that what is proved of
\* the collector holds of the run.
LEMMA RunRefinesCollector == RunSpec => Spec
<1>1. RunInit => Init
  BY DEF RunInit
<1>2. [RunNext]_allVars => [Next]_vars
  BY DEF RunNext, FireCall, AnswerCall, PanicCall, Collector, Evaluate, Ended, allVars, run, Next
<1> QED BY <1>1, <1>2, PTL DEF RunSpec, Spec

(***************************************************************************)
(* The verdict is about the ticks by their index, and nothing it speaks of *)
(* changes once the collector answered Ok: no call is in flight then.      *)
(***************************************************************************)
JudgedInv ==
    /\ warmup \in Warmups
    /\ answers \in Seq({NoAnswer} \cup {SampleOf(code) : code \in StatusCodes})
    /\ Len(answers) = Len(tasks)
    /\ Judged => outcome = "ok"
    /\ Passed(Status) => \A i \in MeasuredTicks : answers[i + 1].status_code = 200
    /\ Judged /\ summary.assertions[Status] = "Fail" =>
         \E i \in MeasuredTicks : answers[i + 1].status_code # 200

LEMMA JudgedStep ==
    ASSUME TypeOK, JoinInv, JudgedInv, [RunNext]_allVars PROVE JudgedInv'
<1> DEFINE A == {NoAnswer} \cup {SampleOf(code) : code \in StatusCodes}
<1>0. /\ tasks \in Seq({"running", "done", "panicked"}) /\ samples \in Seq(Nat)
      /\ answers \in Seq(A) /\ Len(answers) = Len(tasks)
  BY DEF TypeOK, JudgedInv
<1>1. ASSUME UNCHANGED <<next_index, run>>, Len(tasks') = Len(tasks), outcome = "ok" => outcome' = "ok"
      PROVE  JudgedInv'
  <2>1. MeasuredTicks' = MeasuredTicks
    BY <1>1 DEF MeasuredTicks, run
  <2> QED BY <1>1, <2>1 DEF JudgedInv, Judged, Passed, run
<1>2. ASSUME ~Judged, UNCHANGED <<warmup, summary>>, answers' \in Seq(A), Len(answers') = Len(tasks')
      PROVE  JudgedInv'
  BY <1>2 DEF JudgedInv, Judged, Passed
<1>3. CASE FireCall
  <2>1. /\ answers' = Append(answers, NoAnswer) /\ tasks' = Append(tasks, "running")
        /\ sched = "firing" /\ UNCHANGED <<warmup, summary>>
    BY <1>3 DEF FireCall, Fire
  <2>2. ~Judged
    BY <2>1 DEF JoinInv, JudgedInv
  <2>3. answers' \in Seq(A) /\ Len(answers') = Len(tasks')
    <3>1. NoAnswer \in A
      OBVIOUS
    <3> HIDE DEF A
    <3> QED BY <1>0, <2>1, <3>1
  <2> QED BY <1>2, <2>1, <2>2, <2>3
<1>4. ASSUME NEW h \in DOMAIN tasks, AnswerCall(h) PROVE JudgedInv'
  <2>1. tasks[h] = "running" /\ tasks' = [tasks EXCEPT ![h] = "done"] /\ UNCHANGED <<warmup, summary>>
    BY <1>4 DEF AnswerCall, Settle
  <2>2. PICK code \in StatusCodes : answers' = [answers EXCEPT ![h] = SampleOf(code)]
    BY <1>4 DEF AnswerCall
  <2>3. ~Judged
    BY <2>1 DEF JoinInv, OutcomeIsHonest, JudgedInv
  <2>4. SampleOf(code) \in A
    BY <2>2
  <2>5. answers' \in Seq(A) /\ Len(answers') = Len(tasks')
    <3> HIDE DEF A
    <3>1. h \in 1 .. Len(answers) /\ h \in 1 .. Len(tasks)
      BY <1>0
    <3>2. Len(tasks') = Len(tasks)
      BY <1>0, <2>1, <3>1, ExceptSeq
    <3>3. answers' \in Seq(A) /\ Len(answers') = Len(answers)
      BY <1>0, <2>2, <2>4, <3>1, ExceptSeq
    <3> QED BY <1>0, <3>2, <3>3
  <2> QED BY <1>2, <2>1, <2>3, <2>5
<1>5. ASSUME NEW h \in DOMAIN tasks, PanicCall(h) PROVE JudgedInv'
  <2>1. tasks' = [tasks EXCEPT ![h] = "panicked"] /\ UNCHANGED <<next_index, run, outcome>>
    BY <1>5 DEF PanicCall, Panic, scheduler
  <2>2. Len(tasks') = Len(tasks)
    BY <1>0, <2>1
  <2> QED BY <1>1, <2>1, <2>2
<1>6. CASE Collector
  <2>1. UNCHANGED <<next_index, run, tasks>> /\ (outcome = "ok" => outcome' = "ok")
    BY <1>6 DEF Collector, BeginTick, Wake, JoinOk, JoinErr, Return, Advance, Joining, scheduler
  <2> QED BY <1>1, <2>1
<1>7. CASE Evaluate
  <2> DEFINE c == [k \in DOMAIN samples |-> Content(samples[k])]
  <2>1. /\ outcome = "ok" /\ UNCHANGED <<vars, warmup, answers>>
        /\ summary'.assertions = Eval!EvaluateEach(Plan, c)
    BY <1>7 DEF Evaluate, Eval!EvaluateLoad
  <2>2. Elements(samples) = 0 .. next_index - 1
    BY <2>1 DEF JoinInv
  <2>3. \A k \in DOMAIN samples : /\ c[k].tick_index = samples[k]
                                  /\ c[k].status_code = answers[samples[k] + 1].status_code
    BY DEF Content
  <2>4. \E S : c \in Seq(S) /\ DOMAIN c = DOMAIN samples
    <3> DEFINE S == {Content(t) : t \in Nat}
    <3>1. DOMAIN samples = 1 .. Len(samples) /\ Len(samples) \in Nat
      BY <1>0
    <3>2. \A k \in DOMAIN samples : Content(samples[k]) \in S
      BY <1>0
    <3> HIDE DEF S
    <3>3. c \in [1 .. Len(samples) -> S]
      BY <3>1, <3>2
    <3> QED BY <3>1, <3>3, SeqDef
  <2> HIDE DEF c
  <2>5. /\ Eval!EvaluateEach(Plan, c)[Status] = "Pass"
             => \A i \in MeasuredTicks : answers[i + 1].status_code = 200
        /\ Eval!EvaluateEach(Plan, c)[Status] = "Fail"
             => \E i \in MeasuredTicks : answers[i + 1].status_code # 200
    BY <2>2, <2>3, <2>4, RateStatus
  <2>6. UNCHANGED <<MeasuredTicks, tasks, outcome, warmup, answers>>
    BY <2>1 DEF MeasuredTicks, vars, scheduler
  <2> QED BY <2>1, <2>5, <2>6 DEF JudgedInv, Passed, Status
<1>8. CASE UNCHANGED allVars
  BY <1>1, <1>8 DEF allVars, vars, scheduler
<1> QED BY <1>3, <1>4, <1>5, <1>6, <1>7, <1>8 DEF RunNext, Ended

\* A rate that divides the clock satisfies both conditions, however long the plan.
LEMMA EvenRatesNeverDrift ==
    ASSUME TickPeriod * Rps = Res
    PROVE  RoundedUpByLessThanATick /\ RoundedDownByAtMostAUnit
<1>1. TickPeriod * Rps - Res = 0 /\ Res - TickPeriod * Rps = 0
  BY RateAssumption
<1>2. \A i \in Nat : i * 0 < Res /\ (i + 1) * 0 <= Rps
  BY RateAssumption
<1> QED BY <1>1, <1>2 DEF RoundedUpByLessThanATick, RoundedDownByAtMostAUnit, TicksInPlan

LEMMA Verdicts == RunSpec => [](TypeOK /\ ScheduleInv /\ JoinInv /\ JudgedInv)
<1>1. RunInit => JudgedInv
  BY DEF RunInit, Init, JudgedInv, Judged, Passed
<1>2. TypeOK /\ JoinInv /\ JudgedInv /\ [RunNext]_allVars => JudgedInv'
  BY JudgedStep
<1> QED BY <1>1, <1>2, RunRefinesCollector, TypeInvariant, Inductive, PTL DEF RunSpec

\* A passing status assertion speaks for every tick scheduled after the warmup: each
\* was fired and answered with an allowed status.  Late ticks, panics, the order of
\* the answers and of the joins cannot hide one, for any warmup and at any rate whose
\* rounding stays below a tick over the plan.
THEOREM PassSpeaksForTheSchedule ==
    ASSUME RoundedUpByLessThanATick
    PROVE  RunSpec => []PassCoversTheSchedule
<1>1. TypeOK /\ ScheduleInv /\ JoinInv /\ JudgedInv => PassCoversTheSchedule
  <2> SUFFICES ASSUME TypeOK, ScheduleInv, JoinInv, JudgedInv, Passed(Status),
                      NEW i \in TicksInPlan, i * TickPeriod >= warmup
               PROVE  i + 1 \in DOMAIN tasks /\ answers[i + 1].status_code = 200
    BY DEF PassCoversTheSchedule
  <2>1. sched = "ended" /\ next_index \in Nat /\ warmup \in Nat /\ i \in Nat
    BY WarmupsAssumption DEF JoinInv, JudgedInv, Passed, TypeOK, TicksInPlan
  <2>2. TicksInPlan = 0 .. next_index - 1
    BY <2>1, PlanIsAnInterval DEF ScheduleInv
  <2>3. i >= (warmup * Rps) \div Res
    <3>1. i * (TickPeriod * Rps - Res) < Res
      BY DEF RoundedUpByLessThanATick
    <3> QED BY <2>1, <3>1, DueIsMeasured, RateAssumption, PeriodAssumption
  <2>4. i \in MeasuredTicks
    BY <2>2, <2>3 DEF MeasuredTicks
  <2>5. i + 1 \in DOMAIN tasks
    BY <2>1, <2>2 DEF TypeOK
  <2> QED BY <2>4, <2>5 DEF JudgedInv
<1> QED BY <1>1, Verdicts, PTL

\* A failing status assertion has a witness: a tick due no more than one period
\* before the end of the warmup whose call was answered with another status, or
\* not at all; at any rate whose period was not rounded down by more than a unit
\* over the plan.
THEOREM FailIsWitnessed ==
    ASSUME RoundedDownByAtMostAUnit
    PROVE  RunSpec => []FailHasAWitness
<1>1. TypeOK /\ ScheduleInv /\ JoinInv /\ JudgedInv => FailHasAWitness
  <2> SUFFICES ASSUME TypeOK, ScheduleInv, JoinInv, JudgedInv,
                      Judged, summary.assertions[Status] = "Fail"
               PROVE  \E h \in DOMAIN tasks :
                        /\ (h - 1) * TickPeriod >= warmup - TickPeriod
                        /\ answers[h].status_code # 200
    BY DEF FailHasAWitness
  <2>1. sched = "ended" /\ next_index \in Nat /\ warmup \in Nat
    BY WarmupsAssumption DEF JoinInv, JudgedInv, TypeOK
  <2>2. TicksInPlan = 0 .. next_index - 1
    BY <2>1, PlanIsAnInterval DEF ScheduleInv
  <2>3. PICK i \in MeasuredTicks : answers[i + 1].status_code # 200
    BY DEF JudgedInv
  <2>4. i \in TicksInPlan /\ i \in Nat /\ i >= (warmup * Rps) \div Res
    BY <2>1, <2>2 DEF MeasuredTicks
  <2>5. i * TickPeriod >= warmup - TickPeriod
    <3>1. (i + 1) * (Res - TickPeriod * Rps) <= Rps
      BY <2>4 DEF RoundedDownByAtMostAUnit
    <3> QED BY <2>1, <2>4, <3>1, MeasuredIsDue, RateAssumption, PeriodAssumption
  <2>6. i + 1 \in DOMAIN tasks /\ (i + 1) - 1 = i
    BY <2>1, <2>2, <2>4 DEF TypeOK
  <2> QED BY <2>3, <2>5, <2>6
<1> QED BY <1>1, Verdicts, PTL


-----------------------------------------------------------------------------
(* What the verdicts of the evaluator count.                               *)

Sample == [tick_index : Nat, latency : Int, status_code : Int, error : BOOLEAN]

\* The positions of the samples that are measured, and among those of K the answered,
\* the slow and the bad ones.
MeasuredAt(p, list) == {i \in DOMAIN list : list[i].tick_index >= WarmupTicks(p)}
AnsweredAt(list, K) == {i \in K : ~list[i].error}
IsSlow(x, t) == ~x.error /\ x.latency > t
SlowAt(list, K, t) == {i \in K : IsSlow(list[i], t)}
BadAt(list, K) == {i \in K : Bad(list[i])}

\* How many of n answers may be slow.
Allowance(n) == (n - 1) - ((PctNum * (n - 1)) \div PctDen)

\* The verdict, by the positions measured.
VerdictAt(a, list, K) ==
    CASE a.kind = "P99Under" ->
           IF a.metric # "latency_ms" \/ AnsweredAt(list, K) = {} THEN "Error"
           ELSE PassIf(Cardinality(SlowAt(list, K, a.threshold)) <= Allowance(Cardinality(AnsweredAt(list, K))))
      [] a.kind = "ErrorRateBelow" ->
           IF a.threshold \notin 0 .. Scale \/ K = {} THEN "Error"
           ELSE PassIf(Cardinality(BadAt(list, K)) * Scale < a.threshold * Cardinality(K))
      [] a.kind = "StatusCodeIn" ->
           IF a.allowed = {} \/ K = {} THEN "Error"
           ELSE PassIf(\A i \in K : list[i].status_code \in a.allowed)

\* Positions of a list can be counted, and only none of them count zero.
LEMMA PositionsAreFinite ==
    ASSUME NEW list \in Seq(Sample), NEW K \in SUBSET DOMAIN list
    PROVE  IsFiniteSet(K) /\ Cardinality(K) \in Nat /\ (K = {} <=> Cardinality(K) = 0)
<1>1. IsFiniteSet(K)
  BY PickedTicks
<1> QED BY <1>1, FS_CardinalityType, FS_EmptySet

\* What is selected, is as many and has the same elements.
LEMMA WindowIs ==
    ASSUME NEW p, NEW list \in Seq(Sample)
    PROVE  LET K == MeasuredAt(p, list)
               window == Measured(p, list)
           IN  /\ K \in SUBSET DOMAIN list
               /\ window = Picked(list, K)
               /\ window \in Seq(Sample)
               /\ Len(window) = Cardinality(K)
               /\ window = <<>> <=> K = {}
               /\ Elements(window) = {list[i] : i \in K}
<1> DEFINE K == MeasuredAt(p, list)
           window == Measured(p, list)
<1>1. K \in SUBSET DOMAIN list
  BY DEF MeasuredAt
<1>2. window = Picked(list, K)
  BY DEF Measured, Select, MeasuredAt
<1> HIDE DEF K, window
<1>3. /\ window \in Seq(Sample) /\ Len(window) = Cardinality(K)
      /\ Elements(window) = {list[i] : i \in K}
  BY <1>1, <1>2, PickedTicks
<1>4. window = <<>> <=> Len(window) = 0
  BY <1>3
<1>5. K = {} <=> Cardinality(K) = 0
  BY <1>1, PositionsAreFinite
<1> QED BY <1>1, <1>2, <1>3, <1>4, <1>5 DEF K, window

\* ErrorRateBelow counts the bad ones of the positions measured.
LEMMA ErrorRateIs ==
    ASSUME NEW p, NEW list \in Seq(Sample), NEW a, a.kind = "ErrorRateBelow"
    PROVE  ErrorRateBelow(a, Measured(p, list)) = VerdictAt(a, list, MeasuredAt(p, list))
<1> DEFINE K == MeasuredAt(p, list)
           window == Measured(p, list)
           T == {x \in Sample : Bad(x)}
<1>1. /\ K \in SUBSET DOMAIN list /\ window \in Seq(Sample)
      /\ window = Picked(list, K) /\ Len(window) = Cardinality(K) /\ (window = <<>> <=> K = {})
  BY WindowIs
<1> HIDE DEF K, window
<1>2. Count_(Bad, window) = Cardinality(Hits(window, DOMAIN window, T))
  <2>1. \A k \in DOMAIN window : window[k] \in Sample
    BY <1>1
  <2>2. {k \in DOMAIN window : Bad(window[k])} = Hits(window, DOMAIN window, T)
    BY <2>1 DEF Hits
  <2> QED BY <2>2 DEF Count_
<1>3. BadAt(list, K) = Hits(list, K, T)
  <2>1. \A i \in K : list[i] \in Sample
    BY <1>1
  <2> QED BY <2>1 DEF BadAt, Hits
<1> HIDE DEF T
<1>4. Cardinality(Hits(window, DOMAIN window, T)) = Cardinality(Hits(list, K, T))
  BY <1>1, PickedCount
<1>5. Count_(Bad, window) = Cardinality(BadAt(list, K))
  BY <1>2, <1>3, <1>4
<1>6. VerdictAt(a, list, K) =
        IF a.threshold \notin 0 .. Scale \/ K = {} THEN "Error"
        ELSE PassIf(Cardinality(BadAt(list, K)) * Scale < a.threshold * Cardinality(K))
  BY DEF VerdictAt
<1> HIDE DEF VerdictAt
<1>7. ErrorRateBelow(a, window) = VerdictAt(a, list, K)
  BY <1>1, <1>5, <1>6 DEF ErrorRateBelow
<1> QED BY <1>7 DEF K, window

\* StatusCodeIn looks at every position measured.
LEMMA StatusIs ==
    ASSUME NEW p, NEW list \in Seq(Sample), NEW a, a.kind = "StatusCodeIn"
    PROVE  StatusCodeIn(a, Measured(p, list)) = VerdictAt(a, list, MeasuredAt(p, list))
<1> DEFINE K == MeasuredAt(p, list)
           window == Measured(p, list)
<1>1. (window = <<>> <=> K = {}) /\ Elements(window) = {list[i] : i \in K}
  BY WindowIs
<1> HIDE DEF K, window
<1>2. (\A k \in DOMAIN window : window[k].status_code \in a.allowed)
        <=> \A x \in Elements(window) : x.status_code \in a.allowed
  BY DEF Elements
<1>3. (\A k \in DOMAIN window : window[k].status_code \in a.allowed)
        <=> \A i \in K : list[i].status_code \in a.allowed
  BY <1>1, <1>2
<1>4. StatusCodeIn(a, window) = VerdictAt(a, list, K)
  BY <1>1, <1>3 DEF StatusCodeIn, VerdictAt, PassIf
<1> QED BY <1>4 DEF K, window

\* The percentile of a list that is not empty is at one of its indexes.
LEMMA IndexInRange ==
    ASSUME NEW n \in Nat \ {0}
    PROVE  (PctNum * (n - 1)) \div PctDen \in 0 .. n - 1
<1>1. PctNum \in Nat /\ PctDen \in Nat \ {0} /\ PctNum <= PctDen
  BY PercentileAssumption
<1> DEFINE m == n - 1
<1>2. m \in Nat
  OBVIOUS
<1> HIDE DEF m
<1>3. PctNum * m \in Nat /\ PctNum * m <= PctDen * m
  BY <1>1, <1>2
<1> DEFINE q == (PctNum * m) \div PctDen
<1>4. q \in Nat /\ q * PctDen <= PctNum * m
  BY <1>1, <1>3, Quotient
<1> HIDE DEF q
<1>5. q <= m
  <2> SUFFICES ASSUME q >= m + 1 PROVE FALSE
    BY <1>2, <1>4
  <2>1. q * PctDen >= (m + 1) * PctDen
    BY <1>1, <1>2, <1>4
  <2>2. (m + 1) * PctDen = PctDen * m + PctDen
    BY <1>1, <1>2
  <2> QED BY <1>1, <1>2, <1>3, <1>4, <2>1, <2>2
<1>6. n - 1 = m /\ q \in 0 .. m
  BY <1>2, <1>4, <1>5 DEF m
<1> QED BY <1>6 DEF q

\* The value at the index of the percentile is under the threshold iff few enough are
\* over it.
LEMMA PercentileIs ==
    ASSUME NEW ls \in Seq(Int), ls # <<>>, NEW t \in Int
    PROVE  Sorted(ls)[PercentileIndex(Len(ls))] <= t
             <=> Cardinality({i \in DOMAIN ls : ls[i] > t}) <= Allowance(Len(ls))
<1> DEFINE n == Len(ls)
           q == (PctNum * (n - 1)) \div PctDen
           v == Sorted(ls)[q + 1]
           over(x) == {i \in DOMAIN ls : ls[i] > x}
           under(x) == {i \in DOMAIN ls : ls[i] < x}
           upto(x) == {i \in DOMAIN ls : ls[i] <= x}
<1>1. n \in Nat \ {0} /\ DOMAIN ls = 1 .. n /\ \A i \in 1 .. n : ls[i] \in Int
  OBVIOUS
<1>2. q \in 0 .. n - 1
  BY <1>1, IndexInRange
<1>3. PercentileIndex(n) = q + 1 /\ Allowance(n) = (n - 1) - q
  BY DEF PercentileIndex, Allowance
<1> HIDE DEF n, q
<1>4. q + 1 \in DOMAIN ls
  BY <1>1, <1>2
<1>5. /\ \E i \in DOMAIN ls : v = ls[i]
      /\ Cardinality({i \in DOMAIN ls : ls[i] < v}) <= (q + 1) - 1
      /\ q + 1 <= Cardinality({i \in DOMAIN ls : ls[i] <= v})
  BY <1>4, RankOfSorted
<1>6. v \in Int
  BY <1>1, <1>5
<1> HIDE DEF v
<1>7. ASSUME NEW x \in Int
      PROVE  /\ IsFiniteSet(over(x)) /\ IsFiniteSet(under(x)) /\ IsFiniteSet(upto(x))
             /\ Cardinality(over(x)) + Cardinality(upto(x)) = n
             /\ Cardinality(over(x)) \in Nat /\ Cardinality(upto(x)) \in Nat
  <2>1. over(x) \subseteq 1 .. n /\ under(x) \subseteq 1 .. n /\ upto(x) \subseteq 1 .. n
    BY <1>1
  <2>2. over(x) \cap upto(x) = {} /\ over(x) \cup upto(x) = 1 .. n
    BY <1>1
  <2>3. IsFiniteSet(1 .. n) /\ Cardinality(1 .. n) = n
    BY <1>1, Positions
  <2> HIDE DEF over, under, upto
  <2>4. IsFiniteSet(over(x)) /\ IsFiniteSet(under(x)) /\ IsFiniteSet(upto(x))
    BY <2>1, <2>3, FS_Subset
  <2>5. Cardinality(over(x) \cup upto(x))
          = Cardinality(over(x)) + Cardinality(upto(x)) - Cardinality(over(x) \cap upto(x))
    BY <2>4, FS_Union
  <2>6. Cardinality(over(x)) \in Nat /\ Cardinality(upto(x)) \in Nat
    BY <2>4, FS_CardinalityType
  <2>7. Cardinality(over(x)) + Cardinality(upto(x)) = n
    <3>1. Cardinality(over(x) \cup upto(x)) = n /\ Cardinality(over(x) \cap upto(x)) = 0
      BY <2>2, <2>3, FS_EmptySet, Zenon
    <3> QED BY <1>1, <2>5, <2>6, <3>1
  <2> QED BY <2>4, <2>6, <2>7
<1>8. CASE v <= t
  <2>1. over(t) \subseteq over(v)
    BY <1>1, <1>6, <1>8
  <2> HIDE DEF over, under, upto
  <2>2. Cardinality(over(t)) <= Cardinality(over(v))
    BY <1>6, <1>7, <2>1, FS_Subset
  <2>3. Cardinality(over(v)) + Cardinality(upto(v)) = n /\ q + 1 <= Cardinality(upto(v))
    BY <1>5, <1>6, <1>7 DEF upto
  <2>4. Cardinality(over(t)) \in Nat /\ Cardinality(over(v)) \in Nat /\ Cardinality(upto(v)) \in Nat
    BY <1>6, <1>7
  <2>5. Cardinality(over(t)) <= (n - 1) - q
    BY <1>1, <1>2, <2>2, <2>3, <2>4
  <2> QED BY <1>3, <1>8, <2>5 DEF over, v, n
<1>9. CASE ~(v <= t)
  <2>1. upto(t) \subseteq under(v)
    BY <1>1, <1>6, <1>9
  <2> HIDE DEF over, under, upto
  <2>2. Cardinality(upto(t)) <= Cardinality(under(v)) /\ Cardinality(under(v)) \in Nat
    BY <1>6, <1>7, <2>1, FS_Subset, FS_CardinalityType
  <2>3. Cardinality(over(t)) + Cardinality(upto(t)) = n /\ Cardinality(under(v)) <= (q + 1) - 1
    BY <1>5, <1>7 DEF under
  <2>4. Cardinality(over(t)) \in Nat /\ Cardinality(upto(t)) \in Nat
    BY <1>7
  <2>5. ~(Cardinality(over(t)) <= (n - 1) - q)
    BY <1>1, <1>2, <2>2, <2>3, <2>4
  <2> QED BY <1>3, <1>9, <2>5 DEF over, v, n
<1> QED BY <1>8, <1>9

\* P99Under over a window compares the number of slow answers with the allowance.
LEMMA PercentileVerdictIs ==
    ASSUME NEW window \in Seq(Sample), NEW t \in Int
    PROVE  LET answered == Select(window, HasLatency)
               slow == {k \in DOMAIN answered : answered[k].latency > t}
           IN  /\ answered \in Seq(Sample)
               /\ answered = Picked(window, AnsweredAt(window, DOMAIN window))
               /\ Sorted(Latencies(window)) = <<>> <=> answered = <<>>
               /\ answered # <<>> =>
                    (Sorted(Latencies(window))[PercentileIndex(Len(Sorted(Latencies(window))))] <= t
                       <=> Cardinality(slow) <= Allowance(Len(answered)))
<1> DEFINE answered == Select(window, HasLatency)
           ls == Latencies(window)
           H == AnsweredAt(window, DOMAIN window)
<1>1. answered = Picked(window, H)
  BY DEF Select, HasLatency, AnsweredAt
<1>2. answered \in Seq(Sample)
  <2>1. H \in SUBSET DOMAIN window
    BY DEF AnsweredAt
  <2> HIDE DEF H, answered
  <2> QED BY <1>1, <2>1, PickedTicks
<1>3. ls = [i \in DOMAIN answered |-> answered[i].latency]
  BY DEF Latencies
<1> HIDE DEF H, answered, ls
<1>4. /\ ls \in Seq(Int) /\ Len(ls) = Len(answered) /\ DOMAIN ls = DOMAIN answered
      /\ \A i \in DOMAIN answered : ls[i] = answered[i].latency
  <2>1. DOMAIN answered = 1 .. Len(answered) /\ Len(answered) \in Nat
    BY <1>2
  <2>2. \A i \in DOMAIN answered : answered[i] \in Sample
    BY <1>2
  <2>3. \A i \in DOMAIN answered : answered[i].latency \in Int
    BY <2>2 DEF Sample
  <2> QED BY <1>3, <2>1, <2>3
<1>5. Sorted(ls) = <<>> <=> answered = <<>>
  BY <1>2, <1>4 DEF Sorted
<1>6. DOMAIN Sorted(ls) = DOMAIN ls /\ Len(Sorted(ls)) = Len(ls)
  BY <1>4 DEF Sorted
<1>7. {k \in DOMAIN answered : answered[k].latency > t} = {k \in DOMAIN ls : ls[k] > t}
  BY <1>4
<1>8. answered # <<>> =>
        (Sorted(ls)[PercentileIndex(Len(ls))] <= t
           <=> Cardinality({k \in DOMAIN ls : ls[k] > t}) <= Allowance(Len(ls)))
  <2>1. answered # <<>> => ls # <<>>
    BY <1>2, <1>4
  <2> QED BY <1>4, <2>1, PercentileIs
<1> QED BY <1>1, <1>2, <1>4, <1>5, <1>6, <1>7, <1>8 DEF answered, ls, H

\* P99Under counts the answered and the slow ones of the positions measured.
LEMMA LatencyIs ==
    ASSUME NEW p, NEW list \in Seq(Sample), NEW a, a.kind = "P99Under", a.threshold \in Int
    PROVE  LET K == MeasuredAt(p, list)
               answered == Select(Measured(p, list), HasLatency)
           IN  /\ Len(answered) = Cardinality(AnsweredAt(list, K))
               /\ Cardinality({k \in DOMAIN answered : answered[k].latency > a.threshold})
                    = Cardinality(SlowAt(list, K, a.threshold))
               /\ P99Under(a, Measured(p, list)) = VerdictAt(a, list, K)
<1> DEFINE K == MeasuredAt(p, list)
           window == Measured(p, list)
           H == AnsweredAt(window, DOMAIN window)
           answered == Select(window, HasLatency)
           t == a.threshold
           slow == {k \in DOMAIN answered : answered[k].latency > t}
           T == {x \in Sample : ~x.error}
           U == {x \in Sample : ~x.error /\ x.latency > t}
           V == {x \in Sample : x.latency > t}
<1>1. K \in SUBSET DOMAIN list /\ window \in Seq(Sample) /\ window = Picked(list, K)
  BY WindowIs
<1>2. /\ answered \in Seq(Sample) /\ answered = Picked(window, H)
      /\ Sorted(Latencies(window)) = <<>> <=> answered = <<>>
      /\ answered # <<>> =>
           (Sorted(Latencies(window))[PercentileIndex(Len(Sorted(Latencies(window))))] <= t
              <=> Cardinality(slow) <= Allowance(Len(answered)))
  BY <1>1, PercentileVerdictIs
<1> HIDE DEF K, window, answered
<1>3. H \in SUBSET DOMAIN window
  BY DEF AnsweredAt
<1>4. (\A k \in DOMAIN window : window[k] \in Sample) /\ \A i \in K : list[i] \in Sample
  BY <1>1
<1>5. /\ H = Hits(window, DOMAIN window, T) /\ AnsweredAt(list, K) = Hits(list, K, T)
      /\ Hits(window, H, V) = Hits(window, DOMAIN window, U)
      /\ SlowAt(list, K, t) = Hits(list, K, U)
  BY <1>4 DEF Hits, AnsweredAt, SlowAt, IsSlow
<1>6. slow = Hits(answered, DOMAIN answered, V)
  <2>1. \A k \in DOMAIN answered : answered[k] \in Sample
    BY <1>2
  <2> QED BY <2>1 DEF Hits
<1> HIDE DEF slow, H, T, U, V, t
<1>7. /\ Cardinality(Hits(window, DOMAIN window, T)) = Cardinality(Hits(list, K, T))
      /\ Cardinality(Hits(window, DOMAIN window, U)) = Cardinality(Hits(list, K, U))
  BY <1>1, PickedCount
<1>8. Cardinality(Hits(answered, DOMAIN answered, V)) = Cardinality(Hits(window, H, V))
  BY <1>1, <1>2, <1>3, PickedCount
<1>9. Len(answered) = Cardinality(H)
  BY <1>1, <1>2, <1>3, PickedTicks
<1>10. Len(answered) = Cardinality(AnsweredAt(list, K)) /\ Cardinality(slow) = Cardinality(SlowAt(list, K, t))
  BY <1>5, <1>6, <1>7, <1>8, <1>9
<1>11. answered = <<>> <=> AnsweredAt(list, K) = {}
  <2>1. AnsweredAt(list, K) \in SUBSET DOMAIN list
    BY <1>1 DEF AnsweredAt
  <2>2. AnsweredAt(list, K) = {} <=> Cardinality(AnsweredAt(list, K)) = 0
    BY <2>1, PositionsAreFinite
  <2>3. answered = <<>> <=> Len(answered) = 0
    BY <1>2
  <2> QED BY <1>10, <2>2, <2>3
<1>12. P99Under(a, window) = VerdictAt(a, list, K)
  <2>1. P99Under(a, window) =
          IF a.metric # "latency_ms" \/ answered = <<>> THEN "Error"
          ELSE PassIf(Cardinality(slow) <= Allowance(Len(answered)))
    BY <1>2 DEF P99Under, PassIf, t
  <2>2. VerdictAt(a, list, K) =
          IF a.metric # "latency_ms" \/ AnsweredAt(list, K) = {} THEN "Error"
          ELSE PassIf(Cardinality(SlowAt(list, K, t)) <= Allowance(Cardinality(AnsweredAt(list, K))))
    BY DEF VerdictAt, t
  <2> QED BY <1>10, <1>11, <2>1, <2>2
<1> QED BY <1>10, <1>12 DEF slow, answered, window, K, t

-----------------------------------------------------------------------------
(* One sample more.                                                        *)


\* The positions, and those measured, after one sample more.
LEMMA PositionsAfter ==
    ASSUME NEW p, NEW list \in Seq(Sample), NEW x \in Sample
    PROVE  LET K == MeasuredAt(p, list)
               more == Append(list, x)
               n == Len(list) + 1
           IN  /\ more \in Seq(Sample) /\ K \in SUBSET DOMAIN list
               /\ n \notin DOMAIN list /\ DOMAIN more = DOMAIN list \cup {n}
               /\ more[n] = x /\ \A i \in DOMAIN list : more[i] = list[i]
               /\ MeasuredAt(p, more) = IF x.tick_index >= WarmupTicks(p) THEN K \cup {n} ELSE K
<1> DEFINE K == MeasuredAt(p, list)
           more == Append(list, x)
           n == Len(list) + 1
<1>1. /\ Len(list) \in Nat /\ DOMAIN list = 1 .. Len(list)
      /\ more \in Seq(Sample) /\ DOMAIN more = 1 .. n
      /\ more[n] = x /\ \A i \in DOMAIN list : more[i] = list[i]
  OBVIOUS
<1>2. n \notin DOMAIN list /\ DOMAIN more = DOMAIN list \cup {n}
  BY <1>1
<1> HIDE DEF more, n
<1>3. MeasuredAt(p, more) = IF x.tick_index >= WarmupTicks(p) THEN K \cup {n} ELSE K
  BY <1>1, <1>2 DEF MeasuredAt
<1> QED BY <1>1, <1>2, <1>3 DEF MeasuredAt, more, n

\* A list that agrees on the positions K has the verdicts of K.
LEMMA VerdictOfAgreement ==
    ASSUME NEW list, NEW more, NEW K, \A i \in K : more[i] = list[i], NEW a,
           a.kind \in {"P99Under", "ErrorRateBelow", "StatusCodeIn"}
    PROVE  VerdictAt(a, more, K) = VerdictAt(a, list, K)
<1>1. AnsweredAt(more, K) = AnsweredAt(list, K)
  BY DEF AnsweredAt
<1>2. SlowAt(more, K, a.threshold) = SlowAt(list, K, a.threshold)
  BY DEF SlowAt
<1>3. BadAt(more, K) = BadAt(list, K)
  BY DEF BadAt
<1>4. (\A i \in K : more[i].status_code \in a.allowed) <=> \A i \in K : list[i].status_code \in a.allowed
  OBVIOUS
<1> QED BY <1>1, <1>2, <1>3, <1>4 DEF VerdictAt

\* What a property of samples counts, after one sample more that is measured.
LEMMA CountedAfter ==
    ASSUME NEW K, IsFiniteSet(K), NEW n, n \notin K, NEW B, NEW C,
           B \in SUBSET K, NEW hit \in BOOLEAN, C = IF hit THEN B \cup {n} ELSE B
    PROVE  /\ Cardinality(B) \in Nat /\ Cardinality(C) \in Nat
           /\ Cardinality(C) = Cardinality(B) + (IF hit THEN 1 ELSE 0)
<1>1. IsFiniteSet(B) /\ n \notin B
  BY FS_Subset
<1>2. Cardinality(B) \in Nat
  BY <1>1, FS_CardinalityType
<1>3. CASE hit
  <2>1. Cardinality(B \cup {n}) = Cardinality(B) + 1
    BY <1>1, FS_AddElement
  <2> QED BY <1>2, <1>3, <2>1
<1>4. CASE ~hit
  BY <1>2, <1>4
<1> QED BY <1>3, <1>4

\* The list, and the positions measured, after one more sample that is measured.
After(list, x) == Append(list, x)
Grown(list, K) == K \cup {Len(list) + 1}

\* What the assertions on errors and the answers count, after it.
LEMMA OneMore ==
    ASSUME NEW list \in Seq(Sample), NEW x \in Sample, NEW K \in SUBSET DOMAIN list
    PROVE  /\ Grown(list, K) # {} /\ Grown(list, K) \in SUBSET DOMAIN After(list, x)
           /\ Cardinality(Grown(list, K)) = Cardinality(K) + 1
           /\ Cardinality(BadAt(After(list, x), Grown(list, K))) = Cardinality(BadAt(list, K)) + (IF Bad(x) THEN 1 ELSE 0)
           /\ x.error => Cardinality(AnsweredAt(After(list, x), Grown(list, K))) = Cardinality(AnsweredAt(list, K))
           /\ ~x.error => Cardinality(AnsweredAt(After(list, x), Grown(list, K))) = Cardinality(AnsweredAt(list, K)) + 1
           /\ After(list, x)[Len(list) + 1] = x /\ \A i \in K : After(list, x)[i] = list[i]
<1> DEFINE more == After(list, x)
           L == Grown(list, K)
           n == Len(list) + 1
           ok == ~x.error
<1>0. more = Append(list, x) /\ L = K \cup {n}
  BY DEF After, Grown
<1>1. /\ n \notin K /\ DOMAIN more = DOMAIN list \cup {n}
      /\ more[n] = x /\ \A i \in K : more[i] = list[i]
  BY <1>0, PositionsAfter
<1>2. IsFiniteSet(K) /\ Cardinality(K) \in Nat
  BY PositionsAreFinite
<1> HIDE DEF n, more, L
<1>3. Cardinality(L) = Cardinality(K) + 1
  BY <1>0, <1>1, <1>2, FS_AddElement
<1>4. BadAt(more, L) = IF Bad(x) THEN BadAt(list, K) \cup {n} ELSE BadAt(list, K)
  BY <1>0, <1>1 DEF BadAt
<1>5. AnsweredAt(more, L) = IF ok THEN AnsweredAt(list, K) \cup {n} ELSE AnsweredAt(list, K)
  BY <1>0, <1>1 DEF AnsweredAt
<1>6. BadAt(list, K) \in SUBSET K /\ AnsweredAt(list, K) \in SUBSET K
  BY DEF BadAt, AnsweredAt
<1>7. Bad(x) \in BOOLEAN /\ ok \in BOOLEAN
  BY DEF Bad
<1> HIDE DEF ok
<1>8. Cardinality(BadAt(more, L)) = Cardinality(BadAt(list, K)) + (IF Bad(x) THEN 1 ELSE 0)
  BY <1>1, <1>2, <1>4, <1>6, <1>7, CountedAfter
<1>9. /\ ~ok => Cardinality(AnsweredAt(more, L)) = Cardinality(AnsweredAt(list, K))
      /\ ok => Cardinality(AnsweredAt(more, L)) = Cardinality(AnsweredAt(list, K)) + 1
  <2>1. /\ Cardinality(AnsweredAt(list, K)) \in Nat
        /\ Cardinality(AnsweredAt(more, L)) = Cardinality(AnsweredAt(list, K)) + (IF ok THEN 1 ELSE 0)
    BY <1>1, <1>2, <1>5, <1>6, <1>7, CountedAfter
  <2> QED BY <2>1
<1>10. L # {} /\ L \in SUBSET DOMAIN more
  BY <1>0, <1>1
<1> QED BY <1>1, <1>3, <1>8, <1>9, <1>10 DEF L, more, n, ok

\* What the latency assertions count, after it.
LEMMA OneMoreSlow ==
    ASSUME NEW list \in Seq(Sample), NEW x \in Sample, NEW K \in SUBSET DOMAIN list, NEW t
    PROVE  /\ IsSlow(x, t) => Cardinality(SlowAt(After(list, x), Grown(list, K), t)) = Cardinality(SlowAt(list, K, t)) + 1
           /\ ~IsSlow(x, t) => Cardinality(SlowAt(After(list, x), Grown(list, K), t)) = Cardinality(SlowAt(list, K, t))
<1> DEFINE more == After(list, x)
           L == Grown(list, K)
           n == Len(list) + 1
           slow == IsSlow(x, t)
<1>0. more = Append(list, x) /\ L = K \cup {n}
  BY DEF After, Grown
<1>1. n \notin K /\ more[n] = x /\ \A i \in K : more[i] = list[i]
  BY <1>0, PositionsAfter
<1>2. IsFiniteSet(K)
  BY PositionsAreFinite
<1> HIDE DEF n, more, L
<1>3. SlowAt(more, L, t) = IF slow THEN SlowAt(list, K, t) \cup {n} ELSE SlowAt(list, K, t)
  BY <1>0, <1>1 DEF SlowAt
<1>4. SlowAt(list, K, t) \in SUBSET K /\ slow \in BOOLEAN
  BY DEF SlowAt, IsSlow
<1> HIDE DEF slow
<1>5. /\ Cardinality(SlowAt(list, K, t)) \in Nat
      /\ Cardinality(SlowAt(more, L, t)) = Cardinality(SlowAt(list, K, t)) + (IF slow THEN 1 ELSE 0)
  BY <1>1, <1>2, <1>3, <1>4, CountedAfter
<1>6. /\ slow => Cardinality(SlowAt(more, L, t)) = Cardinality(SlowAt(list, K, t)) + 1
      /\ ~slow => Cardinality(SlowAt(more, L, t)) = Cardinality(SlowAt(list, K, t))
  BY <1>5
<1> QED BY <1>6 DEF L, more, n, slow

\* One answer more lets at most one more of them be slow.
LEMMA AllowanceGrows ==
    ASSUME NEW n \in Nat \ {0}
    PROVE  /\ Allowance(n) \in Nat
           /\ Allowance(n) <= Allowance(n + 1)
           /\ Allowance(n + 1) <= Allowance(n) + 1
<1> DEFINE m == n - 1
           A == PctNum * m
           B == PctNum * (m + 1)
           q == A \div PctDen
           r == B \div PctDen
<1>1. PctNum \in Nat /\ PctDen \in Nat \ {0} /\ PctNum <= PctDen
  BY PercentileAssumption
<1>2. m \in Nat /\ n = m + 1
  OBVIOUS
<1>3. Allowance(n) = m - q /\ Allowance(n + 1) = (m + 1) - r
  BY <1>2 DEF Allowance
<1>4. q \in 0 .. m
  BY IndexInRange
<1> HIDE DEF m
<1>5. A \in Nat /\ B \in Nat /\ B = A + PctNum
  BY <1>1, <1>2
<1> HIDE DEF A, B
<1>6. /\ q \in Nat /\ q * PctDen <= A /\ A < (q + 1) * PctDen
      /\ r \in Nat /\ r * PctDen <= B /\ B < (r + 1) * PctDen
  BY <1>1, <1>5, Quotient
<1> HIDE DEF q, r
<1>7. r >= q
  <2> SUFFICES ASSUME r + 1 <= q PROVE FALSE
    BY <1>6
  <2>1. (r + 1) * PctDen <= q * PctDen
    BY <1>1, <1>6
  <2> QED BY <1>1, <1>5, <1>6, <2>1
<1>8. r <= q + 1
  <2> SUFFICES ASSUME q + 2 <= r PROVE FALSE
    BY <1>6
  <2>1. (q + 2) * PctDen <= r * PctDen
    BY <1>1, <1>6
  <2>2. (q + 2) * PctDen = (q + 1) * PctDen + PctDen
    BY <1>1, <1>6
  <2> QED BY <1>1, <1>5, <1>6, <2>1, <2>2
<1> QED BY <1>2, <1>3, <1>4, <1>6, <1>7, <1>8

\* An assertion about errors that does not pass, does not after a bad sample.
LEMMA BadSample ==
    ASSUME NEW list \in Seq(Sample), NEW x \in Sample, NEW K \in SUBSET DOMAIN list,
           NEW a, a.kind = "ErrorRateBelow", a.threshold \in Int, Bad(x),
           VerdictAt(a, list, K) # "Pass"
    PROVE  VerdictAt(a, After(list, x), Grown(list, K)) # "Pass"
<1> DEFINE more == After(list, x)
           L == Grown(list, K)
           k == Cardinality(K)
           b == Cardinality(BadAt(list, K))
           t == a.threshold
<1>1. /\ L # {} /\ Cardinality(L) = k + 1 /\ Cardinality(BadAt(more, L)) = b + 1
  BY OneMore
<1>2. BadAt(list, K) \in SUBSET K
  BY DEF BadAt
<1>3. k \in Nat /\ b \in Nat /\ (K = {} => k = 0)
  BY <1>2, PositionsAreFinite
<1> HIDE DEF more, L
<1>4. CASE t \notin 0 .. Scale
  BY <1>4 DEF VerdictAt
<1>5. CASE t \in 0 .. Scale
  <2>1. ~(b * Scale < t * k)
    <3>1. CASE K = {}
      <4>1. b * Scale >= 0 /\ t * 0 = 0
        BY <1>3, <1>5, PercentileAssumption
      <4> QED BY <1>3, <1>5, <3>1, <4>1, PercentileAssumption
    <3>2. CASE K # {}
      <4> DEFINE less == b * Scale < t * k
      <4>1. VerdictAt(a, list, K) = PassIf(less)
        BY <1>5, <3>2 DEF VerdictAt
      <4> HIDE DEF less
      <4>2. ~less
        BY <4>1, Zenon DEF PassIf
      <4> QED BY <4>2 DEF less
    <3> QED BY <3>1, <3>2
  <2>2. VerdictAt(a, more, L) = PassIf((b + 1) * Scale < t * (k + 1))
    BY <1>1, <1>5 DEF VerdictAt
  <2> HIDE DEF b, k, t
  <2>3. (b + 1) * Scale = b * Scale + Scale /\ t * (k + 1) = t * k + t
    BY <1>3, <1>5, PercentileAssumption
  <2>4. b * Scale \in Int /\ t * k \in Int
    BY <1>3, <1>5, PercentileAssumption
  <2>5. ~((b + 1) * Scale < t * (k + 1))
    BY <1>5, <2>1, <2>3, <2>4, PercentileAssumption
  <2> QED BY <2>2, <2>5 DEF PassIf, more, L
<1> QED BY <1>4, <1>5 DEF more, L

\* An assertion about statuses that does not pass on some samples, does not on more.
LEMMA OneMoreStatus ==
    ASSUME NEW list \in Seq(Sample), NEW x \in Sample, NEW K \in SUBSET DOMAIN list, K # {},
           NEW a, a.kind = "StatusCodeIn", VerdictAt(a, list, K) # "Pass"
    PROVE  VerdictAt(a, After(list, x), Grown(list, K)) # "Pass"
<1> DEFINE more == After(list, x)
           L == Grown(list, K)
<1>1. (\A i \in L : more[i].status_code \in a.allowed) => \A i \in K : list[i].status_code \in a.allowed
  <2>1. K \subseteq L
    BY DEF Grown
  <2>2. \A i \in K : more[i] = list[i]
    BY OneMore
  <2> HIDE DEF more, L
  <2> QED BY <2>1, <2>2
<1>2. L # {}
  BY DEF Grown
<1> HIDE DEF more, L
<1>3. VerdictAt(a, more, L) # "Pass"
  BY <1>1, <1>2 DEF VerdictAt, PassIf
<1> QED BY <1>3 DEF more, L

\* The verdict on the latency: unchanged by a failure, and by one answer more it moves
\* only to the side of the answer.
LEMMA OneMoreLatency ==
    ASSUME NEW list \in Seq(Sample), NEW x \in Sample, NEW K \in SUBSET DOMAIN list,
           NEW a, a.kind = "P99Under", a.threshold \in Int
    PROVE  LET before == VerdictAt(a, list, K)
               after == VerdictAt(a, After(list, x), Grown(list, K))
           IN  /\ x.error => after = before
               /\ ~x.error /\ x.latency > a.threshold /\ before = "Fail" => after = "Fail"
               /\ ~x.error /\ x.latency <= a.threshold /\ before = "Pass" => after = "Pass"
<1> DEFINE more == After(list, x)
           L == Grown(list, K)
           t == a.threshold
           n == Cardinality(AnsweredAt(list, K))
           m == Cardinality(AnsweredAt(more, L))
           s == Cardinality(SlowAt(list, K, t))
           u == Cardinality(SlowAt(more, L, t))
           before == VerdictAt(a, list, K)
           after == VerdictAt(a, more, L)
<1>1. /\ L \in SUBSET DOMAIN more
      /\ (x.error => m = n) /\ (~x.error => m = n + 1)
      /\ (IsSlow(x, t) => u = s + 1) /\ (~IsSlow(x, t) => u = s)
  <2>1. L \in SUBSET DOMAIN more
    BY OneMore
  <2>2. (IsSlow(x, t) => u = s + 1) /\ (~IsSlow(x, t) => u = s)
    BY OneMoreSlow
  <2>3. (x.error => m = n) /\ (~x.error => m = n + 1)
    BY OneMore
  <2> QED BY <2>1, <2>2, <2>3
<1>2. x.latency \in Int /\ x.error \in BOOLEAN /\ more \in Seq(Sample)
  BY DEF Sample, After
<1>3. n \in Nat /\ s \in Nat /\ (AnsweredAt(list, K) = {} <=> n = 0)
  <2>1. AnsweredAt(list, K) \in SUBSET DOMAIN list /\ SlowAt(list, K, t) \in SUBSET DOMAIN list
    BY DEF AnsweredAt, SlowAt
  <2> QED BY <2>1, PositionsAreFinite
<1>4. m \in Nat /\ u \in Nat /\ (AnsweredAt(more, L) = {} <=> m = 0)
  <2>1. AnsweredAt(more, L) \in SUBSET DOMAIN more /\ SlowAt(more, L, t) \in SUBSET DOMAIN more
    BY <1>1 DEF AnsweredAt, SlowAt
  <2> QED BY <1>2, <2>1, PositionsAreFinite
<1>5. before = IF a.metric # "latency_ms" \/ n = 0 THEN "Error" ELSE PassIf(s <= Allowance(n))
  BY <1>3 DEF VerdictAt
<1>6. after = IF a.metric # "latency_ms" \/ m = 0 THEN "Error" ELSE PassIf(u <= Allowance(m))
  BY <1>4 DEF VerdictAt
<1> HIDE DEF before, after, n, m, s, u, t, L, more
<1>7. x.error => after = before
  <2> SUFFICES ASSUME x.error PROVE after = before
    OBVIOUS
  <2>1. m = n /\ u = s
    BY <1>1, <1>3 DEF IsSlow
  <2> QED BY <1>5, <1>6, <2>1
<1>8. ASSUME ~x.error, x.latency > t, before = "Fail" PROVE after = "Fail"
  <2>1. m = n + 1 /\ u = s + 1
    BY <1>1, <1>8 DEF IsSlow
  <2>2. a.metric = "latency_ms" /\ n # 0 /\ ~(s <= Allowance(n))
    BY <1>5, <1>8 DEF PassIf
  <2>3. Allowance(n) \in Nat /\ Allowance(n + 1) <= Allowance(n) + 1
    BY <1>3, <2>2, AllowanceGrows
  <2>4. Allowance(n + 1) \in Int
    <3>1. n + 1 \in Nat \ {0}
      BY <1>3
    <3> QED BY <3>1, AllowanceGrows
  <2>5. ~(u <= Allowance(m)) /\ m # 0
    BY <1>3, <2>1, <2>2, <2>3, <2>4
  <2> QED BY <1>6, <2>2, <2>5 DEF PassIf
<1>9. ASSUME ~x.error, x.latency <= t, before = "Pass" PROVE after = "Pass"
  <2>1. m = n + 1 /\ u = s
    <3>1. ~IsSlow(x, t)
      BY <1>2, <1>9 DEF t, IsSlow
    <3> QED BY <1>1, <1>3, <1>9, <3>1
  <2>2. a.metric = "latency_ms" /\ n # 0 /\ s <= Allowance(n)
    BY <1>5, <1>9 DEF PassIf
  <2>3. Allowance(n) \in Nat /\ Allowance(n) <= Allowance(n + 1)
    BY <1>3, <2>2, AllowanceGrows
  <2>4. Allowance(n + 1) \in Int
    <3>1. n + 1 \in Nat \ {0}
      BY <1>3
    <3> QED BY <3>1, AllowanceGrows
  <2>5. u <= Allowance(m) /\ m # 0
    BY <1>3, <2>1, <2>2, <2>3, <2>4
  <2> QED BY <1>6, <2>2, <2>5 DEF PassIf
<1> QED BY <1>7, <1>8, <1>9 DEF before, after, L, more, t

-----------------------------------------------------------------------------
(* The evaluator on a list.                                                *)

\* Each assertion has the verdict of the positions measured; the kinds of NeverJudged
\* and an empty window are an Error; and the run is what its assertions reduce to.
LEMMA EvaluationIs ==
    ASSUME NEW p \in Plans, NEW list \in Seq(Sample)
    PROVE  LET e == EvaluateLoad(p, list)
               K == MeasuredAt(p, list)
           IN  /\ DOMAIN e.assertions = DOMAIN p.assertions
               /\ e.verdict = Reduce(e.assertions)
               /\ \A i \in DOMAIN p.assertions :
                    LET a == p.assertions[i]
                    IN  /\ LoadAssertion(a)
                        /\ p.warmup >= p.duration \/ K = {} \/ NeverJudged(a) => e.assertions[i] = "Error"
                        /\ a.kind # "ThroughputAbove" =>
                             e.assertions[i] = IF p.warmup >= p.duration THEN "Error" ELSE VerdictAt(a, list, K)
<1> DEFINE K == MeasuredAt(p, list)
           window == Measured(p, list)
           results == EvaluateEach(p, list)
<1>1. EvaluateLoad(p, list) = [verdict |-> Reduce(results), assertions |-> results]
  BY DEF EvaluateLoad
<1>2. /\ DOMAIN results = DOMAIN p.assertions
      /\ \A i \in DOMAIN p.assertions :
           results[i] = IF p.warmup >= p.duration THEN "Error"
                        ELSE EvalOne(p.assertions[i], p.duration - p.warmup, window)
  BY DEF EvaluateEach
<1>3. window = <<>> <=> K = {}
  BY WindowIs
<1>4. ASSUME NEW a, LoadAssertion(a), NEW effective
      PROVE  /\ K = {} \/ NeverJudged(a) => EvalOne(a, effective, window) = "Error"
             /\ a.kind # "ThroughputAbove" => EvalOne(a, effective, window) = VerdictAt(a, list, K)
  <2>1. CASE a.kind = "P99Under"
    <3>1. a.threshold \in Int
      BY <1>4, <2>1 DEF LoadAssertion
    <3>2. EvalOne(a, effective, window) = P99Under(a, window)
      BY <2>1 DEF EvalOne
    <3>3. P99Under(a, window) = VerdictAt(a, list, K)
      BY <2>1, <3>1, LatencyIs
    <3>4. VerdictAt(a, list, K) =
            IF a.metric # "latency_ms" \/ AnsweredAt(list, K) = {} THEN "Error"
            ELSE PassIf(Cardinality(SlowAt(list, K, a.threshold)) <= Allowance(Cardinality(AnsweredAt(list, K))))
      BY <2>1 DEF VerdictAt
    <3>5. K = {} => AnsweredAt(list, K) = {}
      BY DEF AnsweredAt
    <3>6. NeverJudged(a) => a.metric # "latency_ms"
      BY <2>1 DEF NeverJudged
    <3> HIDE DEF K, window
    <3> QED BY <3>2, <3>3, <3>4, <3>5, <3>6
  <2>2. CASE a.kind = "ErrorRateBelow"
    <3>1. EvalOne(a, effective, window) = ErrorRateBelow(a, window)
      BY <2>2 DEF EvalOne
    <3>2. ErrorRateBelow(a, window) = VerdictAt(a, list, K)
      BY <2>2, ErrorRateIs
    <3>3. K = {} \/ NeverJudged(a) => ErrorRateBelow(a, window) = "Error"
      BY <1>3, <2>2 DEF ErrorRateBelow, NeverJudged
    <3> QED BY <3>1, <3>2, <3>3
  <2>3. CASE a.kind = "ThroughputAbove"
    <3>1. EvalOne(a, effective, window) = ThroughputAbove(a, effective, window)
      BY <2>3 DEF EvalOne
    <3>2. K = {} \/ NeverJudged(a) => ThroughputAbove(a, effective, window) = "Error"
      BY <1>3, <2>3 DEF ThroughputAbove, NeverJudged
    <3> QED BY <2>3, <3>1, <3>2
  <2>4. CASE a.kind = "StatusCodeIn"
    <3>1. EvalOne(a, effective, window) = StatusCodeIn(a, window)
      BY <2>4 DEF EvalOne
    <3>2. StatusCodeIn(a, window) = VerdictAt(a, list, K)
      BY <2>4, StatusIs
    <3>3. K = {} \/ NeverJudged(a) => StatusCodeIn(a, window) = "Error"
      BY <1>3, <2>4 DEF StatusCodeIn, NeverJudged
    <3> QED BY <3>1, <3>2, <3>3
  <2> QED BY <1>4, <2>1, <2>2, <2>3, <2>4 DEF LoadAssertion
<1>5. \A i \in DOMAIN p.assertions : LoadAssertion(p.assertions[i])
  BY PlansAssumption
<1> HIDE DEF results, window, K
<1>6. ASSUME NEW i \in DOMAIN p.assertions
      PROVE  LET a == p.assertions[i]
             IN  /\ LoadAssertion(a)
                 /\ p.warmup >= p.duration \/ K = {} \/ NeverJudged(a) => results[i] = "Error"
                 /\ a.kind # "ThroughputAbove" =>
                      results[i] = IF p.warmup >= p.duration THEN "Error" ELSE VerdictAt(a, list, K)
  <2> DEFINE a == p.assertions[i]
  <2>1. LoadAssertion(a)
    BY <1>5
  <2>2. results[i] = IF p.warmup >= p.duration THEN "Error" ELSE EvalOne(a, p.duration - p.warmup, window)
    BY <1>2
  <2> HIDE DEF a
  <2>3. /\ K = {} \/ NeverJudged(a) => EvalOne(a, p.duration - p.warmup, window) = "Error"
        /\ a.kind # "ThroughputAbove" => EvalOne(a, p.duration - p.warmup, window) = VerdictAt(a, list, K)
    BY <1>4, <2>1
  <2> QED BY <2>1, <2>2, <2>3 DEF a
<1> QED BY <1>1, <1>2, <1>6 DEF results, K

\* The list holds samples, and the judgement is that of the plan and the list.
EvalInv ==
    /\ plan \in Plans
    /\ delivered \in Seq(Sample)
    /\ judgement = EvaluateLoad(plan, delivered)

\* A step delivers a sample of the next tick.
LEMMA Delivery ==
    ASSUME EvalInv, NEW a \in Answers, Deliver(a)
    PROVE  /\ \E x \in Sample : delivered' = After(delivered, x) /\ Newest' = x
           /\ plan' = plan /\ judgement' = EvaluateLoad(plan, delivered')
           /\ delivered' \in Seq(Sample)
<1> DEFINE x == [tick_index |-> Len(delivered), latency |-> a.latency,
                 status_code |-> a.status_code, error |-> a.error]
<1>1. delivered \in Seq(Sample) /\ delivered' = Append(delivered, x) /\ plan' = plan
  BY DEF EvalInv, Deliver
<1>2. judgement' = EvaluateLoad(plan, delivered')
  BY DEF Deliver
<1>3. x \in Sample
  <2>1. a.latency \in Int /\ a.status_code \in Int /\ a.error \in BOOLEAN
    BY AnswersAssumption
  <2>2. Len(delivered) \in Nat
    BY <1>1
  <2> QED BY <2>1, <2>2 DEF Sample
<1> HIDE DEF x
<1>4. delivered' \in Seq(Sample) /\ Len(delivered') = Len(delivered) + 1
      /\ delivered'[Len(delivered) + 1] = x
  BY <1>1, <1>3
<1>5. Newest' = x
  BY <1>4 DEF Newest
<1> QED BY <1>1, <1>2, <1>3, <1>4, <1>5 DEF After

\* The invariant of the evaluator: every list that is delivered has been evaluated.
LEMMA EvaluationInvariant == EvalSpec => []EvalInv
<1>1. EvalInit => EvalInv
  BY DEF EvalInit, EvalInv
<1>2. EvalInv /\ [EvalNext]_evalVars => EvalInv'
  <2> SUFFICES ASSUME EvalInv, [EvalNext]_evalVars PROVE EvalInv'
    OBVIOUS
  <2>1. ASSUME NEW a \in Answers, Deliver(a) PROVE EvalInv'
    <3>1. /\ plan' = plan /\ judgement' = EvaluateLoad(plan, delivered')
          /\ delivered' \in Seq(Sample)
      BY <2>1, Delivery
    <3> QED BY <3>1 DEF EvalInv
  <2>2. CASE UNCHANGED evalVars
    BY <2>2 DEF EvalInv, evalVars
  <2> QED BY <2>1, <2>2 DEF EvalNext
<1> QED BY <1>1, <1>2, PTL DEF EvalSpec

\* No assertion passes, or fails, where nothing was measured: it is an Error.
THEOREM NothingMeasuredNothingJudged == EvalSpec => []NoVacuousPass
<1>1. EvalInv => NoVacuousPass
  <2> SUFFICES ASSUME EvalInv, plan.warmup >= plan.duration \/ Window = <<>>,
                      NEW i \in DOMAIN plan.assertions
               PROVE  Judges(i, "Error")
    BY DEF NoVacuousPass
  <2>1. Window = <<>> <=> MeasuredAt(plan, delivered) = {}
    BY WindowIs DEF EvalInv, Window
  <2> QED BY <2>1, EvaluationIs DEF EvalInv, Judges
<1> QED BY <1>1, EvaluationInvariant, PTL

\* An assertion that can never be judged makes the run an Error.
THEOREM BrokenPlansAreErrors == EvalSpec => []BrokenPlanIsAnError
<1>1. EvalInv => BrokenPlanIsAnError
  <2> SUFFICES ASSUME EvalInv, NEW i \in DOMAIN plan.assertions, NeverJudged(Assertion(i))
               PROVE  judgement.verdict = "Error"
    BY DEF BrokenPlanIsAnError
  <2>1. /\ DOMAIN judgement.assertions = DOMAIN plan.assertions
        /\ judgement.verdict = Reduce(judgement.assertions)
        /\ judgement.assertions[i] = "Error"
    BY EvaluationIs DEF EvalInv, Assertion
  <2> QED BY <2>1 DEF Reduce, HasVerdict
<1> QED BY <1>1, EvaluationInvariant, PTL

\* The latency verdict counts the slow answers.
THEOREM PercentileCountsTheSlow == EvalSpec => []P99Reference
<1>1. EvalInv => P99Reference
  <2> SUFFICES ASSUME EvalInv, NEW i \in DOMAIN plan.assertions
               PROVE  LET answered == Select(Window, HasLatency)
                          n    == Len(answered)
                          slow == Cardinality({k \in DOMAIN answered : answered[k].latency > Assertion(i).threshold})
                      IN  /\ Assertion(i).kind = "P99Under" /\ ~NeverJudged(Assertion(i))
                          /\ plan.warmup < plan.duration /\ n > 0
                          => (Judges(i, "Pass") <=> slow <= (n - 1) - ((PctNum * (n - 1)) \div PctDen))
    BY DEF P99Reference
  <2> DEFINE a == Assertion(i)
             K == MeasuredAt(plan, delivered)
             answered == Select(Window, HasLatency)
             n == Len(answered)
             slow == Cardinality({k \in DOMAIN answered : answered[k].latency > a.threshold})
  <2> SUFFICES ASSUME a.kind = "P99Under", ~NeverJudged(a), plan.warmup < plan.duration, n > 0
               PROVE  Judges(i, "Pass") <=> slow <= Allowance(n)
    BY DEF Allowance
  <2>1. plan \in Plans /\ delivered \in Seq(Sample) /\ judgement = EvaluateLoad(plan, delivered)
    BY DEF EvalInv
  <2>2. LoadAssertion(a) /\ plan.warmup \in Nat /\ plan.duration \in Nat
    BY <2>1, PlansAssumption DEF Assertion
  <2>3. a.threshold \in Int
    BY <2>2 DEF LoadAssertion
  <2>4. judgement.assertions[i] = VerdictAt(a, delivered, K)
    <3>1. ~(plan.warmup >= plan.duration)
      BY <2>2
    <3>2. judgement.assertions[i] = IF plan.warmup >= plan.duration THEN "Error" ELSE VerdictAt(a, delivered, K)
      BY <2>1, EvaluationIs DEF Assertion
    <3> QED BY <3>1, <3>2
  <2>5. /\ n = Cardinality(AnsweredAt(delivered, K))
        /\ slow = Cardinality(SlowAt(delivered, K, a.threshold))
    BY <2>1, <2>3, LatencyIs DEF Window
  <2>6. AnsweredAt(delivered, K) # {}
    <3>1. AnsweredAt(delivered, K) \in SUBSET DOMAIN delivered
      BY DEF AnsweredAt, MeasuredAt
    <3> HIDE DEF K, n
    <3>2. AnsweredAt(delivered, K) = {} <=> Cardinality(AnsweredAt(delivered, K)) = 0
      BY <2>1, <3>1, PositionsAreFinite
    <3> QED BY <2>5, <3>2
  <2>7. a.metric = "latency_ms"
    BY DEF NeverJudged
  <2> HIDE DEF K, n, slow
  <2>8. VerdictAt(a, delivered, K) = PassIf(slow <= Allowance(n))
    BY <2>5, <2>6, <2>7 DEF VerdictAt
  <2> QED BY <2>4, <2>8 DEF Judges, PassIf
<1> QED BY <1>1, EvaluationInvariant, PTL

\* Before and after a sample: an assertion on errors, statuses or latencies has the same
\* verdict, or it is that of the positions measured before and of one position more.
LEMMA BeforeAndAfter ==
    ASSUME EvalInv, NEW b \in Answers, Deliver(b), NEW i \in DOMAIN plan.assertions,
           Assertion(i).kind # "ThroughputAbove"
    PROVE  LET K == MeasuredAt(plan, delivered)
               x == Newest'
           IN  /\ x \in Sample /\ delivered \in Seq(Sample) /\ K \in SUBSET DOMAIN delivered
               /\ Window = <<>> <=> K = {}
               /\ LoadAssertion(Assertion(i))
               /\ \/ judgement'.assertions[i] = judgement.assertions[i]
                  \/ /\ judgement.assertions[i] = VerdictAt(Assertion(i), delivered, K)
                     /\ judgement'.assertions[i]
                          = VerdictAt(Assertion(i), After(delivered, x), Grown(delivered, K))
<1> DEFINE K == MeasuredAt(plan, delivered)
           x == Newest'
           a == Assertion(i)
           L == MeasuredAt(plan, delivered')
<1>1. plan \in Plans /\ delivered \in Seq(Sample) /\ judgement = EvaluateLoad(plan, delivered)
  BY DEF EvalInv
<1>2. /\ x \in Sample /\ delivered' = After(delivered, x)
      /\ judgement' = EvaluateLoad(plan, delivered') /\ delivered' \in Seq(Sample)
  BY Delivery
<1>3. K \in SUBSET DOMAIN delivered /\ (Window = <<>> <=> K = {})
  BY <1>1, WindowIs DEF Window
<1>4. /\ LoadAssertion(a)
      /\ judgement.assertions[i] = IF plan.warmup >= plan.duration THEN "Error" ELSE VerdictAt(a, delivered, K)
  BY <1>1, EvaluationIs DEF Assertion
<1>5. judgement'.assertions[i] = IF plan.warmup >= plan.duration THEN "Error" ELSE VerdictAt(a, delivered', L)
  BY <1>1, <1>2, EvaluationIs DEF Assertion
<1>6. L = Grown(delivered, K) \/ L = K
  BY <1>1, <1>2, PositionsAfter DEF After, Grown
<1>7. L = K => VerdictAt(a, delivered', K) = VerdictAt(a, delivered, K)
  <2>1. \A k \in K : delivered'[k] = delivered[k]
    BY <1>1, <1>2, <1>3, PositionsAfter DEF After
  <2>2. a.kind \in {"P99Under", "ErrorRateBelow", "StatusCodeIn"}
    BY <1>4 DEF LoadAssertion
  <2> HIDE DEF K, a
  <2> QED BY <2>1, <2>2, VerdictOfAgreement
<1> HIDE DEF K, x, a, L
<1>8. CASE plan.warmup >= plan.duration
  BY <1>1, <1>2, <1>3, <1>4, <1>5, <1>8 DEF K, x, a
<1>9. CASE ~(plan.warmup >= plan.duration)
  BY <1>1, <1>2, <1>3, <1>4, <1>5, <1>6, <1>7, <1>9 DEF K, x, a
<1> QED BY <1>8, <1>9

\* A target cannot buy a Pass by failing more.
THEOREM FailuresBuyNothing == EvalSpec => FailingMoreNeverHelps
<1> DEFINE Claim(i) ==
        /\ Assertion(i).kind = "ErrorRateBelow" /\ Bad(Newest') /\ ~Judges(i, "Pass")
             => ~Judges(i, "Pass")'
        /\ Assertion(i).kind = "StatusCodeIn" /\ ~Judges(i, "Pass") /\ Window # <<>>
             => ~Judges(i, "Pass")'
        /\ Assertion(i).kind = "P99Under" /\ Newest'.error =>
             judgement'.assertions[i] = judgement.assertions[i]
<1>1. ASSUME EvalInv, NEW b \in Answers, Deliver(b), NEW i \in DOMAIN plan.assertions PROVE Claim(i)
  <2> DEFINE a == Assertion(i)
             K == MeasuredAt(plan, delivered)
             x == Newest'
  <2>1. CASE a.kind = "ThroughputAbove"
    BY <2>1
  <2>2. CASE a.kind # "ThroughputAbove"
    <3>1. /\ x \in Sample /\ delivered \in Seq(Sample) /\ K \in SUBSET DOMAIN delivered
          /\ Window = <<>> <=> K = {}
          /\ LoadAssertion(a)
          /\ \/ judgement'.assertions[i] = judgement.assertions[i]
             \/ /\ judgement.assertions[i] = VerdictAt(a, delivered, K)
                /\ judgement'.assertions[i] = VerdictAt(a, After(delivered, x), Grown(delivered, K))
      BY <1>1, <2>2, BeforeAndAfter
    <3>2. a.kind # "StatusCodeIn" => a.threshold \in Int
      BY <3>1 DEF LoadAssertion
    <3> HIDE DEF a, K, x
    <3>3. /\ a.kind = "ErrorRateBelow" /\ Bad(x) /\ VerdictAt(a, delivered, K) # "Pass"
               => VerdictAt(a, After(delivered, x), Grown(delivered, K)) # "Pass"
      BY <3>1, <3>2, BadSample
    <3>4. /\ a.kind = "StatusCodeIn" /\ K # {} /\ VerdictAt(a, delivered, K) # "Pass"
               => VerdictAt(a, After(delivered, x), Grown(delivered, K)) # "Pass"
      BY <3>1, OneMoreStatus
    <3>5. /\ a.kind = "P99Under" /\ x.error
               => VerdictAt(a, After(delivered, x), Grown(delivered, K)) = VerdictAt(a, delivered, K)
      BY <3>1, <3>2, OneMoreLatency
    <3> QED BY <3>1, <3>3, <3>4, <3>5 DEF Judges, a, x
  <2> QED BY <2>1, <2>2
<1>2. EvalInv /\ [EvalNext]_evalVars => [\A i \in DOMAIN plan.assertions : Claim(i)]_evalVars
  BY <1>1 DEF EvalNext
<1> QED BY <1>2, EvaluationInvariant, PTL DEF EvalSpec, FailingMoreNeverHelps

\* One answer moves the verdict only to its own side of the threshold.
THEOREM LatencyMovesWithTheAnswer == EvalSpec => LatencyIsMonotone
<1> DEFINE Claim(i) ==
        Assertion(i).kind = "P99Under" /\ ~Newest'.error =>
          /\ Newest'.latency > Assertion(i).threshold /\ Judges(i, "Fail") => Judges(i, "Fail")'
          /\ Newest'.latency <= Assertion(i).threshold /\ Judges(i, "Pass") => Judges(i, "Pass")'
<1>1. ASSUME EvalInv, NEW b \in Answers, Deliver(b), NEW i \in DOMAIN plan.assertions PROVE Claim(i)
  <2> DEFINE a == Assertion(i)
             K == MeasuredAt(plan, delivered)
             x == Newest'
  <2> SUFFICES ASSUME a.kind = "P99Under", ~x.error
               PROVE  /\ x.latency > a.threshold /\ Judges(i, "Fail") => Judges(i, "Fail")'
                      /\ x.latency <= a.threshold /\ Judges(i, "Pass") => Judges(i, "Pass")'
    OBVIOUS
  <2>1. /\ x \in Sample /\ delivered \in Seq(Sample) /\ K \in SUBSET DOMAIN delivered
        /\ LoadAssertion(a)
        /\ \/ judgement'.assertions[i] = judgement.assertions[i]
           \/ /\ judgement.assertions[i] = VerdictAt(a, delivered, K)
              /\ judgement'.assertions[i] = VerdictAt(a, After(delivered, x), Grown(delivered, K))
    BY <1>1, BeforeAndAfter
  <2>2. a.kind = "P99Under" /\ a.threshold \in Int /\ ~x.error
    BY <2>1 DEF LoadAssertion
  <2> HIDE DEF a, K, x
  <2>3. /\ x.latency > a.threshold /\ VerdictAt(a, delivered, K) = "Fail"
             => VerdictAt(a, After(delivered, x), Grown(delivered, K)) = "Fail"
        /\ x.latency <= a.threshold /\ VerdictAt(a, delivered, K) = "Pass"
             => VerdictAt(a, After(delivered, x), Grown(delivered, K)) = "Pass"
    BY <2>1, <2>2, OneMoreLatency
  <2> QED BY <2>1, <2>3 DEF Judges
<1>2. EvalInv /\ [EvalNext]_evalVars => [\A i \in DOMAIN plan.assertions : Claim(i)]_evalVars
  BY <1>1 DEF EvalNext
<1> QED BY <1>2, EvaluationInvariant, PTL DEF EvalSpec, LatencyIsMonotone
=============================================================================
