# ematix-probe in TLA+

ematix-probe runs two kinds of probes. A *data probe* asserts properties of a
table, on Postgres (by SQL) or on DuckDB, Parquet and S3 (by scanning Arrow
batches). A *load probe* sends requests to an HTTP or Postgres target on a
schedule and asserts properties of the answers. The engine is Rust on tokio
(`crates/ematix-probe-core`); a Python package builds the plans, runs data probes
from a CLI and from pytest, and keeps a history of the runs in SQLite.

This directory has TLA+ modules for the parts of it that decide something: the
two load schedulers, the evaluators, the two ways to judge a table, the adapters
that read one, the CLI with its history, and the pytest plugin. TLC checks each of
them on small instances, and TLAPS proves the safety and action properties of all of
them for all instances (section 5). Paths below are relative to
the repository; `core` is `crates/ematix-probe-core/src`, `py` is
`python/ematix_probe`.

## 1. The system

| part | code | state | operations | what makes it hard |
|---|---|---|---|---|
| virtual-user pool | `core/engine/load/scheduler.rs` `VuPool::run` | deadline, shared counter, one list per worker, handles | spawn, check the deadline, claim, call, join, sort | threads, panics, a deadline read before it is acted on |
| constant-rate scheduler | same file, `ConstantRateScheduler` | baseline, next index | `next_tick` | drift, catching up, rounding |
| load adapters | `core/adapters/load/{http,postgres}.rs` | task handles, samples | `collect_samples` in both modes | late answers, panicked tasks, no timeout on Postgres |
| load evaluator | `core/engine/load.rs` | none (a function) | `evaluate_load`, four assertions | warmup, empty lists, percentile index |
| scan evaluator | `core/engine/scan.rs` | one accumulator per assertion | `build`, `update` per batch, `finalize` | state across batches, NULL, NaN, types |
| Postgres data adapter | `core/adapters/data/postgres.rs` | connection pool, verdicts so far | `execute`, one query per assertion | other clients, failure half way, SQL's own rules |
| DuckDB, Parquet, S3 adapters | `core/adapters/data/*.rs` | connection behind a mutex, an open file, a temporary file | `execute`, `execute_setup`, `open`, `next_batch` | blocking threads, a poisoned mutex, files that change while they are read |
| Python bindings | `crates/ematix-probe-py` | none | plan from Python, `AdapterError` to an exception | errors change their kind |
| CLI | `py/cli.py` | exit flag | `run`, `list`, `explain`, `doctor` | uncaught exceptions, kills |
| run history | `py/run_history.py` | two tables in SQLite | open, `record` | several processes, locks, crashes in between |
| pytest plugin | `py/pytest_plugin.py` | one cached report per probe | collect, run | which item runs first |
| builder, flow shim, reports | `py/{probe,flow,duration,source,report}.py` | none | build a plan, write JUnit | key groups from a table |

How they interact. The CLI (or pytest) discovers probes, builds a plan for each
and calls the Rust adapter through the bindings; the data adapter evaluates the
plan and returns a `RunSummary`, which the CLI records and prints. The scan adapters
(DuckDB, Parquet, S3) give each synchronous call to tokio's blocking threads. A load run
has no such runner in the Python package: the repository's examples and tests call `collect_samples` of a load adapter and hand the list to
`evaluate_load`, and the composed models do the same. The scheduler, the tasks and
the collector share only handles and lists; the pool's workers share an atomic
counter; CLI processes share a SQLite file; the Postgres adapter shares the table
with everybody.

What makes each part correct:

- **Pool.** No tick is claimed twice and none is skipped; what a surviving worker
  recorded is returned, once, in order; nobody begins more than one call late;
  only a call that never ends can hang it.
- **Scheduler and collectors.** No tick is early, dropped or repeated, however late
  the runner is. Ok means a complete list, Err means that a call panicked.
- **Load evaluator.** Nothing passes on nothing. A plan that cannot be judged is an
  Error and not masked by other assertions. A target cannot improve a verdict by
  failing.
- **Scan evaluator.** The verdicts are those of the table, whichever batches it
  comes in. A violation is never forgotten.
- **Postgres adapter.** Ok answers the whole plan. A Fail about rows is still true
  at the end if others only insert.
- **Scan adapters.** An Ok is about one version of the table. An Err has a cause
  outside the adapter. Every call ends, and nothing is left in the temporary directory.
- **Both evaluators.** They agree, or the place where they do not is known.
- **Flow shim.** The derived plan passes no table that breaks its declaration, and
  fails none that conforms.
- **pytest plugin.** One execution decides all the items of a probe, and they are
  green when the CLI would count a pass.
- **CLI and history.** A run is recorded whole or not at all, what was printed is
  recorded, exit code 0 means that everything passed, and records are never changed.

The hazards behind these, each at its line, are in `PROJECT.json`.

## 2. The modules

```
 TickLists ── SampleCollection (abstract)          Verdicts
     │              ▲   ▲                             │
     │   implements │   │ implements                  │
     ├── VuPool ────┘   └──── ConstantRate         LoadEval
     │     │                      │                   │
     │     └─► ClosedLoadRun ◄────┼───────────────────┤   (VuPool + LoadEval)
     │                            └─► OpenLoadRun ◄───┘   (ConstantRate + LoadEval)
     │
  Tables ── ScanAcc ── ScanRun            CliRun (Verdicts)
     └───── PgSql ──── PgRun
             CrossEngine = ScanRun with PgSql's verdicts beside it
             FlowRun = CrossEngine with the plans of FlowTable

  BlockingPool ── AdapterCalls ─┬─ DuckDbRun ──┐
                                └─ ParquetRun ─┴─ ScanAdapters ──► DataAdapterContract
                                                          implements   (abstract)
  PytestRun (Verdicts)
```

**TickLists** – lists of tick indices, and `sort_by_key(|s| s.tick_index)` as a
stable sort by rank. A sample is its tick index wherever its content does not
matter.

**SampleCollection** – the abstract specification of `collect_samples`: ticks are
issued in order, a call is settled or lost, and the samples are returned sorted and
complete once nothing is open. `TolerateLoss` says whether a lost call is dropped
(the pool has no error channel) or ends in an Err (the open model).

**VuPool** – `VuPool::run`. `pc[w]` is where a worker's loop is. `CheckDeadline`,
`ClaimTick` (the `fetch_add`) and `FinishWork` or `PanicInWork` are separate steps,
because other threads run between them; `SpawnNext`, `JoinNext`, `ReturnSorted` are
the caller. `joined` goes through the workers in spawn order, as the code awaits
the handles. `late` is a history variable.

**ConstantRate** – `next_tick` and the loop of `collect_constant_rate`, which is
the same in the HTTP and in the Postgres adapter. `sched` is where `next_tick` is
(`BeginTick` computes the instant and ends or sleeps, `Wake` ends a sleep, `Fire`
stamps the tick, advances the index and spawns the task). `tasks[h]` is a spawned
call; `JoinOk`, `JoinErr` and `Return` are the join loop. The period is rounded to
clock units as `Duration::from_secs_f64` rounds it to nanoseconds.

**Verdicts, LoadEval, LoadEvalRun** – `reduce_verdict`; `evaluate_load` and the four
assertions, a function; and that function on every prefix of a list that grows by one
sample at a time, for any plan of `Plans`, so that properties can compare a list with
the next one. Floats are ratios of integers (section 6).

**OpenLoadRun, ClosedLoadRun** – the collectors with answers, followed by the
evaluator. They extend the collector's module and conjoin to each of its actions
what happens to the answers. `warming` of ClosedLoadRun is a history variable, the ticks
whose calls were over before the warmup was, with which the throughput of the measured
window is stated; the code keeps no such record.

**Tables, ScanAcc, ScanRun** – cells, schemas, assertions; `Acc::build`, `update`,
`finalize`; and `evaluate` over an external `Scanner` that yields any rows in
batches of any length, the empty one too, or fails. `Broken` stands for
`Acc::Error`. A percentile over a NaN hands `sort_by` a comparison that is no order:
`EndOfStream` then takes any value for the one at the rank, or the sort panics
(`SortPanics`), which unwinds through `evaluate`.

**PgSql, PgRun** – what each query counts, given SQL's rules for NULL, NaN and
types, and what the adapter makes of it; and `execute`: one assertion after the
other, each with its own connection and snapshot (`Acquire`, `Query`), while others
`Insert` and `Delete`. `RejectConfig` and `QueryFails` are the `?` that ends a run.
A run begins with `connect`: `RejectUrl` for a URL that does not parse, then a
connection and the `SELECT 1` (`Acquire`, `Connected`), with the same failures.

**CrossEngine** – a run of ScanRun next to what PgSql says of the same table at the
same moment: its properties compare the two for every assertion both accept.

**FlowTable, FlowRun** – `probe_from_table`: NOT NULL for the columns that are not
nullable, one key group for the primary key, one for each declared constraint that
is not there yet; each list is given by the positions of what it takes (`FirstMet`).
FlowRun adds to CrossEngine what a declaration says of a table, in
SQL's terms, and relates it to the verdicts of the derived plan.

**BlockingPool, AdapterCalls** – tokio's blocking threads (a queue, at most `Threads`
jobs at a time, a job that blocks keeps its thread), and what every adapter keeps of a
call: where it is, its answer, and two histories, the version it looked at and whether
something outside the adapter failed it.

**DuckDbRun** – `execute` and `execute_setup` on one connection. `Lock` takes the
mutex on a blocking thread, or is refused because it is poisoned; `Select` is the
query and the collection of its batches; `ExecuteNext` is one statement of a setup
batch, which commits by itself; `DuckFails` is a `?` and `DuckPanics` a panic, both
under the lock.

**ParquetRun** – `ParquetAdapter` and `S3ParquetAdapter`. `Validate` is `open`,
`OpenReader` the first job of `execute`, `NextBatch` a job per row group; `Get`,
`StoreTemp`, `WriteEnds` and `Flushed` are the download and the temporary file, which
the adapter then reads as a local one. A path names an inode, an inode has a content:
`ReplaceFile` (a rename) and `RemoveFile` leave those who have the old file open
alone, `BeginOverwrite` truncates it under them.

**ScanAdapters, DataAdapterContract** – both on one pool, and the abstract
specification of `execute`: a call looks at the table once, at some moment between its
beginning and its answer, and an Ok is about what it saw. A Parquet run takes many
steps for that look; the refinement mapping makes it the opening of the reader, or the
download. The Python bindings make an adapter and a runtime for each call; several
calls on one adapter, which `DataAdapter: Send + Sync` invites, are those of a Rust
program that uses the library.

**PytestRun** – a session over the items of several probes. `RunFirst` is the item
that executes the probe and fills `_cached`, `RunCached` one that reads it. pytest is
external: it deselects and orders items, stops at a failure or at an interrupt.

**CliRun** – several `ematix-probe run`, with `--run-history-db` on one file or
without. `Discover`, `NoProbes` or `ImportFails` is the import of the probe file;
`RunProbe` or `ProbeRaises` is `p.run()`; `InsertRun`, `InsertAssertions` and `Commit` are
`record`; then `PrintReport`. SQLite is external: `db` is what is on disk, `txn`
what the writer sees, and `writer` has the lock. `Kill` may happen anywhere.
A `commit` that raises is not modelled apart: for the database it is a `Kill`.

The `MC*` modules give small instances. Definitions commented "Plausible bug" are
the variants that each property must be able to tell from the code; nothing in the
specifications uses them.

## 3. The runs

Runs that pass:

| run | instance | states | what it shows |
|---|---|---|---|
| `vu_pool` | 3 workers, deadlines 0 and 2, panics | 264 227 | unique ticks, complete sorted return, at most one late call each, hangs only on a call, implements SampleCollection |
| `open_load_run` | 4 ticks, period 1 (rounded from 4/3), start at 0 or 1, clock to 5, 4 warmups, 2 answers, panics | 822 020 | never early, each tick once, honest outcome, hangs only on a call, implements SampleCollection; a Pass covers the schedule, a Fail has a witness |
| `closed_load_run` | 2 workers, 3 warmups, 3 answers, panics | 199 851 | the verdict speaks for the surviving workers |
| `load_eval` | every list of up to 6 of 4 kinds of answers, 16 plans | 87 376 | no vacuous pass, broken plans are Errors, percentile equals its reference, failing more never helps, latency is monotone |
| `scan_run` | 37 assertions, tables of up to 4 rows of 5 kinds, batches of up to 2, both evaluators, 3 declarations | 24 537 | verdicts are those of the table, freshness is off by less than a second (two before 1970), a violation is for good, Postgres agrees off three named edges and is the stricter on them, a derived probe judges its declaration, if the engine can judge its keys |
| `pg_run` | 9 plans, up to 2 rows, 2 writes | 60 090 | Ok answers the plan, Fails outlive inserts, quiet runs are consistent |
| `scan_adapters` | any 3 of a select, a setup batch, a local and a remote Parquet call; 2 threads, 2 row groups, 2 versions | 233 944 | no torn batch, an Err has a cause, one version per Ok (implements DataAdapterContract), every call ends |
| `pytest_run` | probes of 2, 1 and 0 assertions, every selection and order | 685 | one execution per probe decides its items, green is what the CLI counts as a pass |
| `cli_run` | 2 processes, 2 probes, 4 reports, with and without a history, kills, locks | 60 525 | whole runs, printed is recorded, exit 0 is honest, the history only grows |

Why the bounds are enough. The interesting pool interleavings need two workers in
flight and one that joins late: three. In the open model the third tick is the
first that can be caught up with while another is due and an earlier task is still
open, and the clock goes on past the last instant, so that ticks drift. The rate is
three ticks in four units: the period is rounded from 4/3 down to 1, and the plan has a
fourth tick, whose exact instant is the end of the plan (the example of `scheduler.rs:61`
below, on a coarse clock); `warmup * rps` is a whole number or not. The percentile is 3/4 in `load_eval`, so that lists of up to six samples
cross its index steps as lists of hundreds cross those of 99/100. Four rows in
batches of up to two give a duplicate within a batch, one across batches, a third
copy, and empty batches. Two writes put one before and one after any query.
Three calls on two threads make one wait for a thread and, if two of them want the
connection, one for the mutex with a thread in its hands; two row groups and two
versions are enough to mix a file, two statements to tear a batch. Two
processes are enough for every conflict over one lock; two probes give one behind
and one ahead. `SYMMETRY` over the processes is used in `cli_run`, which has no
liveness property. The named bounds are `MaxTime`, `StartBy`, `MaxSamples`,
`MaxBatch`, `MaxRows`, `MaxPulls`, `MaxWrites`, `NumProbes`, `MaxCalls` and
`MaxVersion`. In `VuPool` a call
may still end when the clock is at `MaxTime`, so that the bound does not stop calls.

Deadlock is checked, except in `load_eval`, where the instance is a list that
grows to its bound and there is no program to stop. The other modules say in a
`Terminated` or `Ended` step when they may stop for good.

Runs that disagree with a comment or a test. Each checks one sentence of the
repository against the code, and TLC shows how the code breaks it; the quotes are
in `PROJECT.json`.

| run | what the counterexample shows |
|---|---|
| `closed_load_throughput` | with virtual users the warmup shortens the time but drops no sample: one call is over within the warmup and one falls in the window after it, both are divided by the time of the window, and an asserted rate of two passes where the window had one |
| `cross_engine_same` | the engines give different verdicts on one table (NaN under Between; several NULLs under Unique; the second around the limit of Freshness) |
| `cli_errors` | an adapter error ends the process with no verdict for its probe or the rest |

The models reproduce other places where a comment says something else than the
code. The properties above take them into account, and no run is spent on them:

- `scheduler.rs:61` rounds the period, `scheduler.rs:5` and `tests/load_scheduler.rs:21`
  speak of exact instants. At 3 ticks per second the period is 333 333 333 ns, and
  tick 3 of a plan of one second, due at 999 999 999 ns, is emitted.
- `scheduler.rs:136` drops all samples of a worker that panicked, `:104` says that
  each sample lands in the output. A worker first scheduled after the deadline makes
  no call; `tests/load_vu_pool.rs:46` counts on one per worker.
- `load.rs:202` drops `floor(warmup * rps)` ticks, `:196-198` says that a tick is in the
  warmup iff `i / rps < warmup_secs`. At one tick per second and a warmup of 1.5 s, tick
  1 is measured (`FailHasAWitness` goes one period into the warmup).
- `load.rs:51-54` speaks of the achieved rate and of a scheduler that keeps up; in the
  open model an Ok has every tick (`EveryTickOnce`), so that the verdict is decided by
  the plan, before the first call.
- `scheduler.rs:7-10` records the drift of a tick for those downstream; both adapters
  drop it with the tick (`http.rs:63-69`).
- `scan.rs:16-18` promises type errors without a row; Between on a text column
  passes when no batch comes (`Judgeable` of ScanRun).
- `data.rs:40-42` takes a key with a NULL as distinct; the scan path and SQL take
  equal ones as duplicates. `data.rs:31-33` says the same of a single column, and
  SQL does not.
- `scan.rs:975-982` divides towards zero: a timestamp before 1970 is rounded up, and the
  clock down, so that Freshness may pass up to two seconds too late there (`Slack` of
  ScanRun; the instance has such a row).
- `flow.py:40-46` promises `unique` of any primary key; `scan.rs:212-263` keys rows by
  integers and texts only, so that the derived probe of a table with a timestamp or a
  float in its key ends in an Error (`CanBeJudged` of FlowRun).
- `source.py:62-64` gives a `:memory:` database the lifetime of the probe; each run opens
  a connection, and with it an empty database, of its own (`lib.rs:237`).
- `pytest_plugin.py:12-14` promises one `run()` per probe; it is one per collector
  (`OneExecution`), and a probe bound to two names in a module, or imported into two, has
  two. `_discover_probes` (`cli.py:89-97`) likewise runs an alias again.
- `README.md:34` promises the same verdicts from the CLI and from pytest. A probe
  without assertions passes in the CLI and has no item in pytest (`GreenMeansPass`
  speaks of probes that ran).
- `cli.py:50` promises a row per execution; a report that meets a locked database is
  neither recorded nor printed (`Locked` of CliRun).

## 4. Fairness

`FairSpec` of VuPool and `RunFairSpec` of OpenLoadRun (that of ConstantRate) assume
weak fairness of the caller's and of the scheduler's own steps, of each worker's check
and claim, and of the clock: tokio polls what is ready, and time passes. Nothing is
assumed of the calls. The HTTP client has a timeout but the Postgres adapter sets none,
so a call may never be answered, and the liveness property says exactly that: `run()`
ends *unless* some call stays in flight for ever. Nor is it assumed that a verdict is
asked for.

`FairSpec` of ScanAdapters assumes weak fairness of each call once it is made: a thread
takes the oldest job, and what a thread was given ends, because DuckDB and the file
system answer, be it with an error. The mutex of the standard library promises no order
among those who wait. Weak fairness of a call is still enough, because the calls in
flight are finitely many and each ends after it had the lock: sooner or later the lock
stays free for the last who waits. Nobody has to make a call, and nobody has to leave
the files alone.

The other modules state no liveness, and assume no fairness.

## 5. The proofs

`tlapm` checks these theorems, for every value of the constants that the
assumptions allow:

| module | theorem | states |
|---|---|---|
| VuPoolProofs | TypeCorrect | `TypeOK` |
| | UniqueTicks | `EachTickClaimedOnce` |
| | ReturnComplete | `ReturnsEverySurvivingSample` |
| | LateCalls | `AtMostOneLateCall` |
| | Implements | VuPool implements SampleCollection |
| | VerdictIsAboutTheSurvivors | `VerdictSpeaksForTheSurvivors` of ClosedLoadRun |
| OpenLoadProofs | TypeCorrect | `TypeOK` |
| | TicksAreNotEarly | `NeverEarly` |
| | CompleteOnOk | `EveryTickOnce` |
| | HonestOutcome | `OutcomeIsHonest` |
| | Implements | ConstantRate implements SampleCollection |
| | PassSpeaksForTheSchedule | `PassCoversTheSchedule` of OpenLoadRun |
| | FailIsWitnessed | `FailHasAWitness` of OpenLoadRun |
| | NothingMeasuredNothingJudged | `NoVacuousPass` of LoadEvalRun |
| | BrokenPlansAreErrors | `BrokenPlanIsAnError` of LoadEvalRun |
| | PercentileCountsTheSlow | `P99Reference` of LoadEvalRun |
| | FailuresBuyNothing | `FailingMoreNeverHelps` of LoadEvalRun (an action property) |
| | LatencyMovesWithTheAnswer | `LatencyIsMonotone` of LoadEvalRun (an action property) |
| ScanRunProofs | VerdictsAreSound | `VerdictsMatchTheTable` |
| | FreshnessIsNearlyExact | `FreshnessErrsByLessThanASecond` |
| | FailsAreForGood | `FailIsForGood` (an action property) |
| | EnginesAgree | `AgreeOffTheEdges` of CrossEngine |
| | PushdownRejectsMore | `PushdownIsStricter` of CrossEngine |
| | DerivedProbesAreRight | `DerivedProbeJudgesTheDeclaration` of FlowRun |
| PgRunProofs | OkIsComplete | `OkAnswersThePlan` |
| | FailsAreNotStale | `FailsOutliveInserts` |
| | QuietRuns | `QuietRunsAreConsistent` |
| ScanAdaptersProofs | WholeBatches | `NoTornBatch` |
| | EveryErrHasACause | `ErrHasACause` |
| | KeepsTheContract | ScanAdapters implements DataAdapterContract |
| PytestRunProofs | ExecutedOnce | `OneExecution` |
| | GreenIsAPass | `GreenMeansPass` |
| CliRunProofs | TypeCorrect | `TypeOK` |
| | RunsStayWhole | `RunsAreWhole` |
| | PrintedStaysRecorded | `PrintedIsRecorded` |
| | ExitZeroIsEarned | `ExitZeroIsHonest` |
| | HistoryIsAppendOnly | `AppendOnly` (an action property) |

The proof module of a component extends its module, and states the inductive
invariant, `IInv` in most, of which the theorems are consequences.

### Assumptions

- Load runs: `Count`, the warmups and the clock bound are natural numbers and no
  deadline is after the clock bound; the rate, the resolution and the *rounded period*
  are positive (a rate above two billion per second would round to a zero period, and
  `next_tick` would never end); the runner starts by `StartBy`. Panics are allowed or
  not, in both cases.
- Two theorems about OpenLoadRun have a hypothesis on the *drift*, which is the
  rounding of the period times the index. `warmup * rps` is computed with the exact
  rate, the ticks with the rounded period, and over a long plan the two part.
  `RoundedUpByLessThanATick` says that by the last tick of the plan they differ by less
  than a tick, `RoundedDownByAtMostAUnit` that they differ by no more than a clock
  unit. The second is sufficient, not necessary: the instance of `open_load_run` drifts by
  more, and TLC finds no violation there. Without the first `PassCoversTheSchedule` is
  false: with 3 units per second,
  2 ticks per second, a plan of 9 units and a warmup of 6, the period is 2, tick 3 is
  due at 6, and `floor(6 * 2 / 3) = 4` ticks are dropped. With nanoseconds a rate that
  divides a billion never drifts (`EvenRatesNeverDrift`), whatever the plan; 15 000 per
  second, to take one that does not, is a tick off after 13 seconds, and what is then
  dropped, or measured, at the edge of the warmup is one tick more or less.
- Scans: NULL and NaN are no integers; the cells of a numeric or timestamp column
  of a row are of its type (`RowsAssumption`; other cells are any value); bounds, percentiles and
  windows are integers; the clock does not start before 1970. Schemas, rows and plans
  are otherwise arbitrary, plans that cannot be judged included.
- Load evaluator: plans have times that are natural numbers, a rate that is one or
  none, thresholds that are integers of the scale, and an allowed set without the
  sentinel of a missing status; samples have integer latencies. The percentile is any
  ratio from 0 to 1, and lists have any length.
- Flow shim: a declaration has finite lists of columns and of constraints, and what is
  derived from it is among the assertions of the run.
- Adapters, pytest, CLI: the sentinels (`None`, `NoOne`) are no callers, the kinds of
  calls are disjoint, reports have the verdicts that the data engine knows. The sets
  of calls, of processes and of items need not be finite.

### The arguments

*The pool.* `EachTickClaimedOnce` is inductive with types: a worker
holds what it recorded and what it has in flight, and `fetch_add` gives it an index
above all that are held. `ReturnsEverySurvivingSample` is not inductive by itself,
because it speaks of the moment of the return only. `IInv` adds `CallerInv` (the
spawn loop ends before the join loop begins, and a joined worker never steps again)
and `CollectInv` (what is collected so far is what the joined survivors recorded,
without duplicates). Unique ticks are what makes the collected list free of
duplicates, and such a list sorted is strictly increasing (`SortTicks`).
`LateInv` says that a worker that is late once will find the deadline passed. A
closed load run takes steps of the pool, so that all of this holds of it; `JudgedInv`
adds what the evaluation read, and holds because the pool has returned by then.

*The open model.* `ScheduleInv` says that each index below
`next_index` is scheduled before the end and, once the scheduler has ended,
`next_index` is not; multiples of the period are monotone, so that the ticks fired
are exactly those of the plan (`PlanIsAnInterval`). `JoinInv` says that the list so
far is 0, 1, 2, ... of answered tasks. An open load run takes steps of ConstantRate
(`RunRefinesCollector`); the rest is arithmetic about a tick and the warmup
(`DueIsMeasured`, `MeasuredIsDue`).

Both refinements then map each step to a step of SampleCollection or to a stutter:
a claim or a firing to `Issue`, an answer to `Settle`, a panic to `Lose`, the
return to `ReturnOk` or `ReturnErr`.

*The load evaluator.* `EvalInv` only says that the list holds samples and was
evaluated; the work is to say what the verdicts are, and `VerdictAt` says it by
counting *positions* of the list: those that are measured, and among them the
answered, the slow and the bad ones (`WindowIs`, `ErrorRateIs`, `StatusIs`, `LatencyIs`;
a filter of a filter has as many elements of a kind as the positions it takes,
`PickedCount`). For the percentile, the value at rank `q + 1` of the sorted latencies has
at most `q` values below it and at least `q + 1` up to it (`RankOfSorted`), so that it
is within the threshold iff at most `n - 1 - q` are over it (`PercentileIs`): the verdict
does not depend on the order, and needs no sort to be stated. A sample more adds one position,
or none if it is in the warmup (`PositionsAfter`, `OneMore`, `OneMoreSlow`), and lets at
most one answer more be slow, and no fewer (`AllowanceGrows`): that is all that the two
action properties need.

*Scans.* `VerdictsMatchTheTable` speaks of the end of the stream. `AccsInv` says what
an accumulator knows before: of the rows so far, whatever the batches they came in, a
counter is zero iff no row violates; `seen` is the set of keys and `dup_count` is zero
iff no two rows have one; `max_value` is the maximum; the list of a percentile is the
cells of the column, *in order*, which is what lets its length and the number of cells
below a value be counted (`ListedCount`). One that `build` rejected, or the first batch
broke, is `Broken` and stays so. `UpdateKnows` is the step: a batch is appended to the
table, and every accumulator takes it in. A value of a sorted list at some rank is the
only one with fewer cells below it than the rank and enough up to it (`RankOfSorted`,
`OneAtRank`). `FailsAreForGood` is about pairs of states, and follows from `AccsInv` in
both: rows that violate are not removed by rows that follow.

*Both engines.* `PgHolds` is what a query of the pushdown asks of a table, `Holds` what
the accumulators say of it; `Stricter` and `OffTheEdges` compare them kind by kind. The
three edges are the hypotheses that these need: NaN, several NULLs, and the second at
the limit.

*Flow shim.* A key group is in the derived plan iff it is a declared key that is not
empty: of the positions where a group is met, there is a first one (`GroupsOf`). So the
assertions derived are NOT NULL of the columns that are not nullable and uniqueness of
the declared keys (`DerivedPlanIs`), each of which is in the plan of the run and has
the verdict that `VerdictsMatchTheTable` gives it. What remains is that a key without
repeats in the engine's sense is one in SQL's (`KeyMeans`), and without NULLs conversely.

*Postgres.* `FailsOutliveInserts` and `QuietRunsAreConsistent` need that the verdict at
hand is about the table at hand (`Query` reads it at once) and that a row more takes no
violation away (`InsertKeepsFail`); `OkAnswersThePlan` that a connection is held only
for an assertion that can be asked (`ClientInv`).

*Scan adapters.* `MutexInv`: one call has the connection, and found it healthy.
`BatchInv`: a batch that is there in part is in progress, or was answered with an
error, or has poisoned the mutex; so whoever gets the lock sees whole ones. `LocalInv`:
what the open handle holds is what the call saw, unless the file is overwritten under
it; `RemoteInv`: the temporary file is complete once the write has left the pool. The
refinement maps a call that is opening or downloading to one that has not looked yet;
each look is then one step of the contract.

*pytest.* The cache is the history: `cached` is empty until the one execution and is
what that came to from then on, and whatever an item was told is read from there.

*CLI.* `LockInv`: the lock is held inside `record`, and nothing is uncommitted outside
it. `TxnInv`: what the writer sees is the database on disk, with its run, and with its
results once they are inserted. `RecordedInv`: what is printed is on disk, the report at
hand from its commit on and not before. `RunsAreWhole` and `PrintedIsRecorded` say
nothing of an open transaction, and are not inductive without it.

`TickListsProofs` has the lemmas on lists: what appending, concatenating and
sorting keep, and what the positions in order of a filter are (`PickedTicks`). The sort
is by rank; the proof that each rank is taken once is by
counting, and that a finite set has a maximum by the least counterexample, since
induction on the list is out of the prover's reach.

### Only model-checked

Liveness (`HangsOnlyOnACall`, `EveryCallEnds`): fairness and ENABLED are out of the
prover's reach.

Every invariant and every action property that a passing run checks is a theorem.

## 6. What the models leave out

- *Floats.* Thresholds and rates are ratios of integers. The percentile index
  `floor(0.99 * (n - 1))` in binary floating point was compared with the exact floor
  for every n below two million and is the same. The product `warmup * rps` may be
  rounded below an integer (0.29 s at 100 per second gives 28), so that `floor` is
  one lower than the exact one; `FailHasAWitness` allows for it, the model computes
  the exact floor.
- *Widths.* The integer and float types of a column are one numeric type each;
  counters do not overflow.
- *Latencies* in the composed runs; `load_eval` has them.
- *Regular expressions* are the set of strings they match; `NULL` is one that does
  not compile. The two engines' dialects are not compared.
- *Messages, details, formatting*, quoting of identifiers, building of clients
  (`DuckDbAdapter::open` and `S3ParquetAdapter::open` too: they fail before anything is
  shared).
- *What the scan adapters yield*: ScanAdapters follows versions, ScanRun rows; its
  external scanner covers what the three can yield. A future that is dropped before its
  blocking job has ended is not modelled: the bindings never drop one.
- *`list`, `explain`, `doctor`*: they change nothing.
- *Pytest with several processes* (xdist): each has a session of its own.
- *The fluent builder, `extend` of the flow shim, durations, sources, report writers,
  the wrappers of the Python bindings, the Rust command line*: no state, or formatting.

External, modelled from how the code uses them: tokio and the clock, the Postgres
server (its rules for NULL, NaN, types and snapshots), SQLite (one writer, rollback
when it dies, "database is locked"), DuckDB (a statement commits by itself), files and
object store, pytest, and the other clients of a table.

## 7. Plan

Done: sections 2 to 5, in the order VuPool, ConstantRate, LoadEval, the composed
load runs, ScanRun, PgRun, CrossEngine, CliRun, the scan adapters, PytestRun, FlowRun;
proofs of the safety and action properties of all of them.

What could still be modelled: latency and drift in OpenLoadRun (what a late tick's
sample shows), futures that are dropped.

## 8. Running it

```
tlc -config MCVuPool.cfg MCVuPool.tla      # and so on, one cfg per run
tlapm VuPoolProofs.tla                     # and so on, for each *Proofs module
```
