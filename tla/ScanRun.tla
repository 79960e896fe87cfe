------------------------------ MODULE ScanRun -------------------------------
(***************************************************************************)
(* engine::scan::evaluate: a plan run against a Scanner.  One accumulator  *)
(* per assertion is built from the schema, every batch the scanner yields  *)
(* is fed to every accumulator, and at the end of the stream each gives    *)
(* its verdict.  An error of the scanner ends the run without a summary.   *)
(*                                                                         *)
(* The scanner is external: it yields any rows in batches of any length,   *)
(* the empty one included, and may fail at any pull.  Time passes between  *)
(* the pulls; the code reads the clock only when it finalizes.             *)
(***************************************************************************)
EXTENDS ScanAcc

CONSTANTS
    Schema,      \* scanner.schema()
    Assertions,  \* the plan: a sequence of assertions
    Rows,        \* the rows a scanner may yield
    MaxBatch,    \* bound on the length of a batch
    MaxRows,     \* bound on the length of the table
    MaxPulls,    \* bound on the number of batches
    Start,       \* the time of the first pull
    MaxTime      \* bound on the clock

ASSUME RowsAssumption ==
    \A row \in Rows : \A c \in Columns(Schema) : IsCell(row[c], TypeOf(Schema, c))

ASSUME AssertionsAssumption ==
    \A i \in DOMAIN Assertions :
        LET a == Assertions[i] IN
        /\ a.kind \in AssertionKinds
        /\ a.kind \in {"Between", "PercentileBetween"} => a.low \in Int /\ a.high \in Int
        /\ a.kind = "PercentileBetween" => a.p \in Int
        /\ a.kind = "Freshness" => a.within_seconds \in Int

\* The clock is past 1970: the timestamps of a table need not be.
ASSUME BoundsAssumption == MaxBatch \in Nat /\ Start \in Nat

VARIABLES
    accs,     \* the accumulators, by assertion index
    phase,    \* "scanning", "done" (Ok) or "failed" (Err, or a panic)
    results,  \* the verdicts of the summary, by assertion index
    now,      \* the wall clock, in timestamp units
    table,    \* history: the rows pulled, in order
    pulls     \* history: the number of batches pulled

vars == <<accs, phase, results, now, table, pulls>>

Init ==
    /\ accs = [i \in DOMAIN Assertions |-> Build(Assertions[i], Schema)]
    /\ phase = "scanning"
    /\ results = <<>>
    /\ now = Start
    /\ table = <<>>
    /\ pulls = 0

Batches == UNION {[1 .. n -> Rows] : n \in 0 .. MaxBatch}

PullBatch(batch) ==
    /\ phase = "scanning"
    /\ pulls < MaxPulls
    /\ Len(table) + Len(batch) <= MaxRows
    /\ accs' = [i \in DOMAIN accs |-> Update(accs[i], Assertions[i], Schema, batch)]
    /\ table' = table \o batch
    /\ pulls' = pulls + 1
    /\ UNCHANGED <<phase, results, now>>

Unsortable == {i \in DOMAIN accs : Unordered(accs[i])}

EndOfStream ==
    /\ phase = "scanning"
    /\ \E chance \in [Unsortable -> {"Pass", "Fail"}] :
         /\ \A i \in Unsortable : chance[i] \in AnyRank(accs[i], Assertions[i])
         /\ results' = [i \in DOMAIN accs |->
                          IF i \in Unsortable THEN chance[i]
                          ELSE Finalize(accs[i], Assertions[i], now)]
    /\ phase' = "done"
    /\ UNCHANGED <<accs, now, table, pulls>>

\* The panic of a sort unwinds through evaluate: the verdicts of the others go with it.
SortPanics ==
    /\ phase = "scanning"
    /\ Unsortable # {}
    /\ phase' = "failed"
    /\ UNCHANGED <<accs, results, now, table, pulls>>

\* `next_batch().await?`
ScannerFails ==
    /\ phase = "scanning"
    /\ phase' = "failed"
    /\ UNCHANGED <<accs, results, now, table, pulls>>

Advance ==
    /\ phase = "scanning"
    /\ now < MaxTime
    /\ now' = now + 1
    /\ UNCHANGED <<accs, phase, results, table, pulls>>

Terminated == phase # "scanning" /\ UNCHANGED vars

Next ==
    \/ \E batch \in Batches : PullBatch(batch)
    \/ EndOfStream
    \/ SortPanics
    \/ ScannerFails
    \/ Advance
    \/ Terminated

Spec == Init /\ [][Next]_vars

-----------------------------------------------------------------------------
(* What each assertion means of the whole table, without batches.          *)

\* The cell of the given rank: as many cells are below it, or equal and counted.
AtRank(k, column, v) ==
    /\ Cardinality({i \in NonNull(table, column) : table[i][column] < v}) <= k
    /\ k < Cardinality({i \in NonNull(table, column) : table[i][column] <= v})

Holds(a) ==
    CASE a.kind = "NotNull" -> NonNull(table, a.column) = DOMAIN table
      [] a.kind = "Unique" ->
           \A i, j \in NonNull(table, a.column) : i # j => table[i][a.column] # table[j][a.column]
      [] a.kind = "UniqueGroup" ->
           \A i, j \in DOMAIN table : i # j => \E c \in a.columns : table[i][c] # table[j][c]
      [] a.kind = "Between" -> Values(table, a.column) \subseteq (a.low .. a.high) \cup {NaN}
      [] a.kind = "Regex" -> Values(table, a.column) \subseteq a.pattern
      [] a.kind = "Enum" -> Values(table, a.column) \subseteq a.allowed
      [] a.kind = "RowCount" -> Within(Len(table), a.low, a.high)
      [] a.kind = "CardinalityBetween" -> Within(Cardinality(Values(table, a.column)), a.low, a.high)
      [] a.kind = "SchemaMatch" -> a.fields = Schema
      [] a.kind = "PercentileBetween" ->
           LET n == Cardinality(NonNull(table, a.column))
           IN  \E v \in Values(table, a.column) :
                 AtRank((a.p * (n - 1)) \div 100, a.column, v) /\ v \in a.low .. a.high
      [] a.kind = "Freshness" ->
           \E t \in Values(table, a.column) : Seconds(now) <= Seconds(t) + a.within_seconds

\* An assertion the engine can judge on this stream.
Judgeable(a) ==
    /\ Buildable(a, Schema)
    /\ a.kind = "Between" => pulls = 0 \/ TypeOf(Schema, a.column) \in Numeric
    /\ a.kind = "PercentileBetween" => Values(table, a.column) # {}

-----------------------------------------------------------------------------
(* Correctness.                                                            *)

\* A NaN in a percentile's column leaves its verdict to chance.
LeftToChance(a) == a.kind = "PercentileBetween" /\ NaN \in Values(table, a.column)

\* The verdicts are about the table, however it was cut into batches: an assertion
\* that can be judged passes exactly when it holds of all the rows together, the
\* others are Errors, and none disturbs its neighbours, a percentile over NaNs
\* included.
VerdictsMatchTheTable ==
    phase = "done" =>
        \A i \in DOMAIN Assertions : ~LeftToChance(Assertions[i]) =>
            results[i] = IF Judgeable(Assertions[i]) THEN PassIf(Holds(Assertions[i])) ELSE "Error"

\* Seconds before 1970 are rounded up, the clock's down.
Slack(t) == IF t < 0 THEN 2 ELSE 1

\* Both errors of rounding are on the side of the stale table: Freshness fails only
\* if every value is older than within_seconds when the stream ends, and passes only
\* if one is not a whole second older; or two, for a time before 1970.
FreshnessErrsByLessThanASecond ==
    phase = "done" =>
        \A i \in DOMAIN Assertions :
            LET a == Assertions[i] IN
            a.kind = "Freshness" /\ Buildable(a, Schema) =>
              /\ results[i] = "Fail" =>
                   \A t \in Values(table, a.column) : now - t > a.within_seconds * PerSecond
              /\ results[i] = "Pass" =>
                   \E t \in Values(table, a.column) :
                       now - t < (a.within_seconds + Slack(t)) * PerSecond

RowLevel == {"NotNull", "Unique", "UniqueGroup", "Between", "Regex", "Enum", "SchemaMatch"}

Doomed(i) ==
    \/ accs[i].kind = "Error"
    \/ Assertions[i].kind \in RowLevel /\ Finalize(accs[i], Assertions[i], now) = "Fail"

\* A violating row or a broken column is never forgotten: what would fail or be an
\* Error now cannot pass after more batches.
FailIsForGood == [][\A i \in DOMAIN Assertions : Doomed(i) => Doomed(i)']_vars
=============================================================================
