------------------------------ MODULE ScanAcc -------------------------------
(***************************************************************************)
(* The accumulators of the scan path (enum Acc): one per assertion, built  *)
(* from the schema, fed every batch, and turned into a verdict at the end  *)
(* of the stream.  What the code computes cell by cell over a batch is     *)
(* stated here by the set of the positions it counts.                      *)
(***************************************************************************)
EXTENDS Tables, Verdicts, FiniteSetsExt, TickLists

CONSTANT PerSecond  \* timestamp units per second (1, 1000, ... in the code)

ASSUME UnitAssumption == PerSecond \in Nat \ {0}

Broken == [kind |-> "Error"]

-----------------------------------------------------------------------------
(* Acc::build.                                                             *)

\* An assertion that asserts nothing, or that no table can be judged by.
Rejected(a) ==
    \/ a.kind = "UniqueGroup" /\ a.columns = {}
    \/ a.kind = "Regex" /\ a.pattern = NULL
    \/ a.kind = "Enum" /\ a.allowed = {}
    \/ a.kind \in {"RowCount", "CardinalityBetween"} /\ NoBounds(a)
    \/ a.kind = "PercentileBetween" /\ a.p \notin 0 .. 100
    \/ a.kind = "Freshness" /\ a.within_seconds < 0
    \/ a.kind = "SchemaMatch" /\ a.fields = <<>>

\* The columns an assertion reads, and the types build accepts for them.
ColumnsOf(a) ==
    CASE a.kind \in {"RowCount", "SchemaMatch"} -> {}
      [] a.kind = "UniqueGroup" -> a.columns
      [] OTHER -> {a.column}

AnyType == Numeric \cup {"Utf8", "Timestamp", "Boolean"}

Supported(kind) ==
    CASE kind \in {"Unique", "UniqueGroup", "CardinalityBetween"} -> {"Int64", "Utf8"}
      [] kind \in {"Regex", "Enum"} -> {"Utf8"}
      [] kind = "PercentileBetween" -> Numeric
      [] kind = "Freshness" -> {"Timestamp"}
      [] kind \in {"NotNull", "Between", "RowCount", "SchemaMatch"} -> AnyType

Buildable(a, schema) ==
    /\ ~Rejected(a)
    /\ \A c \in ColumnsOf(a) :
         c \in Columns(schema) /\ TypeOf(schema, c) \in Supported(a.kind)

Fresh(a, schema) ==
    CASE a.kind \in {"NotNull", "Between", "Regex", "Enum", "RowCount"} ->
           [kind |-> a.kind, count |-> 0]
      [] a.kind \in {"Unique", "UniqueGroup"} ->
           [kind |-> a.kind, seen |-> {}, dup_count |-> 0]
      [] a.kind = "CardinalityBetween" -> [kind |-> a.kind, seen |-> {}]
      [] a.kind = "PercentileBetween" -> [kind |-> a.kind, values |-> <<>>]
      [] a.kind = "Freshness" -> [kind |-> a.kind, max_value |-> NULL]
      [] a.kind = "SchemaMatch" ->
           [kind |-> a.kind, verdict |-> PassIf(a.fields = schema)]

Build(a, schema) == IF Buildable(a, schema) THEN Fresh(a, schema) ELSE Broken

-----------------------------------------------------------------------------
(* Acc::update.                                                            *)

\* f64 comparisons: NaN is neither below nor above anything.
OutOfRange(v, a) == v # NaN /\ (v < a.low \/ v > a.high)

\* The rows of a batch that count for a counting assertion.
Counted(a, batch) ==
    CASE a.kind = "NotNull"  -> DOMAIN batch \ NonNull(batch, a.column)
      [] a.kind = "Between"  -> {i \in NonNull(batch, a.column) : OutOfRange(batch[i][a.column], a)}
      [] a.kind = "Regex"    -> {i \in NonNull(batch, a.column) : batch[i][a.column] \notin a.pattern}
      [] a.kind = "Enum"     -> {i \in NonNull(batch, a.column) : batch[i][a.column] \notin a.allowed}
      [] a.kind = "RowCount" -> DOMAIN batch

\* Unique skips a NULL; in a composite key, NULL is a value like any other.
Keyed(a, rows) == IF a.kind = "Unique" THEN NonNull(rows, a.column) ELSE DOMAIN rows
Key(a, row) == IF a.kind = "Unique" THEN row[a.column] ELSE [c \in a.columns |-> row[c]]

\* Plausible bug: only the batch at hand is searched.
RepeatedInBatch(a, batch, seen) ==
    {i \in Keyed(a, batch) :
       \E j \in Keyed(a, batch) : j < i /\ Key(a, batch[j]) = Key(a, batch[i])}

\* The rows whose insertion into the set of keys seen finds the key there.
Repeated(a, batch, seen) ==
    {i \in Keyed(a, batch) :
       \/ Key(a, batch[i]) \in seen
       \/ \E j \in Keyed(a, batch) : j < i /\ Key(a, batch[j]) = Key(a, batch[i])}

\* Plausible bug: the count is that of the last batch.
CountOfLast(count, n) == n

AddTo(count, n) == count + n

\* Between meets its column's type only here, on the first batch, rows or none.
BetweenFails(a, schema) == a.kind = "Between" /\ TypeOf(schema, a.column) \notin Numeric

MaxWith(t, m) == IF m = NULL THEN t ELSE Max({t, m})

Update(acc, a, schema, batch) ==
    CASE acc.kind \in {"Error", "SchemaMatch"} -> acc
      [] BetweenFails(a, schema) -> Broken
      [] acc.kind \in {"NotNull", "Between", "Regex", "Enum", "RowCount"}
           /\ ~BetweenFails(a, schema) ->
           [acc EXCEPT !.count = AddTo(@, Cardinality(Counted(a, batch)))]
      [] acc.kind \in {"Unique", "UniqueGroup"} ->
           [acc EXCEPT !.dup_count = AddTo(@, Cardinality(Repeated(a, batch, acc.seen))),
                       !.seen = @ \cup {Key(a, batch[i]) : i \in Keyed(a, batch)}]
      [] acc.kind = "CardinalityBetween" ->
           [acc EXCEPT !.seen = @ \cup Values(batch, a.column)]
      [] acc.kind = "PercentileBetween" ->
           LET present == Picked(batch, NonNull(batch, a.column))
           IN  [acc EXCEPT !.values = @ \o [i \in DOMAIN present |-> present[i][a.column]]]
      [] acc.kind = "Freshness" ->
           [acc EXCEPT !.max_value =
              IF Values(batch, a.column) = {} THEN @ ELSE MaxWith(Max(Values(batch, a.column)), @)]

-----------------------------------------------------------------------------
(* Acc::finalize.                                                          *)

\* Plausible bug: the unit of the column is ignored.
SecondsOfAnyUnit(t) == t

\* ts_to_seconds: whole seconds, rounded towards 1970; the clock is rounded likewise.
Seconds(t) == IF t < 0 THEN -((-t) \div PerSecond) ELSE t \div PerSecond

Percentile(p, values) == Sorted(values)[((p * (Len(values) - 1)) \div 100) + 1]

\* sort_by with a comparison to which NaN equals everything: no total order, so that
\* the standard library leaves any order, or panics.
Unordered(acc) ==
    acc.kind = "PercentileBetween" /\ \E i \in DOMAIN acc.values : acc.values[i] = NaN

\* What may then stand at the rank.
AnyRank(acc, a) == {PassIf(acc.values[i] \in a.low .. a.high) : i \in DOMAIN acc.values}

Finalize(acc, a, now) ==
    CASE acc.kind = "Error" -> "Error"
      [] acc.kind = "SchemaMatch" -> acc.verdict
      [] acc.kind \in {"NotNull", "Between", "Regex", "Enum"} -> PassIf(acc.count = 0)
      [] acc.kind \in {"Unique", "UniqueGroup"} -> PassIf(acc.dup_count = 0)
      [] acc.kind = "RowCount" -> PassIf(Within(acc.count, a.low, a.high))
      [] acc.kind = "CardinalityBetween" -> PassIf(Within(Cardinality(acc.seen), a.low, a.high))
      [] acc.kind = "PercentileBetween" ->
           IF acc.values = <<>> THEN "Error"
           ELSE PassIf(Percentile(a.p, acc.values) \in a.low .. a.high)
      [] acc.kind = "Freshness" ->
           PassIf(acc.max_value # NULL /\ Seconds(now) - Seconds(acc.max_value) <= a.within_seconds)
=============================================================================
